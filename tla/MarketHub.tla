----------------------------- MODULE MarketHub ------------------------------
(***************************************************************************)
(* market-data/src/hub.rs: the composite every market request goes         *)
(* through.  A request for a key (a kind of data of a symbol) looks in the *)
(* cache, then joins the fetch of that key already under way or starts one *)
(* (`single_flight`); a fetch walks a chain of upstreams past their        *)
(* circuits.                                                               *)
(*                                                                         *)
(* A fetch is a shared future: it moves only while some request that       *)
(* awaits it is polled.  A request may be dropped at any time (a cancelled *)
(* tool call, a deadline), its entry in the table is then nobody's.        *)
(*                                                                         *)
(* Bars, symbols and the validation of values are left out.  All requests  *)
(* of a key ask for the same number of bars.                               *)
(***************************************************************************)
EXTENDS CircuitBreaker, Sequences, SequencesExt, FiniteSets, Functions

CONSTANTS Symbols,
          Callers,     \* requests that may be outstanding at a time
          EastMoney,   \* the provider that also supplements quotes
          CacheSize,   \* entries of the cache
          Offers       \* [keys: the keys asked for together, chain: the kline
                       \* and quote providers in order of priority]

VARIABLES circuit,   \* circuits of the upstreams
          flight,    \* the tables of fetches under way, by key
          caller,    \* the requests
          cached,    \* the cache: the keys it answers for
          gate,      \* the two semaphores of one permit, as queues
          lastGood,  \* a market breadth has been persisted
          offer      \* the keys and the chain of this behaviour

hubVars == <<circuit, flight, caller, cached, gate, lastGood, offer>>

Keys == {"base", "enriched", "quote", "fund_flow", "breadth"} \X Symbols
Kind(k) == k[1]
BaseOf(k) == <<"base", k[2]>>

Gated == {"enriched", "fund_flow"}      \* enrichment_gate, fund_flow_gate

Sources(k) ==
  CASE Kind(k) \in {"base", "quote"} -> offer.chain
    [] Kind(k) = "enriched"  -> <<"eastmoney_enrichment">>
    [] Kind(k) = "fund_flow" -> <<"eastmoney_fund_flow">>
    [] Kind(k) = "breadth"   -> <<"eastmoney_market_breadth", "tdx_market_breadth">>

Source(k) == Sources(k)[flight[k].at]

Circuits == (UNION {ToSet(o.chain) : o \in Offers}) \cup {EastMoney}
    \cup {"eastmoney_enrichment", "eastmoney_fund_flow",
          "eastmoney_market_breadth", "tdx_market_breadth"}

\* The upstreams that are asked under a permit; the providers of the chain and
\* EastMoney have circuits of their own.
Optional == {"eastmoney_enrichment", "eastmoney_fund_flow"}

ASSUME HubAssumption ==
  /\ CacheSize \in Nat
  /\ EastMoney \notin Optional
  /\ \A o \in Offers : o.chain \in Seq(STRING) /\ ToSet(o.chain) \cap Optional = {}

\* Quotes and fund flows are not cached here.
Cacheable(k) == Kind(k) \in {"base", "enriched", "breadth"}

NoFlight == [step |-> "absent", at |-> 1, ok |-> FALSE, old |-> FALSE, leads |-> FALSE]
Idle     == [state |-> "idle", key |-> <<>>, leader |-> FALSE, stale |-> FALSE, ok |-> FALSE]

HubInit ==
  /\ circuit = [s \in Circuits |-> ClosedCircuit]
  /\ flight = [k \in Keys |-> NoFlight]
  /\ caller = [c \in Callers |-> Idle]
  /\ cached = {}
  /\ gate = [g \in Gated |-> <<>>]
  /\ lastGood = FALSE
  /\ offer \in Offers

-----------------------------------------------------------------------------
\* The cache.  A read past the time to live removes the entry (Expire); a
\* write into a full cache first loses others, the oldest at least.
\* Mutant: nothing is lost, and the cache grows past its size.
Unevicted(k) == {cached \cup {k}}
AfterSet(k) ==
  IF Cardinality(cached) < CacheSize \/ k \in cached
  THEN {cached \cup {k}}
  ELSE {kept \cup {k} : kept \in {s \in SUBSET cached : s # cached}}

Expire(k) ==
  /\ k \in cached
  /\ cached' = cached \ {k}
  /\ UNCHANGED <<circuit, flight, caller, gate, lastGood, offer>>

-----------------------------------------------------------------------------
\* single_flight.

Waiting(c, k) == caller[c].state = "waiting" /\ caller[c].key = k

Awaited(k) == \E c \in Callers : Waiting(c, k)

\* Somebody polls the fetch: a request, or a detailed fetch that awaits its
\* base series and is polled itself.
Driven(k) ==
  \/ Awaited(k)
  \/ \E e \in Keys : /\ Kind(e) = "enriched" /\ BaseOf(e) = k
                     /\ flight[e].step = "base" /\ Awaited(e)

\* The state in which a fetch starts.
Begun(k) == [NoFlight EXCEPT !.step = IF Kind(k) = "enriched" THEN "join" ELSE "allow"]

Started(k) == flight[k].step # "absent"

\* The entry of a completed fetch that nobody is going to remove.
Lingering(k) ==
  /\ flight[k].step = "done"
  /\ \A c \in Callers : ~(caller[c].key = k /\ caller[c].leader)
  /\ \A e \in Keys : ~(Kind(e) = "enriched" /\ BaseOf(e) = k /\ flight[e].leads)

\* A new request, past the cache.
Joined(k) ==
  [state |-> IF flight[k].step = "done" THEN "ready" ELSE "waiting",
   key |-> k, leader |-> ~Started(k),
   stale |-> Lingering(k) /\ flight[k].old, ok |-> flight[k].ok]

Call(c, k) ==
  /\ caller[c].state = "idle"
  /\ k \in offer.keys \ cached
  /\ caller' = [caller EXCEPT ![c] = Joined(k)]
  /\ flight' = IF Started(k) THEN flight ELSE [flight EXCEPT ![k] = Begun(k)]
  /\ UNCHANGED <<circuit, cached, gate, lastGood, offer>>

\* The answer arrives; the leader removes the entry.
\* Mutant: whoever is answered removes it.
AnybodyRemoves(c) == TRUE
Removes(c) == caller[c].leader
Return(c) ==
  /\ caller[c].state = "ready"
  /\ caller' = [caller EXCEPT ![c] = Idle]
  /\ flight' = IF Removes(c) THEN [flight EXCEPT ![caller[c].key] = NoFlight] ELSE flight
  /\ UNCHANGED <<circuit, cached, gate, lastGood, offer>>

\* The future of a request is dropped.
Drop(c) ==
  /\ caller[c].state \in {"waiting", "ready"}
  /\ caller' = [caller EXCEPT ![c] = Idle]
  /\ UNCHANGED <<circuit, flight, cached, gate, lastGood, offer>>

\* A fetch completes: everyone who awaits it has its answer.
Complete(k, ok) ==
  /\ flight' = [j \in Keys |->
       IF j = k THEN [flight[k] EXCEPT !.step = "done", !.ok = ok]
       ELSE IF Kind(j) = "enriched" /\ BaseOf(j) = k /\ flight[j].step = "base"
       THEN [flight[j] EXCEPT !.step = "based", !.ok = ok]
       ELSE flight[j]]
  /\ caller' = [c \in Callers |->
       IF Waiting(c, k) THEN [caller[c] EXCEPT !.state = "ready", !.ok = ok] ELSE caller[c]]

Moves(k, step) == flight' = [flight EXCEPT ![k].step = step] /\ UNCHANGED caller
NextSource(k) ==
  flight' = [flight EXCEPT ![k].step = "allow", ![k].at = @ + 1] /\ UNCHANGED caller
Reports(s, c) == circuit' = [circuit EXCEPT ![s] = c]

-----------------------------------------------------------------------------
\* fetch_base_kline, fetch_quote, fetch_market_breadth.

TryProvider(k) ==
  /\ Kind(k) \notin Gated /\ flight[k].step = "allow"
  /\ flight[k].at <= Len(Sources(k))
  /\ Reports(Source(k), AfterRequest(circuit[Source(k)]))
  /\ IF AllowsRequest(circuit[Source(k)]) THEN Moves(k, "call") ELSE NextSource(k)
  /\ UNCHANGED <<cached, gate, lastGood, offer>>

\* Every source was skipped or failed.  Breadth falls back on the last good
\* snapshot, which may be unreadable or too old.
ChainFailed(k) ==
  /\ Kind(k) \notin Gated /\ flight[k].step = "allow"
  /\ flight[k].at > Len(Sources(k))
  /\ \/ Complete(k, FALSE) /\ UNCHANGED cached
     \/ Kind(k) = "breadth" /\ lastGood /\ Complete(k, TRUE) /\ cached' \in AfterSet(k)
  /\ UNCHANGED <<circuit, gate, lastGood, offer>>

\* An answer with data.  A quote of another provider may lack fields that
\* EastMoney then supplies; a breadth is persisted, if the store works.
ProviderAnswers(k) ==
  /\ Kind(k) \notin Gated /\ flight[k].step = "call"
  /\ Reports(Source(k), OnSuccess(circuit[Source(k)]))
  /\ \/ Complete(k, TRUE)
     \/ Kind(k) = "quote" /\ Source(k) # EastMoney /\ Moves(k, "supplement")
  /\ IF Cacheable(k) THEN cached' \in AfterSet(k) ELSE UNCHANGED cached
  /\ lastGood' \in {lastGood, lastGood \/ Kind(k) = "breadth"}
  /\ UNCHANGED <<gate, offer>>

\* No bars, no such capability, or an error.
ProviderFails(k) ==
  /\ Kind(k) \notin Gated /\ flight[k].step = "call"
  /\ LET s == Source(k) c == circuit[s] IN
       \/ Kind(k) = "base" /\ Reports(s, OnSuccess(c))
       \/ Kind(k) # "breadth" /\ UNCHANGED circuit                  \* NoProvider
       \/ Kind(k) # "breadth"
            /\ \E e \in Errors : Reports(s, OnFailure(c, e))
       \/ Kind(k) = "breadth" /\ Reports(s, Tripped(c))
  /\ NextSource(k)
  /\ UNCHANGED <<cached, gate, lastGood, offer>>

\* The supplement asks EastMoney whatever its circuit says, and reports.
SupplementAnswers(k) ==
  /\ flight[k].step = "supplement"
  /\ \/ Reports(EastMoney, OnSuccess(circuit[EastMoney]))
     \/ \E e \in Errors :
          Reports(EastMoney, OnFailure(circuit[EastMoney], e))
  /\ Complete(k, TRUE)
  /\ UNCHANGED <<cached, gate, lastGood, offer>>

-----------------------------------------------------------------------------
\* kline_pipeline: the detailed series rests on the base series.

JoinBase(k) ==
  /\ Kind(k) = "enriched" /\ flight[k].step = "join"
  /\ LET b == BaseOf(k) IN
       /\ flight' =
            IF b \in cached THEN [flight EXCEPT ![k].step = "based", ![k].ok = TRUE]
            ELSE IF flight[b].step = "done"
            THEN [flight EXCEPT ![k].step = "based", ![k].ok = flight[b].ok]
            ELSE [flight EXCEPT ![k].step = "base", ![k].leads = ~Started(b),
                                ![b] = IF Started(b) THEN @ ELSE Begun(b)]
  /\ UNCHANGED <<circuit, caller, cached, gate, lastGood, offer>>

\* The base series is there: its leader removes the entry.
TakeBase(k) ==
  /\ flight[k].step = "based" /\ flight[k].leads
  /\ flight' = [flight EXCEPT ![k].leads = FALSE, ![BaseOf(k)] = NoFlight]
  /\ UNCHANGED <<circuit, caller, cached, gate, lastGood, offer>>

\* It failed, is complete already, or is to be enriched.
BaseTaken(k) ==
  /\ flight[k].step = "based" /\ ~flight[k].leads
  /\ \/ ~flight[k].ok /\ Complete(k, FALSE) /\ UNCHANGED cached
     \/ flight[k].ok /\ Complete(k, TRUE) /\ cached' \in AfterSet(k)
     \/ flight[k].ok /\ Moves(k, "allow") /\ UNCHANGED cached
  /\ UNCHANGED <<circuit, gate, lastGood, offer>>

\* enrich_kline and fetch_fund_flow_daily end without asking: the series is
\* good as it is, the fund flow is not available.
Degrade(k) ==
  IF Kind(k) = "enriched"
  THEN Complete(k, TRUE) /\ cached' \in AfterSet(k)
  ELSE Complete(k, FALSE) /\ UNCHANGED cached

AskGate(k) ==
  /\ Kind(k) \in Gated /\ flight[k].step = "allow"
  /\ Reports(Source(k), AfterRequest(circuit[Source(k)]))
  /\ IF AllowsRequest(circuit[Source(k)])
     THEN /\ Moves(k, "gate") /\ UNCHANGED cached
          /\ gate' = [gate EXCEPT ![Kind(k)] = Append(@, k)]
     ELSE Degrade(k) /\ UNCHANGED gate
  /\ UNCHANGED <<lastGood, offer>>

\* Mutant: the permit is leaked.
Leaked(k) == gate
Released(k) == [gate EXCEPT ![Kind(k)] = Tail(@)]

\* The permit goes to the head of the queue; the circuit is asked again.
\* Mutant: the queue goes on asking an upstream that has just failed.
Unasked(k) == TRUE
StillAllowed(k) == AllowsRequest(circuit[Source(k)])
EnterGate(k) ==
  /\ flight[k].step = "gate" /\ Head(gate[Kind(k)]) = k
  /\ Reports(Source(k), AfterRequest(circuit[Source(k)]))
  /\ IF StillAllowed(k)
     THEN Moves(k, "call") /\ UNCHANGED <<cached, gate>>
     ELSE Degrade(k) /\ gate' = Released(k)
  /\ UNCHANGED <<lastGood, offer>>

\* The answer, an error or the deadline; the permit is released.
GatedAnswers(k) ==
  /\ Kind(k) \in Gated /\ flight[k].step = "call"
  /\ LET s == Source(k) c == circuit[s] IN
       \/ Reports(s, OnSuccess(c)) /\ Complete(k, TRUE)
            /\ IF Cacheable(k) THEN cached' \in AfterSet(k) ELSE UNCHANGED cached
       \/ Reports(s, Tripped(c)) /\ Degrade(k)
       \/ /\ Kind(k) = "fund_flow" /\ Degrade(k)
          /\ \E e \in Errors : Reports(s, OnFailure(c, e))
  /\ gate' = Released(k)
  /\ UNCHANGED <<lastGood, offer>>

Progress(k) ==
  /\ Driven(k)
  /\ \/ TryProvider(k) \/ ChainFailed(k) \/ ProviderAnswers(k) \/ ProviderFails(k)
     \/ SupplementAnswers(k) \/ JoinBase(k) \/ TakeBase(k) \/ BaseTaken(k)
     \/ AskGate(k) \/ EnterGate(k) \/ GatedAnswers(k)

\* Time passes: a cooldown, or more than any time to live since a fetch.
CooldownPasses(s) ==
  /\ circuit[s].cooling
  /\ circuit' = [circuit EXCEPT ![s].cooling = FALSE]
  /\ UNCHANGED <<flight, caller, cached, gate, lastGood, offer>>

GrowsOld(k) ==
  /\ flight[k].step = "done"
  /\ flight' = [flight EXCEPT ![k].old = TRUE]
  /\ UNCHANGED <<circuit, caller, cached, gate, lastGood, offer>>

HubNext ==
  \/ \E c \in Callers : Return(c) \/ Drop(c) \/ \E k \in Keys : Call(c, k)
  \/ \E k \in Keys : Progress(k) \/ Expire(k) \/ GrowsOld(k)
  \/ \E s \in Circuits : CooldownPasses(s)

\* The executor polls what is ready, and every upstream call has a deadline.
HubFairness ==
  /\ \A k \in Keys : WF_hubVars(Progress(k))
  /\ \A c \in Callers : WF_hubVars(Return(c))

HubSpec == HubInit /\ [][HubNext]_hubVars /\ HubFairness

-----------------------------------------------------------------------------
Step == {"absent", "join", "base", "based", "allow", "gate", "call", "supplement", "done"}
Flight == [step : Step, at : Nat \ {0}, ok : BOOLEAN, old : BOOLEAN, leads : BOOLEAN]
Caller == [state : {"idle", "waiting", "ready"}, key : Keys \cup {<<>>},
           leader : BOOLEAN, stale : BOOLEAN, ok : BOOLEAN]

\* The tables, requests, circuits and queues are well-formed, no fetch goes past
\* the end of its chain, and the cache (set, evict) stays within its size.
HubTypeOK ==
  /\ circuit \in [Circuits -> Circuit]
  /\ flight \in [Keys -> Flight]
  /\ \A k \in Keys : flight[k].at <= Len(Sources(k)) + 1
  /\ caller \in [Callers -> Caller]
  /\ cached \subseteq Keys /\ Cardinality(cached) <= CacheSize
  /\ gate \in [Gated -> Seq(Keys)]
  /\ lastGood \in BOOLEAN /\ offer \in Offers

\* Who leads a fetch: requests, and detailed fetches for their base series.
Leaders(k) ==
  {c \in Callers : caller[c].key = k /\ caller[c].leader}
    \cup {e \in Keys : Kind(e) = "enriched" /\ BaseOf(e) = k /\ flight[e].leads}

\* A fetch has at most one leader, and the entry a leader is going to remove
\* is that of its own fetch (single_flight): nobody else removed it meanwhile.
OneLeader ==
  \A k \in Keys : /\ Cardinality(Leaders(k)) <= 1
                  /\ Leaders(k) # {} => Started(k)

\* While an optional upstream is being asked under its permit, its circuit is
\* not open: the queue behind a failure is not led into the same failure
\* (enrich_kline, fetch_fund_flow_daily), and permits exclude each other.
QueueDegrades ==
  \A k \in Keys : Kind(k) \in Gated /\ flight[k].step = "call" =>
    /\ circuit[Source(k)].state # "open"
    /\ Head(gate[Kind(k)]) = k

\* breaker.rs:61: while a circuit is half-open "exactly one probe request is in
\* flight", here for the two optional upstreams (enrich_kline,
\* fetch_fund_flow_daily).
Probes(s) == {k \in Keys : Kind(k) \in Gated /\ Source(k) = s /\ flight[k].step \in {"gate", "call"}}
HalfOpenIsProbed ==
  \A s \in Optional :
    circuit[s].state = "half_open" => Probes(s) # {}

\* hub.rs:69: a lingering completed entry is "equivalent to a zero-TTL cache
\* hit" for the next request (single_flight): what it serves is not old.
ServedFresh == \A c \in Callers : ~caller[c].stale

\* The permit is with a fetch nobody polls any more.
GateAbandoned == \E g \in Gated : gate[g] # <<>> /\
  LET k == Head(gate[g]) IN flight[k].step \in {"gate", "call"} /\ ~Driven(k)

\* Every request gets its answer, whatever the upstreams do and whoever else
\* is dropped, as long as no permit is left with an abandoned fetch.
CallsAnswered ==
  \A c \in Callers :
    []<>(caller[c].state # "waiting" \/ GateAbandoned)
=============================================================================
