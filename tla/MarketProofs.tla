---------------------------- MODULE MarketProofs ----------------------------
(***************************************************************************)
(* Proofs about the hub, for any number of requests, symbols, providers    *)
(* and any size of the cache, and about the pool of TDX connections, for   *)
(* any number of servers, slots and requests.                              *)
(*                                                                         *)
(* Who removes an entry (LeadersAlone) is inductive once a leader that has *)
(* its answer is known to lead a completed fetch (ReadyLeads).  That a     *)
(* circuit is not open while its upstream is asked under the permit        *)
(* (AskedUnopened) rests on the queue: those who wait for the permit are   *)
(* queued once, and the one who asks is at the head (QueuesLined).         *)
(*                                                                         *)
(* The slots of the pool are exclusive because their locks are: LinesKept  *)
(* says who is in which queue, HeadsHold that the holder is at its head,   *)
(* and AnswersMatch what is unread on a connection while someone reads.    *)
(* PoolTypeInv adds that whatever names a server names a ranked one.       *)
(*                                                                         *)
(* At the end the parts of MCMarket are put together.                      *)
(***************************************************************************)
EXTENDS MCMarket, BacktestProofs, ChanlunProofs, FiniteSetTheorems, SequenceTheorems,
        WellFoundedInduction, TLAPS

-----------------------------------------------------------------------------
\* Which fetches take which steps.
StepsOfKind ==
  \A k \in Keys :
    /\ flight[k].step \in {"join", "base", "based"} => Kind(k) = "enriched"
    /\ flight[k].step = "gate" => Kind(k) \in Gated
    /\ flight[k].step = "supplement" => Kind(k) = "quote"
    /\ flight[k].step = "call" => flight[k].at <= Len(Sources(k))
    /\ Kind(k) \in Gated => flight[k].at = 1

RequestLeads(c, k) == caller[c].leader /\ caller[c].key = k
DetailLeads(e, k) == Kind(e) = "enriched" /\ BaseOf(e) = k /\ flight[e].leads

LeadersAlone ==
  \A k \in Keys :
    /\ \A c, d \in Callers : RequestLeads(c, k) /\ RequestLeads(d, k) => c = d
    /\ \A c \in Callers, e \in Keys : ~(RequestLeads(c, k) /\ DetailLeads(e, k))
    /\ \A c \in Callers : RequestLeads(c, k) => Started(k)
    /\ \A e \in Keys : DetailLeads(e, k) => Started(k)

\* A request that is under way has a key, and a leader with its answer leads a
\* completed fetch.
ReadyLeads ==
  \A c \in Callers :
    /\ caller[c].state # "idle" => caller[c].key \in Keys
    /\ caller[c].state = "idle" => ~caller[c].leader
    /\ caller[c].state = "ready" /\ caller[c].leader => flight[caller[c].key].step = "done"

AtGate(k) == Kind(k) \in Gated /\ flight[k].step \in {"gate", "call"}

QueuesLined ==
  /\ \A k \in Keys : AtGate(k) => \E i \in 1..Len(gate[Kind(k)]) : gate[Kind(k)][i] = k
  /\ \A g \in Gated : \A i \in 1..Len(gate[g]) :
       /\ AtGate(gate[g][i]) /\ Kind(gate[g][i]) = g
       /\ flight[gate[g][i]].step = "call" => i = 1
  /\ \A g \in Gated : \A i, j \in 1..Len(gate[g]) : gate[g][i] = gate[g][j] => i = j

AskedUnopened ==
  \A k \in Keys : Kind(k) \in Gated /\ flight[k].step = "call" => circuit[Source(k)].state # "open"

HubInv ==
  HubTypeOK /\ IsFiniteSet(cached) /\ StepsOfKind /\ LeadersAlone /\ ReadyLeads
    /\ QueuesLined /\ AskedUnopened

-----------------------------------------------------------------------------
\* Circuits, keys, and where a fetch asks.

LEMMA CircuitFacts ==
  ASSUME NEW c \in Circuit, NEW e \in Errors
  PROVE  /\ AfterRequest(c) \in Circuit /\ OnSuccess(c) \in Circuit
         /\ Tripped(c) \in Circuit /\ OnFailure(c, e) \in Circuit
         /\ AfterRequest(c).state = "open" => c.state = "open"
         /\ AllowsRequest(c) => AfterRequest(c).state # "open"
BY FailureThresholdAssumption
   DEF Circuit, CircuitState, AfterRequest, AllowsRequest, Elapsed, OnSuccess, ClosedCircuit,
       Tripped, OnFailure, Errors, Counted, Trips, Ignored

LEMMA KeyFacts ==
  /\ \A k \in Keys : /\ Kind(k) \in {"base", "enriched", "quote", "fund_flow", "breadth"}
                     /\ BaseOf(k) \in Keys /\ Kind(BaseOf(k)) = "base"
  /\ <<>> \notin Keys
BY DEF Keys, Kind, BaseOf

\* Where a fetch asks while it is not past the end of its chain.
LEMMA SourceFacts ==
  ASSUME HubTypeOK, NEW k \in Keys, flight[k].at <= Len(Sources(k))
  PROVE  /\ Source(k) \in Circuits /\ circuit[Source(k)] \in Circuit
         /\ Kind(k) \notin Gated => Source(k) \notin Optional
<1>1. flight[k].at \in Nat \ {0}
  BY DEF HubTypeOK, Flight
<1>2. CASE Kind(k) \in {"base", "quote"}
  <2>1. Source(k) = offer.chain[flight[k].at] /\ flight[k].at \in 1..Len(offer.chain)
    BY <1>1, <1>2 DEF Source, Sources
  <2>2. offer \in Offers /\ Source(k) \in ToSet(offer.chain) /\ ToSet(offer.chain) \cap Optional = {}
    BY <2>1, HubAssumption DEF HubTypeOK, ToSet
  <2>3. ToSet(offer.chain) \in {ToSet(o.chain) : o \in Offers}
    BY <2>2
  <2> QED
    BY <2>2, <2>3 DEF Circuits, HubTypeOK
<1>3. {"eastmoney_enrichment", "eastmoney_fund_flow", "eastmoney_market_breadth",
         "tdx_market_breadth"} \subseteq Circuits
  BY DEF Circuits
<1>4. ASSUME Kind(k) \in Gated
      PROVE  Source(k) \in {"eastmoney_enrichment", "eastmoney_fund_flow"}
  BY <1>1, <1>4 DEF Source, Sources, Gated
<1>5. ASSUME Kind(k) = "breadth"
      PROVE  Source(k) \in {"eastmoney_market_breadth", "tdx_market_breadth"}
  <2>1. Sources(k) = <<"eastmoney_market_breadth", "tdx_market_breadth">>
    BY <1>5 DEF Sources
  <2> QED
    BY <1>1, <2>1 DEF Source
<1>6. Kind(k) = "breadth" => Source(k) \notin Optional
  BY <1>5 DEF Optional
<1>7. Source(k) \in Circuits => circuit[Source(k)] \in Circuit
  BY DEF HubTypeOK
<1>8. Kind(k) \in {"base", "quote"} \/ Kind(k) \in Gated \/ Kind(k) = "breadth"
  BY KeyFacts DEF Gated
<1> QED
  BY <1>2, <1>3, <1>4, <1>5, <1>6, <1>7, <1>8

\* An upstream asked under a permit is one of its kind.
LEMMA GatedSource ==
  ASSUME NEW k \in Keys, Kind(k) \in Gated, flight[k].at = 1
  PROVE  /\ Sources(k) = <<Source(k)>>
         /\ Source(k) = IF Kind(k) = "enriched" THEN "eastmoney_enrichment" ELSE "eastmoney_fund_flow"
BY DEF Gated, Sources, Source

LEMMA SourceLength ==
  ASSUME HubTypeOK, NEW k \in Keys
  PROVE  Len(Sources(k)) \in Nat
<1>1. offer.chain \in Seq(STRING)
  BY HubAssumption DEF HubTypeOK
<1>2. CASE Kind(k) \in {"base", "quote"}
  BY <1>1, <1>2 DEF Sources
<1>3. CASE Kind(k) = "enriched"
  BY <1>3 DEF Sources
<1>4. CASE Kind(k) = "fund_flow"
  BY <1>4 DEF Sources
<1>5. CASE Kind(k) = "breadth"
  BY <1>5 DEF Sources
<1> QED
  BY <1>2, <1>3, <1>4, <1>5, KeyFacts

\* What a key's chain is does not change.
LEMMA OfferKept ==
  ASSUME offer' = offer, NEW k \in Keys
  PROVE  Sources(k)' = Sources(k)
BY DEF Sources

\* A write loses entries rather than to outgrow the cache.
LEMMA CacheBounded ==
  ASSUME HubTypeOK, IsFiniteSet(cached), NEW k \in Keys, NEW s \in AfterSet(k)
  PROVE  s \subseteq Keys /\ IsFiniteSet(s) /\ Cardinality(s) <= CacheSize
<1> USE DEF HubTypeOK
<1>0. Cardinality(cached) \in Nat /\ CacheSize \in Nat
  BY FS_CardinalityType, HubAssumption
<1>1. CASE s = cached \cup {k} /\ Cardinality(cached) < CacheSize
  <2>1. IsFiniteSet(s) /\ Cardinality(s) \in {Cardinality(cached), Cardinality(cached) + 1}
    BY <1>1, FS_AddElement
  <2> QED
    BY <1>0, <1>1, <2>1
<1>2. CASE s = cached \cup {k} /\ k \in cached
  <2>1. s = cached
    BY <1>2
  <2> QED
    BY <2>1
<1>3. ASSUME NEW kept \in {r \in SUBSET cached : r # cached}, s = kept \cup {k}
      PROVE  s \subseteq Keys /\ IsFiniteSet(s) /\ Cardinality(s) <= CacheSize
  <2>1. kept \subseteq cached /\ kept # cached
    BY <1>3
  <2>2. IsFiniteSet(kept) /\ Cardinality(kept) <= Cardinality(cached)
          /\ Cardinality(kept) # Cardinality(cached)
    BY <2>1, FS_Subset
  <2>3. IsFiniteSet(s) /\ Cardinality(s) \in {Cardinality(kept), Cardinality(kept) + 1}
    BY <2>2, <1>3, FS_AddElement
  <2>4. Cardinality(kept) \in Nat
    BY <2>2, FS_CardinalityType
  <2> QED
    BY <1>0, <1>3, <2>1, <2>2, <2>3, <2>4
<1> QED
  BY <1>1, <1>2, <1>3 DEF AfterSet

-----------------------------------------------------------------------------
\* A step of the fetch of k: the others go on as they are, except that a
\* detailed series may find that its base series is there, and requests for k
\* may have their answer.
Advances(k) ==
  /\ flight' \in [Keys -> Flight] /\ caller' \in [Callers -> Caller]
  /\ \A j \in Keys : flight'[j].leads = flight[j].leads
  /\ \A j \in Keys \ {k} :
       /\ flight'[j].at = flight[j].at
       /\ flight'[j].step = flight[j].step \/ (flight[j].step = "base" /\ flight'[j].step = "based")
  /\ flight'[k].step # "absent"
  /\ \A c \in Callers :
       /\ caller'[c].key = caller[c].key /\ caller'[c].leader = caller[c].leader
       /\ \/ caller'[c].state = caller[c].state
          \/ caller[c].state = "waiting" /\ caller'[c].state = "ready"
               /\ caller[c].key = k /\ flight'[k].step = "done"

\* Changing fields of an entry keeps its type, and the other fields.
LEMMA FlightType ==
  ASSUME NEW f \in Flight, NEW step \in Step
  PROVE  /\ [f EXCEPT !.step = step] \in Flight /\ [f EXCEPT !.step = step].step = step
         /\ [f EXCEPT !.step = step].at = f.at /\ [f EXCEPT !.step = step].leads = f.leads
BY DEF Flight

LEMMA CallerType ==
  ASSUME NEW r \in Caller, NEW ok \in BOOLEAN
  PROVE  [r EXCEPT !.state = "ready", !.ok = ok] \in Caller
BY DEF Caller

LEMMA MovesAdvances ==
  ASSUME HubTypeOK, NEW k \in Keys, NEW step \in Step \ {"absent"}, Moves(k, step)
  PROVE  Advances(k) /\ flight'[k].step = step /\ flight'[k].at = flight[k].at
<1>1. flight' = [flight EXCEPT ![k] = [flight[k] EXCEPT !.step = step]] /\ caller' = caller
  BY DEF Moves, HubTypeOK
<1>2. flight[k] \in Flight
  BY DEF HubTypeOK
<1>3. [flight[k] EXCEPT !.step = step] \in Flight
  BY <1>2, FlightType
<1>4. /\ [flight[k] EXCEPT !.step = step].step = step
      /\ [flight[k] EXCEPT !.step = step].at = flight[k].at
      /\ [flight[k] EXCEPT !.step = step].leads = flight[k].leads
  BY <1>2, FlightType
<1>5. flight'[k] = [flight[k] EXCEPT !.step = step] /\ \A j \in Keys \ {k} : flight'[j] = flight[j]
  BY <1>1 DEF HubTypeOK
<1>6. flight' \in [Keys -> Flight] /\ caller' \in [Callers -> Caller]
  BY <1>1, <1>3 DEF HubTypeOK
<1> QED
  BY <1>1, <1>4, <1>5, <1>6 DEF Advances

LEMMA NextSourceAdvances ==
  ASSUME HubTypeOK, NEW k \in Keys, NextSource(k)
  PROVE  Advances(k) /\ flight'[k].step = "allow" /\ flight'[k].at = flight[k].at + 1
<1> DEFINE f == [flight[k] EXCEPT !.step = "allow", !.at = flight[k].at + 1]
<1>1. flight' = [flight EXCEPT ![k] = f] /\ caller' = caller
  BY DEF NextSource, HubTypeOK
<1>2. flight[k] \in Flight
  BY DEF HubTypeOK
<1>3. "allow" \in Step
  BY DEF Step
<1>4. /\ f \in Flight /\ f.step = "allow"
      /\ f.at = flight[k].at + 1 /\ f.leads = flight[k].leads
  <2>1. flight[k].at + 1 \in Nat \ {0}
    BY <1>2 DEF Flight
  <2> QED
    BY <1>2, <1>3, <2>1 DEF Flight
<1> HIDE DEF f
<1>5. flight'[k] = f /\ \A j \in Keys \ {k} : flight'[j] = flight[j]
  BY <1>1 DEF HubTypeOK
<1>6. flight' \in [Keys -> Flight] /\ caller' \in [Callers -> Caller]
  BY <1>1, <1>4 DEF HubTypeOK
<1> QED
  BY <1>1, <1>4, <1>5, <1>6 DEF Advances

LEMMA CompleteAdvances ==
  ASSUME HubTypeOK, NEW k \in Keys, NEW ok \in BOOLEAN, Complete(k, ok)
  PROVE  Advances(k) /\ flight'[k].step = "done" /\ flight'[k].at = flight[k].at
<1>1. \A j \in Keys : flight[j] \in Flight
  BY DEF HubTypeOK
<1>3. {"done", "based"} \subseteq Step
  BY DEF Step
<1>4. ASSUME NEW j \in Keys
      PROVE  /\ flight'[j] \in Flight /\ flight'[j].leads = flight[j].leads
             /\ flight'[j].at = flight[j].at
             /\ j = k => flight'[j].step = "done"
             /\ j # k => flight'[j].step = flight[j].step
                           \/ (flight[j].step = "base" /\ flight'[j].step = "based")
  <2>1. CASE j = k
    <3> DEFINE f == [flight[j] EXCEPT !.step = "done", !.ok = ok]
    <3>1. flight'[j] = f
      BY <2>1 DEF Complete
    <3>2. f \in Flight /\ f.step = "done" /\ f.at = flight[j].at /\ f.leads = flight[j].leads
      BY <1>1, <1>3 DEF Flight
    <3> HIDE DEF f
    <3> QED
      BY <2>1, <3>1, <3>2
  <2>2. CASE j # k /\ Kind(j) = "enriched" /\ BaseOf(j) = k /\ flight[j].step = "base"
    <3> DEFINE f == [flight[j] EXCEPT !.step = "based", !.ok = ok]
    <3>1. flight'[j] = f
      BY <2>2 DEF Complete
    <3>2. f \in Flight /\ f.step = "based" /\ f.at = flight[j].at /\ f.leads = flight[j].leads
      BY <1>1, <1>3 DEF Flight
    <3> HIDE DEF f
    <3> QED
      BY <2>2, <3>1, <3>2
  <2>3. CASE j # k /\ ~(Kind(j) = "enriched" /\ BaseOf(j) = k /\ flight[j].step = "base")
    <3>1. flight'[j] = flight[j]
      BY <2>3 DEF Complete
    <3> QED
      BY <1>1, <2>3, <3>1
  <2> QED
    BY <2>1, <2>2, <2>3
<1>5. ASSUME NEW c \in Callers
      PROVE  /\ caller'[c] \in Caller
             /\ caller'[c].key = caller[c].key /\ caller'[c].leader = caller[c].leader
             /\ \/ caller'[c].state = caller[c].state
                \/ caller[c].state = "waiting" /\ caller'[c].state = "ready" /\ caller[c].key = k
  <2>1. caller[c] \in Caller
    BY DEF HubTypeOK
  <2>2. CASE Waiting(c, k)
    <3> DEFINE r == [caller[c] EXCEPT !.state = "ready", !.ok = ok]
    <3>1. caller'[c] = r
      BY <2>2 DEF Complete
    <3>2. r \in Caller
      BY <2>1, CallerType
    <3>3. r.key = caller[c].key /\ r.leader = caller[c].leader /\ r.state = "ready"
      BY <2>1 DEF Caller
    <3> QED
      BY <2>2, <3>1, <3>2, <3>3 DEF Waiting
  <2>3. CASE ~Waiting(c, k)
    <3>1. caller'[c] = caller[c]
      BY <2>3 DEF Complete
    <3> QED
      BY <2>1, <3>1
  <2> QED
    BY <2>2, <2>3
<1>6. DOMAIN flight' = Keys /\ flight' = [j \in Keys |-> flight'[j]]
        /\ DOMAIN caller' = Callers /\ caller' = [c \in Callers |-> caller'[c]]
  BY DEF Complete
<1>7. flight' \in [Keys -> Flight] /\ caller' \in [Callers -> Caller]
  BY <1>4, <1>5, <1>6
<1> QED
  BY <1>4, <1>5, <1>7 DEF Advances

-----------------------------------------------------------------------------
\* What such a step preserves.

LEMMA AdvanceLeaders ==
  ASSUME LeadersAlone, ReadyLeads, NEW k \in Keys, Advances(k), flight[k].step # "done"
  PROVE  LeadersAlone' /\ ReadyLeads'
<1>1. \A j \in Keys : Started(j) => Started(j)'
  BY DEF Advances, Started
<1>2. \A c \in Callers, j \in Keys : RequestLeads(c, j)' = RequestLeads(c, j)
  BY DEF Advances, RequestLeads
<1>3. \A e, j \in Keys : DetailLeads(e, j)' = DetailLeads(e, j)
  BY DEF Advances, DetailLeads
<1>4. LeadersAlone'
  BY <1>1, <1>2, <1>3 DEF LeadersAlone
<1>5. \A j \in Keys : flight[j].step = "done" => flight'[j].step = "done"
  BY DEF Advances
<1>6. ReadyLeads'
  BY <1>5 DEF ReadyLeads, Advances
<1> QED
  BY <1>4, <1>6

\* Which steps k may be at, and how far along its chain.
KindKept(k) ==
  /\ flight'[k].step \in {"join", "base", "based"} => Kind(k) = "enriched"
  /\ flight'[k].step = "gate" => Kind(k) \in Gated
  /\ flight'[k].step = "supplement" => Kind(k) = "quote"
  /\ flight'[k].step = "call" => flight'[k].at <= Len(Sources(k))
  /\ Kind(k) \in Gated => flight'[k].at = 1
  /\ flight'[k].at <= Len(Sources(k)) + 1

LEMMA AdvanceHubInv ==
  ASSUME HubInv, NEW k \in Keys, Advances(k), flight[k].step # "done", KindKept(k),
         offer' = offer, lastGood' \in BOOLEAN, circuit' \in [Circuits -> Circuit],
         gate' \in [Gated -> Seq(Keys)], cached' = cached \/ cached' \in AfterSet(k),
         QueuesLined', AskedUnopened'
  PROVE  HubInv'
<1> USE DEF HubInv
<1>1. cached' \subseteq Keys /\ IsFiniteSet(cached') /\ Cardinality(cached') <= CacheSize
  BY CacheBounded DEF HubTypeOK
<1>2. \A j \in Keys : Sources(j)' = Sources(j)
  BY OfferKept
<1>3. \A j \in Keys : flight'[j].at <= Len(Sources(j)) + 1
  BY DEF Advances, KindKept, HubTypeOK
<1>4. HubTypeOK'
  BY <1>1, <1>2, <1>3 DEF HubTypeOK, Advances
<1>5. ASSUME NEW j \in Keys
      PROVE  /\ flight'[j].step \in {"join", "base", "based"} => Kind(j) = "enriched"
             /\ flight'[j].step = "gate" => Kind(j) \in Gated
             /\ flight'[j].step = "supplement" => Kind(j) = "quote"
             /\ flight'[j].step = "call" => flight'[j].at <= Len(Sources(j))
             /\ Kind(j) \in Gated => flight'[j].at = 1
  BY DEF StepsOfKind, Advances, KindKept
<1>6. StepsOfKind'
  BY <1>2, <1>5 DEF StepsOfKind
<1> QED
  BY <1>1, <1>4, <1>6, AdvanceLeaders

\* A fetch that is not at its gate leaves the queues alone.
LEMMA AdvanceAside ==
  ASSUME HubInv, NEW k \in Keys, Advances(k), ~AtGate(k), ~AtGate(k)', gate' = gate,
         offer' = offer,
         \A s \in Optional : circuit'[s].state = "open" => circuit[s].state = "open"
  PROVE  QueuesLined' /\ AskedUnopened'
<1> USE DEF HubInv
<1>1. \A j \in Keys : AtGate(j) => j # k /\ flight'[j].step = flight[j].step /\ flight'[j].at = flight[j].at
  BY DEF AtGate, Advances
<1>2. \A j \in Keys : AtGate(j)' = AtGate(j)
  BY DEF AtGate, Advances
<1>3. \A g \in Gated : \A i \in 1..Len(gate[g]) : gate[g][i] \in Keys
  BY DEF HubTypeOK
<1>4. QueuesLined'
  BY <1>1, <1>2, <1>3 DEF QueuesLined
<1>5. ASSUME NEW j \in Keys, Kind(j) \in Gated, flight'[j].step = "call"
      PROVE  circuit'[Source(j)'].state # "open"
  <2>1. AtGate(j)
    BY <1>2, <1>5 DEF AtGate
  <2>2. flight[j].step = "call" /\ flight[j].at = 1 /\ flight'[j].at = 1
    BY <1>1, <1>5, <2>1 DEF StepsOfKind
  <2>3. Source(j)' = Source(j) /\ Source(j) \in Optional
    BY <2>2, <1>5, GatedSource, OfferKept DEF Source, Optional
  <2> QED
    BY <1>5, <2>2, <2>3 DEF AskedUnopened
<1> QED
  BY <1>4, <1>5 DEF AskedUnopened

\* The permit is released by the head of the queue; no one else was asking.
LEMMA AdvanceLeaves ==
  ASSUME HubInv, NEW k \in Keys, Advances(k), AtGate(k), ~AtGate(k)', offer' = offer,
         Head(gate[Kind(k)]) = k, gate' = Released(k),
         \A s \in Optional \ {Source(k)} : circuit'[s] = circuit[s]
  PROVE  QueuesLined' /\ AskedUnopened'
<1> USE DEF HubInv
<1> DEFINE g == Kind(k)
           q == gate[g]
<1>1. g \in Gated /\ q \in Seq(Keys) /\ gate' = [gate EXCEPT ![g] = Tail(q)]
  BY DEF AtGate, Released, HubTypeOK
<1>2. q # <<>> /\ q[1] = k
  BY <1>1 DEF QueuesLined
<1>3. gate'[g] = Tail(q) /\ \A h \in Gated \ {g} : gate'[h] = gate[h]
  BY <1>1 DEF HubTypeOK
<1>4. /\ Tail(q) \in Seq(Keys) /\ Len(Tail(q)) = Len(q) - 1
      /\ \A i \in 1..Len(Tail(q)) : Tail(q)[i] = q[i + 1] /\ i + 1 \in 1..Len(q)
  BY <1>1, <1>2
<1>5. \A j \in Keys \ {k} : AtGate(j)' = AtGate(j)
        /\ (AtGate(j) => flight'[j].step = flight[j].step /\ flight'[j].at = flight[j].at)
  BY DEF AtGate, Advances
<1>6. \A h \in Gated : \A i \in 1..Len(gate[h]) : gate[h][i] \in Keys
  BY DEF HubTypeOK
<1>7. \A i \in 1..Len(Tail(q)) : Tail(q)[i] # k /\ Tail(q)[i] \in Keys /\ flight[Tail(q)[i]].step # "call"
  <2> SUFFICES ASSUME NEW i \in 1..Len(Tail(q))
               PROVE  Tail(q)[i] # k /\ Tail(q)[i] \in Keys /\ flight[Tail(q)[i]].step # "call"
    OBVIOUS
  <2>1. Tail(q)[i] = q[i + 1] /\ i + 1 \in 1..Len(q) /\ i + 1 # 1 /\ 1 \in 1..Len(q)
    BY <1>4
  <2> QED
    BY <1>1, <1>2, <1>6, <2>1 DEF QueuesLined
<1>8. ASSUME NEW j \in Keys, AtGate(j)'
      PROVE  \E i \in 1..Len(gate'[Kind(j)]) : gate'[Kind(j)][i] = j
  <2>1. j # k /\ AtGate(j) /\ Kind(j) \in Gated
    BY <1>5, <1>8 DEF AtGate
  <2>2. PICK i \in 1..Len(gate[Kind(j)]) : gate[Kind(j)][i] = j
    BY <2>1 DEF QueuesLined
  <2>3. CASE Kind(j) = g
    <3>1. i # 1 /\ i - 1 \in 1..Len(Tail(q)) /\ Tail(q)[i - 1] = q[i]
      BY <1>1, <1>2, <1>4, <2>1, <2>2, <2>3
    <3> QED
      BY <1>3, <2>2, <2>3, <3>1
  <2>4. CASE Kind(j) # g
    BY <1>3, <2>1, <2>2, <2>4
  <2> QED
    BY <2>3, <2>4
<1>9. ASSUME NEW h \in Gated, NEW i \in 1..Len(gate'[h])
      PROVE  /\ gate'[h][i] \in Keys /\ Kind(gate'[h][i]) = h
             /\ flight'[gate'[h][i]].step \in {"gate", "call"}
             /\ flight'[gate'[h][i]].step = "call" => i = 1
             /\ \A j \in 1..Len(gate'[h]) : gate'[h][i] = gate'[h][j] => i = j
  <2>1. CASE h = g
    <3> DEFINE p == Tail(q)[i]
    <3>1. p = q[i + 1] /\ i + 1 \in 1..Len(q) /\ p \in Keys /\ p # k /\ flight[p].step # "call"
      BY <1>3, <1>4, <1>7, <2>1
    <3>2. AtGate(p) /\ Kind(p) = g
      BY <1>1, <3>1 DEF QueuesLined
    <3>3. flight'[p].step = "gate"
      BY <1>5, <3>1, <3>2 DEF AtGate
    <3>4. \A j \in 1..Len(Tail(q)) : Tail(q)[j] = p => i = j
      BY <1>1, <1>4, <3>1 DEF QueuesLined
    <3> QED
      BY <1>3, <2>1, <3>1, <3>2, <3>3, <3>4
  <2>2. CASE h # g
    <3> DEFINE p == gate[h][i]
    <3>1. gate'[h] = gate[h] /\ p \in Keys
      BY <1>3, <1>6, <2>2
    <3>2. AtGate(p) /\ Kind(p) = h /\ p # k
      BY <2>2, <3>1 DEF QueuesLined
    <3>3. flight'[p].step = flight[p].step
      BY <1>5, <3>1, <3>2
    <3> QED
      BY <3>1, <3>2, <3>3 DEF QueuesLined, AtGate
  <2> QED
    BY <2>1, <2>2
<1>10. QueuesLined'
  BY <1>8, <1>9 DEF QueuesLined, AtGate
<1>11. ASSUME NEW j \in Keys, Kind(j) \in Gated, flight'[j].step = "call"
       PROVE  circuit'[Source(j)'].state # "open"
  <2>1. j # k /\ AtGate(j) /\ flight[j].step = "call" /\ flight[j].at = 1 /\ flight'[j].at = 1 /\ flight[k].at = 1
    BY <1>1, <1>5, <1>11 DEF AtGate, StepsOfKind
  <2>2. Kind(j) # g
    BY <1>1, <1>2, <2>1 DEF QueuesLined
  <2>3. Source(j)' = Source(j) /\ Source(j) \in Optional /\ Source(j) # Source(k)
    BY <1>1, <1>11, <2>1, <2>2, GatedSource, OfferKept DEF Source, Optional, Gated
  <2> QED
    BY <1>11, <2>1, <2>3 DEF AskedUnopened
<1> QED
  BY <1>10, <1>11 DEF AskedUnopened

LEMMA ReleasedType ==
  ASSUME HubInv, NEW k \in Keys, AtGate(k)
  PROVE  Released(k) \in [Gated -> Seq(Keys)]
<1>1. gate[Kind(k)] \in Seq(Keys) /\ gate[Kind(k)] # <<>>
  BY DEF HubInv, HubTypeOK, QueuesLined, AtGate
<1>2. Tail(gate[Kind(k)]) \in Seq(Keys)
  BY <1>1
<1> QED
  BY <1>2 DEF Released, HubInv, HubTypeOK

-----------------------------------------------------------------------------
\* The steps of a fetch.

LEMMA ReportFacts ==
  ASSUME HubTypeOK, NEW s \in Circuits, NEW c \in Circuit, Reports(s, c)
  PROVE  /\ circuit' \in [Circuits -> Circuit] /\ circuit'[s] = c
         /\ \A x \in Circuits \ {s} : circuit'[x] = circuit[x]
BY DEF HubTypeOK, Reports

LEMMA OptionalCircuits == Optional \subseteq Circuits /\ EastMoney \in Circuits \ Optional
BY HubAssumption DEF Optional, Circuits

LEMMA DegradeAdvances ==
  ASSUME HubTypeOK, NEW k \in Keys, Degrade(k)
  PROVE  /\ Advances(k) /\ flight'[k].step = "done" /\ flight'[k].at = flight[k].at
         /\ cached' = cached \/ cached' \in AfterSet(k)
BY CompleteAdvances DEF Degrade

\* The step of a fetch that is not at its gate.
LEMMA AsideHubInv ==
  ASSUME HubInv, NEW k \in Keys, Advances(k), flight[k].step # "done", KindKept(k),
         ~AtGate(k), ~AtGate(k)', gate' = gate, offer' = offer, lastGood' \in BOOLEAN,
         circuit' \in [Circuits -> Circuit], cached' = cached \/ cached' \in AfterSet(k),
         \A s \in Optional : circuit'[s].state = "open" => circuit[s].state = "open"
  PROVE  HubInv'
<1>1. QueuesLined' /\ AskedUnopened'
  BY AdvanceAside
<1> QED
  BY <1>1, AdvanceHubInv DEF HubInv, HubTypeOK

LEMMA TryProviderHubInv ==
  ASSUME HubInv, NEW k \in Keys, TryProvider(k)
  PROVE  HubInv'
<1> USE DEF HubInv, TryProvider
<1>1. /\ Source(k) \in Circuits \ Optional /\ circuit[Source(k)] \in Circuit
      /\ AfterRequest(circuit[Source(k)]) \in Circuit
  BY SourceFacts, CircuitFacts DEF Errors, Counted
<1>2. /\ circuit' \in [Circuits -> Circuit]
      /\ \A s \in Optional : circuit'[s] = circuit[s]
  BY <1>1, ReportFacts, OptionalCircuits
<1>3. Advances(k) /\ KindKept(k) /\ ~AtGate(k)'
  <2>1. CASE Moves(k, "call")
    <3>1. Advances(k) /\ flight'[k].step = "call" /\ flight'[k].at = flight[k].at
      BY <2>1, MovesAdvances DEF Step
    <3> QED
      BY <3>1 DEF KindKept, AtGate, HubTypeOK
  <2>2. CASE NextSource(k)
    <3>1. Advances(k) /\ flight'[k].step = "allow" /\ flight'[k].at = flight[k].at + 1
      BY <2>2, NextSourceAdvances
    <3>2. flight[k].at \in Nat /\ Len(Sources(k)) \in Nat
      BY SourceLength DEF HubTypeOK, Flight
    <3> QED
      BY <3>1, <3>2 DEF KindKept, AtGate
  <2> QED
    BY <2>1, <2>2
<1> QED
  BY <1>2, <1>3, AsideHubInv DEF HubTypeOK, AtGate

LEMMA ChainFailedHubInv ==
  ASSUME HubInv, NEW k \in Keys, ChainFailed(k)
  PROVE  HubInv'
<1> USE DEF HubInv, ChainFailed
<1>1. Advances(k) /\ flight'[k].step = "done" /\ flight'[k].at = flight[k].at
  BY CompleteAdvances
<1>2. KindKept(k) /\ ~AtGate(k)'
  BY <1>1 DEF KindKept, AtGate, HubTypeOK
<1> QED
  BY <1>1, <1>2, AsideHubInv DEF HubTypeOK, AtGate

LEMMA ProviderAnswersHubInv ==
  ASSUME HubInv, NEW k \in Keys, ProviderAnswers(k)
  PROVE  HubInv'
<1> USE DEF HubInv, ProviderAnswers
<1>0. flight[k].at <= Len(Sources(k))
  BY DEF StepsOfKind
<1>1. /\ Source(k) \in Circuits \ Optional
      /\ OnSuccess(circuit[Source(k)]) \in Circuit
  BY <1>0, SourceFacts, CircuitFacts DEF Errors, Counted
<1>2. /\ circuit' \in [Circuits -> Circuit]
      /\ \A s \in Optional : circuit'[s] = circuit[s]
  BY <1>1, ReportFacts, OptionalCircuits
<1>3. /\ Advances(k) /\ flight'[k].at = flight[k].at
      /\ flight'[k].step = "done" \/ (Kind(k) = "quote" /\ flight'[k].step = "supplement")
  BY CompleteAdvances, MovesAdvances DEF Step
<1>4. KindKept(k) /\ ~AtGate(k)'
  BY <1>3 DEF KindKept, AtGate, HubTypeOK
<1>5. lastGood' \in BOOLEAN
  BY DEF HubTypeOK
<1> QED
  BY <1>2, <1>3, <1>4, <1>5, AsideHubInv DEF AtGate

LEMMA ProviderFailsHubInv ==
  ASSUME HubInv, NEW k \in Keys, ProviderFails(k)
  PROVE  HubInv'
<1> USE DEF HubInv, ProviderFails
<1>0. flight[k].at <= Len(Sources(k))
  BY DEF StepsOfKind
<1>1. /\ Source(k) \in Circuits \ Optional /\ circuit[Source(k)] \in Circuit
      /\ OnSuccess(circuit[Source(k)]) \in Circuit /\ Tripped(circuit[Source(k)]) \in Circuit
      /\ \A e \in Errors : OnFailure(circuit[Source(k)], e) \in Circuit
  BY <1>0, SourceFacts, CircuitFacts DEF Errors, Counted
<1>2. /\ circuit' \in [Circuits -> Circuit]
      /\ \A s \in Optional : circuit'[s] = circuit[s]
  <2>1. \/ circuit' = circuit
        \/ \E c \in Circuit : Reports(Source(k), c)
    BY <1>1
  <2> QED
    BY <1>1, <2>1, ReportFacts, OptionalCircuits DEF HubTypeOK
<1>3. Advances(k) /\ flight'[k].step = "allow" /\ flight'[k].at = flight[k].at + 1
  BY NextSourceAdvances
<1>4. flight[k].at \in Nat /\ Len(Sources(k)) \in Nat
  BY SourceLength DEF HubTypeOK, Flight
<1>5. KindKept(k) /\ ~AtGate(k)'
  BY <1>0, <1>3, <1>4 DEF KindKept, AtGate
<1> QED
  BY <1>2, <1>3, <1>5, AsideHubInv DEF HubTypeOK, AtGate

LEMMA SupplementAnswersHubInv ==
  ASSUME HubInv, NEW k \in Keys, SupplementAnswers(k)
  PROVE  HubInv'
<1> USE DEF HubInv, SupplementAnswers
<1>0. ~AtGate(k)
  BY DEF AtGate
<1>1. /\ OnSuccess(circuit[EastMoney]) \in Circuit
      /\ \A e \in Errors : OnFailure(circuit[EastMoney], e) \in Circuit
  BY OptionalCircuits, CircuitFacts DEF HubTypeOK, Errors, Counted
<1>2. /\ circuit' \in [Circuits -> Circuit]
      /\ \A s \in Optional : circuit'[s] = circuit[s]
  <2>1. \E c \in Circuit : Reports(EastMoney, c)
    BY <1>1
  <2> QED
    BY <2>1, ReportFacts, OptionalCircuits
<1>3. Advances(k) /\ flight'[k].step = "done" /\ flight'[k].at = flight[k].at
  BY CompleteAdvances
<1>4. KindKept(k) /\ ~AtGate(k)'
  BY <1>3 DEF KindKept, AtGate, HubTypeOK, StepsOfKind
<1> QED
  BY <1>0, <1>2, <1>3, <1>4, AsideHubInv DEF HubTypeOK

LEMMA BaseTakenHubInv ==
  ASSUME HubInv, NEW k \in Keys, BaseTaken(k)
  PROVE  HubInv'
<1> USE DEF HubInv, BaseTaken
<1>1. /\ Advances(k) /\ flight'[k].at = flight[k].at /\ flight'[k].step \in {"done", "allow"}
      /\ cached' = cached \/ cached' \in AfterSet(k)
  BY CompleteAdvances, MovesAdvances DEF Step
<1>2. KindKept(k) /\ ~AtGate(k)' /\ ~AtGate(k)
  BY <1>1 DEF KindKept, AtGate, HubTypeOK, StepsOfKind
<1> QED
  BY <1>1, <1>2, AsideHubInv DEF HubTypeOK

\* The fetch joins the queue of its gate, or ends without asking.
LEMMA AskGateHubInv ==
  ASSUME HubInv, NEW k \in Keys, AskGate(k)
  PROVE  HubInv'
<1> USE DEF HubInv, AskGate
<1> DEFINE g == Kind(k)
           q == gate[g]
           s == Source(k)
<1>0. g \in Gated /\ flight[k].at = 1 /\ ~AtGate(k) /\ q \in Seq(Keys)
  BY DEF AtGate, StepsOfKind, HubTypeOK
<1>1. /\ s \in Optional /\ s \in Circuits /\ circuit[s] \in Circuit
      /\ AfterRequest(circuit[s]) \in Circuit
      /\ AfterRequest(circuit[s]).state = "open" => circuit[s].state = "open"
  BY <1>0, GatedSource, OptionalCircuits, CircuitFacts DEF Optional, HubTypeOK, Errors, Counted
<1>2. /\ circuit' \in [Circuits -> Circuit]
      /\ \A x \in Optional : circuit'[x].state = "open" => circuit[x].state = "open"
  BY <1>1, ReportFacts, OptionalCircuits
<1>3. CASE Degrade(k) /\ UNCHANGED gate
  <2>1. /\ Advances(k) /\ flight'[k].step = "done" /\ flight'[k].at = flight[k].at
        /\ cached' = cached \/ cached' \in AfterSet(k)
    BY <1>3, DegradeAdvances
  <2>2. KindKept(k) /\ ~AtGate(k)'
    BY <1>0, <2>1 DEF KindKept, AtGate, HubTypeOK
  <2> QED
    BY <1>0, <1>2, <1>3, <2>1, <2>2, AsideHubInv DEF HubTypeOK
<1>4. CASE Moves(k, "gate") /\ UNCHANGED cached /\ gate' = [gate EXCEPT ![g] = Append(q, k)]
  <2>1. Advances(k) /\ flight'[k].step = "gate" /\ flight'[k].at = flight[k].at
    BY <1>4, MovesAdvances DEF Step
  <2>2. KindKept(k)
    BY <1>0, <2>1 DEF KindKept, HubTypeOK
  <2>3. gate' \in [Gated -> Seq(Keys)] /\ gate'[g] = Append(q, k) /\ \A h \in Gated \ {g} : gate'[h] = gate[h]
    BY <1>0, <1>4 DEF HubTypeOK
  <2>4. /\ Len(Append(q, k)) = Len(q) + 1 /\ Len(q) \in Nat /\ Append(q, k)[Len(q) + 1] = k
        /\ \A i \in 1..Len(q) : Append(q, k)[i] = q[i]
    BY <1>0
  <2>5. \A h \in Gated : \A i \in 1..Len(gate[h]) : gate[h][i] \in Keys \ {k}
    BY <1>0 DEF QueuesLined, HubTypeOK
  <2>6. \A j \in Keys \ {k} : /\ AtGate(j)' = AtGate(j)
                              /\ AtGate(j) => flight'[j].step = flight[j].step /\ flight'[j].at = flight[j].at
    BY <2>1 DEF AtGate, Advances
  <2>7. ASSUME NEW j \in Keys, AtGate(j)'
        PROVE  \E i \in 1..Len(gate'[Kind(j)]) : gate'[Kind(j)][i] = j
    <3>1. CASE j = k
      BY <2>3, <2>4, <3>1
    <3>2. CASE j # k
      <4>1. AtGate(j) /\ Kind(j) \in Gated
        BY <2>6, <2>7, <3>2 DEF AtGate
      <4>2. PICK i \in 1..Len(gate[Kind(j)]) : gate[Kind(j)][i] = j
        BY <4>1 DEF QueuesLined
      <4>3. CASE Kind(j) = g
        BY <2>3, <2>4, <4>2, <4>3
      <4>4. CASE Kind(j) # g
        BY <2>3, <4>1, <4>2, <4>4
      <4> QED
        BY <4>3, <4>4
    <3> QED
      BY <3>1, <3>2
  <2>8. ASSUME NEW h \in Gated, NEW i \in 1..Len(gate[h])
        PROVE  /\ gate'[h][i] = gate[h][i] /\ gate[h][i] \in Keys \ {k} /\ Kind(gate[h][i]) = h
               /\ flight'[gate[h][i]].step \in {"gate", "call"}
               /\ flight'[gate[h][i]].step = "call" => i = 1
    <3>1. AtGate(gate[h][i]) /\ gate[h][i] \in Keys \ {k} /\ Kind(gate[h][i]) = h
      BY <2>5 DEF QueuesLined
    <3>2. flight'[gate[h][i]].step = flight[gate[h][i]].step
      BY <2>6, <3>1
    <3>3. gate'[h][i] = gate[h][i]
      BY <2>3, <2>4
    <3> QED
      BY <3>1, <3>2, <3>3 DEF QueuesLined, AtGate
  <2>9. ASSUME NEW h \in Gated, NEW i \in 1..Len(gate'[h])
        PROVE  /\ gate'[h][i] \in Keys /\ Kind(gate'[h][i]) = h
               /\ flight'[gate'[h][i]].step \in {"gate", "call"}
               /\ flight'[gate'[h][i]].step = "call" => i = 1
               /\ \A j \in 1..Len(gate'[h]) : gate'[h][i] = gate'[h][j] => i = j
    <3>1. CASE h = g /\ i = Len(q) + 1
      <4>1. gate'[h][i] = k
        BY <2>3, <2>4, <3>1
      <4>2. \A j \in 1..Len(gate'[h]) : gate'[h][j] = k => j = i
        BY <2>3, <2>4, <2>8, <3>1
      <4> QED
        BY <1>0, <2>1, <3>1, <4>1, <4>2
    <3>2. CASE ~(h = g /\ i = Len(q) + 1)
      <4>1. i \in 1..Len(gate[h])
        BY <2>3, <2>4, <3>2
      <4>2. gate'[h][i] = gate[h][i] /\ gate[h][i] \in Keys \ {k}
        BY <2>8, <4>1
      <4>3. ASSUME NEW j \in 1..Len(gate'[h]), gate'[h][i] = gate'[h][j]
            PROVE  i = j
        <5>1. j \in 1..Len(gate[h])
          BY <2>3, <2>4, <4>2, <4>3
        <5>2. gate'[h][j] = gate[h][j]
          BY <2>8, <5>1
        <5> QED
          BY <4>1, <4>2, <4>3, <5>1, <5>2 DEF QueuesLined
      <4> QED
        BY <2>8, <4>1, <4>2, <4>3
    <3> QED
      BY <3>1, <3>2
  <2>10. QueuesLined'
    BY <2>7, <2>9 DEF QueuesLined, AtGate
  <2>11. ASSUME NEW j \in Keys, Kind(j) \in Gated, flight'[j].step = "call"
         PROVE  circuit'[Source(j)'].state # "open"
    <3>1. j # k /\ AtGate(j) /\ flight[j].step = "call" /\ flight[j].at = 1 /\ flight'[j].at = 1
      BY <2>1, <2>6, <2>11 DEF AtGate, StepsOfKind
    <3>2. Source(j)' = Source(j) /\ Source(j) \in Optional
      BY <2>11, <3>1, GatedSource, OfferKept DEF Source, Optional
    <3> QED
      BY <1>2, <2>11, <3>1, <3>2 DEF AskedUnopened
  <2>12. AskedUnopened'
    BY <2>11 DEF AskedUnopened
  <2> QED
    BY <1>2, <1>4, <2>1, <2>2, <2>3, <2>10, <2>12, AdvanceHubInv DEF HubTypeOK
<1> QED
  BY <1>3, <1>4

\* The permit: the circuit is asked again.
LEMMA EnterGateHubInv ==
  ASSUME HubInv, NEW k \in Keys, EnterGate(k)
  PROVE  HubInv'
<1> USE DEF HubInv, EnterGate
<1> DEFINE g == Kind(k)
           s == Source(k)
<1>0. g \in Gated /\ flight[k].at = 1 /\ AtGate(k)
  BY DEF AtGate, StepsOfKind
<1>1. /\ s \in Optional /\ s \in Circuits /\ circuit[s] \in Circuit
      /\ AfterRequest(circuit[s]) \in Circuit
      /\ StillAllowed(k) => AfterRequest(circuit[s]).state # "open"
  BY <1>0, GatedSource, OptionalCircuits, CircuitFacts
     DEF Optional, HubTypeOK, StillAllowed, Errors, Counted
<1>2. /\ circuit' \in [Circuits -> Circuit] /\ circuit'[s] = AfterRequest(circuit[s])
      /\ \A x \in Optional \ {s} : circuit'[x] = circuit[x]
  BY <1>1, ReportFacts, OptionalCircuits
<1>3. CASE ~StillAllowed(k)
  <2>1. /\ Advances(k) /\ flight'[k].step = "done" /\ flight'[k].at = flight[k].at
        /\ cached' = cached \/ cached' \in AfterSet(k)
    BY <1>3, DegradeAdvances
  <2>2. KindKept(k) /\ ~AtGate(k)'
    BY <1>0, <2>1 DEF KindKept, AtGate, HubTypeOK
  <2>3. gate' \in [Gated -> Seq(Keys)]
    BY <1>0, <1>3, ReleasedType
  <2>4. QueuesLined' /\ AskedUnopened'
    BY <1>0, <1>2, <1>3, <2>1, <2>2, AdvanceLeaves
  <2> QED
    BY <1>2, <2>1, <2>2, <2>3, <2>4, AdvanceHubInv DEF HubTypeOK
<1>4. CASE StillAllowed(k)
  <2>1. Advances(k) /\ flight'[k].step = "call" /\ flight'[k].at = flight[k].at
    BY <1>4, MovesAdvances DEF Step
  <2>2. KindKept(k)
    <3>1. Len(Sources(k)) = 1
      BY <1>0, GatedSource
    <3> QED
      BY <1>0, <2>1, <3>1 DEF KindKept
  <2>3. gate' = gate /\ cached' = cached
    BY <1>4
  <2>4. \A j \in Keys \ {k} : /\ AtGate(j)' = AtGate(j)
                              /\ AtGate(j) => flight'[j].step = flight[j].step /\ flight'[j].at = flight[j].at
    BY <2>1 DEF AtGate, Advances
  <2>5. AtGate(k)'
    BY <1>0, <2>1 DEF AtGate
  <2>6. \A h \in Gated : \A i \in 1..Len(gate[h]) :
          gate[h][i] \in Keys /\ (gate[h][i] = k => h = g /\ i = 1)
    <3> SUFFICES ASSUME NEW h \in Gated, NEW i \in 1..Len(gate[h]), gate[h][i] = k
                 PROVE  h = g /\ i = 1
      BY DEF HubTypeOK
    <3>1. h = g
      BY DEF QueuesLined
    <3>2. 1 \in 1..Len(gate[g]) /\ gate[g][1] = k
      BY <1>0, <3>1 DEF HubTypeOK
    <3> QED
      BY <3>1, <3>2 DEF QueuesLined
  <2>7. \A h \in Gated : \A i \in 1..Len(gate[h]) :
          /\ AtGate(gate[h][i]) /\ Kind(gate[h][i]) = h
          /\ flight'[gate[h][i]].step \in {"gate", "call"}
          /\ flight'[gate[h][i]].step = "call" => i = 1
    BY <2>1, <2>4, <2>6 DEF QueuesLined, AtGate
  <2>8. QueuesLined'
    BY <2>3, <2>4, <2>5, <2>7, <1>0 DEF QueuesLined, AtGate
  <2>9. ASSUME NEW j \in Keys, Kind(j) \in Gated, flight'[j].step = "call"
        PROVE  circuit'[Source(j)'].state # "open"
    <3>1. CASE j = k
      <4>1. Source(k)' = s
        BY <2>1, OfferKept DEF Source
      <4> QED
        BY <1>1, <1>2, <1>4, <3>1, <4>1
    <3>2. CASE j # k
      <4>1. flight[j].step = "call" /\ flight[j].at = 1 /\ flight'[j].at = 1
        BY <2>4, <2>9, <3>2 DEF AtGate, StepsOfKind
      <4>2. Source(j)' = Source(j) /\ Source(j) \in Optional
        BY <2>9, <4>1, GatedSource, OfferKept DEF Source, Optional
      <4> QED
        BY <1>1, <1>2, <1>4, <2>9, <4>1, <4>2 DEF AskedUnopened
    <3> QED
      BY <3>1, <3>2
  <2>10. AskedUnopened'
    BY <2>9 DEF AskedUnopened
  <2> QED
    BY <1>2, <2>1, <2>2, <2>3, <2>8, <2>10, AdvanceHubInv DEF HubTypeOK
<1> QED
  BY <1>3, <1>4

LEMMA GatedAnswersHubInv ==
  ASSUME HubInv, NEW k \in Keys, GatedAnswers(k)
  PROVE  HubInv'
<1> USE DEF HubInv, GatedAnswers
<1> DEFINE g == Kind(k)
           s == Source(k)
<1>0. g \in Gated /\ flight[k].at = 1 /\ AtGate(k)
  BY DEF AtGate, StepsOfKind
<1>1. Head(gate[g]) = k
  BY <1>0 DEF QueuesLined, HubTypeOK
<1>2. /\ s \in Optional /\ s \in Circuits
      /\ OnSuccess(circuit[s]) \in Circuit /\ Tripped(circuit[s]) \in Circuit
      /\ \A e \in Errors : OnFailure(circuit[s], e) \in Circuit
  BY <1>0, GatedSource, OptionalCircuits, CircuitFacts DEF Optional, HubTypeOK, Errors, Counted
<1>3. /\ circuit' \in [Circuits -> Circuit]
      /\ \A x \in Optional \ {s} : circuit'[x] = circuit[x]
  <2>1. \E c \in Circuit : Reports(s, c)
    BY <1>2
  <2> QED
    BY <1>2, <2>1, ReportFacts, OptionalCircuits
<1>4. /\ Advances(k) /\ flight'[k].step = "done" /\ flight'[k].at = flight[k].at
      /\ cached' = cached \/ cached' \in AfterSet(k)
  BY CompleteAdvances, DegradeAdvances
<1>5. KindKept(k) /\ ~AtGate(k)'
  BY <1>0, <1>4 DEF KindKept, AtGate, HubTypeOK
<1>6. gate' \in [Gated -> Seq(Keys)]
  BY <1>0, ReleasedType
<1>7. QueuesLined' /\ AskedUnopened'
  BY <1>0, <1>1, <1>3, <1>4, <1>5, AdvanceLeaves
<1> QED
  BY <1>3, <1>4, <1>5, <1>6, <1>7, AdvanceHubInv DEF HubTypeOK

-----------------------------------------------------------------------------
\* The other steps.

\* A step that leaves the fetches at their gates, the queues and the circuits'
\* openings alone, and changes entries one by one.
LEMMA GatesUntouched ==
  ASSUME HubInv, gate' = gate, offer' = offer, circuit' = circuit,
         \A j \in Keys : /\ AtGate(j)' = AtGate(j)
                         /\ AtGate(j) => flight'[j].step = flight[j].step /\ flight'[j].at = flight[j].at
  PROVE  QueuesLined' /\ AskedUnopened'
<1> USE DEF HubInv
<1>1. \A h \in Gated : \A i \in 1..Len(gate[h]) : gate[h][i] \in Keys
  BY DEF HubTypeOK
<1>2. QueuesLined'
  BY <1>1 DEF QueuesLined
<1>3. ASSUME NEW j \in Keys, Kind(j) \in Gated, flight'[j].step = "call"
      PROVE  circuit'[Source(j)'].state # "open"
  <2>1. flight[j].step = "call" /\ flight'[j].at = flight[j].at
    BY <1>3 DEF AtGate
  <2>2. Source(j)' = Source(j)
    BY <2>1, OfferKept DEF Source
  <2> QED
    BY <1>3, <2>1, <2>2 DEF AskedUnopened
<1> QED
  BY <1>2, <1>3 DEF AskedUnopened

\* A step that changes neither the chain, the circuits, the queues nor the cache.
LEMMA EntriesChange ==
  ASSUME HubInv, UNCHANGED <<circuit, cached, gate, lastGood, offer>>,
         flight' \in [Keys -> Flight], caller' \in [Callers -> Caller],
         \A j \in Keys : \/ flight'[j].step = flight[j].step /\ flight'[j].at = flight[j].at
                         \/ ~AtGate(j) /\ flight'[j] = NoFlight
                         \/ flight[j].step = "absent" /\ flight'[j] = Begun(j)
                         \/ /\ flight[j].step = "join" /\ flight'[j].at = flight[j].at
                            /\ flight'[j].step \in {"base", "based"},
         LeadersAlone', ReadyLeads'
  PROVE  HubInv'
<1> USE DEF HubInv
<1>0. /\ NoFlight.step = "absent" /\ NoFlight.at = 1
      /\ \A j \in Keys : Begun(j).at = 1 /\ Begun(j).step = IF Kind(j) = "enriched" THEN "join" ELSE "allow"
  BY DEF NoFlight, Begun
<1>1. \A j \in Keys : flight[j].at \in Nat \ {0} /\ Len(Sources(j)) \in Nat /\ Sources(j)' = Sources(j)
  BY SourceLength, OfferKept DEF HubTypeOK, Flight
<1>2. \A j \in Keys : flight'[j].at = flight[j].at \/ flight'[j].at = 1
  BY <1>0
<1>3. HubTypeOK'
  <2>1. \A j \in Keys : flight'[j].at <= Len(Sources(j)) + 1
    BY <1>1, <1>2 DEF HubTypeOK
  <2> QED
    BY <1>1, <2>1 DEF HubTypeOK
<1>4. ASSUME NEW j \in Keys
      PROVE  /\ flight'[j].step \in {"join", "base", "based"} => Kind(j) = "enriched"
             /\ flight'[j].step = "gate" => Kind(j) \in Gated
             /\ flight'[j].step = "supplement" => Kind(j) = "quote"
             /\ flight'[j].step = "call" => flight'[j].at <= Len(Sources(j))
             /\ Kind(j) \in Gated => flight'[j].at = 1
             /\ AtGate(j)' = AtGate(j)
             /\ AtGate(j) => flight'[j].step = flight[j].step /\ flight'[j].at = flight[j].at
  <2>1. CASE flight'[j].step = flight[j].step /\ flight'[j].at = flight[j].at
    BY <2>1 DEF StepsOfKind, AtGate
  <2>2. CASE ~AtGate(j) /\ flight'[j] = NoFlight
    BY <1>0, <2>2 DEF AtGate
  <2>3. CASE flight[j].step = "absent" /\ flight'[j] = Begun(j)
    BY <1>0, <2>3 DEF AtGate
  <2>4. CASE /\ flight[j].step = "join" /\ flight'[j].at = flight[j].at
             /\ flight'[j].step \in {"base", "based"}
    BY <2>4 DEF StepsOfKind, AtGate
  <2> QED
    BY <2>1, <2>2, <2>3, <2>4
<1>5. StepsOfKind'
  BY <1>1, <1>4 DEF StepsOfKind
<1>6. QueuesLined' /\ AskedUnopened'
  BY <1>4, GatesUntouched
<1> QED
  BY <1>3, <1>5, <1>6

LEMMA EntryTypes ==
  /\ NoFlight \in Flight /\ NoFlight.step = "absent" /\ ~NoFlight.leads
  /\ \A k \in Keys : Begun(k) \in Flight /\ Begun(k).step # "absent" /\ ~Begun(k).leads
  /\ Idle \in Caller /\ Idle.state = "idle" /\ ~Idle.leader
<1>1. NoFlight \in Flight /\ NoFlight.step = "absent" /\ ~NoFlight.leads
  BY DEF NoFlight, Flight, Step
<1>2. \A step \in Step : LET f == [NoFlight EXCEPT !.step = step] IN
        f \in Flight /\ f.step = step /\ ~f.leads
  BY <1>1 DEF Flight
<1>3. Idle \in Caller /\ Idle.state = "idle" /\ ~Idle.leader
  BY DEF Idle, Caller
<1> QED
  BY <1>1, <1>2, <1>3 DEF Begun, Step

\* A request starts the fetch, and leads it, or joins it.
LEMMA CallHubInv ==
  ASSUME HubInv, NEW c \in Callers, NEW k \in Keys, Call(c, k)
  PROVE  HubInv'
<1> USE DEF HubInv, Call
<1>1. flight[k] \in Flight /\ Lingering(k) \in BOOLEAN
  BY DEF HubTypeOK, Lingering
<1>2. /\ Joined(k) \in Caller /\ Joined(k).key = k /\ Joined(k).state # "idle"
      /\ Joined(k).leader = (flight[k].step = "absent")
      /\ Joined(k).state = "ready" => flight[k].step = "done"
  BY <1>1 DEF Joined, Caller, Flight, Started
<1>3. /\ caller' \in [Callers -> Caller] /\ caller'[c] = Joined(k)
      /\ \A d \in Callers \ {c} : caller'[d] = caller[d]
  BY <1>2 DEF HubTypeOK
<1>4. /\ flight' \in [Keys -> Flight]
      /\ flight'[k] = IF flight[k].step = "absent" THEN Begun(k) ELSE flight[k]
      /\ \A j \in Keys \ {k} : flight'[j] = flight[j]
  BY EntryTypes DEF HubTypeOK, Started
<1>5. \A e, j \in Keys : DetailLeads(e, j)' => DetailLeads(e, j)
  BY <1>4, EntryTypes DEF DetailLeads
<1>6. \A j \in Keys : Started(j) => Started(j)'
  BY <1>4, EntryTypes DEF Started
<1>7. Started(k)'
  BY <1>4, EntryTypes DEF Started
<1>8. \A d \in Callers, j \in Keys :
        RequestLeads(d, j)' => RequestLeads(d, j) \/ (d = c /\ j = k /\ ~Started(k))
  BY <1>2, <1>3 DEF RequestLeads, Started
<1>9. LeadersAlone'
  BY <1>5, <1>6, <1>7, <1>8 DEF LeadersAlone
<1>10. ReadyLeads'
  <2> SUFFICES ASSUME NEW d \in Callers
               PROVE  /\ caller'[d].state # "idle" => caller'[d].key \in Keys
                      /\ caller'[d].state = "idle" => ~caller'[d].leader
                      /\ caller'[d].state = "ready" /\ caller'[d].leader =>
                           flight'[caller'[d].key].step = "done"
    BY DEF ReadyLeads
  <2>1. CASE d = c
    BY <1>2, <1>3, <2>1
  <2>2. CASE d # c
    BY <1>3, <1>4, <2>2 DEF ReadyLeads
  <2> QED
    BY <2>1, <2>2
<1> QED
  BY <1>3, <1>4, <1>9, <1>10, EntriesChange

\* The answer: a leader removes the completed entry, which nobody else leads.
LEMMA ReturnHubInv ==
  ASSUME HubInv, NEW c \in Callers, Return(c)
  PROVE  HubInv'
<1> USE DEF HubInv, Return
<1>0. PICK k \in Keys : k = caller[c].key
  BY DEF ReadyLeads
<1>1. /\ caller' \in [Callers -> Caller] /\ caller'[c] = Idle
      /\ \A d \in Callers \ {c} : caller'[d] = caller[d]
  BY EntryTypes DEF HubTypeOK
<1>2. \A d \in Callers, j \in Keys : RequestLeads(d, j)' => RequestLeads(d, j) /\ d # c
  BY <1>1, EntryTypes DEF RequestLeads
<1>3. CASE ~caller[c].leader
  <2>1. flight' = flight
    BY <1>3 DEF Removes
  <2>2. LeadersAlone'
    BY <1>2, <2>1 DEF LeadersAlone, DetailLeads, Started
  <2>3. ReadyLeads'
    BY <1>1, <2>1, EntryTypes DEF ReadyLeads
  <2> QED
    BY <1>1, <2>1, <2>2, <2>3, EntriesChange DEF HubTypeOK
<1>4. CASE caller[c].leader
  <2>1. /\ flight' \in [Keys -> Flight] /\ flight'[k] = NoFlight /\ flight[k].step = "done"
        /\ \A j \in Keys \ {k} : flight'[j] = flight[j]
    BY <1>0, <1>4, EntryTypes DEF Removes, HubTypeOK, ReadyLeads
  <2>2. RequestLeads(c, k)
    BY <1>0, <1>4 DEF RequestLeads
  <2>3. \A d \in Callers : ~RequestLeads(d, k)'
    BY <1>0, <1>2, <2>2 DEF LeadersAlone
  <2>4. \A e, j \in Keys : DetailLeads(e, j)' => DetailLeads(e, j) /\ j # k
    BY <1>0, <2>1, <2>2, EntryTypes DEF DetailLeads, LeadersAlone
  <2>5. \A j \in Keys \ {k} : Started(j)' = Started(j)
    BY <2>1 DEF Started
  <2>6. LeadersAlone'
    BY <1>2, <2>3, <2>4, <2>5 DEF LeadersAlone
  <2>7. ReadyLeads'
    <3> SUFFICES ASSUME NEW d \in Callers
                 PROVE  /\ caller'[d].state # "idle" => caller'[d].key \in Keys
                        /\ caller'[d].state = "idle" => ~caller'[d].leader
                        /\ caller'[d].state = "ready" /\ caller'[d].leader =>
                             flight'[caller'[d].key].step = "done"
      BY DEF ReadyLeads
    <3>1. CASE d = c
      BY <1>1, <3>1, EntryTypes
    <3>2. CASE d # c
      BY <1>0, <1>1, <2>1, <2>2, <3>2 DEF ReadyLeads, LeadersAlone, RequestLeads
    <3> QED
      BY <3>1, <3>2
  <2>8. ~AtGate(k)
    BY <2>1 DEF AtGate
  <2> QED
    BY <1>1, <2>1, <2>6, <2>7, <2>8, EntriesChange
<1> QED
  BY <1>3, <1>4

LEMMA DropHubInv ==
  ASSUME HubInv, NEW c \in Callers, Drop(c)
  PROVE  HubInv'
<1> USE DEF HubInv, Drop
<1>1. /\ caller' \in [Callers -> Caller] /\ caller'[c] = Idle
      /\ \A d \in Callers \ {c} : caller'[d] = caller[d]
  BY EntryTypes DEF HubTypeOK
<1>2. \A d \in Callers, j \in Keys : RequestLeads(d, j)' => RequestLeads(d, j)
  BY <1>1, EntryTypes DEF RequestLeads
<1>3. LeadersAlone'
  BY <1>2 DEF LeadersAlone, DetailLeads, Started
<1>4. ReadyLeads'
  BY <1>1, EntryTypes DEF ReadyLeads
<1> QED
  BY <1>1, <1>3, <1>4, EntriesChange DEF HubTypeOK

\* Where no request changes and no entry its leader, nobody else leads.
LEMMA LeadsUnchanged ==
  ASSUME LeadersAlone, ReadyLeads, caller' = caller,
         \A j \in Keys : /\ flight'[j].leads = flight[j].leads
                         /\ \/ flight'[j].step = flight[j].step
                            \/ flight[j].step = "join" /\ flight'[j].step = "based"
  PROVE  LeadersAlone' /\ ReadyLeads'
<1>1. \A j \in Keys : Started(j)' = Started(j)
  BY DEF Started
<1>2. \A c \in Callers, j \in Keys : RequestLeads(c, j)' = RequestLeads(c, j)
  BY DEF RequestLeads
<1>3. \A e, j \in Keys : DetailLeads(e, j)' = DetailLeads(e, j)
  BY DEF DetailLeads
<1>4. LeadersAlone'
  BY <1>1, <1>2, <1>3 DEF LeadersAlone
<1>5. ReadyLeads'
  BY DEF ReadyLeads
<1> QED
  BY <1>4, <1>5

\* A detailed series finds its base series, or joins or leads its fetch.
LEMMA JoinBaseHubInv ==
  ASSUME HubInv, NEW k \in Keys, JoinBase(k)
  PROVE  HubInv'
<1> USE DEF HubInv, JoinBase
<1>0. PICK b \in Keys : b = BaseOf(k) /\ b # k /\ Kind(b) = "base"
  BY KeyFacts
<1>1. \A j \in Keys : flight[j] \in Flight
  BY DEF HubTypeOK
<1>2. CASE b \in cached \/ flight[b].step = "done"
  <2>1. PICK ok \in BOOLEAN : flight' = [flight EXCEPT ![k] = [flight[k] EXCEPT !.step = "based", !.ok = ok]]
    BY <1>0, <1>1, <1>2 DEF Flight, HubTypeOK
  <2>2. LET f == [flight[k] EXCEPT !.step = "based", !.ok = ok] IN
        f \in Flight /\ f.step = "based" /\ f.at = flight[k].at /\ f.leads = flight[k].leads
    BY <1>1 DEF Flight, Step
  <2>3. /\ flight' \in [Keys -> Flight] /\ \A j \in Keys \ {k} : flight'[j] = flight[j]
        /\ flight'[k].step = "based" /\ flight'[k].at = flight[k].at /\ flight'[k].leads = flight[k].leads
    BY <2>1, <2>2 DEF HubTypeOK
  <2>4. LeadersAlone' /\ ReadyLeads'
    BY <2>3, LeadsUnchanged
  <2> QED
    BY <2>3, <2>4, EntriesChange DEF HubTypeOK
<1>3. CASE b \notin cached /\ flight[b].step # "done"
  <2> DEFINE f == [flight[k] EXCEPT !.step = "base", !.leads = ~Started(b)]
  <2>1. flight' = [flight EXCEPT ![k] = f, ![b] = IF Started(b) THEN flight[b] ELSE Begun(b)]
    BY <1>0, <1>3 DEF HubTypeOK
  <2>2. f \in Flight /\ f.step = "base" /\ f.at = flight[k].at /\ f.leads = (flight[b].step = "absent")
    BY <1>1 DEF Flight, Step, Started
  <2> HIDE DEF f
  <2>3. /\ flight' \in [Keys -> Flight] /\ flight'[k] = f /\ \A j \in Keys \ {k, b} : flight'[j] = flight[j]
        /\ flight'[b] = IF Started(b) THEN flight[b] ELSE Begun(b)
    BY <1>0, <1>1, <2>1, <2>2, EntryTypes DEF HubTypeOK
  <2>4. \A j \in Keys : Started(j) => Started(j)'
    BY <1>0, <2>2, <2>3, EntryTypes DEF Started
  <2>5. Started(b)'
    BY <1>0, <2>3, EntryTypes DEF Started
  <2>6. \A e, j \in Keys :
          DetailLeads(e, j)' => DetailLeads(e, j) \/ (e = k /\ j = b /\ ~Started(b))
    BY <1>0, <2>2, <2>3, EntryTypes DEF DetailLeads, Started
  <2>7. \A c \in Callers, j \in Keys : RequestLeads(c, j)' = RequestLeads(c, j)
    BY DEF RequestLeads
  <2>8. LeadersAlone'
    BY <2>4, <2>5, <2>6, <2>7 DEF LeadersAlone
  <2>9. \A j \in Keys : flight[j].step = "done" => flight'[j].step = "done"
    BY <1>0, <1>3, <2>3
  <2>10. ReadyLeads'
    BY <2>9 DEF ReadyLeads
  <2>11. \A j \in Keys : \/ flight'[j].step = flight[j].step /\ flight'[j].at = flight[j].at
                         \/ flight[j].step = "absent" /\ flight'[j] = Begun(j)
                         \/ /\ flight[j].step = "join" /\ flight'[j].at = flight[j].at
                            /\ flight'[j].step \in {"base", "based"}
    BY <1>0, <2>2, <2>3 DEF Started
  <2> QED
    BY <2>3, <2>8, <2>10, <2>11, EntriesChange DEF HubTypeOK
<1> QED
  BY <1>2, <1>3

\* The detailed fetch that leads its base series removes the completed entry.
LEMMA TakeBaseHubInv ==
  ASSUME HubInv, NEW k \in Keys, TakeBase(k)
  PROVE  HubInv'
<1> USE DEF HubInv, TakeBase
<1>0. PICK b \in Keys : b = BaseOf(k) /\ b # k /\ Kind(b) = "base" /\ Kind(k) = "enriched"
  BY KeyFacts DEF StepsOfKind
<1> DEFINE f == [flight[k] EXCEPT !.leads = FALSE]
<1>1. flight[k] \in Flight
  BY DEF HubTypeOK
<1>2. flight' = [flight EXCEPT ![k] = f, ![b] = NoFlight]
  BY <1>0 DEF HubTypeOK
<1>3. f \in Flight /\ f.step = flight[k].step /\ f.at = flight[k].at /\ ~f.leads
  BY <1>1 DEF Flight
<1> HIDE DEF f
<1>4. /\ flight' \in [Keys -> Flight] /\ flight'[k] = f /\ flight'[b] = NoFlight
      /\ \A j \in Keys \ {k, b} : flight'[j] = flight[j]
  BY <1>0, <1>2, <1>3, EntryTypes DEF HubTypeOK
<1>5. DetailLeads(k, b)
  BY <1>0 DEF DetailLeads
<1>6. \A c \in Callers : ~RequestLeads(c, b)
  BY <1>5 DEF LeadersAlone
<1>7. \A e, j \in Keys : DetailLeads(e, j)' => DetailLeads(e, j) /\ j # b
  <2> SUFFICES ASSUME NEW e \in Keys, NEW j \in Keys, DetailLeads(e, j)'
               PROVE  DetailLeads(e, j) /\ j # b
    OBVIOUS
  <2>1. e # k /\ e # b
    BY <1>3, <1>4, EntryTypes DEF DetailLeads
  <2>2. DetailLeads(e, j) /\ Kind(e) = "enriched"
    BY <1>4, <2>1 DEF DetailLeads
  <2>3. BaseOf(e) # BaseOf(k)
    BY <1>0, <2>1, <2>2 DEF BaseOf, Kind, Keys
  <2> QED
    BY <1>0, <2>2, <2>3 DEF DetailLeads
<1>8. \A c \in Callers, j \in Keys : RequestLeads(c, j)' = RequestLeads(c, j)
  BY DEF RequestLeads
<1>9. \A j \in Keys \ {b} : Started(j)' = Started(j)
  BY <1>3, <1>4 DEF Started
<1>10. LeadersAlone'
  BY <1>6, <1>7, <1>8, <1>9 DEF LeadersAlone
<1>11. \A j \in Keys \ {b} : flight'[j].step = flight[j].step /\ flight'[j].at = flight[j].at
  BY <1>3, <1>4
<1>12. ReadyLeads'
  BY <1>6, <1>11 DEF ReadyLeads, RequestLeads
<1>13. ~AtGate(b)
  BY <1>0 DEF AtGate, Gated
<1> QED
  BY <1>4, <1>10, <1>11, <1>12, <1>13, EntriesChange DEF HubTypeOK

\* Time passes over a completed entry.
LEMMA GrowsOldHubInv ==
  ASSUME HubInv, NEW k \in Keys, GrowsOld(k)
  PROVE  HubInv'
<1> USE DEF HubInv, GrowsOld
<1> DEFINE f == [flight[k] EXCEPT !.old = TRUE]
<1>1. flight' = [flight EXCEPT ![k] = f] /\ flight[k] \in Flight
  BY DEF HubTypeOK
<1>2. f \in Flight /\ f.step = flight[k].step /\ f.at = flight[k].at /\ f.leads = flight[k].leads
  BY <1>1 DEF Flight
<1> HIDE DEF f
<1>3. /\ flight' \in [Keys -> Flight]
      /\ \A j \in Keys : /\ flight'[j].step = flight[j].step /\ flight'[j].at = flight[j].at
                         /\ flight'[j].leads = flight[j].leads
  BY <1>1, <1>2 DEF HubTypeOK
<1>4. LeadersAlone' /\ ReadyLeads'
  BY <1>3, LeadsUnchanged
<1> QED
  BY <1>3, <1>4, EntriesChange DEF HubTypeOK

LEMMA ExpireHubInv ==
  ASSUME HubInv, NEW k \in Keys, Expire(k)
  PROVE  HubInv'
<1> USE DEF HubInv, Expire
<1>1. cached' \subseteq Keys /\ IsFiniteSet(cached') /\ Cardinality(cached') <= CacheSize
  <2>1. IsFiniteSet(cached') /\ Cardinality(cached') <= Cardinality(cached)
    BY FS_Subset
  <2>2. Cardinality(cached') \in Nat /\ Cardinality(cached) \in Nat /\ CacheSize \in Nat
    BY <2>1, FS_CardinalityType, HubAssumption
  <2> QED
    BY <2>1, <2>2 DEF HubTypeOK
<1>2. HubTypeOK'
  BY <1>1, OfferKept DEF HubTypeOK
<1>3. StepsOfKind'
  BY OfferKept DEF StepsOfKind
<1>4. LeadersAlone' /\ ReadyLeads'
  BY LeadsUnchanged
<1>5. QueuesLined' /\ AskedUnopened'
  BY GatesUntouched DEF AtGate
<1> QED
  BY <1>1, <1>2, <1>3, <1>4, <1>5

LEMMA CooldownPassesHubInv ==
  ASSUME HubInv, NEW s \in Circuits, CooldownPasses(s)
  PROVE  HubInv'
<1> USE DEF HubInv, CooldownPasses
<1>1. circuit[s] \in Circuit
  BY DEF HubTypeOK
<1>2. LET c == [circuit[s] EXCEPT !.cooling = FALSE] IN c \in Circuit /\ c.state = circuit[s].state
  BY <1>1 DEF Circuit
<1>3. /\ circuit' \in [Circuits -> Circuit]
      /\ \A x \in Circuits : circuit'[x].state = circuit[x].state
  BY <1>2 DEF HubTypeOK
<1>4. HubTypeOK'
  BY <1>3, OfferKept DEF HubTypeOK
<1>5. StepsOfKind'
  BY OfferKept DEF StepsOfKind
<1>6. LeadersAlone' /\ ReadyLeads'
  BY LeadsUnchanged
<1>7. QueuesLined'
  BY DEF QueuesLined, AtGate
<1>8. AskedUnopened'
  <2> SUFFICES ASSUME NEW j \in Keys, Kind(j) \in Gated, flight[j].step = "call"
               PROVE  circuit'[Source(j)'].state # "open"
    BY DEF AskedUnopened
  <2>1. Source(j)' = Source(j) /\ Source(j) \in Circuits
    BY GatedSource, OfferKept, OptionalCircuits DEF Source, StepsOfKind, Optional
  <2> QED
    BY <1>3, <2>1 DEF AskedUnopened
<1> QED
  BY <1>4, <1>5, <1>6, <1>7, <1>8

-----------------------------------------------------------------------------
LEMMA InitHubInv == HubInit => HubInv
<1> SUFFICES ASSUME HubInit PROVE HubInv
  OBVIOUS
<1> USE DEF HubInit
<1>1. ClosedCircuit \in Circuit
  BY FailureThresholdAssumption DEF ClosedCircuit, Circuit, CircuitState
<1>2. \A k \in Keys : flight[k].step = "absent" /\ flight[k].at = 1 /\ ~flight[k].leads
  BY DEF NoFlight
<1>3. \A c \in Callers : caller[c].state = "idle" /\ ~caller[c].leader
  BY EntryTypes
<1>4. IsFiniteSet(cached) /\ Cardinality(cached) <= CacheSize
  BY FS_EmptySet, HubAssumption
<1>5. \A k \in Keys : Len(Sources(k)) \in Nat
  <2> SUFFICES ASSUME NEW k \in Keys PROVE Len(Sources(k)) \in Nat
    OBVIOUS
  <2>1. offer.chain \in Seq(STRING)
    BY HubAssumption
  <2>2. CASE Kind(k) \in {"base", "quote"}
    BY <2>1, <2>2 DEF Sources
  <2>3. CASE Kind(k) = "enriched"
    BY <2>3 DEF Sources
  <2>4. CASE Kind(k) = "fund_flow"
    BY <2>4 DEF Sources
  <2>5. CASE Kind(k) = "breadth"
    BY <2>5 DEF Sources
  <2> QED
    BY <2>2, <2>3, <2>4, <2>5, KeyFacts
<1>6. HubTypeOK
  <2>1. circuit \in [Circuits -> Circuit]
    BY <1>1
  <2>2. flight \in [Keys -> Flight] /\ caller \in [Callers -> Caller]
    BY EntryTypes
  <2>3. gate \in [Gated -> Seq(Keys)]
    OBVIOUS
  <2>4. \A k \in Keys : flight[k].at <= Len(Sources(k)) + 1
    BY <1>2, <1>5
  <2> QED
    BY <1>4, <2>1, <2>2, <2>3, <2>4 DEF HubTypeOK
<1>7. StepsOfKind /\ LeadersAlone /\ ReadyLeads /\ AskedUnopened
  BY <1>2, <1>3
     DEF StepsOfKind, LeadersAlone, ReadyLeads, AskedUnopened, RequestLeads, DetailLeads
<1>8. QueuesLined
  BY <1>2 DEF QueuesLined, AtGate
<1> QED
  BY <1>4, <1>6, <1>7, <1>8 DEF HubInv

LEMMA HubStep == HubInv /\ [HubNext]_hubVars => HubInv'
<1> SUFFICES ASSUME HubInv, [HubNext]_hubVars PROVE HubInv'
  OBVIOUS
<1>1. ASSUME NEW k \in Keys, Progress(k) PROVE HubInv'
  BY <1>1, TryProviderHubInv, ChainFailedHubInv, ProviderAnswersHubInv, ProviderFailsHubInv,
     SupplementAnswersHubInv, JoinBaseHubInv, TakeBaseHubInv, BaseTakenHubInv, AskGateHubInv,
     EnterGateHubInv, GatedAnswersHubInv DEF Progress
<1>2. CASE UNCHANGED hubVars
  <2> USE <1>2 DEF hubVars, HubInv
  <2>1. HubTypeOK' /\ StepsOfKind'
    BY OfferKept DEF HubTypeOK, StepsOfKind
  <2>2. LeadersAlone' /\ ReadyLeads'
    BY LeadsUnchanged
  <2>3. QueuesLined' /\ AskedUnopened'
    BY GatesUntouched DEF AtGate
  <2> QED
    BY <2>1, <2>2, <2>3
<1> QED
  BY <1>1, <1>2, CallHubInv, ReturnHubInv, DropHubInv, ExpireHubInv, GrowsOldHubInv,
     CooldownPassesHubInv DEF HubNext

\* Whatever is requested, dropped and answered, the tables, the circuits and the
\* queues of the hub are well-formed and the cache stays within its size.
THEOREM HubIsWellFormed == HubSpec => []HubTypeOK
<1>1. HubInv => HubTypeOK
  BY DEF HubInv
<1> QED
  BY InitHubInv, HubStep, <1>1, PTL DEF HubSpec

\* In every behaviour of the hub a fetch has at most one leader, and what a
\* leader is going to remove is the entry of its own fetch (single_flight).
THEOREM HubOneLeader == HubSpec => []OneLeader
<1>1. HubInv => OneLeader
  <2> SUFFICES ASSUME HubInv, NEW k \in Keys
               PROVE  Cardinality(Leaders(k)) <= 1 /\ (Leaders(k) # {} => Started(k))
    BY DEF OneLeader
  <2> USE DEF HubInv
  <2>1. \A e, f \in Keys : DetailLeads(e, k) /\ DetailLeads(f, k) => e = f
    BY DEF DetailLeads, BaseOf, Kind, Keys
  <2>2. \A x \in Leaders(k) : \/ x \in Callers /\ RequestLeads(x, k)
                              \/ x \in Keys /\ DetailLeads(x, k)
    BY DEF Leaders, RequestLeads, DetailLeads
  <2>3. \A x, y \in Leaders(k) : x = y
    BY <2>1, <2>2 DEF LeadersAlone
  <2>4. CASE Leaders(k) = {}
    BY <2>4, FS_EmptySet
  <2>5. CASE Leaders(k) # {}
    <3>1. PICK x : Leaders(k) = {x}
      BY <2>3, <2>5
    <3>2. Cardinality(Leaders(k)) = 1
      BY <3>1, FS_Singleton
    <3>3. Started(k)
      BY <2>2, <2>5 DEF LeadersAlone
    <3> QED
      BY <3>2, <3>3
  <2> QED
    BY <2>4, <2>5
<1> QED
  BY InitHubInv, HubStep, <1>1, PTL DEF HubSpec

\* In every behaviour of the hub, the one who asks an optional upstream holds its
\* permit and finds its circuit not open (enrich_kline, fetch_fund_flow_daily).
THEOREM HubQueueDegrades == HubSpec => []QueueDegrades
<1>1. HubInv => QueueDegrades
  <2> SUFFICES ASSUME HubInv, NEW k \in Keys, Kind(k) \in Gated, flight[k].step = "call"
               PROVE  circuit[Source(k)].state # "open" /\ Head(gate[Kind(k)]) = k
    BY DEF QueueDegrades
  <2> USE DEF HubInv
  <2>1. circuit[Source(k)].state # "open"
    BY DEF AskedUnopened
  <2>2. gate[Kind(k)] \in Seq(Keys) /\ gate[Kind(k)] # <<>> /\ gate[Kind(k)][1] = k
    BY DEF QueuesLined, AtGate, HubTypeOK
  <2> QED
    BY <2>1, <2>2
<1> QED
  BY InitHubInv, HubStep, <1>1, PTL DEF HubSpec

-----------------------------------------------------------------------------
\* The pool.  Those in a queue, and that each is there once.
InLine(s, w) == \E i \in 1..Len(s) : s[i] = w
OnceEach(s) == \A i, j \in 1..Len(s) : s[i] = s[j] => i = j
Heads(s, w) == Len(s) > 0 /\ s[1] = w

Talking == {"connect", "write", "read"}
HoldsLock(w) == walker[w].pc \in Talking \/ (walker[w].pc = "block" /\ w = Heartbeat)
Queues(w) == walker[w].pc = "lock" \/ HoldsLock(w)

Ranked == {Ranking[i] : i \in Nat}
PoolWalker ==
  [pc : {"idle", "lock", "connect", "write", "read", "block"}, at : Slots, tried : Nat,
   failed : Ranked, got : {"nothing_wrong", "late", "other"}]
PoolSlot ==
  [server : Ranked, conn : {"open", "broken", "none"}, unread : Seq(Walkers \cup {Dropped}),
   spoiled : BOOLEAN]

PoolShaped ==
  /\ slot \in [Slots -> PoolSlot] /\ waiting \in [Slots -> Seq(Walkers)]
  /\ walker \in [Walkers -> PoolWalker]

\* Who waits for a lock or holds it is in its queue, once, and in no other; who
\* holds it is at the head.
LinesKept ==
  \A i \in Slots :
    /\ OnceEach(waiting[i])
    /\ \A w \in Walkers : InLine(waiting[i], w) <=> Queues(w) /\ walker[w].at = i

HeadsHold == \A w \in Walkers : HoldsLock(w) => Heads(waiting[walker[w].at], w)

\* What is unread on a connection is the packet of the one who reads, unless a
\* request was dropped on it.
ReadsAt(w, i) == walker[w].pc = "read" /\ walker[w].at = i
AnswersMatch ==
  \A i \in Slots :
    /\ ~slot[i].spoiled /\ (\A w \in Walkers : ~ReadsAt(w, i)) => slot[i].unread = <<>>
    /\ \A w \in Walkers : ReadsAt(w, i) =>
         slot[i].unread # <<>> /\ (~slot[i].spoiled => slot[i].unread = <<w>>)

PoolInv == PoolShaped /\ LinesKept /\ HeadsHold /\ AnswersMatch /\ NoMixedAnswers

-----------------------------------------------------------------------------
\* Queues.
LEMMA QueueJoined ==
  ASSUME NEW S, NEW s \in Seq(S), NEW w \in S, ~InLine(s, w), OnceEach(s)
  PROVE  /\ Append(s, w) \in Seq(S) /\ OnceEach(Append(s, w))
         /\ \A v : InLine(Append(s, w), v) <=> InLine(s, v) \/ v = w
         /\ \A v : Heads(s, v) => Heads(Append(s, w), v)
<1>1. /\ Append(s, w) \in Seq(S) /\ Len(Append(s, w)) = Len(s) + 1
      /\ \A i \in 1..Len(s) : Append(s, w)[i] = s[i]
      /\ Append(s, w)[Len(s) + 1] = w /\ Len(s) \in Nat
  BY AppendProperties
<1> DEFINE t == Append(s, w)
<1> HIDE DEF t
<1>2. OnceEach(t)
  BY <1>1 DEF OnceEach, InLine, t
<1>3. \A v : InLine(t, v) <=> InLine(s, v) \/ v = w
  BY <1>1 DEF InLine, t
<1>4. \A v : Heads(s, v) => Heads(t, v)
  BY <1>1 DEF Heads, t
<1> QED
  BY <1>1, <1>2, <1>3, <1>4 DEF t

LEMMA QueueLeft ==
  ASSUME NEW S, NEW s \in Seq(S), NEW w \in S, OnceEach(s)
  PROVE  /\ RemoveFirst(s, w) \in Seq(S) /\ OnceEach(RemoveFirst(s, w))
         /\ \A v : InLine(RemoveFirst(s, w), v) <=> InLine(s, v) /\ v # w
         /\ \A v : v # w /\ Heads(s, v) => Heads(RemoveFirst(s, w), v)
<1> DEFINE t == RemoveFirst(s, w)
<1>0. Len(s) \in Nat
  OBVIOUS
<1>1. CASE ~InLine(s, w)
  <2>1. t = s
    BY <1>1 DEF InLine, RemoveFirst
  <2> HIDE DEF t
  <2>2. \A v : InLine(s, v) => v # w
    BY <1>1
  <2> QED
    BY <2>1, <2>2 DEF t
<1>2. CASE InLine(s, w)
  <2>1. PICK k \in 1..Len(s) : s[k] = w
    BY <1>2 DEF InLine
  <2> DEFINE I == {i \in 1..Len(s) : s[i] = w}
  <2>2. I = {k}
    BY <2>1 DEF OnceEach
  <2>3. Min(I) = k
    BY <2>2, <2>1 DEF Min
  <2>4. SelectInSeq(s, LAMBDA v : v = w) = k
    BY <2>2, <2>3 DEF SelectInSeq
  <2>5. t = SubSeq(s, 1, k - 1) \o SubSeq(s, k + 1, Len(s))
    BY <1>2, <2>4 DEF InLine, RemoveFirst, RemoveAt
  <2> DEFINE a == SubSeq(s, 1, k - 1)
             b == SubSeq(s, k + 1, Len(s))
  <2>6. a \in Seq(S) /\ Len(a) = k - 1 /\ \A i \in 1..(k - 1) : a[i] = s[i]
    <3>1. \A i \in 1..(k - 1) : s[i] \in S
      BY <1>0, <2>1
    <3>2. 1 \in Int /\ k - 1 \in Int /\ k - 1 >= 0
      BY <2>1
    <3>3. /\ a \in Seq(S) /\ Len(a) = IF 1 <= k - 1 THEN k - 1 - 1 + 1 ELSE 0
          /\ \A i \in 1 .. k - 1 - 1 + 1 : a[i] = s[1 + i - 1]
      BY <3>1, <3>2, SubSeqProperties
    <3> QED
      BY <2>1, <3>2, <3>3
  <2>7. b \in Seq(S) /\ Len(b) = Len(s) - k /\ \A i \in 1..(Len(s) - k) : b[i] = s[k + i]
    <3>1. \A i \in (k + 1)..Len(s) : s[i] \in S
      BY <1>0, <2>1
    <3>2. k + 1 \in Int /\ Len(s) \in Int
      BY <1>0, <2>1
    <3>3. /\ b \in Seq(S) /\ Len(b) = IF k + 1 <= Len(s) THEN Len(s) - (k + 1) + 1 ELSE 0
          /\ \A i \in 1 .. Len(s) - (k + 1) + 1 : b[i] = s[k + 1 + i - 1]
      BY <3>1, <3>2, SubSeqProperties
    <3> QED
      BY <1>0, <2>1, <3>3
  <2> HIDE DEF a, b, t
  <2>8. /\ t \in Seq(S) /\ Len(t) = Len(a) + Len(b)
        /\ \A i \in 1 .. Len(a) + Len(b) : t[i] = IF i <= Len(a) THEN a[i] ELSE b[i - Len(a)]
    <3>1. t = a \o b
      BY <2>5 DEF a, b
    <3> QED
      BY <2>6, <2>7, <3>1, ConcatProperties
  <2>9. /\ Len(t) = Len(s) - 1
        /\ \A i \in 1..Len(t) : t[i] = IF i < k THEN s[i] ELSE s[i + 1]
    <3>1. Len(t) = Len(s) - 1
      BY <1>0, <2>1, <2>6, <2>7, <2>8
    <3>2. ASSUME NEW i \in 1..Len(t), i < k PROVE t[i] = s[i]
      <4>1. i <= Len(a) /\ i \in 1..(k - 1)
        BY <1>0, <2>1, <2>6, <3>2
      <4> QED
        BY <2>6, <2>7, <2>8, <4>1
    <3>3. ASSUME NEW i \in 1..Len(t), ~(i < k) PROVE t[i] = s[i + 1]
      <4> DEFINE j == i - Len(a)
      <4>1. ~(i <= Len(a)) /\ j \in 1..(Len(s) - k) /\ k + j = i + 1
        BY <1>0, <2>1, <2>6, <3>1, <3>3
      <4>2. t[i] = b[j]
        BY <1>0, <2>6, <2>7, <2>8, <4>1
      <4> QED
        BY <2>7, <4>1, <4>2
    <3> QED
      BY <3>1, <3>2, <3>3
  <2>10. OnceEach(t)
    <3>1. ASSUME NEW i \in 1..Len(t), NEW j \in 1..Len(t), t[i] = t[j], i # j PROVE FALSE
      <4> DEFINE p == IF i < k THEN i ELSE i + 1
                 q == IF j < k THEN j ELSE j + 1
      <4>1. Len(s) \in Nat /\ Len(t) = Len(s) - 1
        BY <1>0, <2>9
      <4>2. p \in 1..Len(s) /\ q \in 1..Len(s) /\ p # q
        BY <2>1, <3>1, <4>1
      <4>3. s[p] = t[i] /\ s[q] = t[j]
        BY <2>9
      <4> QED
        BY <1>0, <3>1, <4>2, <4>3 DEF OnceEach
    <3> QED
      BY <3>1 DEF OnceEach
  <2>11. \A v : InLine(t, v) <=> InLine(s, v) /\ v # w
    <3>1. ASSUME NEW v, InLine(t, v) PROVE InLine(s, v) /\ v # w
      <4>1. PICK i \in 1..Len(t) : t[i] = v
        BY <3>1 DEF InLine
      <4> DEFINE j == IF i < k THEN i ELSE i + 1
      <4>2. j \in 1..Len(s) /\ j # k /\ s[j] = v
        BY <1>0, <2>1, <2>9, <4>1
      <4> QED
        BY <2>1, <4>2 DEF InLine, OnceEach
    <3>2. ASSUME NEW v, InLine(s, v), v # w PROVE InLine(t, v)
      <4>1. PICK j \in 1..Len(s) : s[j] = v
        BY <3>2 DEF InLine
      <4> DEFINE i == IF j < k THEN j ELSE j - 1
      <4>2. i \in 1..Len(t) /\ t[i] = v
        BY <1>0, <2>1, <2>9, <3>2, <4>1
      <4> QED
        BY <4>2 DEF InLine
    <3> QED
      BY <3>1, <3>2
  <2>12. \A v : v # w /\ Heads(s, v) => Heads(t, v)
    BY <1>0, <2>1, <2>9 DEF Heads
  <2> QED
    BY <2>8, <2>10, <2>11, <2>12 DEF t
<1> QED
  BY <1>1, <1>2

\* The queues without a walker.
LEMMA Withdrawn ==
  ASSUME PoolShaped, LinesKept, NEW w \in Walkers
  PROVE  /\ WithoutMe(w) \in [Slots -> Seq(Walkers)]
         /\ \A i \in Slots :
              /\ OnceEach(WithoutMe(w)[i])
              /\ \A v \in Walkers : InLine(WithoutMe(w)[i], v) <=> InLine(waiting[i], v) /\ v # w
              /\ \A v : v # w /\ Heads(waiting[i], v) => Heads(WithoutMe(w)[i], v)
<1> DEFINE k == walker[w].at
           q == waiting[k]
<1>1. k \in Slots /\ q \in Seq(Walkers) /\ OnceEach(q)
  BY DEF PoolShaped, PoolWalker, LinesKept
<1>2. /\ RemoveFirst(q, w) \in Seq(Walkers) /\ OnceEach(RemoveFirst(q, w))
      /\ \A v : InLine(RemoveFirst(q, w), v) <=> InLine(q, v) /\ v # w
      /\ \A v : v # w /\ Heads(q, v) => Heads(RemoveFirst(q, w), v)
  BY <1>1, QueueLeft
<1>3. WithoutMe(w) = [waiting EXCEPT ![k] = RemoveFirst(q, w)]
  BY DEF WithoutMe
<1> DEFINE t == RemoveFirst(q, w)
           mid == WithoutMe(w)
<1>4. mid \in [Slots -> Seq(Walkers)] /\ mid[k] = t /\ \A i \in Slots \ {k} : mid[i] = waiting[i]
  BY <1>1, <1>2, <1>3 DEF PoolShaped
<1>5. \A i \in Slots \ {k} : ~InLine(waiting[i], w)
  BY DEF LinesKept
<1> HIDE DEF t, mid
<1>6. ASSUME NEW i \in Slots
      PROVE  /\ OnceEach(mid[i])
             /\ \A v \in Walkers : InLine(mid[i], v) <=> InLine(waiting[i], v) /\ v # w
             /\ \A v : v # w /\ Heads(waiting[i], v) => Heads(mid[i], v)
  <2>1. CASE i = k
    BY <1>2, <1>4, <2>1 DEF t
  <2>2. CASE i # k
    <3>1. mid[i] = waiting[i] /\ OnceEach(waiting[i]) /\ ~InLine(waiting[i], w)
      BY <1>4, <1>5, <2>2 DEF LinesKept
    <3>2. \A v \in Walkers : InLine(waiting[i], v) => v # w
      BY <3>1
    <3> QED
      BY <3>1, <3>2
  <2> QED
    BY <2>1, <2>2
<1> QED
  BY <1>4, <1>6 DEF mid

\* What becomes of the queues when a walker moves: it stays where it is, leaves,
\* or leaves and joins another.
LEMMA StaysInLine ==
  ASSUME PoolShaped, LinesKept, HeadsHold, NEW w \in Walkers, NEW r \in PoolWalker,
         walker' = [walker EXCEPT ![w] = r], r.at = walker[w].at,
         waiting' = waiting, Queues(w)' = Queues(w),
         HoldsLock(w)' => Heads(waiting[walker[w].at], w)
  PROVE  LinesKept' /\ HeadsHold'
<1>1. walker'[w] = r /\ \A v \in Walkers \ {w} : walker'[v] = walker[v]
  BY DEF PoolShaped
<1>2. \A v \in Walkers : /\ Queues(v)' = Queues(v) /\ walker'[v].at = walker[v].at
                         /\ v # w => HoldsLock(v)' = HoldsLock(v)
  BY <1>1 DEF Queues, HoldsLock
<1>3. LinesKept'
  <2>1. \A i \in Slots, v \in Walkers :
          Queues(v)' /\ walker'[v].at = i <=> Queues(v) /\ walker[v].at = i
    BY <1>2
  <2> QED
    BY <2>1 DEF LinesKept
<1>4. HeadsHold'
  BY <1>1, <1>2 DEF HeadsHold
<1> QED
  BY <1>3, <1>4

LEMMA LeavesLine ==
  ASSUME PoolShaped, LinesKept, HeadsHold, NEW w \in Walkers, NEW r \in PoolWalker,
         walker' = [walker EXCEPT ![w] = r], waiting' = WithoutMe(w), ~Queues(w)'
  PROVE  /\ LinesKept' /\ HeadsHold' /\ waiting' \in [Slots -> Seq(Walkers)]
<1>1. walker'[w] = r /\ \A v \in Walkers \ {w} : walker'[v] = walker[v]
  BY DEF PoolShaped
<1>2. \A v \in Walkers \ {w} : /\ Queues(v)' = Queues(v) /\ walker'[v].at = walker[v].at
                               /\ HoldsLock(v)' = HoldsLock(v) /\ walker[v].at \in Slots
  BY <1>1 DEF Queues, HoldsLock, PoolShaped, PoolWalker
<1>3. /\ waiting' \in [Slots -> Seq(Walkers)]
      /\ \A i \in Slots :
           /\ OnceEach(waiting'[i])
           /\ \A v \in Walkers : InLine(waiting'[i], v) <=> InLine(waiting[i], v) /\ v # w
           /\ \A v : v # w /\ Heads(waiting[i], v) => Heads(waiting'[i], v)
  BY Withdrawn
<1>4. ASSUME NEW i \in Slots, NEW v \in Walkers
      PROVE  InLine(waiting'[i], v) <=> Queues(v)' /\ walker'[v].at = i
  <2>1. CASE v = w
    BY <1>3, <2>1
  <2>2. CASE v # w
    <3>1. InLine(waiting[i], v) <=> Queues(v) /\ walker[v].at = i
      BY DEF LinesKept
    <3> QED
      BY <1>2, <1>3, <2>2, <3>1
  <2> QED
    BY <2>1, <2>2
<1>5. LinesKept'
  BY <1>3, <1>4 DEF LinesKept
<1>6. ~HoldsLock(w)'
  BY DEF Queues
<1>7. HeadsHold'
  BY <1>2, <1>3, <1>6 DEF HeadsHold
<1> QED
  BY <1>3, <1>5, <1>7

LEMMA JoinsLine ==
  ASSUME PoolShaped, LinesKept, HeadsHold, NEW w \in Walkers, NEW r \in PoolWalker,
         NEW mid \in [Slots -> Seq(Walkers)],
         \A i \in Slots :
           /\ OnceEach(mid[i])
           /\ \A v \in Walkers : InLine(mid[i], v) <=> InLine(waiting[i], v) /\ v # w
           /\ \A v : v # w /\ Heads(waiting[i], v) => Heads(mid[i], v),
         walker' = [walker EXCEPT ![w] = r], r.pc = "lock",
         waiting' = [mid EXCEPT ![r.at] = Append(@, w)]
  PROVE  /\ LinesKept' /\ HeadsHold' /\ waiting' \in [Slots -> Seq(Walkers)]
<1> DEFINE k == r.at
           t == Append(mid[k], w)
<1>0. k \in Slots
  BY DEF PoolWalker
<1>1. walker'[w] = r /\ \A v \in Walkers \ {w} : walker'[v] = walker[v]
  BY DEF PoolShaped
<1>2. \A v \in Walkers \ {w} : /\ Queues(v)' = Queues(v) /\ walker'[v].at = walker[v].at
                               /\ HoldsLock(v)' = HoldsLock(v) /\ walker[v].at \in Slots
  BY <1>1 DEF Queues, HoldsLock, PoolShaped, PoolWalker
<1>3. ~InLine(mid[k], w)
  BY <1>0
<1>4. /\ t \in Seq(Walkers) /\ OnceEach(t)
      /\ \A v : InLine(t, v) <=> InLine(mid[k], v) \/ v = w
      /\ \A v : Heads(mid[k], v) => Heads(t, v)
  BY <1>0, <1>3, QueueJoined
<1>5. /\ waiting' \in [Slots -> Seq(Walkers)] /\ waiting'[k] = t
      /\ \A i \in Slots \ {k} : waiting'[i] = mid[i]
  BY <1>0, <1>4
<1> HIDE DEF t
<1>6. Queues(w)' /\ walker'[w].at = k /\ ~HoldsLock(w)'
  BY <1>1 DEF Queues, HoldsLock, Talking
<1>7. ASSUME NEW i \in Slots, NEW v \in Walkers
      PROVE  InLine(waiting'[i], v) <=> Queues(v)' /\ walker'[v].at = i
  <2>1. CASE v = w
    <3>1. InLine(waiting'[i], w) <=> i = k
      BY <1>4, <1>5
    <3> QED
      BY <1>6, <2>1, <3>1
  <2>2. CASE v # w
    <3>1. InLine(waiting[i], v) <=> Queues(v) /\ walker[v].at = i
      BY DEF LinesKept
    <3>2. InLine(mid[i], v) <=> InLine(waiting[i], v)
      BY <2>2
    <3>3. InLine(waiting'[i], v) <=> InLine(mid[i], v)
      BY <1>4, <1>5, <2>2
    <3> QED
      BY <1>2, <2>2, <3>1, <3>2, <3>3
  <2> QED
    BY <2>1, <2>2
<1>8. \A i \in Slots : OnceEach(waiting'[i])
  BY <1>4, <1>5
<1>9. LinesKept'
  BY <1>7, <1>8 DEF LinesKept
<1>10. ASSUME NEW v \in Walkers, HoldsLock(v)'
       PROVE  Heads(waiting'[walker'[v].at], v)
  <2>1. v # w /\ Heads(waiting[walker[v].at], v) /\ walker[v].at \in Slots
    BY <1>2, <1>6, <1>10 DEF HeadsHold
  <2>2. Heads(mid[walker[v].at], v)
    BY <2>1
  <2> QED
    BY <1>2, <1>4, <1>5, <2>1, <2>2
<1> QED
  BY <1>5, <1>9, <1>10 DEF HeadsHold

-----------------------------------------------------------------------------
\* The walkers.
LEMMA AtRestType ==
  AtRest \in PoolWalker /\ AtRest.pc = "idle" /\ AtRest.at = 1 /\ AtRest.got = "nothing_wrong"
<1>1. 1 \in Slots
  BY PoolAssumption DEF Slots
<1>2. Ranking[1] \in Ranked
  BY DEF Ranked
<1> QED
  BY <1>1, <1>2 DEF AtRest, PoolWalker

\* A walker that asks for the lock of a slot.
LEMMA AsksType ==
  ASSUME NEW i \in Slots
  PROVE  LET r == [AtRest EXCEPT !.pc = "lock", !.at = i] IN
           r \in PoolWalker /\ r.pc = "lock" /\ r.at = i /\ r.got = "nothing_wrong"
BY AtRestType DEF PoolWalker

LEMMA GoesOn ==
  ASSUME PoolShaped, LinesKept, HeadsHold, NEW w \in Walkers, NextSlot(w)
  PROVE  /\ LinesKept' /\ HeadsHold' /\ waiting' \in [Slots -> Seq(Walkers)]
         /\ \E r \in PoolWalker : /\ walker' = [walker EXCEPT ![w] = r]
                                  /\ r.pc \in {"idle", "lock"} /\ r.got = "nothing_wrong"
<1> DEFINE k == walker[w].at
<1>1. k \in Slots
  BY DEF PoolShaped, PoolWalker
<1>2. CASE k = PoolSize
  <2>1. walker' = [walker EXCEPT ![w] = AtRest] /\ waiting' = WithoutMe(w)
    BY <1>2 DEF NextSlot
  <2>2. ~Queues(w)'
    BY <2>1, AtRestType DEF Queues, HoldsLock, Talking, PoolShaped
  <2> QED
    BY <2>1, <2>2, AtRestType, LeavesLine
<1>3. CASE k # PoolSize
  <2> DEFINE r == [AtRest EXCEPT !.pc = "lock", !.at = k + 1]
             mid == WithoutMe(w)
  <2>1. walker' = [walker EXCEPT ![w] = r] /\ waiting' = [mid EXCEPT ![k + 1] = Append(@, w)]
    BY <1>3 DEF NextSlot
  <2>2. k + 1 \in Slots
    BY <1>1, <1>3, PoolAssumption DEF Slots
  <2>3. r \in PoolWalker /\ r.pc = "lock" /\ r.at = k + 1 /\ r.got = "nothing_wrong"
    BY <2>2, AsksType
  <2>4. /\ mid \in [Slots -> Seq(Walkers)]
        /\ \A i \in Slots :
             /\ OnceEach(mid[i])
             /\ \A v \in Walkers : InLine(mid[i], v) <=> InLine(waiting[i], v) /\ v # w
             /\ \A v : v # w /\ Heads(waiting[i], v) => Heads(mid[i], v)
    BY Withdrawn
  <2> HIDE DEF r, mid
  <2>5. waiting' = [mid EXCEPT ![r.at] = Append(@, w)]
    BY <2>1, <2>3
  <2> QED
    BY <2>1, <2>3, <2>4, <2>5, JoinsLine
<1> QED
  BY <1>2, <1>3

-----------------------------------------------------------------------------
\* The connections.

\* Two walkers do not hold the same lock.
LEMMA LockIsExclusive ==
  ASSUME HeadsHold, NEW v \in Walkers, NEW w \in Walkers, HoldsLock(v), HoldsLock(w),
         walker[v].at = walker[w].at
  PROVE  v = w
BY DEF HeadsHold, Heads

\* A step of a walker that talks to nobody.
LEMMA QuietStep ==
  ASSUME PoolInv, NEW w \in Walkers, NEW r \in PoolWalker, walker' = [walker EXCEPT ![w] = r],
         walker[w].pc # "read", r.pc # "read", r.got # "other", slot' = slot
  PROVE  AnswersMatch' /\ NoMixedAnswers'
<1>1. walker'[w] = r /\ \A v \in Walkers \ {w} : walker'[v] = walker[v]
  BY DEF PoolInv, PoolShaped
<1>2. \A v \in Walkers, i \in Slots : ReadsAt(v, i)' <=> ReadsAt(v, i)
  BY <1>1 DEF ReadsAt
<1>3. AnswersMatch'
  BY <1>2 DEF PoolInv, AnswersMatch
<1>4. NoMixedAnswers'
  BY <1>1 DEF PoolInv, NoMixedAnswers
<1> QED
  BY <1>3, <1>4

\* A step of the one who holds the lock of a slot.
LEMMA SlotStep ==
  ASSUME PoolInv, NEW w \in Walkers, NEW r \in PoolWalker, walker' = [walker EXCEPT ![w] = r],
         HoldsLock(w), NEW s \in PoolSlot, slot' = [slot EXCEPT ![walker[w].at] = s],
         r.got # "other",
         r.pc = "read" => /\ r.at = walker[w].at /\ s.unread # <<>>
                          /\ ~s.spoiled => s.unread = <<w>>,
         r.pc # "read" /\ ~s.spoiled => s.unread = <<>>
  PROVE  /\ AnswersMatch' /\ NoMixedAnswers' /\ slot' \in [Slots -> PoolSlot]
<1> DEFINE k == walker[w].at
<1>1. walker'[w] = r /\ \A v \in Walkers \ {w} : walker'[v] = walker[v]
  BY DEF PoolInv, PoolShaped
<1>2. k \in Slots /\ slot' \in [Slots -> PoolSlot] /\ slot'[k] = s
        /\ \A i \in Slots \ {k} : slot'[i] = slot[i]
  BY DEF PoolInv, PoolShaped, PoolWalker
<1>3. \A v \in Walkers \ {w} : ~ReadsAt(v, k)
  BY LockIsExclusive DEF PoolInv, ReadsAt, HoldsLock, Talking
<1>4. /\ \A v \in Walkers \ {w}, i \in Slots : ReadsAt(v, i)' <=> ReadsAt(v, i)
      /\ \A i \in Slots \ {k} : ~ReadsAt(w, i) /\ ~ReadsAt(w, i)'
      /\ ReadsAt(w, k)' <=> r.pc = "read"
  BY <1>1 DEF ReadsAt
<1>5. ASSUME NEW i \in Slots
      PROVE  /\ ~slot'[i].spoiled /\ (\A v \in Walkers : ~ReadsAt(v, i)') => slot'[i].unread = <<>>
             /\ \A v \in Walkers : ReadsAt(v, i)' =>
                  slot'[i].unread # <<>> /\ (~slot'[i].spoiled => slot'[i].unread = <<v>>)
  <2>1. CASE i = k
    <3>4. ASSUME NEW v \in Walkers, v # w PROVE ~ReadsAt(v, i)'
      <4>1. ~ReadsAt(v, i)
        BY <1>3, <2>1, <3>4
      <4> QED
        BY <1>4, <3>4, <4>1
    <3>1. slot'[i] = s /\ (ReadsAt(w, i)' <=> r.pc = "read")
            /\ \A v \in Walkers : ReadsAt(v, i)' => v = w
      <4>1. ReadsAt(w, i)' <=> r.pc = "read"
        BY <1>1, <2>1 DEF ReadsAt
      <4>2. slot'[i] = s
        BY <1>2, <2>1
      <4> QED
        BY <3>4, <4>1, <4>2
    <3>2. CASE r.pc = "read"
      <4>1. s.unread # <<>> /\ (~s.spoiled => s.unread = <<w>>)
        BY <3>2
      <4> QED
        BY <3>1, <3>2, <4>1
    <3>3. CASE r.pc # "read"
      <4>1. \A v \in Walkers : ~ReadsAt(v, i)'
        BY <3>1, <3>3
      <4> QED
        BY <3>1, <3>3, <4>1
    <3> QED
      BY <3>2, <3>3
  <2>2. CASE i # k
    <3>1. slot'[i] = slot[i] /\ \A v \in Walkers : ReadsAt(v, i)' <=> ReadsAt(v, i)
      BY <1>2, <1>4, <2>2
    <3> QED
      BY <3>1 DEF PoolInv, AnswersMatch
  <2> QED
    BY <2>1, <2>2
<1>6. AnswersMatch'
  BY <1>5 DEF AnswersMatch
<1>7. NoMixedAnswers'
  BY <1>1 DEF PoolInv, NoMixedAnswers
<1> QED
  BY <1>2, <1>6, <1>7

\* While nobody reads from it, the answers of a connection are all taken.
LEMMA NobodyReads ==
  ASSUME PoolInv, NEW w \in Walkers, HoldsLock(w), walker[w].pc # "read",
         ~slot[walker[w].at].spoiled
  PROVE  slot[walker[w].at].unread = <<>>
<1>1. walker[w].at \in Slots
  BY DEF PoolInv, PoolShaped, PoolWalker
<1>2. \A v \in Walkers : ~ReadsAt(v, walker[w].at)
  BY LockIsExclusive DEF PoolInv, ReadsAt, HoldsLock, Talking
<1> QED
  BY <1>1, <1>2 DEF PoolInv, AnswersMatch

-----------------------------------------------------------------------------
LEMMA InitPoolInv == PoolInit => PoolInv
<1> SUFFICES ASSUME PoolInit PROVE PoolInv
  OBVIOUS
<1>1. \A i \in Slots : i \in Nat /\ Ranking[i] \in Ranked
  BY PoolAssumption DEF Slots, Ranked
<1>2. ASSUME NEW i \in Slots
      PROVE  slot[i] \in PoolSlot /\ slot[i].unread = <<>>
  <2> DEFINE c == IF Ranking[i] \in up THEN "open" ELSE "none"
  <2>1. slot[i] = [Connected(Ranking[i]) EXCEPT !.conn = c]
    BY DEF PoolInit
  <2>2. <<>> \in Seq(Walkers \cup {Dropped})
    OBVIOUS
  <2> QED
    BY <1>1, <2>1, <2>2 DEF Connected, PoolSlot
<1>3. slot \in [Slots -> PoolSlot]
  BY <1>2 DEF PoolInit
<1>4. /\ waiting \in [Slots -> Seq(Walkers)] /\ \A i \in Slots : waiting[i] = <<>>
      /\ walker \in [Walkers -> PoolWalker] /\ \A w \in Walkers : walker[w] = AtRest
  BY AtRestType DEF PoolInit
<1>5. \A w \in Walkers : ~Queues(w) /\ ~HoldsLock(w) /\ walker[w].pc = "idle"
  BY <1>4, AtRestType DEF Queues, HoldsLock, Talking
<1>6. LinesKept /\ HeadsHold
  BY <1>4, <1>5 DEF LinesKept, HeadsHold, OnceEach, InLine
<1>7. AnswersMatch /\ NoMixedAnswers
  BY <1>2, <1>4, <1>5, AtRestType DEF AnswersMatch, ReadsAt, NoMixedAnswers
<1> QED
  BY <1>3, <1>4, <1>6, <1>7 DEF PoolInv, PoolShaped

LEMMA WalkPoolInv ==
  ASSUME PoolInv, NEW w \in Walkers, Walk(w)
  PROVE  PoolInv'
<1> DEFINE r == [AtRest EXCEPT !.pc = "lock"]
<1>0. walker[w].pc = "idle" /\ slot' = slot
  BY DEF Walk, At
<1>1. r \in PoolWalker /\ r.pc = "lock" /\ r.at = 1 /\ r.got = "nothing_wrong"
  BY AtRestType DEF PoolWalker
<1>2. walker' = [walker EXCEPT ![w] = r] /\ waiting' = [waiting EXCEPT ![1] = Append(@, w)]
  BY DEF Walk
<1> HIDE DEF r
<1>3. \A i \in Slots :
        /\ OnceEach(waiting[i])
        /\ \A v \in Walkers : InLine(waiting[i], v) <=> InLine(waiting[i], v) /\ v # w
        /\ \A v : v # w /\ Heads(waiting[i], v) => Heads(waiting[i], v)
  BY <1>0 DEF PoolInv, LinesKept, Queues, HoldsLock, Talking
<1>4. LinesKept' /\ HeadsHold' /\ waiting' \in [Slots -> Seq(Walkers)]
  <2>1. waiting' = [waiting EXCEPT ![r.at] = Append(@, w)] /\ waiting \in [Slots -> Seq(Walkers)]
    BY <1>1, <1>2 DEF PoolInv, PoolShaped
  <2> QED
    BY <1>1, <1>2, <1>3, <2>1, JoinsLine DEF PoolInv
<1>5. AnswersMatch' /\ NoMixedAnswers'
  BY <1>0, <1>1, <1>2, QuietStep
<1>6. PoolShaped'
  BY <1>0, <1>1, <1>2, <1>4 DEF PoolInv, PoolShaped
<1> QED
  BY <1>4, <1>5, <1>6 DEF PoolInv

LEMMA TakeLockPoolInv ==
  ASSUME PoolInv, NEW w \in Walkers, TakeLock(w)
  PROVE  PoolInv'
<1>0. walker[w].pc = "lock" /\ slot' = slot /\ waiting' = waiting /\ walker[w] \in PoolWalker
        /\ walker[w].at \in Slots
  BY DEF TakeLock, At, PoolInv, PoolShaped, PoolWalker
<1>1. PICK pc \in {"connect", "write"} :
        walker' = [walker EXCEPT ![w].pc = pc, ![w].tried = 0]
  BY DEF TakeLock
<1> DEFINE zero == 0
           r == [walker[w] EXCEPT !.pc = pc, !.tried = zero]
<1>2. zero \in Nat
  OBVIOUS
<1>3. walker' = [walker EXCEPT ![w] = r]
  BY <1>1 DEF PoolInv, PoolShaped
<1> HIDE DEF zero
<1>4. r \in PoolWalker /\ r.pc = pc /\ r.at = walker[w].at /\ r.got = walker[w].got
  BY <1>0, <1>1, <1>2 DEF PoolWalker
<1> HIDE DEF r
<1>5. walker'[w] = r
  BY <1>3 DEF PoolInv, PoolShaped
<1>6. Queues(w)' = TRUE /\ Queues(w) = TRUE
  BY <1>0, <1>1, <1>4, <1>5 DEF Queues, HoldsLock, Talking
<1>7. Heads(waiting[walker[w].at], w)
  <2>1. InLine(waiting[walker[w].at], w) /\ waiting[walker[w].at] \in Seq(Walkers)
    BY <1>0, <1>6 DEF PoolInv, PoolShaped, LinesKept
  <2>2. Head(waiting[walker[w].at]) = w
    BY DEF TakeLock, Locked
  <2> QED
    BY <2>1, <2>2 DEF InLine, Heads
<1>8. LinesKept' /\ HeadsHold'
  BY <1>0, <1>3, <1>4, <1>6, <1>7, StaysInLine DEF PoolInv
<1>9. AnswersMatch' /\ NoMixedAnswers'
  <2>1. r.pc # "read" /\ r.got # "other" /\ walker[w].pc # "read"
    BY <1>0, <1>1, <1>4 DEF PoolInv, NoMixedAnswers
  <2> QED
    BY <1>0, <1>3, <1>4, <2>1, QuietStep
<1>10. PoolShaped'
  BY <1>0, <1>3, <1>4 DEF PoolInv, PoolShaped
<1> QED
  BY <1>8, <1>9, <1>10 DEF PoolInv

LEMMA SlotFields ==
  ASSUME NEW s \in PoolSlot
  PROVE  /\ \A u \in Seq(Walkers \cup {Dropped}) :
              LET t == [s EXCEPT !.unread = u] IN
                t \in PoolSlot /\ t.unread = u /\ t.spoiled = s.spoiled
         /\ LET t == [s EXCEPT !.conn = "none", !.unread = <<>>, !.spoiled = FALSE] IN
              t \in PoolSlot /\ t.unread = <<>> /\ ~t.spoiled
<1>1. \A u \in Seq(Walkers \cup {Dropped}) :
        LET t == [s EXCEPT !.unread = u] IN
          t \in PoolSlot /\ t.unread = u /\ t.spoiled = s.spoiled
  BY DEF PoolSlot
<1>2. \A e \in Seq(Walkers \cup {Dropped}) :
        LET t == [s EXCEPT !.conn = "none", !.unread = e, !.spoiled = FALSE] IN
          t \in PoolSlot /\ t.unread = e /\ ~t.spoiled
  BY DEF PoolSlot
<1>3. <<>> \in Seq(Walkers \cup {Dropped})
  OBVIOUS
<1> QED
  BY <1>1, <1>2, <1>3

\* The best candidate is one of the servers.
LEMMA BestCandidate ==
  ASSUME PoolShaped, NEW w \in Walkers, Candidates(w) # {}
  PROVE  LET i == CHOOSE i \in Candidates(w) : \A j \in Candidates(w) : i <= j IN
           i \in 1..Len(Ranking) /\ i \in Nat /\ Ranking[i] \in Ranked
<1> DEFINE C == Candidates(w)
<1>1. walker[w].tried \in Nat
  BY DEF PoolShaped, PoolWalker
<1>2. C \subseteq Nat /\ C \subseteq 1..Len(Ranking)
  BY <1>1, PoolAssumption DEF Candidates
<1>3. \E x \in C : \A y \in C : ~(<<y, x>> \in OpToRel(<, Nat))
  BY <1>2, NatLessThanWellFounded, WFMin
<1>4. \E x \in C : \A y \in C : x <= y
  <2>1. PICK x \in C : \A y \in C : ~(<<y, x>> \in OpToRel(<, Nat))
    BY <1>3
  <2>2. ASSUME NEW y \in C PROVE x <= y
    <3>1. x \in Nat /\ y \in Nat /\ ~(y < x)
      BY <1>2, <2>1 DEF OpToRel
    <3> QED
      BY <3>1
  <2> QED
    BY <2>2
<1> HIDE DEF C
<1>5. (CHOOSE i \in C : \A j \in C : i <= j) \in C
  BY <1>4
<1> QED
  BY <1>2, <1>5 DEF C, Ranked

LEMMA TryServerPoolInv ==
  ASSUME PoolInv, NEW w \in Walkers, TryServer(w)
  PROVE  PoolInv'
<1> DEFINE k == walker[w].at
<1>0. /\ walker[w].pc = "connect" /\ walker[w] \in PoolWalker /\ k \in Slots /\ HoldsLock(w)
      /\ walker[w].got # "other"
  BY DEF TryServer, At, PoolInv, PoolShaped, PoolWalker, HoldsLock, Talking, NoMixedAnswers
<1>1. CASE NextSlot(w) /\ slot' = slot
  <2>1. /\ LinesKept' /\ HeadsHold' /\ waiting' \in [Slots -> Seq(Walkers)]
        /\ \E r \in PoolWalker : /\ walker' = [walker EXCEPT ![w] = r]
                                 /\ r.pc \in {"idle", "lock"} /\ r.got = "nothing_wrong"
    BY <1>1, GoesOn DEF PoolInv
  <2>2. PICK r \in PoolWalker : /\ walker' = [walker EXCEPT ![w] = r]
                                /\ r.pc \in {"idle", "lock"} /\ r.got = "nothing_wrong"
    BY <2>1
  <2>3. AnswersMatch' /\ NoMixedAnswers'
    BY <1>0, <1>1, <2>2, QuietStep
  <2> QED
    BY <1>1, <2>1, <2>2, <2>3 DEF PoolInv, PoolShaped
<1>2. ASSUME Candidates(w) # {}
      PROVE  PoolInv'
  <2> DEFINE i == CHOOSE i \in Candidates(w) : \A j \in Candidates(w) : i <= j
             s == Connected(Ranking[i])
  <2>1. i \in Nat /\ Ranking[i] \in Ranked
    BY <1>2, BestCandidate DEF PoolInv
  <2>2. s \in PoolSlot /\ s.unread = <<>> /\ ~s.spoiled
    BY <2>1 DEF Connected, PoolSlot
  <2> HIDE DEF i
  <2>3. CASE Ranking[i] \in up
    <3>1. slot' = [slot EXCEPT ![k] = s]
            /\ IF w = Heartbeat THEN NextSlot(w) ELSE Becomes(w, "write") /\ waiting' = waiting
      BY <1>2, <2>3 DEF TryServer, i
    <3> HIDE DEF s
    <3>2. CASE w = Heartbeat
      <4>1. /\ LinesKept' /\ HeadsHold' /\ waiting' \in [Slots -> Seq(Walkers)]
            /\ \E r \in PoolWalker : /\ walker' = [walker EXCEPT ![w] = r]
                                     /\ r.pc \in {"idle", "lock"} /\ r.got = "nothing_wrong"
        BY <3>1, <3>2, GoesOn DEF PoolInv
      <4>2. PICK r \in PoolWalker : /\ walker' = [walker EXCEPT ![w] = r]
                                    /\ r.pc \in {"idle", "lock"} /\ r.got = "nothing_wrong"
        BY <4>1
      <4>3. /\ AnswersMatch' /\ NoMixedAnswers' /\ slot' \in [Slots -> PoolSlot]
        BY <1>0, <2>2, <3>1, <4>2, SlotStep
      <4> QED
        BY <4>1, <4>2, <4>3 DEF PoolInv, PoolShaped
    <3>3. CASE w # Heartbeat
      <4> DEFINE r == [walker[w] EXCEPT !.pc = "write"]
      <4>1. walker' = [walker EXCEPT ![w] = r] /\ waiting' = waiting
        BY <3>1, <3>3 DEF Becomes, PoolInv, PoolShaped
      <4>2. r \in PoolWalker /\ r.pc = "write" /\ r.at = k /\ r.got = walker[w].got
        BY <1>0 DEF PoolWalker
      <4> HIDE DEF r
      <4>3. walker'[w] = r
        BY <4>1 DEF PoolInv, PoolShaped
      <4>4. LinesKept' /\ HeadsHold'
        <5>1. Queues(w)' = TRUE /\ Queues(w) = TRUE /\ Heads(waiting[k], w)
          BY <1>0, <4>2, <4>3 DEF Queues, HoldsLock, Talking, PoolInv, HeadsHold
        <5> QED
          BY <4>1, <4>2, <5>1, StaysInLine DEF PoolInv
      <4>5. AnswersMatch' /\ NoMixedAnswers' /\ slot' \in [Slots -> PoolSlot]
        BY <1>0, <2>2, <3>1, <4>1, <4>2, SlotStep
      <4> QED
        BY <4>1, <4>2, <4>4, <4>5 DEF PoolInv, PoolShaped
    <3> QED
      BY <3>2, <3>3
  <2>4. CASE Ranking[i] \notin up
    <3> DEFINE r == [walker[w] EXCEPT !.tried = i]
    <3>1. walker' = [walker EXCEPT ![w] = r] /\ waiting' = waiting /\ slot' = slot
      BY <1>2, <2>4 DEF TryServer, i, PoolInv, PoolShaped
    <3>2. r \in PoolWalker /\ r.pc = "connect" /\ r.at = k /\ r.got = walker[w].got
      BY <1>0, <2>1 DEF PoolWalker
    <3> HIDE DEF r
    <3>3. walker'[w] = r
      BY <3>1 DEF PoolInv, PoolShaped
    <3>4. LinesKept' /\ HeadsHold'
      <4>1. Queues(w)' = TRUE /\ Queues(w) = TRUE /\ Heads(waiting[k], w)
        BY <1>0, <3>2, <3>3 DEF Queues, HoldsLock, Talking, PoolInv, HeadsHold
      <4> QED
        BY <3>1, <3>2, <4>1, StaysInLine DEF PoolInv
    <3>5. AnswersMatch' /\ NoMixedAnswers'
      BY <1>0, <3>1, <3>2, QuietStep
    <3> QED
      BY <3>1, <3>2, <3>4, <3>5 DEF PoolInv, PoolShaped
  <2> QED
    BY <2>3, <2>4
<1>3. Candidates(w) = {} => NextSlot(w) /\ slot' = slot
  BY DEF TryServer, GivesUp
<1> QED
  BY <1>1, <1>2, <1>3

LEMMA WritePoolInv ==
  ASSUME PoolInv, NEW w \in Walkers, WritePacket(w)
  PROVE  PoolInv'
<1> DEFINE k == walker[w].at
           u == Append(slot[k].unread, w)
           s == [slot[k] EXCEPT !.unread = u]
           r == [walker[w] EXCEPT !.pc = "read"]
<1>0. /\ walker[w].pc = "write" /\ walker[w] \in PoolWalker /\ k \in Slots /\ HoldsLock(w)
      /\ walker[w].got # "other" /\ slot[k] \in PoolSlot
  BY DEF WritePacket, At, PoolInv, PoolShaped, PoolWalker, HoldsLock, Talking, NoMixedAnswers
<1>1. /\ slot' = [slot EXCEPT ![k] = s] /\ walker' = [walker EXCEPT ![w] = r]
      /\ waiting' = waiting
  BY DEF WritePacket, Becomes, PoolInv, PoolShaped
<1>2. u \in Seq(Walkers \cup {Dropped}) /\ u # <<>>
  <2>1. slot[k].unread \in Seq(Walkers \cup {Dropped})
    BY <1>0 DEF PoolSlot
  <2> QED
    BY <2>1, AppendProperties
<1>3. ~slot[k].spoiled => u = <<w>>
  <2>1. ~slot[k].spoiled => slot[k].unread = <<>>
    BY <1>0, NobodyReads
  <2>2. Append(<<>>, w) = <<w>>
    OBVIOUS
  <2> QED
    BY <2>1, <2>2
<1> HIDE DEF u
<1>4. s \in PoolSlot /\ s.unread = u /\ s.spoiled = slot[k].spoiled
  BY <1>0, <1>2, SlotFields
<1>5. r \in PoolWalker /\ r.pc = "read" /\ r.at = k /\ r.got = walker[w].got
  BY <1>0 DEF PoolWalker
<1> HIDE DEF s, r
<1>6. walker'[w] = r
  BY <1>1 DEF PoolInv, PoolShaped
<1>7. LinesKept' /\ HeadsHold'
  <2>1. Queues(w)' = TRUE /\ Queues(w) = TRUE /\ Heads(waiting[k], w)
    BY <1>0, <1>5, <1>6 DEF Queues, HoldsLock, Talking, PoolInv, HeadsHold
  <2> QED
    BY <1>1, <1>5, <2>1, StaysInLine DEF PoolInv
<1>8. AnswersMatch' /\ NoMixedAnswers' /\ slot' \in [Slots -> PoolSlot]
  BY <1>0, <1>1, <1>2, <1>3, <1>4, <1>5, SlotStep
<1> QED
  BY <1>1, <1>5, <1>7, <1>8 DEF PoolInv, PoolShaped

LEMMA ReadPoolInv ==
  ASSUME PoolInv, NEW w \in Walkers, ReadAnswer(w)
  PROVE  PoolInv'
<1> DEFINE k == walker[w].at
           u == Tail(slot[k].unread)
           s == [slot[k] EXCEPT !.unread = u]
<1>0. /\ walker[w].pc = "read" /\ walker[w] \in PoolWalker /\ k \in Slots /\ HoldsLock(w)
      /\ slot[k] \in PoolSlot
  BY DEF ReadAnswer, At, PoolInv, PoolShaped, PoolWalker, HoldsLock, Talking
<1>1. slot' = [slot EXCEPT ![k] = s]
  BY DEF ReadAnswer, PoolInv, PoolShaped
<1>2. slot[k].unread # <<>> /\ (~slot[k].spoiled => slot[k].unread = <<w>>)
  BY <1>0 DEF PoolInv, AnswersMatch, ReadsAt
<1>3. u \in Seq(Walkers \cup {Dropped}) /\ (~slot[k].spoiled => u = <<>>)
  <2>1. slot[k].unread \in Seq(Walkers \cup {Dropped})
    BY <1>0 DEF PoolSlot
  <2>2. u \in Seq(Walkers \cup {Dropped})
    BY <1>2, <2>1, HeadTailProperties
  <2>3. Tail(<<w>>) = <<>>
    OBVIOUS
  <2> QED
    BY <1>2, <2>2, <2>3
<1> HIDE DEF u
<1>4. s \in PoolSlot /\ s.unread = u /\ s.spoiled = slot[k].spoiled
  BY <1>0, <1>3, SlotFields
<1> HIDE DEF s
<1>5. CASE NextSlot(w)
  <2>1. /\ LinesKept' /\ HeadsHold' /\ waiting' \in [Slots -> Seq(Walkers)]
        /\ \E r \in PoolWalker : /\ walker' = [walker EXCEPT ![w] = r]
                                 /\ r.pc \in {"idle", "lock"} /\ r.got = "nothing_wrong"
    BY <1>5, GoesOn DEF PoolInv
  <2>2. PICK r \in PoolWalker : /\ walker' = [walker EXCEPT ![w] = r]
                                /\ r.pc \in {"idle", "lock"} /\ r.got = "nothing_wrong"
    BY <2>1
  <2>3. AnswersMatch' /\ NoMixedAnswers' /\ slot' \in [Slots -> PoolSlot]
    BY <1>0, <1>1, <1>3, <1>4, <2>2, SlotStep
  <2> QED
    BY <2>1, <2>2, <2>3 DEF PoolInv, PoolShaped
<1>6. CASE ~NextSlot(w)
  <2> DEFINE g == IF Head(slot[k].unread) = w THEN "nothing_wrong"
                  ELSE IF slot[k].spoiled THEN "late" ELSE "other"
             r == [AtRest EXCEPT !.got = g]
  <2>1. walker' = [walker EXCEPT ![w] = r] /\ waiting' = WithoutMe(w)
    BY <1>6 DEF ReadAnswer, Mine
  <2>2. g \in {"nothing_wrong", "late"}
    <3>1. Head(<<w>>) = w
      OBVIOUS
    <3> QED
      BY <1>2, <3>1
  <2> HIDE DEF g
  <2>3. r \in PoolWalker /\ r.pc = "idle" /\ r.got = g
    BY <2>2, AtRestType DEF PoolWalker
  <2> HIDE DEF r
  <2>4. walker'[w] = r
    BY <2>1 DEF PoolInv, PoolShaped
  <2>5. ~Queues(w)'
    BY <2>3, <2>4 DEF Queues, HoldsLock, Talking
  <2>6. LinesKept' /\ HeadsHold' /\ waiting' \in [Slots -> Seq(Walkers)]
    BY <2>1, <2>3, <2>5, LeavesLine DEF PoolInv
  <2>7. AnswersMatch' /\ NoMixedAnswers' /\ slot' \in [Slots -> PoolSlot]
    <3>1. r.got # "other" /\ r.pc # "read" /\ (r.pc # "read" /\ ~s.spoiled => s.unread = <<>>)
      BY <1>3, <1>4, <2>2, <2>3
    <3> QED
      BY <1>0, <1>1, <1>4, <2>1, <2>3, <3>1, SlotStep
  <2> QED
    BY <2>1, <2>3, <2>6, <2>7 DEF PoolInv, PoolShaped
<1> QED
  BY <1>5, <1>6

LEMMA RequestFailsPoolInv ==
  ASSUME PoolInv, NEW w \in Walkers, RequestFails(w)
  PROVE  PoolInv'
<1> DEFINE k == walker[w].at
           s == [slot[k] EXCEPT !.conn = "none", !.unread = <<>>, !.spoiled = FALSE]
<1>0. /\ walker[w].pc = "read" /\ walker[w] \in PoolWalker /\ k \in Slots /\ HoldsLock(w)
      /\ walker[w].got # "other" /\ slot[k] \in PoolSlot /\ slot[k].server \in Ranked
  BY DEF RequestFails, At, PoolInv, PoolShaped, PoolWalker, PoolSlot, HoldsLock, Talking,
         NoMixedAnswers
<1>1. slot' = [slot EXCEPT ![k] = s]
  BY DEF RequestFails, Discards, PoolInv, PoolShaped
<1>2. s \in PoolSlot /\ s.unread = <<>> /\ ~s.spoiled
  BY <1>0, SlotFields
<1> HIDE DEF s
<1> DEFINE zero == 0
           r == [walker[w] EXCEPT !.pc = "block", !.failed = slot[k].server, !.tried = zero]
<1>3. walker' = [walker EXCEPT ![w] = r] /\ zero \in Nat
  BY DEF RequestFails, Mine, PoolInv, PoolShaped
<1> HIDE DEF zero
<1>4. r \in PoolWalker /\ r.pc = "block" /\ r.at = k /\ r.got = walker[w].got
  BY <1>0, <1>3 DEF PoolWalker
<1> HIDE DEF r
<1>5. walker'[w] = r
  BY <1>3 DEF PoolInv, PoolShaped
<1>6. LinesKept' /\ HeadsHold' /\ waiting' \in [Slots -> Seq(Walkers)]
  <2>1. CASE w = Heartbeat
    <3>1. waiting' = waiting
      BY <2>1 DEF RequestFails
    <3>2. Queues(w)' = TRUE /\ Queues(w) = TRUE /\ Heads(waiting[k], w)
      BY <1>0, <1>4, <1>5, <2>1 DEF Queues, HoldsLock, Talking, PoolInv, HeadsHold
    <3> QED
      BY <1>3, <1>4, <3>1, <3>2, StaysInLine DEF PoolInv, PoolShaped
  <2>2. CASE w # Heartbeat
    <3>1. waiting' = WithoutMe(w)
      BY <2>2 DEF RequestFails
    <3>2. ~Queues(w)'
      BY <1>4, <1>5, <2>2 DEF Queues, HoldsLock, Talking
    <3> QED
      BY <1>3, <1>4, <3>1, <3>2, LeavesLine DEF PoolInv
  <2> QED
    BY <2>1, <2>2
<1>7. AnswersMatch' /\ NoMixedAnswers' /\ slot' \in [Slots -> PoolSlot]
  BY <1>0, <1>1, <1>2, <1>3, <1>4, SlotStep
<1> QED
  BY <1>3, <1>4, <1>6, <1>7 DEF PoolInv, PoolShaped

LEMMA BlockPoolInv ==
  ASSUME PoolInv, NEW w \in Walkers, BlockServer(w)
  PROVE  PoolInv'
<1> DEFINE k == walker[w].at
<1>0. /\ walker[w].pc = "block" /\ walker[w] \in PoolWalker /\ k \in Slots
      /\ walker[w].got # "other" /\ slot' = slot
  BY DEF BlockServer, At, PoolInv, PoolShaped, PoolWalker, NoMixedAnswers
<1>1. CASE w = Heartbeat
  <2> DEFINE r == [walker[w] EXCEPT !.pc = "connect"]
  <2>1. walker' = [walker EXCEPT ![w] = r] /\ waiting' = waiting
    BY <1>1 DEF BlockServer, Becomes, PoolInv, PoolShaped
  <2>2. r \in PoolWalker /\ r.pc = "connect" /\ r.at = k /\ r.got = walker[w].got
    BY <1>0 DEF PoolWalker
  <2> HIDE DEF r
  <2>3. walker'[w] = r
    BY <2>1 DEF PoolInv, PoolShaped
  <2>4. Queues(w)' = TRUE /\ Queues(w) = TRUE /\ Heads(waiting[k], w)
    BY <1>0, <1>1, <2>2, <2>3 DEF Queues, HoldsLock, Talking, PoolInv, HeadsHold
  <2>5. LinesKept' /\ HeadsHold'
    BY <2>1, <2>2, <2>4, StaysInLine DEF PoolInv
  <2>6. AnswersMatch' /\ NoMixedAnswers'
    BY <1>0, <2>1, <2>2, QuietStep
  <2> QED
    BY <1>0, <2>1, <2>2, <2>5, <2>6 DEF PoolInv, PoolShaped
<1>2. CASE w # Heartbeat
  <2>1. NextSlot(w)
    BY <1>2 DEF BlockServer
  <2>2. /\ LinesKept' /\ HeadsHold' /\ waiting' \in [Slots -> Seq(Walkers)]
        /\ \E r \in PoolWalker : /\ walker' = [walker EXCEPT ![w] = r]
                                 /\ r.pc \in {"idle", "lock"} /\ r.got = "nothing_wrong"
    BY <2>1, GoesOn DEF PoolInv
  <2>3. PICK r \in PoolWalker : /\ walker' = [walker EXCEPT ![w] = r]
                                /\ r.pc \in {"idle", "lock"} /\ r.got = "nothing_wrong"
    BY <2>2
  <2>4. AnswersMatch' /\ NoMixedAnswers'
    BY <1>0, <2>3, QuietStep
  <2> QED
    BY <1>0, <2>2, <2>3, <2>4 DEF PoolInv, PoolShaped
<1> QED
  BY <1>1, <1>2

LEMMA DropPoolInv ==
  ASSUME PoolInv, NEW w \in Walkers, DropRequest(w)
  PROVE  PoolInv'
<1> DEFINE k == walker[w].at
<1>0. /\ walker[w] \in PoolWalker /\ k \in Slots /\ slot[k] \in PoolSlot
      /\ walker' = [walker EXCEPT ![w] = AtRest] /\ waiting' = WithoutMe(w)
  BY DEF DropRequest, PoolInv, PoolShaped, PoolWalker
<1>1. ~Queues(w)'
  <2>1. walker'[w] = AtRest
    BY <1>0 DEF PoolInv, PoolShaped
  <2> QED
    BY <2>1, AtRestType DEF Queues, HoldsLock, Talking
<1>2. LinesKept' /\ HeadsHold' /\ waiting' \in [Slots -> Seq(Walkers)]
  BY <1>0, <1>1, AtRestType, LeavesLine DEF PoolInv
<1>3. AnswersMatch' /\ NoMixedAnswers' /\ slot' \in [Slots -> PoolSlot]
  <2>1. CASE walker[w].pc # "read"
    <3>1. slot' = slot
      BY <2>1 DEF DropRequest, At
    <3> QED
      BY <1>0, <2>1, <3>1, AtRestType, QuietStep DEF PoolInv, PoolShaped
  <2>2. CASE walker[w].pc = "read"
    <3> DEFINE q == slot[k].unread
               u == [j \in DOMAIN q |-> IF q[j] = w THEN Dropped ELSE q[j]]
               s == [slot[k] EXCEPT !.spoiled = TRUE, !.unread = u]
    <3>1. slot' = [slot EXCEPT ![k] = s]
      BY <2>2 DEF DropRequest, At, PoolInv, PoolShaped
    <3>2. u \in Seq(Walkers \cup {Dropped})
      <4>1. q \in Seq(Walkers \cup {Dropped})
        BY <1>0 DEF PoolSlot
      <4> HIDE DEF q
      <4>2. DOMAIN q = 1..Len(q) /\ Len(q) \in Nat /\ \A j \in DOMAIN q : q[j] \in Walkers \cup {Dropped}
        BY <4>1
      <4>3. \A j \in 1..Len(q) : u[j] \in Walkers \cup {Dropped}
        BY <4>2
      <4>4. u \in [1..Len(q) -> Walkers \cup {Dropped}]
        BY <4>2, <4>3
      <4> QED
        BY <4>2, <4>4
    <3> HIDE DEF u
    <3>3. s \in PoolSlot /\ s.spoiled
      BY <1>0, <3>2 DEF PoolSlot
    <3> HIDE DEF s
    <3>4. HoldsLock(w)
      BY <2>2 DEF HoldsLock, Talking
    <3> QED
      BY <1>0, <3>1, <3>3, <3>4, AtRestType, SlotStep
  <2> QED
    BY <2>1, <2>2
<1> QED
  BY <1>0, <1>2, <1>3, AtRestType DEF PoolInv, PoolShaped

LEMMA ServerPoolInv ==
  ASSUME PoolInv, NEW s \in Servers, ServerFails(s) \/ ServerReturns(s) \/ CooldownEnds(s)
  PROVE  PoolInv'
<1>0. waiting' = waiting /\ walker' = walker
  BY DEF ServerFails, ServerReturns, CooldownEnds
<1>1. ASSUME NEW i \in Slots
      PROVE  /\ slot'[i] \in PoolSlot /\ slot'[i].unread = slot[i].unread
             /\ slot'[i].spoiled = slot[i].spoiled
  <2>1. slot[i] \in PoolSlot
    BY DEF PoolInv, PoolShaped
  <2>2. slot'[i] = slot[i] \/ slot'[i] = [slot[i] EXCEPT !.conn = "broken"]
    BY DEF ServerFails, ServerReturns, CooldownEnds
  <2> QED
    BY <2>1, <2>2 DEF PoolSlot
<1>2. slot' \in [Slots -> PoolSlot]
  <2>1. slot' = [i \in Slots |-> slot'[i]]
    BY DEF ServerFails, ServerReturns, CooldownEnds, PoolInv, PoolShaped
  <2> QED
    BY <1>1, <2>1
<1>3. \A w \in Walkers :
        /\ (Queues(w)' <=> Queues(w)) /\ (HoldsLock(w)' <=> HoldsLock(w))
        /\ \A i \in Slots : ReadsAt(w, i)' <=> ReadsAt(w, i)
  BY <1>0 DEF Queues, HoldsLock, ReadsAt
<1>4. LinesKept' /\ HeadsHold' /\ NoMixedAnswers'
  <2>1. LinesKept'
    BY <1>0, <1>3 DEF PoolInv, LinesKept
  <2>2. HeadsHold'
    BY <1>0, <1>3 DEF PoolInv, HeadsHold
  <2>3. NoMixedAnswers'
    BY <1>0 DEF PoolInv, NoMixedAnswers
  <2> QED
    BY <2>1, <2>2, <2>3
<1>5. AnswersMatch'
  BY <1>0, <1>1, <1>3 DEF PoolInv, AnswersMatch
<1> QED
  BY <1>0, <1>2, <1>4, <1>5 DEF PoolInv, PoolShaped

LEMMA PoolStepInv == PoolInv /\ [PoolNext]_poolVars => PoolInv'
<1> SUFFICES ASSUME PoolInv, [PoolNext]_poolVars PROVE PoolInv'
  OBVIOUS
<1>1. ASSUME NEW w \in Walkers, Walk(w) \/ PoolStep(w) \/ DropRequest(w)
      PROVE  PoolInv'
  BY <1>1, WalkPoolInv, TakeLockPoolInv, TryServerPoolInv, WritePoolInv, ReadPoolInv,
     RequestFailsPoolInv, BlockPoolInv, DropPoolInv DEF PoolStep
<1>2. ASSUME NEW s \in Servers, ServerFails(s) \/ ServerReturns(s) \/ CooldownEnds(s)
      PROVE  PoolInv'
  BY <1>2, ServerPoolInv
<1>3. CASE UNCHANGED poolVars
  BY <1>3 DEF poolVars, PoolInv, PoolShaped, LinesKept, HeadsHold, AnswersMatch,
              NoMixedAnswers, Queues, HoldsLock, ReadsAt
<1> QED
  BY <1>1, <1>2, <1>3 DEF PoolNext

\* A slot serves one request at a time: who talks on a connection holds its
\* lock alone, nobody waits for two slots, and no request gets the answer to
\* another's packet, unless one was dropped on that connection (pool_request,
\* Conn::request): for any number of servers, slots and requests.
THEOREM PoolSlotsAreExclusive == PoolSpec => []SlotsAreExclusive
<1>1. PoolInv => SlotsAreExclusive
  <2> SUFFICES ASSUME PoolInv PROVE SlotsAreExclusive
    OBVIOUS
  <2>1. ASSUME NEW v \in Walkers, NEW w \in Walkers, v # w, walker[v].at = walker[w].at
        PROVE  ~(walker[v].pc \in {"connect", "write", "read"}
                   /\ walker[w].pc \in {"connect", "write", "read"})
    BY <2>1, LockIsExclusive DEF PoolInv, HoldsLock, Talking
  <2>2. ASSUME NEW w \in Walkers
        PROVE  Cardinality({i \in Slots : w \in ToSet(waiting[i])}) <= 1
    <3> DEFINE mine == {i \in Slots : w \in ToSet(waiting[i])}
    <3>1. ASSUME NEW i \in mine PROVE i = walker[w].at
      <4>1. waiting[i] \in Seq(Walkers)
        BY DEF PoolInv, PoolShaped
      <4>2. InLine(waiting[i], w)
        BY <4>1, <3>1 DEF InLine, ToSet
      <4> QED
        BY <4>2 DEF PoolInv, LinesKept
    <3>2. mine \subseteq {walker[w].at}
      BY <3>1
    <3> HIDE DEF mine
    <3>3. IsFiniteSet({walker[w].at}) /\ Cardinality({walker[w].at}) = 1
      BY FS_Singleton
    <3>4. Cardinality(mine) <= 1
      BY <3>2, <3>3, FS_Subset
    <3> QED
      BY <3>4 DEF mine
  <2> QED
    BY <2>1, <2>2 DEF SlotsAreExclusive, OneSlotEach, PoolInv
<1> QED
  BY <1>1, InitPoolInv, PoolStepInv, PTL DEF PoolSpec

-----------------------------------------------------------------------------
\* Whatever names a server names a ranked one.
SlotsTidy == \A i \in Slots : slot[i].server \in Servers
ServersTidy == blacklist \subseteq Servers /\ up \subseteq Servers
Tidy(r) == r.failed \in Servers /\ r.tried \in 0..Len(Ranking)
WalkersTidy == \A w \in Walkers : Tidy(walker[w])

PoolTypeInv == PoolInv /\ SlotsTidy /\ ServersTidy /\ WalkersTidy

LEMMA RankedServers ==
  /\ Len(Ranking) \in Nat /\ 1 \in 1..Len(Ranking) /\ Slots \subseteq 1..Len(Ranking)
  /\ \A i \in 1..Len(Ranking) : Ranking[i] \in Servers
<1>1. Ranking \in Seq(ToSet(Ranking)) /\ PoolSize \in 1..Len(Ranking)
  BY PoolAssumption
<1>2. Len(Ranking) \in Nat /\ DOMAIN Ranking = 1..Len(Ranking)
  BY <1>1
<1> QED
  BY <1>1, <1>2 DEF Servers, ToSet, Slots

LEMMA RestIsTidy == Tidy(AtRest) /\ \A pc, at : Tidy([AtRest EXCEPT !.pc = pc, !.at = at])
  BY RankedServers DEF Tidy, AtRest

\* One that goes to the next slot begins anew.
LEMMA NextSlotTidy ==
  ASSUME PoolShaped, WalkersTidy, NEW w \in Walkers, NextSlot(w)
  PROVE  WalkersTidy'
<1>1. PICK r : walker' = [walker EXCEPT ![w] = r] /\ Tidy(r)
  BY RestIsTidy DEF NextSlot
<1> QED
  BY <1>1 DEF PoolShaped, WalkersTidy, Walkers, Tidy, Servers

\* One that changes what is not a server stays tidy.
LEMMA BecomesTidy ==
  ASSUME PoolShaped, WalkersTidy, NEW w \in Walkers, NEW pc, Becomes(w, pc)
  PROVE  WalkersTidy'
  BY DEF PoolShaped, WalkersTidy, Walkers, Tidy, Servers, Becomes, PoolWalker

LEMMA RestTidy ==
  ASSUME PoolShaped, WalkersTidy, NEW w \in Walkers, NEW r, Tidy(r),
         walker' = [walker EXCEPT ![w] = r]
  PROVE  WalkersTidy'
  BY DEF PoolShaped, WalkersTidy, Walkers, Tidy, Servers

LEMMA TidyStays ==
  ASSUME WalkersTidy, UNCHANGED walker PROVE WalkersTidy'
  BY DEF WalkersTidy, Walkers, Tidy, Servers

\* A server that is tried is a ranked one.
LEMMA TriedIsRanked ==
  ASSUME PoolShaped, NEW w \in Walkers, Candidates(w) # {},
         NEW i, i = CHOOSE k \in Candidates(w) : \A j \in Candidates(w) : k <= j
  PROVE  i \in 1..Len(Ranking) /\ Ranking[i] \in Servers
  BY BestCandidate, RankedServers

LEMMA WalkerStepTidy ==
  ASSUME PoolShaped, SlotsTidy, WalkersTidy, NEW w \in Walkers,
         Walk(w) \/ PoolStep(w) \/ DropRequest(w)
  PROVE  WalkersTidy'
<1>1. /\ walker \in [Walkers -> PoolWalker] /\ walker[w] \in PoolWalker /\ Tidy(walker[w])
      /\ walker[w].at \in Slots /\ walker[w].tried \in Nat
  BY DEF PoolShaped, WalkersTidy, PoolWalker
<1>2. CASE Walk(w) \/ DropRequest(w)
  <2>1. PICK r : walker' = [walker EXCEPT ![w] = r] /\ Tidy(r)
    <3>1. Tidy([AtRest EXCEPT !.pc = "lock"])
      BY RestIsTidy DEF Tidy, AtRest
    <3> QED
      BY <1>2, <3>1, RestIsTidy DEF Walk, DropRequest
  <2> QED
    BY <2>1, RestTidy
<1>3. CASE TakeLock(w)
  <2> DEFINE pc == IF Mine(w).conn = "none" THEN "connect" ELSE "write"
             r == [walker[w] EXCEPT !.pc = pc, !.tried = 0]
  <2>1. walker' = [walker EXCEPT ![w] = r]
    BY <1>1, <1>3 DEF TakeLock
  <2>2. Tidy(r)
    BY <1>1, RankedServers DEF Tidy, PoolWalker
  <2> QED
    BY <2>1, <2>2, RestTidy
<1>4. CASE TryServer(w)
  <2>1. CASE NextSlot(w) \/ Becomes(w, "write")
    BY <2>1, NextSlotTidy, BecomesTidy
  <2>2. CASE /\ Candidates(w) # {}
             /\ \E i : /\ i = CHOOSE k \in Candidates(w) : \A j \in Candidates(w) : k <= j
                       /\ walker' = [walker EXCEPT ![w].tried = i]
    <3>1. PICK i : /\ i = CHOOSE k \in Candidates(w) : \A j \in Candidates(w) : k <= j
                   /\ walker' = [walker EXCEPT ![w].tried = i]
      BY <2>2
    <3>2. i \in 1..Len(Ranking)
      BY <1>1, <2>2, <3>1, TriedIsRanked
    <3>3. Tidy([walker[w] EXCEPT !.tried = i])
      BY <1>1, <3>2, RankedServers DEF Tidy, PoolWalker
    <3>4. walker' = [walker EXCEPT ![w] = [walker[w] EXCEPT !.tried = i]]
      BY <1>1, <3>1
    <3> QED
      BY <3>3, <3>4, RestTidy
  <2> QED
    BY <1>4, <2>1, <2>2 DEF TryServer, GivesUp
<1>5. CASE WritePacket(w)
  BY <1>5, BecomesTidy DEF WritePacket
<1>6. CASE ReadAnswer(w)
  <2>1. NextSlot(w) \/ \E got : walker' = [walker EXCEPT ![w] = [AtRest EXCEPT !.got = got]]
    BY <1>6 DEF ReadAnswer
  <2>2. ASSUME NEW got, walker' = [walker EXCEPT ![w] = [AtRest EXCEPT !.got = got]]
        PROVE  WalkersTidy'
    <3>1. Tidy([AtRest EXCEPT !.got = got])
      BY RestIsTidy DEF Tidy, AtRest
    <3> QED
      BY <2>2, <3>1, RestTidy
  <2> QED
    BY <2>1, <2>2, NextSlotTidy
<1>7. CASE RequestFails(w)
  <2> DEFINE r == [walker[w] EXCEPT !.pc = "block", !.failed = Mine(w).server, !.tried = 0]
  <2>1. walker' = [walker EXCEPT ![w] = r]
    BY <1>1, <1>7 DEF RequestFails
  <2>2. Mine(w).server \in Servers
    BY <1>1 DEF SlotsTidy, Mine
  <2>3. Tidy(r)
    BY <1>1, <2>2, RankedServers DEF Tidy, PoolWalker
  <2> QED
    BY <2>1, <2>3, RestTidy
<1>8. CASE BlockServer(w)
  BY <1>8, NextSlotTidy, BecomesTidy DEF BlockServer
<1> QED
  BY <1>2, <1>3, <1>4, <1>5, <1>6, <1>7, <1>8 DEF PoolStep

\* A slot gets a server when it is connected to a ranked one.
LEMMA SlotStepTidy ==
  ASSUME PoolShaped, SlotsTidy, WalkersTidy, NEW w \in Walkers,
         Walk(w) \/ PoolStep(w) \/ DropRequest(w)
  PROVE  SlotsTidy'
<1> DEFINE at == walker[w].at
<1>1. walker[w].at \in Slots /\ walker[w].tried \in Nat /\ slot \in [Slots -> PoolSlot]
  BY DEF PoolShaped, PoolWalker
<1>2. CASE \A i \in Slots : slot'[i].server = slot[i].server
  BY <1>2 DEF SlotsTidy, Slots, Servers
<1>3. CASE UNCHANGED slot
  BY <1>2, <1>3
<1>4. ASSUME NEW i \in 1..Len(Ranking), slot' = [slot EXCEPT ![at] = Connected(Ranking[i])]
      PROVE  SlotsTidy'
  BY <1>1, <1>4, RankedServers DEF SlotsTidy, Slots, Servers, Connected
<1>5. CASE TryServer(w)
  <2>1. CASE Candidates(w) = {}
    BY <1>3, <1>5, <2>1 DEF TryServer
  <2>2. CASE Candidates(w) # {}
    <3> DEFINE i == CHOOSE k \in Candidates(w) : \A j \in Candidates(w) : k <= j
    <3>1. i \in 1..Len(Ranking)
      BY <1>1, <2>2, TriedIsRanked
    <3>2. UNCHANGED slot \/ slot' = [slot EXCEPT ![at] = Connected(Ranking[i])]
      BY <1>5, <2>2 DEF TryServer
    <3> QED
      BY <1>3, <1>4, <3>1, <3>2
  <2> QED
    BY <2>1, <2>2
<1>6. CASE Walk(w) \/ TakeLock(w) \/ BlockServer(w)
  BY <1>3, <1>6 DEF Walk, TakeLock, BlockServer
<1>7. CASE \E s : slot' = [slot EXCEPT ![at] = s] /\ s.server = slot[at].server
  BY <1>1, <1>2, <1>7
<1>8. CASE WritePacket(w)
  <2>1. slot' = [slot EXCEPT ![at] = [slot[at] EXCEPT !.unread = Append(@, w)]]
    BY <1>1, <1>8 DEF WritePacket
  <2>2. [slot[at] EXCEPT !.unread = Append(@, w)].server = slot[at].server
    BY <1>1 DEF PoolSlot
  <2> QED
    BY <1>7, <2>1, <2>2
<1>9. CASE ReadAnswer(w)
  <2>1. slot' = [slot EXCEPT ![at] = [slot[at] EXCEPT !.unread = Tail(@)]]
    BY <1>1, <1>9 DEF ReadAnswer
  <2>2. [slot[at] EXCEPT !.unread = Tail(@)].server = slot[at].server
    BY <1>1 DEF PoolSlot
  <2> QED
    BY <1>7, <2>1, <2>2
<1>10. CASE RequestFails(w)
  <2> DEFINE s == [slot[at] EXCEPT !.conn = "none", !.unread = <<>>, !.spoiled = FALSE]
  <2>1. slot' = [slot EXCEPT ![at] = s]
    BY <1>1, <1>10 DEF RequestFails, Discards
  <2>2. s.server = slot[at].server
    BY <1>1 DEF PoolSlot
  <2> QED
    BY <1>7, <2>1, <2>2
<1>11. CASE DropRequest(w)
  <2>1. CASE ~At(w, "read")
    BY <1>3, <1>11, <2>1 DEF DropRequest
  <2>2. CASE At(w, "read")
    <3> DEFINE u == [j \in DOMAIN slot[at].unread |-> IF slot[at].unread[j] = w THEN Dropped ELSE slot[at].unread[j]]
               s == [slot[at] EXCEPT !.spoiled = TRUE, !.unread = u]
    <3>1. slot' = [slot EXCEPT ![at] = s]
      BY <1>1, <1>11, <2>2 DEF DropRequest, PoolSlot
    <3>2. s.server = slot[at].server
      BY <1>1 DEF PoolSlot
    <3> HIDE DEF s
    <3> QED
      BY <1>7, <3>1, <3>2
  <2> QED
    BY <2>1, <2>2
<1> QED
  BY <1>5, <1>6, <1>8, <1>9, <1>10, <1>11 DEF PoolStep

\* A server is blocked by the one that tried it, or asked it.
LEMMA BlockedTidy ==
  ASSUME PoolShaped, ServersTidy, WalkersTidy, NEW w \in Walkers,
         Walk(w) \/ PoolStep(w) \/ DropRequest(w)
  PROVE  ServersTidy'
<1>1. up' = up
  BY DEF PoolStep, Walk, TakeLock, TryServer, WritePacket, ReadAnswer, RequestFails, BlockServer,
         DropRequest
<1>2. walker[w].tried \in Nat /\ walker[w].failed \in Servers
  BY DEF PoolShaped, PoolWalker, WalkersTidy, Tidy
<1>3. CASE blacklist' = blacklist
  BY <1>1, <1>3 DEF ServersTidy, Servers
<1>4. ASSUME NEW s \in Servers, blacklist' = blacklist \cup {s} PROVE ServersTidy'
  BY <1>1, <1>4 DEF ServersTidy, Servers
<1>5. CASE TryServer(w)
  <2>1. CASE Candidates(w) = {}
    BY <1>3, <1>5, <2>1 DEF TryServer
  <2>2. CASE Candidates(w) # {}
    <3> DEFINE i == CHOOSE k \in Candidates(w) : \A j \in Candidates(w) : k <= j
    <3>1. Ranking[i] \in Servers
      BY <1>2, <2>2, TriedIsRanked
    <3>2. blacklist' = blacklist \/ blacklist' = blacklist \cup {Ranking[i]}
      BY <1>5, <2>2 DEF TryServer
    <3> QED
      BY <1>3, <1>4, <3>1, <3>2
  <2> QED
    BY <2>1, <2>2
<1>6. CASE BlockServer(w)
  BY <1>2, <1>4, <1>6 DEF BlockServer
<1>7. CASE Walk(w) \/ TakeLock(w) \/ WritePacket(w) \/ ReadAnswer(w) \/ RequestFails(w) \/ DropRequest(w)
  BY <1>3, <1>7 DEF Walk, TakeLock, WritePacket, ReadAnswer, RequestFails, DropRequest
<1> QED
  BY <1>5, <1>6, <1>7 DEF PoolStep

LEMMA ServerStepTidy ==
  ASSUME SlotsTidy, ServersTidy, WalkersTidy, PoolShaped, NEW s \in Servers,
         ServerFails(s) \/ ServerReturns(s) \/ CooldownEnds(s)
  PROVE  SlotsTidy' /\ ServersTidy' /\ WalkersTidy'
<1>1. WalkersTidy'
  BY TidyStays DEF ServerFails, ServerReturns, CooldownEnds
<1>2. ServersTidy'
  BY DEF ServerFails, ServerReturns, CooldownEnds, ServersTidy, Servers
<1>3. \A i \in Slots : slot'[i].server = slot[i].server
  BY DEF ServerFails, ServerReturns, CooldownEnds, PoolShaped, PoolSlot
<1> QED
  BY <1>1, <1>2, <1>3 DEF SlotsTidy, Slots, Servers

LEMMA InitPoolTypeInv == PoolInit => PoolTypeInv
<1> SUFFICES ASSUME PoolInit PROVE PoolTypeInv
  OBVIOUS
<1>1. SlotsTidy
  BY RankedServers DEF PoolInit, SlotsTidy, Connected
<1>2. ServersTidy
  BY DEF PoolInit, ServersTidy
<1>3. WalkersTidy
  BY RestIsTidy DEF PoolInit, WalkersTidy
<1> QED
  BY <1>1, <1>2, <1>3, InitPoolInv DEF PoolTypeInv

LEMMA NextPoolTypeInv == PoolTypeInv /\ [PoolNext]_poolVars => PoolTypeInv'
<1> SUFFICES ASSUME PoolTypeInv, [PoolNext]_poolVars PROVE PoolTypeInv'
  OBVIOUS
<1>1. PoolInv /\ PoolShaped /\ SlotsTidy /\ ServersTidy /\ WalkersTidy /\ PoolInv'
  BY PoolStepInv DEF PoolTypeInv, PoolInv
<1>2. ASSUME NEW w \in Walkers, Walk(w) \/ PoolStep(w) \/ DropRequest(w)
      PROVE  SlotsTidy' /\ ServersTidy' /\ WalkersTidy'
  BY <1>1, <1>2, SlotStepTidy, BlockedTidy, WalkerStepTidy
<1>3. ASSUME NEW s \in Servers, ServerFails(s) \/ ServerReturns(s) \/ CooldownEnds(s)
      PROVE  SlotsTidy' /\ ServersTidy' /\ WalkersTidy'
  BY <1>1, <1>3, ServerStepTidy
<1>4. CASE UNCHANGED poolVars
  <2>1. WalkersTidy'
    BY <1>1, <1>4, TidyStays DEF poolVars
  <2> QED
    BY <1>1, <1>4, <2>1 DEF poolVars, PoolTypeInv, SlotsTidy, ServersTidy, Slots, Servers
<1> QED
  BY <1>1, <1>2, <1>3, <1>4 DEF PoolNext, PoolTypeInv

LEMMA PoolTyped == PoolTypeInv => PoolTypeOK
<1> SUFFICES ASSUME PoolTypeInv PROVE PoolTypeOK
  OBVIOUS
<1>1. PoolShaped /\ LinesKept
  BY DEF PoolTypeInv, PoolInv
<1>2. slot \in [Slots -> [server : Servers, conn : {"open", "broken", "none"},
                          unread : Seq(Walkers \cup {Dropped}), spoiled : BOOLEAN]]
  BY <1>1 DEF PoolTypeInv, PoolShaped, PoolSlot, SlotsTidy
<1>3. ASSUME NEW w \in Walkers
      PROVE  /\ walker[w].pc \in {"idle", "lock", "connect", "write", "read", "block"}
             /\ walker[w].failed \in Servers /\ walker[w].tried \in 0..Len(Ranking)
  BY <1>1 DEF PoolTypeInv, PoolShaped, PoolWalker, WalkersTidy, Tidy
<1>4. ASSUME NEW w \in Walkers, NEW i \in Slots
      PROVE  Cardinality({j \in DOMAIN waiting[i] : waiting[i][j] = w}) <= 1
  <2> DEFINE mine == {j \in DOMAIN waiting[i] : waiting[i][j] = w}
  <2>1. DOMAIN waiting[i] = 1..Len(waiting[i]) /\ OnceEach(waiting[i])
    BY <1>1 DEF PoolShaped, LinesKept
  <2>2. \A j, k \in mine : j = k
    BY <2>1 DEF OnceEach
  <2> HIDE DEF mine
  <2>3. mine = {} => Cardinality(mine) <= 1
    BY FS_EmptySet
  <2>4. ASSUME mine # {} PROVE Cardinality(mine) <= 1
    <3>1. PICK j : mine = {j}
      BY <2>2, <2>4
    <3> QED
      BY <3>1, FS_Singleton
  <2>5. Cardinality(mine) <= 1
    BY <2>3, <2>4
  <2> QED
    BY <2>5 DEF mine
<1> QED
  BY <1>2, <1>3, <1>4 DEF PoolTypeInv, ServersTidy, PoolTypeOK

\* Every slot, walk and failure is of a ranked server, and a lock is waited for
\* once by those, and only those, that are at its slot (pool_request).
THEOREM PoolTypeCorrect == PoolSpec => []PoolTypeOK
  BY InitPoolTypeInv, NextPoolTypeInv, PoolTyped, PTL DEF PoolSpec

-----------------------------------------------------------------------------
\* The parts together.

\* The parts share no state, so a step of one leaves the others alone, and what
\* holds of every behaviour of a part holds while they run beside each other.
\* Of the pool only the heartbeat is less fair there, which a part at rest lacks.
THEOREM MarketRunsItsParts ==
  MarketSpec => /\ HubSpec /\ TestSpec /\ ChartSpec
                /\ PoolInit /\ [][PoolNext]_poolVars /\ PoolProgress
<1>1. MarketInit => HubInit /\ PoolInit /\ TestInit /\ ChartInit
  BY DEF MarketInit
<1>2. ASSUME [MarketNext]_marketVars
      PROVE  /\ [HubNext]_hubVars /\ [PoolNext]_poolVars
             /\ [TestNext]_testVars /\ [SeriesGrows]_chartVars
  BY <1>2 DEF MarketNext, marketVars, hubAlone, poolAlone, testAlone, chartAlone
<1> QED
  BY <1>1, <1>2, PTL DEF MarketSpec, MarketFairness, HubSpec, TestSpec, ChartSpec

\* The state of every part is well-formed: the cache within its size, every lock
\* waited for once, no more for sale than is held, and what is drawn refers to
\* what is drawn (hub.rs, pool.rs, engine.rs, daily.rs), whatever runs.
THEOREM MarketTypeCorrect == MarketSpec => []MarketTypeOK
<1>1. MarketInit => focus \in Focus
  BY DEF MarketInit
<1>2. focus \in Focus /\ [MarketNext]_marketVars => (focus \in Focus)'
  BY DEF MarketNext, marketVars, hubAlone, poolAlone, testAlone, chartAlone
<1>3. MarketSpec => [](focus \in Focus)
  BY <1>1, <1>2, PTL DEF MarketSpec
<1>4. PoolInit /\ [][PoolNext]_poolVars => []PoolTypeOK
  BY InitPoolTypeInv, NextPoolTypeInv, PoolTyped, PTL
<1> QED
  BY <1>3, <1>4, MarketRunsItsParts, HubIsWellFormed, TestTypeCorrect, ChartTypeCorrect, PTL
     DEF MarketTypeOK
=============================================================================
