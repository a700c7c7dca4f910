------------------------------ MODULE TdxPool -------------------------------
(***************************************************************************)
(* tdx/src/pool.rs and conn.rs: a fixed number of slots, each with a lock  *)
(* and at most one connection.  A request walks the slots until one        *)
(* answers; the heartbeat walks them all.  A server that fails is blocked  *)
(* for a cooldown and a slot without a connection is connected to the best *)
(* server that is not blocked.                                             *)
(*                                                                         *)
(* Answers carry no identity that is compared: a connection is the queue   *)
(* of the answers not read from it yet.  A request may be dropped at any   *)
(* await (a deadline, a cancellation), which releases the lock.            *)
(***************************************************************************)
EXTENDS Naturals, Sequences, SequencesExt, FiniteSets

CONSTANTS Ranking,     \* the servers, best first
          PoolSize,    \* slots, filled from the head of Ranking
          Clients,     \* requests at a time
          Heartbeat,   \* the heartbeat loop
          MaxLate,     \* bound: answers left unread on a connection
          MaxOutages   \* bound: failures of servers

ASSUME PoolAssumption ==
  /\ Ranking \in Seq(ToSet(Ranking)) /\ PoolSize \in 1..Len(Ranking)
  /\ Heartbeat \notin Clients

VARIABLES slot,       \* the connection of each slot, once locked
          waiting,    \* each lock: its holder and those behind, in order
          blacklist,  \* servers within their cooldown
          up,         \* servers that work
          walker,     \* each request and the heartbeat
          outages     \* failures of servers so far

poolVars == <<slot, waiting, blacklist, up, walker, outages>>

Servers == ToSet(Ranking)
Slots == 1..PoolSize
Walkers == Clients \cup {Heartbeat}

Connected(server) ==
  [server |-> server, conn |-> "open", unread |-> <<>>, spoiled |-> FALSE]
AtRest == [pc |-> "idle", at |-> 1, tried |-> 0, failed |-> Ranking[1],
           got |-> "nothing_wrong"]
Dropped == "dropped"      \* whose answer it is when the request was dropped

\* ServerPool::start: all servers answered the probe; those that still work are
\* connected to the first slots.
PoolInit ==
  /\ up \in SUBSET Servers /\ outages = Cardinality(Servers \ up)
  /\ slot = [i \in Slots |-> [Connected(Ranking[i]) EXCEPT !.conn =
               IF Ranking[i] \in up THEN "open" ELSE "none"]]
  /\ \E i \in Slots : slot[i].conn = "open"
  /\ waiting = [i \in Slots |-> <<>>]
  /\ outages <= MaxOutages /\ blacklist = {}
  /\ walker = [w \in Walkers |-> AtRest]

-----------------------------------------------------------------------------
At(w, pc) == walker[w].pc = pc
Becomes(w, pc) == walker' = [walker EXCEPT ![w].pc = pc]
Mine(w) == slot[walker[w].at]

\* Mutant: the heartbeat does not use the locks.
Unlocked(w) == w = Heartbeat \/ Head(waiting[walker[w].at]) = w
Locked(w) == Head(waiting[walker[w].at]) = w

WithoutMe(w) == [waiting EXCEPT ![walker[w].at] = RemoveFirst(@, w)]

\* The next slot, its lock asked for; the walk ends behind the last.
NextSlot(w) ==
  IF walker[w].at = PoolSize
  THEN /\ walker' = [walker EXCEPT ![w] = AtRest]
       /\ waiting' = WithoutMe(w)
  ELSE /\ walker' = [walker EXCEPT ![w] = [AtRest EXCEPT !.pc = "lock", !.at = walker[w].at + 1]]
       /\ waiting' = [WithoutMe(w) EXCEPT ![walker[w].at + 1] = Append(@, w)]

\* pool_request, heartbeat_once.
Walk(w) ==
  /\ At(w, "idle")
  /\ walker' = [walker EXCEPT ![w] = [AtRest EXCEPT !.pc = "lock"]]
  /\ waiting' = [waiting EXCEPT ![1] = Append(@, w)]
  /\ UNCHANGED <<slot, blacklist, up, outages>>

TakeLock(w) ==
  /\ At(w, "lock") /\ Locked(w)
  /\ walker' = [walker EXCEPT ![w].pc = IF Mine(w).conn = "none" THEN "connect" ELSE "write",
                              ![w].tried = 0]
  /\ UNCHANGED <<slot, waiting, blacklist, up, outages>>

\* try_reconnect: the best server not tried yet and not blocked.
Candidates(w) == {i \in (walker[w].tried + 1)..Len(Ranking) : Ranking[i] \notin blacklist}
\* Mutant: it goes on until a server can be reached.
StartsOver(w) == walker' = [walker EXCEPT ![w].tried = 0] /\ UNCHANGED waiting
GivesUp(w) == NextSlot(w)
TryServer(w) ==
  /\ At(w, "connect")
  /\ IF Candidates(w) = {}
     THEN GivesUp(w) /\ UNCHANGED <<slot, blacklist>>
     ELSE LET i == CHOOSE i \in Candidates(w) : \A j \in Candidates(w) : i <= j IN
          IF Ranking[i] \in up
          THEN /\ slot' = [slot EXCEPT ![walker[w].at] = Connected(Ranking[i])]
               /\ UNCHANGED blacklist
               /\ IF w = Heartbeat THEN NextSlot(w) ELSE Becomes(w, "write") /\ UNCHANGED waiting
          ELSE /\ blacklist' = blacklist \cup {Ranking[i]}
               /\ walker' = [walker EXCEPT ![w].tried = i]
               /\ UNCHANGED <<slot, waiting>>
  /\ UNCHANGED <<up, outages>>

\* Conn::request writes the packet, then reads the next answer.
WritePacket(w) ==
  /\ At(w, "write")
  /\ slot' = [slot EXCEPT ![walker[w].at].unread = Append(@, w)]
  /\ Becomes(w, "read")
  /\ UNCHANGED <<waiting, blacklist, up, outages>>

ReadAnswer(w) ==
  /\ At(w, "read") /\ Mine(w).conn = "open"
  /\ slot' = [slot EXCEPT ![walker[w].at].unread = Tail(@)]
  /\ IF w = Heartbeat THEN NextSlot(w)
     ELSE /\ walker' = [walker EXCEPT ![w] = [AtRest EXCEPT !.got =
                 IF Head(Mine(w).unread) = w THEN "nothing_wrong"
                 ELSE IF Mine(w).spoiled THEN "late" ELSE "other"]]
          /\ waiting' = WithoutMe(w)
  /\ UNCHANGED <<blacklist, up, outages>>

\* Mutant: a connection is kept after a request on it timed out.
KeptOpen(w) == [slot EXCEPT ![walker[w].at].conn = "open"]
Discards(w) == [slot EXCEPT ![walker[w].at].conn = "none", ![walker[w].at].unread = <<>>,
                            ![walker[w].at].spoiled = FALSE]

\* An error or the time limit.  A request releases the slot before it blocks
\* the server, the heartbeat keeps it.
RequestFails(w) ==
  /\ At(w, "read") /\ Mine(w).conn = "broken"
  /\ slot' = Discards(w)
  /\ walker' = [walker EXCEPT ![w].pc = "block", ![w].failed = Mine(w).server,
                              ![w].tried = 0]
  /\ waiting' = IF w = Heartbeat THEN waiting ELSE WithoutMe(w)
  /\ UNCHANGED <<blacklist, up, outages>>

\* By then another request may have connected the slot to the same server.
BlockServer(w) ==
  /\ At(w, "block")
  /\ blacklist' = blacklist \cup {walker[w].failed}
  /\ IF w = Heartbeat THEN Becomes(w, "connect") /\ UNCHANGED waiting ELSE NextSlot(w)
  /\ UNCHANGED <<slot, up, outages>>

-----------------------------------------------------------------------------
\* The future of a request is dropped.  The answer to a packet it has written
\* will be read by the next request on that connection.
DropRequest(w) ==
  /\ w \in Clients /\ walker[w].pc # "idle"
  /\ walker' = [walker EXCEPT ![w] = AtRest]
  /\ waiting' = WithoutMe(w)
  /\ IF ~At(w, "read") THEN UNCHANGED slot
     ELSE LET i == walker[w].at IN
          /\ Len(slot[i].unread) <= MaxLate
          /\ slot' = [slot EXCEPT ![i].spoiled = TRUE,
                        ![i].unread = [j \in DOMAIN @ |-> IF @[j] = w THEN Dropped ELSE @[j]]]
  /\ UNCHANGED <<blacklist, up, outages>>

ServerFails(s) ==
  /\ s \in up /\ outages < MaxOutages
  /\ up' = up \ {s} /\ outages' = outages + 1
  /\ slot' = [i \in Slots |-> IF slot[i].server = s /\ slot[i].conn = "open"
                              THEN [slot[i] EXCEPT !.conn = "broken"] ELSE slot[i]]
  /\ UNCHANGED <<waiting, blacklist, walker>>

ServerReturns(s) ==
  /\ s \notin up
  /\ up' = up \cup {s}
  /\ UNCHANGED <<slot, waiting, blacklist, walker, outages>>

\* is_blocked: the cooldown has passed.
\* Mutant: a blocked server is never tried again.
ForEver(s) == FALSE
Expires(s) == s \in blacklist
CooldownEnds(s) ==
  /\ Expires(s)
  /\ blacklist' = blacklist \ {s}
  /\ UNCHANGED <<slot, waiting, up, walker, outages>>

PoolStep(w) ==
  \/ TakeLock(w) \/ TryServer(w) \/ WritePacket(w) \/ ReadAnswer(w) \/ RequestFails(w)
  \/ BlockServer(w)

PoolNext ==
  \/ \E w \in Walkers : Walk(w) \/ PoolStep(w) \/ DropRequest(w)
  \/ \E s \in Servers : ServerFails(s) \/ ServerReturns(s) \/ CooldownEnds(s)

\* The executor polls what is awaited, tokio's locks are fair, time passes, and
\* the heartbeat starts again after each interval.
PoolProgress ==
  /\ \A w \in Walkers : WF_poolVars(PoolStep(w))
  /\ \A s \in Servers : WF_poolVars(CooldownEnds(s))

PoolFairness == PoolProgress /\ WF_poolVars(Walk(Heartbeat))

PoolSpec == PoolInit /\ [][PoolNext]_poolVars /\ PoolFairness

-----------------------------------------------------------------------------
\* Every part has its type; a lock is waited for once by those, and only those,
\* that are at its slot.
PoolTypeOK ==
  /\ slot \in [Slots -> [server : Servers, conn : {"open", "broken", "none"},
                         unread : Seq(Walkers \cup {Dropped}), spoiled : BOOLEAN]]
  /\ blacklist \subseteq Servers /\ up \subseteq Servers
  /\ \A w \in Walkers :
       /\ walker[w].pc \in {"idle", "lock", "connect", "write", "read", "block"}
       /\ walker[w].failed \in Servers /\ walker[w].tried \in 0..Len(Ranking)
       /\ \A i \in Slots : Cardinality({j \in DOMAIN waiting[i] : waiting[i][j] = w}) <= 1

\* At most one walker talks on a connection, and none holds two slots: the
\* order of locks documented at pool_request.
OneSlotEach ==
  /\ \A v, w \in Walkers : v # w /\ walker[v].at = walker[w].at =>
       ~(walker[v].pc \in {"connect", "write", "read"} /\ walker[w].pc \in {"connect", "write", "read"})
  /\ \A w \in Walkers : Cardinality({i \in Slots : w \in ToSet(waiting[i])}) <= 1

\* A request never gets an answer that belongs to another (Conn::request),
\* unless on a connection on which a request was dropped before.
NoMixedAnswers == \A w \in Walkers : walker[w].got # "other"

\* A slot serves one request at a time: pool_request's locks, Conn::request's
\* answers.
SlotsAreExclusive == OneSlotEach /\ NoMixedAnswers

\* Every request ends, in an answer or an error (pool_request).
RequestsEnd == \A w \in Clients : []<>At(w, "idle")

\* When all servers work again, the heartbeat has every slot connected again
\* and no cooldown keeps a slot empty (heartbeat_once, is_blocked).
PoolRecovers ==
  <>[](up = Servers) => <>[](\A i \in Slots : slot[i].conn = "open")

\* Requests end meanwhile, and the pool recovers (pool_request, heartbeat_once).
PoolServes == RequestsEnd /\ PoolRecovers
=============================================================================
