--------------------------- MODULE DatabaseProofs ---------------------------
(***************************************************************************)
(* Theorems of what is in the database, part by part.                      *)
(*                                                                         *)
(* EventStore, for any number of tasks, events, effects and callers. The   *)
(* inductive invariant is IInv. LogContiguous alone does not say that      *)
(* there is a last number (an infinite log has none), hence Contiguous;    *)
(* CheckpointWithinLog needs that the last number never decreases;         *)
(* AckedIsDurable needs that an acknowledged row is never replaced, which  *)
(* follows from the other parts.                                           *)
(*                                                                         *)
(* RelationGraph, for any candidates, evidence and number of requests.     *)
(* SnapshotsReplay is not inductive: that nothing recorded later is seen   *)
(* at a time of the past rests on every request having read a later time   *)
(* (PastKept), and what is shown of a revision on its row keeping all but  *)
(* the end of its knowledge (Grown). Nor is ProjectionIsSupported, which   *)
(* speaks of the end of a request: SupportKept says what holds between two *)
(* of its jobs. That a number of an identity is used once rests on its     *)
(* numbers being those up to some number (RowsNumbered).                   *)
(*                                                                         *)
(* Disclosure, for all listings and any number of jobs and of troubles:    *)
(* what the store says of disclosures is sound, and nothing that was       *)
(* stored is taken back.                                                   *)
(*                                                                         *)
(* A behaviour of the database is one of one of them, so what is proved of *)
(* each holds of it.                                                       *)
(***************************************************************************)
EXTENDS MCEventStore, SequenceTheorems, TLAPS

-----------------------------------------------------------------------------
\* The event store.

\* The numbers of each task are exactly those up to some natural number.
Contiguous == \A t \in TaskId : \E n \in Nat : SeqsIn(events, t) = 1..n

\* Only terminal outcomes and numbered checkpoints are ever acknowledged.
AckedRequests ==
  \A r \in acked : /\ r.op = "complete" => r.status # "pending"
                   /\ r.op = "checkpoint" => r.seq \in Nat

IInv ==
  /\ TypeOK
  /\ Contiguous
  /\ CheckpointWithinLog
  /\ OneEffectPerKey
  /\ AckedIsDurable
  /\ AckedRequests

-----------------------------------------------------------------------------
\* The maximum of the numbers 1..n is n, and of no numbers 0: what
\* COALESCE(MAX(seq), 0) returns for a log without gaps.
LEMMA MaxOfInterval ==
  ASSUME NEW n \in Nat
  PROVE  MaxOrZero(1..n) = n
<1>1. CASE n = 0
  BY <1>1 DEF MaxOrZero
<1>2. CASE n # 0
  <2> DEFINE Greatest(s) == \A other \in 1..n : other <= s
  <2>1. n \in 1..n /\ Greatest(n)
    BY <1>2
  <2> HIDE DEF Greatest
  <2>2. (CHOOSE s \in 1..n : Greatest(s)) \in 1..n /\ Greatest(CHOOSE s \in 1..n : Greatest(s))
    BY <2>1
  <2>3. (CHOOSE s \in 1..n : Greatest(s)) = n
    BY <2>1, <2>2 DEF Greatest
  <2>4. 1..n # {}
    BY <2>1
  <2> QED
    BY <2>3, <2>4 DEF MaxOrZero, Greatest
<1> QED
  BY <1>1, <1>2

\* Inserting the row of the next number extends the numbers of its task by
\* one and leaves the numbers of every other task alone.
LEMMA InsertNumber ==
  ASSUME NEW table, NEW t, NEW n \in Nat, NEW row, NEW u,
         SeqsIn(table, t) = 1..n
  PROVE  SeqsIn(Insert(table, <<t, n + 1>>, row), u)
           = IF u = t THEN 1..(n + 1) ELSE SeqsIn(table, u)
<1> DEFINE key == <<t, n + 1>>
           new == Insert(table, key, row)
<1>1. DOMAIN new = DOMAIN table \cup {key}
  BY DEF Insert
<1>2. ASSUME NEW s
      PROVE  s \in SeqsIn(new, u) <=> s \in SeqsIn(table, u) \/ (u = t /\ s = n + 1)
  <2>1. s \in SeqsIn(new, u) <=> \E k \in DOMAIN new : k[1] = u /\ k[2] = s
    BY DEF SeqsIn
  <2>2. s \in SeqsIn(table, u) <=> \E k \in DOMAIN table : k[1] = u /\ k[2] = s
    BY DEF SeqsIn
  <2>3. key[1] = t /\ key[2] = n + 1
    OBVIOUS
  <2> HIDE DEF key, new
  <2> QED
    BY <1>1, <2>1, <2>2, <2>3
<1>3. 1..(n + 1) = (1..n) \cup {n + 1}
  OBVIOUS
<1>4. CASE u = t
  <2>1. \A s : s \in SeqsIn(new, u) <=> s \in 1..(n + 1)
    BY <1>2, <1>3, <1>4
  <2> QED
    BY <2>1, <1>4
<1>5. CASE u # t
  <2>1. \A s : s \in SeqsIn(new, u) <=> s \in SeqsIn(table, u)
    BY <1>2, <1>5
  <2> QED
    BY <2>1, <1>5
<1> QED
  BY <1>4, <1>5

\* Under the invariant, the last number is a natural number and the log holds
\* exactly the numbers up to it.
LEMMA LastSeqOfLog ==
  ASSUME Contiguous, NEW t \in TaskId
  PROVE  LastSeq(t) \in Nat /\ SeqsIn(events, t) = 1..LastSeq(t)
<1>1. PICK n \in Nat : SeqsIn(events, t) = 1..n
  BY DEF Contiguous
<1>2. LastSeq(t) = n
  BY <1>1, MaxOfInterval DEF LastSeq
<1> QED
  BY <1>1, <1>2

\* A step after which every row is still there, no checkpoint is taken back
\* and a closed effect keeps its outcome cannot undo anything acknowledged.
LEMMA KeepsStored ==
  ASSUME DOMAIN tasks \subseteq DOMAIN tasks',
         \A t \in DOMAIN tasks : \A n \in Nat : n <= tasks[t].acceptedSeq => n <= tasks'[t].acceptedSeq,
         DOMAIN events \subseteq DOMAIN events',
         \A k \in DOMAIN events : events'[k] = events[k],
         DOMAIN effects \subseteq DOMAIN effects',
         \A e \in DOMAIN effects : /\ effects'[e].task = effects[e].task
                                  /\ effects'[e].intent = effects[e].intent,
         \A e \in DOMAIN effects : effects[e].status # "pending" =>
                                  /\ effects'[e].status = effects[e].status
                                  /\ effects'[e].result = effects[e].result,
         AckedIsDurable, AckedRequests,
         NEW r \in acked
  PROVE  Stored(r)'
<1>1. Stored(r)
  BY DEF AckedIsDurable
<1>2. /\ r.op = "complete" => r.status # "pending"
      /\ r.op = "checkpoint" => r.seq \in Nat
  BY DEF AckedRequests
<1>3. r.op = "append" => <<r.task, r.seq>> \in DOMAIN events'
                         /\ events'[<<r.task, r.seq>>] = [id |-> r.id, body |-> r.body]
  BY <1>1 DEF Stored
<1>4. r.op = "checkpoint" => r.task \in DOMAIN tasks' /\ r.seq <= tasks'[r.task].acceptedSeq
  BY <1>1, <1>2 DEF Stored
<1>5. r.op = "begin" => /\ r.effect \in DOMAIN effects'
                        /\ effects'[r.effect].task = r.task
                        /\ effects'[r.effect].intent = r.intent
  BY <1>1 DEF Stored
<1>6. r.op = "complete" => /\ r.effect \in DOMAIN effects'
                           /\ effects'[r.effect].status = r.status
                           /\ effects'[r.effect].result = r.result
  BY <1>1, <1>2 DEF Stored
<1>7. r.op = "create" => r.task \in DOMAIN tasks'
  BY <1>1 DEF Stored
<1> QED
  BY <1>3, <1>4, <1>5, <1>6, <1>7 DEF Stored

-----------------------------------------------------------------------------
\* The empty tables satisfy the invariant.
LEMMA InitIInv == Init => IInv
<1> SUFFICES ASSUME Init PROVE IInv
  OBVIOUS
<1>1. TypeOK
  BY DEF Init, TypeOK
<1>2. Contiguous
  <2>1. \A t : SeqsIn(events, t) = 1..0
    BY DEF Init, SeqsIn
  <2> QED
    BY <2>1 DEF Contiguous
<1> QED
  BY <1>1, <1>2 DEF Init, IInv, CheckpointWithinLog, OneEffectPerKey, AckedIsDurable, AckedRequests

\* create_task adds at most one row and touches no event and no effect.
LEMMA CreateTaskIInv ==
  ASSUME IInv, NEW t \in TaskId, NEW spec \in TaskSpec, NEW phase \in Phase,
         CreateTask(t, spec, phase)
  PROVE  IInv'
<1> USE DEF IInv
<1> DEFINE row == [spec |-> spec, phase |-> phase, acceptedSeq |-> 0,
                   checkpoint |-> NoCheckpoint]
<1>1. events' = events /\ effects' = effects
      /\ acked' = acked \cup {[op |-> "create", task |-> t]}
  BY DEF CreateTask, Ack
<1>2. /\ DOMAIN tasks' = DOMAIN tasks \cup {t}
      /\ \A u \in DOMAIN tasks : tasks'[u] = tasks[u]
      /\ t \notin DOMAIN tasks => tasks'[t] = row
  BY DEF CreateTask, Insert, TypeOK
<1>3. \A u : LastSeq(u)' = LastSeq(u)
  BY <1>1 DEF LastSeq
<1>4. row \in [spec : TaskSpec, phase : Phase, acceptedSeq : Nat, checkpoint : CheckpointRow]
  BY DEF CheckpointRow, NoCheckpoint
<1> HIDE DEF row
<1>5. TypeOK'
  BY <1>1, <1>2, <1>4 DEF TypeOK
<1>6. Contiguous'
  BY <1>1 DEF Contiguous
<1>7. CheckpointWithinLog'
  <2>1. LastSeq(t) \in Nat
    BY LastSeqOfLog
  <2>2. row.acceptedSeq = 0 /\ row.checkpoint.acceptedSeq = 0
    BY DEF row, NoCheckpoint
  <2> QED
    BY <1>2, <1>3, <2>1, <2>2 DEF CheckpointWithinLog
<1>8. OneEffectPerKey'
  BY <1>1 DEF OneEffectPerKey
<1>9. AckedIsDurable' /\ AckedRequests'
  <2>1. \A r \in acked : Stored(r)'
    BY <1>1, <1>2, KeepsStored
  <2>2. Stored([op |-> "create", task |-> t])'
    BY <1>2 DEF Stored
  <2> QED
    BY <1>1, <2>1, <2>2 DEF AckedIsDurable, AckedRequests
<1> QED
  BY <1>5, <1>6, <1>7, <1>8, <1>9

\* append_event adds the next number or changes nothing but the answer.
LEMMA AppendEventIInv ==
  ASSUME IInv, NEW t \in TaskId, NEW seq \in Nat, NEW id \in EventId,
         NEW body \in EventBody, AppendEvent(t, seq, id, body)
  PROVE  IInv'
<1> USE DEF IInv
<1> DEFINE row == [id |-> id, body |-> body]
           request == AppendRequest(t, seq, id, body)
<1>1. tasks' = tasks /\ effects' = effects /\ acked' = acked \cup {request}
  BY DEF AppendEvent, Ack
<1>2. request.op = "append" /\ request.task = t /\ request.seq = seq
      /\ request.id = id /\ request.body = body
  BY DEF AppendRequest
<1> HIDE DEF request
<1>3. CASE NextInSequence(t, seq) /\ TaskRowExists(t)
           /\ events' = Insert(events, <<t, seq>>, row)
  <2>1. /\ DOMAIN events' = DOMAIN events \cup {<<t, seq>>}
        /\ events'[<<t, seq>>] = row
        /\ \A k \in DOMAIN events : k # <<t, seq>> => events'[k] = events[k]
    BY <1>3 DEF Insert
  <2>2. LastSeq(t) \in Nat /\ SeqsIn(events, t) = 1..LastSeq(t) /\ seq = LastSeq(t) + 1
    BY <1>3, LastSeqOfLog DEF NextInSequence
  <2>3. <<t, seq>> \notin DOMAIN events
    <3>1. seq \notin SeqsIn(events, t)
      BY <2>2
    <3> QED
      BY <3>1 DEF SeqsIn
  <2>4. \A u \in TaskId : SeqsIn(events', u)
                             = IF u = t THEN 1..(LastSeq(t) + 1) ELSE SeqsIn(events, u)
    BY <1>3, <2>2, InsertNumber
  <2>5. Contiguous'
    <3>1. SUFFICES ASSUME NEW u \in TaskId
                   PROVE  \E n \in Nat : SeqsIn(events', u) = 1..n
      BY DEF Contiguous
    <3>2. CASE u = t
      BY <3>2, <2>2, <2>4
    <3>3. CASE u # t
      BY <3>3, <2>4 DEF Contiguous
    <3> QED
      BY <3>2, <3>3
  <2>6. \A u \in TaskId : /\ LastSeq(u) \in Nat
                          /\ LastSeq(u)' = IF u = t THEN LastSeq(u) + 1 ELSE LastSeq(u)
    <3> SUFFICES ASSUME NEW u \in TaskId
                 PROVE  /\ LastSeq(u) \in Nat
                        /\ LastSeq(u)' = IF u = t THEN LastSeq(u) + 1 ELSE LastSeq(u)
      OBVIOUS
    <3>1. LastSeq(u) \in Nat
      BY LastSeqOfLog
    <3>2. CASE u = t
      <4>1. SeqsIn(events', u) = 1..(LastSeq(t) + 1) /\ LastSeq(t) + 1 \in Nat
        BY <3>2, <2>2, <2>4
      <4> QED
        BY <4>1, <3>1, <3>2, MaxOfInterval DEF LastSeq
    <3>3. CASE u # t
      BY <3>1, <3>3, <2>4 DEF LastSeq
    <3> QED
      BY <3>1, <3>2, <3>3
  <2>7. TypeOK'
    <3>1. t \in DOMAIN tasks /\ seq \in Nat \ {0}
      BY <1>3, <2>2 DEF TaskRowExists
    <3>2. row \in [id : EventId, body : EventBody]
      OBVIOUS
    <3> HIDE DEF row
    <3> QED
      BY <1>1, <2>1, <3>1, <3>2 DEF TypeOK
  <2>8. CheckpointWithinLog'
    <3> SUFFICES ASSUME NEW u \in DOMAIN tasks
                 PROVE  /\ tasks[u].acceptedSeq <= LastSeq(u)'
                        /\ tasks[u].checkpoint.acceptedSeq = tasks[u].acceptedSeq
      BY <1>1 DEF CheckpointWithinLog
    <3>1. u \in TaskId /\ tasks[u].acceptedSeq \in Nat
      BY DEF TypeOK
    <3> QED
      BY <3>1, <2>6 DEF CheckpointWithinLog
  <2>9. AckedIsDurable' /\ AckedRequests'
    <3>1. \A r \in acked : Stored(r)'
      BY <1>1, <2>1, <2>3, KeepsStored
    <3>2. Stored(request)'
      BY <1>2, <2>1 DEF Stored
    <3> QED
      BY <1>1, <1>2, <3>1, <3>2 DEF AckedIsDurable, AckedRequests
  <2>10. OneEffectPerKey'
    BY <1>1 DEF OneEffectPerKey
  <2> QED
    BY <2>5, <2>7, <2>8, <2>9, <2>10
<1>4. CASE SameEvent(t, seq, id, body) /\ events' = events
  <2>1. \A u : LastSeq(u)' = LastSeq(u)
    BY <1>4 DEF LastSeq
  <2>2. TypeOK' /\ Contiguous' /\ OneEffectPerKey'
    BY <1>1, <1>4 DEF TypeOK, Contiguous, OneEffectPerKey
  <2>3. CheckpointWithinLog'
    BY <1>1, <2>1 DEF CheckpointWithinLog
  <2>4. \A r \in acked : Stored(r)'
    BY <1>1, <1>4, KeepsStored
  <2>5. Stored(request)'
    BY <1>2, <1>4 DEF Stored, SameEvent
  <2> QED
    BY <1>1, <1>2, <2>2, <2>3, <2>4, <2>5 DEF AckedIsDurable, AckedRequests
<1> QED
  BY <1>3, <1>4 DEF AppendEvent

\* put_checkpoint only moves the cursor of one task forward, within its log.
LEMMA PutCheckpointIInv ==
  ASSUME IInv, NEW t \in TaskId, NEW seq \in Nat, NEW phase \in Phase,
         PutCheckpoint(t, seq, phase)
  PROVE  IInv'
<1> USE DEF IInv
<1> DEFINE request == [op |-> "checkpoint", task |-> t, seq |-> seq]
<1>1. /\ events' = events /\ effects' = effects /\ acked' = acked \cup {request}
      /\ t \in DOMAIN tasks /\ tasks[t].acceptedSeq <= seq /\ seq <= LastSeq(t)
  BY DEF PutCheckpoint, InAcceptableRange, Ack
<1>2. /\ DOMAIN tasks' = DOMAIN tasks
      /\ \A u \in DOMAIN tasks : u # t => tasks'[u] = tasks[u]
      /\ tasks'[t] = [spec |-> tasks[t].spec, phase |-> phase, acceptedSeq |-> seq,
                      checkpoint |-> [phase |-> phase, acceptedSeq |-> seq]]
  <2>1. tasks[t] \in [spec : TaskSpec, phase : Phase, acceptedSeq : Nat,
                      checkpoint : CheckpointRow]
    BY <1>1 DEF TypeOK
  <2>2. tasks' = [u \in DOMAIN tasks |->
                    IF u = t THEN [tasks[t] EXCEPT !.phase = phase, !.acceptedSeq = seq,
                                     !.checkpoint = [phase |-> phase, acceptedSeq |-> seq]]
                             ELSE tasks[u]]
    BY <1>1 DEF PutCheckpoint
  <2> QED
    BY <1>1, <2>1, <2>2
<1>3. \A u : LastSeq(u)' = LastSeq(u)
  BY <1>1 DEF LastSeq
<1>4. TypeOK'
  <2>1. tasks'[t] \in [spec : TaskSpec, phase : Phase, acceptedSeq : Nat,
                       checkpoint : CheckpointRow]
    BY <1>1, <1>2 DEF TypeOK, CheckpointRow
  <2> QED
    BY <1>1, <1>2, <2>1 DEF TypeOK
<1>5. Contiguous' /\ OneEffectPerKey'
  BY <1>1 DEF Contiguous, OneEffectPerKey
<1>6. CheckpointWithinLog'
  BY <1>1, <1>2, <1>3 DEF CheckpointWithinLog
<1>7. AckedIsDurable' /\ AckedRequests'
  <2>1. \A u \in DOMAIN tasks : \A n \in Nat : n <= tasks[u].acceptedSeq => n <= tasks'[u].acceptedSeq
    <3> SUFFICES ASSUME NEW u \in DOMAIN tasks, NEW n \in Nat, n <= tasks[u].acceptedSeq
                 PROVE  n <= tasks'[u].acceptedSeq
      OBVIOUS
    <3>1. tasks[t].acceptedSeq \in Nat
      BY <1>1 DEF TypeOK
    <3>2. CASE u = t
      BY <1>1, <1>2, <3>1, <3>2
    <3>3. CASE u # t
      BY <1>2, <3>3
    <3> QED
      BY <3>2, <3>3
  <2>2. \A r \in acked : Stored(r)'
    BY <1>1, <1>2, <2>1, KeepsStored
  <2>3. Stored(request)'
    BY <1>1, <1>2 DEF Stored
  <2> QED
    BY <1>1, <2>2, <2>3 DEF AckedIsDurable, AckedRequests
<1> QED
  BY <1>4, <1>5, <1>6, <1>7

\* begin_effect adds an effect under a fresh identity and a fresh key, or
\* finds the one that was asked for.
LEMMA BeginEffectIInv ==
  ASSUME IInv, NEW e \in EffectId, NEW t \in TaskId, NEW cause \in Nat,
         NEW intent \in Intent, NEW k \in Key, BeginEffect(e, t, cause, intent, k)
  PROVE  IInv'
<1> USE DEF IInv
<1> DEFINE request == [op |-> "begin", effect |-> e, task |-> t, intent |-> intent]
           row == [task |-> t, cause |-> cause, intent |-> intent, key |-> k,
                   status |-> "pending", result |-> NoResult]
<1>1. tasks' = tasks /\ events' = events /\ acked' = acked \cup {request}
  BY DEF BeginEffect, Ack
<1>2. \A u : LastSeq(u)' = LastSeq(u)
  BY <1>1 DEF LastSeq
<1>3. Contiguous' /\ CheckpointWithinLog'
  BY <1>1, <1>2 DEF Contiguous, CheckpointWithinLog
<1>4. CASE SameIdentityOrKey(e, k) = {} /\ TaskRowExists(t) /\ effects' = Insert(effects, e, row)
  <2>1. e \notin DOMAIN effects /\ \A f \in DOMAIN effects : effects[f].key # k
    BY <1>4 DEF SameIdentityOrKey
  <2>2. /\ DOMAIN effects' = DOMAIN effects \cup {e}
        /\ effects'[e] = row
        /\ \A f \in DOMAIN effects : effects'[f] = effects[f]
    BY <1>4, <2>1 DEF Insert
  <2>3. TypeOK'
    <3>1. row \in [task : DOMAIN tasks, cause : Nat, intent : Intent, key : Key,
                   status : EffectStatus \cup {"pending"}, result : Result \cup {NoResult}]
      BY <1>4 DEF TaskRowExists
    <3> HIDE DEF row
    <3> QED
      BY <1>1, <2>2, <3>1 DEF TypeOK
  <2>4. OneEffectPerKey'
    BY <2>1, <2>2 DEF OneEffectPerKey
  <2>5. \A r \in acked : Stored(r)'
    BY <1>1, <2>2, KeepsStored
  <2>6. Stored(request)'
    BY <2>2 DEF Stored
  <2> QED
    BY <1>1, <1>3, <2>3, <2>4, <2>5, <2>6 DEF AckedIsDurable, AckedRequests
<1>5. CASE e \in SameIdentityOrKey(e, k) /\ SameEffect(e, t, intent) /\ effects' = effects
  <2>1. TypeOK' /\ OneEffectPerKey'
    BY <1>1, <1>5 DEF TypeOK, OneEffectPerKey
  <2>2. \A r \in acked : Stored(r)'
    BY <1>1, <1>5, KeepsStored
  <2>3. Stored(request)'
    BY <1>5 DEF Stored, SameEffect, SameIdentityOrKey
  <2> QED
    BY <1>1, <1>3, <2>1, <2>2, <2>3 DEF AckedIsDurable, AckedRequests
<1> QED
  BY <1>4, <1>5 DEF BeginEffect

\* complete_effect closes one pending effect; a closed one keeps its outcome.
LEMMA CompleteEffectIInv ==
  ASSUME IInv, NEW e \in EffectId, NEW status, NEW result \in Result,
         CompleteEffect(e, status, result)
  PROVE  IInv'
<1> USE DEF IInv
<1> DEFINE request == [op |-> "complete", effect |-> e, status |-> status, result |-> result]
<1>1. /\ tasks' = tasks /\ events' = events /\ acked' = acked \cup {request}
      /\ e \in DOMAIN effects /\ status \in EffectStatus
      /\ effects[e].status # "pending"
           => effects[e].status = status /\ effects[e].result = result
  BY DEF CompleteEffect, Ack, ValidStatus, AcceptsOutcome
<1>2. /\ DOMAIN effects' = DOMAIN effects
      /\ \A f \in DOMAIN effects : f # e => effects'[f] = effects[f]
      /\ effects'[e] = [effects[e] EXCEPT !.status = status, !.result = result]
  BY <1>1 DEF CompleteEffect
<1>3. effects[e] \in [task : DOMAIN tasks, cause : Nat, intent : Intent, key : Key,
                      status : EffectStatus \cup {"pending"}, result : Result \cup {NoResult}]
  BY <1>1 DEF TypeOK
<1>4. /\ effects'[e].status = status /\ effects'[e].result = result
      /\ effects'[e].task = effects[e].task /\ effects'[e].intent = effects[e].intent
      /\ effects'[e].key = effects[e].key
      /\ effects'[e] \in [task : DOMAIN tasks, cause : Nat, intent : Intent, key : Key,
                           status : EffectStatus \cup {"pending"}, result : Result \cup {NoResult}]
  BY <1>1, <1>2, <1>3
<1>5. \A u : LastSeq(u)' = LastSeq(u)
  BY <1>1 DEF LastSeq
<1>6. Contiguous' /\ CheckpointWithinLog'
  BY <1>1, <1>5 DEF Contiguous, CheckpointWithinLog
<1>7. TypeOK'
  BY <1>1, <1>2, <1>4 DEF TypeOK
<1>8. OneEffectPerKey'
  <2>1. \A f \in DOMAIN effects : effects'[f].key = effects[f].key
    BY <1>2, <1>4
  <2> HIDE DEF request
  <2> QED
    BY <1>2, <2>1 DEF OneEffectPerKey
<1>9. \A r \in acked : Stored(r)'
  BY <1>1, <1>2, <1>4, KeepsStored
<1>10. Stored(request)' /\ request.status # "pending"
  BY <1>1, <1>2, <1>4 DEF Stored, EffectStatus
<1> QED
  BY <1>1, <1>6, <1>7, <1>8, <1>9, <1>10 DEF AckedIsDurable, AckedRequests

-----------------------------------------------------------------------------
\* The parts of IInv hold together in every reachable state of the tables.
THEOREM Invariance == Spec => []IInv
<1>1. Init => IInv
  BY InitIInv
<1>2. IInv /\ [Next]_vars => IInv'
  <2> SUFFICES ASSUME IInv, [Next]_vars PROVE IInv'
    OBVIOUS
  <2>1. 0..MaxSeq \subseteq Nat
    BY MaxSeqAssumption
  <2>2. CASE \E t \in TaskId, spec \in TaskSpec, phase \in Phase : CreateTask(t, spec, phase)
    BY <2>2, CreateTaskIInv
  <2>3. CASE \E t \in TaskId, seq \in 0..MaxSeq, id \in EventId, body \in EventBody :
               AppendEvent(t, seq, id, body)
    BY <2>1, <2>3, AppendEventIInv
  <2>4. CASE \E t \in TaskId, seq \in 0..MaxSeq, phase \in Phase : PutCheckpoint(t, seq, phase)
    BY <2>1, <2>4, PutCheckpointIInv
  <2>5. CASE \E e \in EffectId, t \in TaskId, cause \in 0..MaxSeq, intent \in Intent, k \in Key :
               BeginEffect(e, t, cause, intent, k)
    BY <2>1, <2>5, BeginEffectIInv
  <2>6. CASE \E e \in EffectId, status \in SentStatus, result \in Result :
               CompleteEffect(e, status, result)
    BY <2>6, CompleteEffectIInv
  <2>7. CASE UNCHANGED vars
    BY <2>7 DEF vars, IInv, TypeOK, Contiguous, CheckpointWithinLog, OneEffectPerKey,
                AckedIsDurable, AckedRequests, Stored, LastSeq
  <2> QED
    BY <2>2, <2>3, <2>4, <2>5, <2>6, <2>7 DEF Next
<1> QED
  BY <1>1, <1>2, PTL DEF Spec

\* The tables keep their types, and no event or effect belongs to a task that
\* does not exist (the foreign keys of migrate).
THEOREM SpecTypeOK == Spec => []TypeOK
<1>1. IInv => TypeOK
  BY DEF IInv
<1> QED
  BY <1>1, Invariance, PTL

\* The log of every task is the numbers 1, 2, ... without a gap, however many
\* hosts append to it and repeat their requests (append_event).
THEOREM SpecLogContiguous == Spec => []LogContiguous
<1>1. IInv => LogContiguous
  BY LastSeqOfLog DEF IInv, LogContiguous
<1> QED
  BY <1>1, Invariance, PTL

\* A checkpoint never accepts an event the log does not hold (put_checkpoint).
THEOREM SpecCheckpointWithinLog == Spec => []CheckpointWithinLog
<1>1. IInv => CheckpointWithinLog
  BY DEF IInv
<1> QED
  BY <1>1, Invariance, PTL

\* No two effects share an idempotency key (begin_effect).
THEOREM SpecOneEffectPerKey == Spec => []OneEffectPerKey
<1>1. IInv => OneEffectPerKey
  BY DEF IInv
<1> QED
  BY <1>1, Invariance, PTL

\* What was acknowledged once stays in the tables for good.
THEOREM SpecAckedIsDurable == Spec => []AckedIsDurable
<1>1. IInv => AckedIsDurable
  BY DEF IInv
<1> QED
  BY <1>1, Invariance, PTL

-----------------------------------------------------------------------------
\* A sequence that agrees with a shorter one on its positions extends it.
LEMMA ExtendsByOne ==
  ASSUME NEW S, NEW n \in Nat, NEW s \in [1..n -> S], NEW t \in [1..(n + 1) -> S],
         \A i \in 1..n : t[i] = s[i]
  PROVE  /\ Len(t) = Len(s) + 1
         /\ SubSeq(t, 1, Len(s)) = s
<1>1. s \in Seq(S) /\ t \in Seq(S)
  BY SeqDef
<1>2. Len(s) = n /\ Len(t) = n + 1
  BY <1>1, LenProperties
<1>3. \A i \in 1..n : t[i] \in S
  OBVIOUS
<1>4. /\ SubSeq(t, 1, n) \in Seq(S)
      /\ Len(SubSeq(t, 1, n)) = n
      /\ \A i \in 1..n : SubSeq(t, 1, n)[i] = t[i]
  BY <1>3, SubSeqProperties
<1>5. SubSeq(t, 1, n) = s
  BY <1>1, <1>2, <1>4, SeqEqual
<1> QED
  BY <1>2, <1>5

\* Appending to the log of the observed task is one AppendEvent of its journal;
\* appending to another log, or replaying, is none.
LEMMA AppendEventRefines ==
  ASSUME IInv, TypeOK', NEW t \in TaskId, NEW seq \in Nat, NEW id, NEW body,
         AppendEvent(t, seq, id, body)
  PROVE  Journal!AppendEvent \/ UNCHANGED Journal!vars
<1> USE DEF IInv
<1> DEFINE o == ObservedTask
<1>1. o \in TaskId /\ LastSeq(o) \in Nat /\ SeqsIn(events, o) = 1..LastSeq(o)
  BY ObservedTaskAssumption, LastSeqOfLog
<1>2. tasks' = tasks /\ effects' = effects
  BY DEF AppendEvent
<1>3. AcceptedOf(o)' = AcceptedOf(o) /\ EffectsOf(o)' = EffectsOf(o)
  BY <1>2 DEF AcceptedOf, EffectsOf
<1>4. CASE events' = events
  BY <1>3, <1>4 DEF Journal!vars, LogOf, LastSeq
<1>5. CASE /\ NextInSequence(t, seq)
           /\ events' = Insert(events, <<t, seq>>, [id |-> id, body |-> body])
  <2>1. \A k \in DOMAIN events : k # <<t, seq>> => events'[k] = events[k]
    BY <1>5 DEF Insert
  <2>2. \A n \in 1..LastSeq(o) : <<o, n>> \in DOMAIN events
    <3> SUFFICES ASSUME NEW n \in 1..LastSeq(o) PROVE <<o, n>> \in DOMAIN events
      OBVIOUS
    <3>1. n \in SeqsIn(events, o)
      BY <1>1
    <3>2. PICK k \in DOMAIN events : k[1] = o /\ k[2] = n
      BY <3>1 DEF SeqsIn
    <3>3. k = <<o, n>>
      BY <3>2 DEF TypeOK
    <3> QED
      BY <3>2, <3>3
  <2>3. LastSeq(t) \in Nat /\ SeqsIn(events, t) = 1..LastSeq(t) /\ seq = LastSeq(t) + 1
    BY <1>5, LastSeqOfLog DEF NextInSequence
  <2>4. SeqsIn(events', o) = IF o = t THEN 1..(LastSeq(t) + 1) ELSE SeqsIn(events, o)
    BY <1>5, <2>3, InsertNumber
  <2>5. CASE o # t
    <3>1. LastSeq(o)' = LastSeq(o)
      BY <2>4, <2>5 DEF LastSeq
    <3>2. \A n \in 1..LastSeq(o) : events'[<<o, n>>] = events[<<o, n>>]
      BY <2>1, <2>2, <2>5
    <3>3. LogOf(o)' = LogOf(o)
      BY <3>1, <3>2 DEF LogOf
    <3> QED
      BY <1>3, <3>3 DEF Journal!vars
  <2>6. CASE o = t
    <3>1. LastSeq(o)' = LastSeq(o) + 1
      BY <1>1, <2>4, <2>6, MaxOfInterval DEF LastSeq
    <3>2. \A n \in 1..LastSeq(o) : events'[<<o, n>>] = events[<<o, n>>]
      BY <1>1, <2>1, <2>2, <2>3, <2>6
    <3>3. LogOf(o)' = [n \in 1..(LastSeq(o) + 1) |-> events'[<<o, n>>]]
      BY <3>1 DEF LogOf
    <3>4. LogOf(o) \in [1..LastSeq(o) -> [id : EventId, body : EventBody]]
      BY <2>2 DEF LogOf, TypeOK
    <3>5. LogOf(o)' \in [1..(LastSeq(o) + 1) -> [id : EventId, body : EventBody]]
      <4>1. \A n \in 1..(LastSeq(o) + 1) : <<o, n>> \in DOMAIN events'
        BY <1>1, <1>5, <2>2, <2>3, <2>6 DEF Insert
      <4> QED
        BY <3>3, <4>1 DEF TypeOK
    <3>6. \A n \in 1..LastSeq(o) : LogOf(o)'[n] = LogOf(o)[n]
      <4>1. LogOf(o) = [n \in 1..LastSeq(o) |-> events[<<o, n>>]]
        BY DEF LogOf
      <4>2. 1..LastSeq(o) \subseteq 1..(LastSeq(o) + 1)
        BY <1>1
      <4> QED
        BY <3>2, <3>3, <4>1, <4>2
    <3>7. Len(LogOf(o)') = Len(LogOf(o)) + 1 /\ SubSeq(LogOf(o)', 1, Len(LogOf(o))) = LogOf(o)
      <4> HIDE DEF o
      <4> QED
        BY <1>1, <3>4, <3>5, <3>6, ExtendsByOne
    <3> QED
      BY <1>3, <3>7 DEF Journal!AppendEvent
  <2> QED
    BY <2>5, <2>6
<1> QED
  BY <1>4, <1>5 DEF AppendEvent

\* Creating a task, whether or not it existed, is invisible in every journal.
LEMMA CreateTaskRefines ==
  ASSUME NEW t, NEW spec, NEW phase, CreateTask(t, spec, phase)
  PROVE  UNCHANGED Journal!vars
<1>1. events' = events /\ effects' = effects
  BY DEF CreateTask
<1>2. AcceptedOf(ObservedTask)' = AcceptedOf(ObservedTask)
  BY DEF CreateTask, Insert, AcceptedOf
<1> QED
  BY <1>1, <1>2 DEF Journal!vars, LogOf, LastSeq, EffectsOf

\* A checkpoint of the observed task is one Accept of its journal.
LEMMA PutCheckpointRefines ==
  ASSUME IInv, NEW t \in TaskId, NEW seq \in Nat, NEW phase, PutCheckpoint(t, seq, phase)
  PROVE  Journal!Accept \/ UNCHANGED Journal!vars
<1> USE DEF IInv
<1> DEFINE o == ObservedTask
<1>1. /\ events' = events /\ effects' = effects
      /\ t \in DOMAIN tasks /\ tasks[t].acceptedSeq <= seq /\ seq <= LastSeq(t)
  BY DEF PutCheckpoint, InAcceptableRange
<1>2. LogOf(o)' = LogOf(o) /\ EffectsOf(o)' = EffectsOf(o)
  BY <1>1 DEF LogOf, LastSeq, EffectsOf
<1>3. /\ DOMAIN tasks' = DOMAIN tasks
      /\ \A u \in DOMAIN tasks : u # t => tasks'[u] = tasks[u]
  BY DEF PutCheckpoint
<1>4. tasks'[t].acceptedSeq = seq
  <2>1. tasks[t] \in [spec : TaskSpec, phase : Phase, acceptedSeq : Nat,
                      checkpoint : CheckpointRow]
    BY <1>1 DEF TypeOK
  <2>2. tasks'[t] = [tasks[t] EXCEPT !.phase = phase, !.acceptedSeq = seq,
                                     !.checkpoint = [phase |-> phase, acceptedSeq |-> seq]]
    BY <1>1 DEF PutCheckpoint
  <2> QED
    BY <2>1, <2>2
<1>5. CASE o # t
  <2>1. AcceptedOf(o)' = AcceptedOf(o)
    BY <1>3, <1>5 DEF AcceptedOf
  <2> QED
    BY <1>2, <2>1 DEF Journal!vars
<1>6. CASE o = t
  <2>1. AcceptedOf(o) = tasks[t].acceptedSeq /\ AcceptedOf(o)' = seq
    BY <1>1, <1>3, <1>4, <1>6 DEF AcceptedOf
  <2>2. LastSeq(o) \in Nat /\ tasks[t].acceptedSeq \in Nat
    BY <1>1, <1>6, LastSeqOfLog DEF TypeOK
  <2>3. Len(LogOf(o)) = LastSeq(o)
    <3> DEFINE S == {events[<<o, n>>] : n \in 1..LastSeq(o)}
    <3>1. LogOf(o) \in Seq(S)
      <4>1. LogOf(o) \in [1..LastSeq(o) -> S]
        BY DEF LogOf
      <4> HIDE DEF S
      <4> QED
        BY <2>2, <4>1, SeqDef
    <3>2. DOMAIN LogOf(o) = 1..LastSeq(o)
      BY DEF LogOf
    <3> HIDE DEF o, S
    <3>3. DOMAIN LogOf(o) = 1..Len(LogOf(o)) /\ Len(LogOf(o)) \in Nat
      BY <3>1, LenProperties
    <3> QED
      BY <2>2, <3>2, <3>3
  <2>4. seq \in AcceptedOf(o)..Len(LogOf(o))
    BY <1>1, <1>6, <2>1, <2>2, <2>3
  <2> QED
    BY <1>2, <2>1, <2>4 DEF Journal!Accept
<1> QED
  BY <1>5, <1>6

\* Beginning an effect of the observed task is one BeginEffect of its journal;
\* a replay, and an effect of another task, is none.
LEMMA BeginEffectRefines ==
  ASSUME NEW e, NEW t, NEW cause, NEW intent, NEW k, BeginEffect(e, t, cause, intent, k)
  PROVE  Journal!BeginEffect \/ UNCHANGED Journal!vars
<1> DEFINE o == ObservedTask
           row == [task |-> t, cause |-> cause, intent |-> intent, key |-> k,
                   status |-> "pending", result |-> NoResult]
<1>1. tasks' = tasks /\ events' = events
  BY DEF BeginEffect
<1>2. LogOf(o)' = LogOf(o) /\ AcceptedOf(o)' = AcceptedOf(o)
  BY <1>1 DEF LogOf, LastSeq, AcceptedOf
<1>3. CASE effects' = effects
  BY <1>2, <1>3 DEF Journal!vars, EffectsOf
<1>4. CASE SameIdentityOrKey(e, k) = {} /\ effects' = Insert(effects, e, row)
  <2>1. e \notin DOMAIN effects
    BY <1>4 DEF SameIdentityOrKey
  <2>2. /\ DOMAIN effects' = DOMAIN effects \cup {e}
        /\ effects'[e].task = t /\ effects'[e].status = "pending"
        /\ \A f \in DOMAIN effects : effects'[f] = effects[f]
    BY <1>4, <2>1 DEF Insert
  <2>3. CASE t = o
    <3>1. {f \in DOMAIN effects' : effects'[f].task = o}
            = {f \in DOMAIN effects : effects[f].task = o} \cup {e}
      BY <2>1, <2>2, <2>3
    <3>2. e \in DOMAIN EffectsOf(o)' \ DOMAIN EffectsOf(o)
      BY <2>1, <3>1 DEF EffectsOf
    <3>3. EffectsOf(o)' = [f \in DOMAIN EffectsOf(o) \cup {e} |->
                             IF f = e THEN Journal!Open ELSE EffectsOf(o)[f]]
      BY <2>1, <2>2, <3>1 DEF EffectsOf, Journal!Open
    <3> QED
      BY <1>2, <3>2, <3>3 DEF Journal!BeginEffect
  <2>4. CASE t # o
    <3>1. {f \in DOMAIN effects' : effects'[f].task = o}
            = {f \in DOMAIN effects : effects[f].task = o}
      BY <2>1, <2>2, <2>4
    <3>2. EffectsOf(o)' = EffectsOf(o)
      BY <2>2, <3>1 DEF EffectsOf
    <3> QED
      BY <1>2, <3>2 DEF Journal!vars
  <2> QED
    BY <2>3, <2>4
<1> QED
  BY <1>3, <1>4 DEF BeginEffect

\* Closing a pending effect of the observed task is one CompleteEffect of its
\* journal; the same outcome once more, and another task's effect, is none.
LEMMA CompleteEffectRefines ==
  ASSUME IInv, NEW e, NEW status, NEW result, CompleteEffect(e, status, result)
  PROVE  Journal!CompleteEffect \/ UNCHANGED Journal!vars
<1> DEFINE o == ObservedTask
<1>1. /\ tasks' = tasks /\ events' = events
      /\ e \in DOMAIN effects /\ status \in EffectStatus
      /\ effects[e].status # "pending" => effects[e].status = status
  BY DEF CompleteEffect, ValidStatus, AcceptsOutcome
<1>2. LogOf(o)' = LogOf(o) /\ AcceptedOf(o)' = AcceptedOf(o)
  BY <1>1 DEF LogOf, LastSeq, AcceptedOf
<1>3. /\ DOMAIN effects' = DOMAIN effects
      /\ \A f \in DOMAIN effects : f # e => effects'[f] = effects[f]
      /\ effects'[e].status = status /\ effects'[e].task = effects[e].task
  <2>1. effects[e] \in [task : DOMAIN tasks, cause : Nat, intent : Intent, key : Key,
                        status : EffectStatus \cup {"pending"}, result : Result \cup {NoResult}]
    BY <1>1 DEF IInv, TypeOK
  <2>2. effects' = [f \in DOMAIN effects |->
                      IF f = e THEN [effects[e] EXCEPT !.status = status, !.result = result]
                               ELSE effects[f]]
    BY <1>1 DEF CompleteEffect
  <2> QED
    BY <1>1, <2>1, <2>2
<1>4. {f \in DOMAIN effects' : effects'[f].task = o}
        = {f \in DOMAIN effects : effects[f].task = o}
  BY <1>3
<1>5. EffectsOf(o)' = [f \in DOMAIN EffectsOf(o) |->
                         IF f = e THEN status ELSE EffectsOf(o)[f]]
  BY <1>1, <1>3, <1>4 DEF EffectsOf
<1>6. CASE effects[e].task = o /\ effects[e].status = "pending"
  <2>1. e \in DOMAIN EffectsOf(o) /\ EffectsOf(o)[e] = Journal!Open
    BY <1>1, <1>6 DEF EffectsOf, Journal!Open
  <2>2. status \in Journal!Closed
    BY <1>1 DEF Journal!Closed, EffectStatus
  <2>3. EffectsOf(o)' = [EffectsOf(o) EXCEPT ![e] = status]
    BY <1>5
  <2> QED
    BY <1>2, <2>1, <2>2, <2>3 DEF Journal!CompleteEffect
<1>7. CASE ~(effects[e].task = o /\ effects[e].status = "pending")
  <2>1. e \in DOMAIN EffectsOf(o) => EffectsOf(o)[e] = status
    BY <1>1, <1>7 DEF EffectsOf
  <2>2. EffectsOf(o)' = EffectsOf(o)
    <3>1. EffectsOf(o) = [f \in DOMAIN EffectsOf(o) |-> EffectsOf(o)[f]]
      BY DEF EffectsOf
    <3> QED
      BY <1>5, <2>1, <3>1
  <2> QED
    BY <1>2, <2>2 DEF Journal!vars
<1> QED
  BY <1>6, <1>7

\* The empty tables are an empty journal.
LEMMA InitRefines == Init => Journal!Init
<1> SUFFICES ASSUME Init PROVE Journal!Init
  OBVIOUS
<1>1. LastSeq(ObservedTask) = 0
  <2>1. SeqsIn(events, ObservedTask) = {}
    BY DEF Init, SeqsIn
  <2> QED
    BY <2>1 DEF LastSeq, MaxOrZero
<1>2. LogOf(ObservedTask) = <<>>
  BY <1>1 DEF LogOf
<1>3. AcceptedOf(ObservedTask) = 0
  BY DEF Init, AcceptedOf
<1>4. EffectsOf(ObservedTask) = [e \in {} |-> Journal!Open]
  BY DEF Init, EffectsOf
<1> QED
  BY <1>2, <1>3, <1>4 DEF Journal!Init

\* Whichever task is observed, its rows behave as a DurableTask: the log only
\* grows at its end, the checkpoint moves forward inside it, and each effect is
\* opened once and closed once.
THEOREM Refinement == Spec => ImplementsDurableTask
<1>1. Init => Journal!Init
  BY InitRefines
<1>2. IInv /\ IInv' /\ [Next]_vars => [Journal!Next]_(Journal!vars)
  <2> SUFFICES ASSUME IInv, IInv', [Next]_vars
               PROVE  Journal!Next \/ UNCHANGED Journal!vars
    OBVIOUS
  <2>1. 0..MaxSeq \subseteq Nat
    BY MaxSeqAssumption
  <2>2. CASE \E t \in TaskId, spec \in TaskSpec, phase \in Phase : CreateTask(t, spec, phase)
    BY <2>2, CreateTaskRefines
  <2>3. CASE \E t \in TaskId, seq \in 0..MaxSeq, id \in EventId, body \in EventBody :
               AppendEvent(t, seq, id, body)
    BY <2>1, <2>3, AppendEventRefines DEF IInv, Journal!Next
  <2>4. CASE \E t \in TaskId, seq \in 0..MaxSeq, phase \in Phase : PutCheckpoint(t, seq, phase)
    BY <2>1, <2>4, PutCheckpointRefines DEF Journal!Next
  <2>5. CASE \E e \in EffectId, t \in TaskId, cause \in 0..MaxSeq, intent \in Intent, k \in Key :
               BeginEffect(e, t, cause, intent, k)
    BY <2>5, BeginEffectRefines DEF Journal!Next
  <2>6. CASE \E e \in EffectId, status \in SentStatus, result \in Result :
               CompleteEffect(e, status, result)
    BY <2>6, CompleteEffectRefines DEF Journal!Next
  <2>7. CASE UNCHANGED vars
    BY <2>7 DEF vars, Journal!vars, LogOf, LastSeq, AcceptedOf, EffectsOf
  <2> QED
    BY <2>2, <2>3, <2>4, <2>5, <2>6, <2>7 DEF Next
<1>3. Spec => []IInv
  BY Invariance
<1> QED
  BY <1>1, <1>2, <1>3, PTL DEF Spec, ImplementsDurableTask, Journal!Spec

-----------------------------------------------------------------------------
\* The relation graph.

\* What is compared with a time is a number, and a revision to replace exists.
GraphShape ==
  /\ clock \in Nat
  /\ call = [q \in Calls |-> call[q]]
  /\ \A q \in Calls :
       /\ call[q].now \in Nat /\ call[q].now <= clock
       /\ call[q].prev = NoRevision \/ call[q].prev \in DOMAIN revisions
  /\ revisions = [r \in DOMAIN revisions |-> revisions[r]]
  /\ \A r \in DOMAIN revisions :
       revisions[r].recorded \in Nat /\ revisions[r].superseded \in Nat

\* What a snapshot was made of is stored, and shown, as it was.
IssuedKept ==
  issued # NoSnapshot =>
    /\ issued.business \in Nat /\ issued.knowledge \in Nat
    /\ issued.selected \subseteq DOMAIN revisions
    /\ \A k \in Nat : k = issued.knowledge =>
         issued.edges = {EdgeAt(r, k) : r \in {s \in issued.selected : s.status = "active"}}

\* A snapshot of the past is so for every request, and what was known then is
\* known still.
PastKept ==
  issued # NoSnapshot /\ issued.past =>
    \A b, k \in Nat : b = issued.business /\ k = issued.knowledge =>
      IsPast(k) /\ Selected(b, k) = issued.selected

ReplayInv == GraphShape /\ IssuedKept /\ PastKept

\* The revisions after a revision was recorded at now: those there were are as
\* they were, or are replaced from now on.
Grown(now) ==
  /\ revisions' = [r \in DOMAIN revisions' |-> revisions'[r]]
  /\ DOMAIN revisions \subseteq DOMAIN revisions'
  /\ \A r \in DOMAIN revisions' :
       revisions'[r].recorded \in Nat /\ revisions'[r].superseded \in Nat
  /\ \A r \in DOMAIN revisions :
       /\ revisions'[r].no = revisions[r].no /\ revisions'[r].recorded = revisions[r].recorded
       /\ \/ revisions'[r].superseded = revisions[r].superseded
          \/ /\ revisions'[r].superseded = now
             /\ revisions[r].superseded = Never \/ revisions[r].superseded > now
  /\ \A r \in DOMAIN revisions' \ DOMAIN revisions : revisions'[r].recorded = now

\* Every request goes on with the time it has, a later one or that of now.
CallMoves ==
  /\ call' = [q \in Calls |-> call'[q]]
  /\ \A q \in Calls :
       /\ call'[q].now \in Nat /\ call'[q].now <= clock
       /\ call'[q].prev = NoRevision \/ call'[q].prev \in DOMAIN revisions
       /\ \/ call'[q].pc = "idle" \/ call'[q].now = clock
          \/ ~Idle(q) /\ call[q].now <= call'[q].now

-----------------------------------------------------------------------------
\* Recording a revision makes the revisions grow (record_revision_at).
LEMMA RecordGrows ==
  ASSUME GraphShape, NEW r, NEW now \in Nat, Record(r, now),
         r.prev = NoRevision \/ r.prev \in DOMAIN revisions
  PROVE  Grown(now)
<1> USE DEF GraphShape, Never
<1>1. CASE r \in DOMAIN revisions
  BY <1>1 DEF Record, Grown
<1>2. CASE r \notin DOMAIN revisions
  <2> DEFINE old == Supersedes(r.prev, now)
  <2>1. /\ old = [s \in DOMAIN revisions |-> old[s]]
        /\ \A s \in DOMAIN revisions :
             /\ old[s].no = revisions[s].no /\ old[s].recorded = revisions[s].recorded
             /\ old[s].superseded \in Nat
             /\ \/ old[s].superseded = revisions[s].superseded
                \/ /\ old[s].superseded = now
                   /\ revisions[s].superseded = Never \/ revisions[s].superseded > now
    <3>1. CASE r.prev = NoRevision \/ revisions[r.prev].superseded \in 1..now
      BY <3>1 DEF Supersedes
    <3>2. CASE ~(r.prev = NoRevision \/ revisions[r.prev].superseded \in 1..now)
      BY <3>2 DEF Supersedes, Row
    <3> QED
      BY <3>1, <3>2
  <2>2. revisions' = [s \in DOMAIN revisions \cup {r} |->
                        IF s = r THEN Row(NextNo(r.scope), now, Never) ELSE old[s]]
    BY <1>2, <2>1 DEF Record, With
  <2> HIDE DEF old
  <2>3. /\ revisions'[r].recorded = now /\ revisions'[r].superseded = Never
        /\ \A s \in DOMAIN revisions : revisions'[s] = old[s]
        /\ DOMAIN revisions' = DOMAIN revisions \cup {r}
    BY <1>2, <2>2 DEF Row
  <2>4. revisions' = [s \in DOMAIN revisions' |-> revisions'[s]]
    BY <2>2
  <2> QED
    BY <1>2, <2>1, <2>3, <2>4 DEF Grown
<1> QED
  BY <1>1, <1>2

\* What was known before now does not change.
LEMMA GrownKeepsPast ==
  ASSUME GraphShape, NEW now \in Nat, Grown(now), NEW b \in Nat, NEW k \in Nat, k < now
  PROVE  Selected(b, k)' = Selected(b, k)
<1> USE DEF GraphShape, Grown, Never
<1>1. \A r \in DOMAIN revisions : KnownAt(r, k)' <=> KnownAt(r, k)
  BY DEF KnownAt
<1>2. \A r \in DOMAIN revisions' \ DOMAIN revisions : ~KnownAt(r, k)'
  BY DEF KnownAt
<1>3. Seen(b, k)' = Seen(b, k)
  BY <1>1, <1>2 DEF Seen, ValidAt
<1>4. \A r, s \in Seen(b, k) : Outranks(r, s)' <=> Outranks(r, s)
  BY DEF Outranks, Seen
<1> QED
  BY <1>3, <1>4 DEF Selected

\* A request moves on, or is over.
LEMMA GoesOn ==
  ASSUME GraphShape, NEW q \in Calls, NEW pc, CallGoes(q, pc)
  PROVE  /\ call' = [p \in Calls |-> call'[p]]
         /\ \A p \in Calls : p # q => call'[p] = call[p]
         /\ call'[q].pc = pc
         /\ pc = "idle" => call'[q] = AtEase
         /\ pc # "idle" => /\ call'[q].now = call[q].now /\ call'[q].of = call[q].of
                           /\ call'[q].prev = call[q].prev
BY DEF GraphShape, CallGoes, Further, AtEase

\* A snapshot's revisions keep what is shown of them.
LEMMA ShownAlike ==
  ASSUME NEW r, NEW k,
         revisions'[r].no = revisions[r].no, revisions'[r].recorded = revisions[r].recorded
  PROVE  EdgeAt(r, k)' = EdgeAt(r, k)
BY DEF EdgeAt, StaleAt

\* A step of the requests, with or without a revision of one of them.
LEMMA CallsKeepReplay ==
  ASSUME ReplayInv, CallMoves, UNCHANGED <<clock, issued>>,
         \/ UNCHANGED revisions
         \/ \E q \in Calls, now \in Nat : Grown(now) /\ ~Idle(q) /\ call[q].now <= now
  PROVE  ReplayInv'
<1> USE DEF ReplayInv
<1>1. /\ DOMAIN revisions \subseteq DOMAIN revisions'
      /\ \A r \in DOMAIN revisions :
           revisions'[r].no = revisions[r].no /\ revisions'[r].recorded = revisions[r].recorded
  BY DEF Grown
<1>2. GraphShape'
  BY <1>1 DEF GraphShape, CallMoves, Grown
<1>3. IssuedKept'
  <2> SUFFICES ASSUME issued # NoSnapshot
               PROVE  IssuedKept'
    BY DEF IssuedKept
  <2>1. issued.selected \subseteq DOMAIN revisions
    BY DEF IssuedKept
  <2>2. ASSUME NEW k \in Nat, k = issued.knowledge
        PROVE  issued.edges = {EdgeAt(r, k)' : r \in {s \in issued.selected : s.status = "active"}}
    <3>1. issued.edges = {EdgeAt(r, k) : r \in {s \in issued.selected : s.status = "active"}}
      BY <2>2 DEF IssuedKept
    <3>2. \A r \in issued.selected : EdgeAt(r, k)' = EdgeAt(r, k)
      BY <1>1, <2>1, ShownAlike
    <3> QED
      BY <3>1, <3>2
  <2> QED
    BY <1>1, <2>1, <2>2 DEF IssuedKept
<1>4. PastKept'
  <2> SUFFICES ASSUME issued # NoSnapshot, issued.past, NEW b \in Nat, NEW k \in Nat,
                      b = issued.business, k = issued.knowledge
               PROVE  IsPast(k)' /\ Selected(b, k)' = issued.selected
    BY DEF PastKept
  <2>1. IsPast(k) /\ Selected(b, k) = issued.selected
    BY DEF PastKept
  <2>2. IsPast(k)'
    BY <2>1 DEF IsPast, CallMoves, GraphShape, Idle
  <2>3. CASE UNCHANGED revisions
    BY <2>1, <2>2, <2>3 DEF Selected, Seen, KnownAt, ValidAt, Outranks
  <2>4. ASSUME NEW q \in Calls, NEW now \in Nat, Grown(now), ~Idle(q), call[q].now <= now
        PROVE  Selected(b, k)' = Selected(b, k)
    <3>1. k < now
      BY <2>1, <2>4 DEF IsPast, GraphShape
    <3> QED
      BY <2>4, <3>1, GrownKeepsPast
  <2> QED
    BY <2>1, <2>2, <2>3, <2>4
<1> QED
  BY <1>2, <1>3, <1>4

-----------------------------------------------------------------------------
\* In the initial state there is no snapshot.
LEMMA InitReplay == GraphInit => ReplayInv
BY DEF GraphInit, ReplayInv, GraphShape, IssuedKept, PastKept, AtEase

\* A new request has the time of now.
LEMMA StartsMoves ==
  ASSUME GraphShape, NEW q \in Calls, NEW pc, NEW of, NEW review, Starts(q, pc, of, review)
  PROVE  CallMoves
BY DEF GraphShape, CallMoves, Starts, Idle

\* A request that goes on keeps its time.
LEMMA GoesMoves ==
  ASSUME GraphShape, NEW q \in Calls, NEW pc, CallGoes(q, pc), ~Idle(q)
  PROVE  CallMoves
BY GoesOn DEF GraphShape, CallMoves, AtEase, Idle

LEMMA CallStepReplay ==
  ASSUME ReplayInv, NEW q \in Calls, CallStep(q)
  PROVE  ReplayInv'
<1> USE DEF ReplayInv
<1>1. \A now \in TimeOf(q) : now \in Nat /\ call[q].now <= now /\ now <= clock
  BY DEF TimeOf, GraphShape
<1>2. ASSUME NEW now \in Times, RecordRevision(q, now)
      PROVE  ReplayInv'
  <2>1. /\ now \in TimeOf(q) /\ ~Idle(q) /\ CallGoes(q, "project") /\ UNCHANGED <<clock, issued>>
        /\ Record(PublishedRevision(q, now), now)
    BY <1>2 DEF RecordRevision, Idle
  <2>2. PublishedRevision(q, now).prev = NoRevision
    BY DEF PublishedRevision
  <2>3. now \in Nat /\ call[q].now <= now
    BY <1>1, <2>1
  <2>4. Grown(now)
    BY <2>1, <2>2, <2>3, RecordGrows
  <2> QED
    BY <2>1, <2>3, <2>4, GoesMoves, CallsKeepReplay
<1>3. CASE ProjectEdge(q) \/ CheckPublished(q) \/ InsertPublication(q) \/ EndEdge(q)
  <2>1. ~Idle(q) /\ UNCHANGED <<clock, issued, revisions>>
    BY <1>3 DEF ProjectEdge, CheckPublished, InsertPublication, EndEdge, Idle
  <2>2. \E pc : CallGoes(q, pc)
    BY <1>3 DEF ProjectEdge, CheckPublished, InsertPublication, EndEdge
  <2> QED
    BY <2>1, <2>2, GoesMoves, CallsKeepReplay
<1>4. ASSUME NEW now \in Times, WithdrawPublication(q, now)
      PROVE  ReplayInv'
  <2>1. /\ now \in TimeOf(q) /\ ~Idle(q) /\ UNCHANGED <<clock, issued, revisions>>
        /\ \/ call' = [call EXCEPT ![q] = AtEase]
           \/ call' = [call EXCEPT ![q] = Further(call[q], "lookup", now, call[q].prev)]
    BY <1>4 DEF WithdrawPublication, Idle
  <2>2. CallMoves
    BY <1>1, <2>1 DEF CallMoves, GraphShape, AtEase, Further, Idle
  <2> QED
    BY <2>1, <2>2, CallsKeepReplay
<1>5. CASE FindPrevious(q)
  <2>1. /\ ~Idle(q) /\ UNCHANGED <<clock, issued, revisions>>
    BY <1>5 DEF FindPrevious, Idle
  <2> DEFINE edges == {e \in Edges(call[q].now, call[q].now) :
                         e.revision.scope[1] = evidence[Of(q)].product}
  <2>2. PICK prev \in IF edges = {} THEN {NoRevision} ELSE {e.revision : e \in edges} :
          call' = [call EXCEPT ![q] = Further(call[q], "revoke", call[q].now, prev)]
    BY <1>5 DEF FindPrevious
  <2>3. \A e \in edges : e.revision \in DOMAIN revisions
    BY DEF Edges, EdgeAt, Selected, Seen
  <2>4. prev = NoRevision \/ prev \in DOMAIN revisions
    BY <2>2, <2>3
  <2>5. CallMoves
    BY <2>1, <2>2, <2>4 DEF CallMoves, GraphShape, Further, Idle
  <2> QED
    BY <2>1, <2>5, CallsKeepReplay
<1>6. CASE RevokeRelation(q)
  <2>1. PICK r : r = RevokedRevision(q)
    OBVIOUS
  <2>2. PICK now \in Nat : now = call[q].now
    BY DEF GraphShape
  <2>3. /\ ~Idle(q) /\ UNCHANGED <<clock, issued>>
        /\ \/ CallGoes(q, "idle") /\ UNCHANGED revisions
           \/ CallGoes(q, "end") /\ Record(r, now)
    BY <1>6, <2>1, <2>2 DEF RevokeRelation, Idle
  <2>4. r.prev = NoRevision \/ r.prev \in DOMAIN revisions
    BY <2>1 DEF GraphShape, RevokedRevision
  <2>5. CASE CallGoes(q, "idle") /\ UNCHANGED revisions
    BY <2>3, <2>5, GoesMoves, CallsKeepReplay
  <2>6. CASE CallGoes(q, "end") /\ Record(r, now)
    <3>1. Grown(now)
      BY <2>4, <2>6, RecordGrows
    <3> QED
      BY <2>2, <2>3, <2>6, <3>1, GoesMoves, CallsKeepReplay
  <2> QED
    BY <2>3, <2>5, <2>6
<1>7. ASSUME NEW t \in Times, LookUpEdge(q, t)
      PROVE  ReplayInv'
  <2>1. ~Idle(q) /\ UNCHANGED <<clock, issued, revisions>> /\ \E pc : CallGoes(q, pc)
    BY <1>7 DEF LookUpEdge, Idle
  <2> QED
    BY <2>1, GoesMoves, CallsKeepReplay
<1> QED
  BY <1>2, <1>3, <1>4, <1>5, <1>6, <1>7 DEF CallStep

LEMMA SnapshotReplay ==
  ASSUME ReplayInv, NEW b \in Nat, NEW k \in Nat, TakeSnapshot(b, k)
  PROVE  ReplayInv'
<1> USE DEF ReplayInv
<1>1. /\ UNCHANGED <<clock, revisions, call>>
      /\ issued'.business = b /\ issued'.knowledge = k /\ issued'.selected = Selected(b, k)
      /\ issued'.edges = Edges(b, k) /\ issued'.past = IsPast(k)
  BY DEF TakeSnapshot
<1>2. GraphShape'
  BY <1>1 DEF GraphShape
<1>3. IssuedKept'
  <2>1. Selected(b, k) \subseteq DOMAIN revisions
    BY DEF Selected, Seen
  <2>2. ASSUME NEW m \in Nat, m = k
        PROVE  issued'.edges = {EdgeAt(r, m)' : r \in {s \in Selected(b, k) : s.status = "active"}}
    BY <1>1, <2>2 DEF Edges, EdgeAt, StaleAt
  <2> QED
    BY <1>1, <2>1, <2>2 DEF IssuedKept
<1>4. PastKept'
  <2>1. Selected(b, k)' = Selected(b, k) /\ (IsPast(k)' <=> IsPast(k))
    BY <1>1 DEF Selected, Seen, KnownAt, ValidAt, Outranks, IsPast, Idle
  <2>2. issued'.past => IsPast(k)
    BY <1>1
  <2> SUFFICES ASSUME issued'.past, NEW c \in Nat, NEW m \in Nat,
                      c = issued'.business, m = issued'.knowledge
               PROVE  IsPast(m)' /\ Selected(c, m)' = issued'.selected
    BY DEF PastKept
  <2>3. c = b /\ m = k
    BY <1>1
  <2> QED
    BY <1>1, <2>1, <2>2, <2>3
<1> QED
  BY <1>2, <1>3, <1>4

LEMMA TickReplay ==
  ASSUME ReplayInv, Tick
  PROVE  ReplayInv'
<1> USE DEF ReplayInv
<1>1. clock' = clock + 1 /\ UNCHANGED <<revisions, call, issued>>
  BY DEF Tick
<1>2. GraphShape'
  BY <1>1 DEF GraphShape
<1>3. IssuedKept'
  BY <1>1 DEF IssuedKept, EdgeAt, StaleAt
<1>4. PastKept'
  BY <1>1 DEF PastKept, Selected, Seen, KnownAt, ValidAt, Outranks, IsPast, Idle, GraphShape
<1> QED
  BY <1>2, <1>3, <1>4

LEMMA NextReplay ==
  ASSUME ReplayInv, [GraphNext]_graphVars
  PROVE  ReplayInv'
<1>1. CASE UNCHANGED graphVars
  <2>1. UNCHANGED <<clock, revisions, call, issued>>
    BY <1>1 DEF graphVars
  <2> QED
    BY <2>1 DEF ReplayInv, GraphShape, IssuedKept, PastKept, EdgeAt, StaleAt, Selected, Seen,
                KnownAt, ValidAt, Outranks, IsPast, Idle
<1>2. ASSUME NEW c \in Candidates, NEW decision \in Decisions, ReviewCandidate(c, decision)
      PROVE  ReplayInv'
  <2>1. UNCHANGED <<clock, revisions, call, issued>>
    BY <1>2 DEF ReviewCandidate
  <2> QED
    BY <2>1 DEF ReplayInv, GraphShape, IssuedKept, PastKept, EdgeAt, StaleAt, Selected, Seen,
                KnownAt, ValidAt, Outranks, IsPast, Idle
<1>3. ASSUME NEW c \in Candidates, NEW q \in Calls, PublishCandidate(q, c) \/ RetractCandidate(q, c)
      PROVE  ReplayInv'
  <2>1. UNCHANGED <<clock, revisions, issued>> /\ \E pc, of, review : Starts(q, pc, of, review)
    BY <1>3 DEF PublishCandidate, RetractCandidate
  <2> QED
    BY <2>1, StartsMoves, CallsKeepReplay DEF ReplayInv
<1>4. ASSUME NEW q \in Calls, CallStep(q)
      PROVE  ReplayInv'
  BY <1>4, CallStepReplay
<1>5. ASSUME NEW q \in Calls, DropCall(q)
      PROVE  ReplayInv'
  BY <1>5, GoesMoves, CallsKeepReplay DEF DropCall, ReplayInv
<1>6. ASSUME NEW query \in Queries, TakeSnapshot(query[1], query[2])
      PROVE  ReplayInv'
  BY <1>6, GraphAssumption, SnapshotReplay
<1>7. CASE Tick
  BY <1>7, TickReplay
<1> QED
  BY <1>1, <1>2, <1>3, <1>4, <1>5, <1>6, <1>7 DEF GraphNext

\* Whatever is published and retracted, by requests in any order that end
\* anywhere, a snapshot replays, and one of the past does so for good.
THEOREM GraphSnapshotsReplay == GraphSpec => []SnapshotsReplay
<1>1. ReplayInv => SnapshotsReplay
  <2> SUFFICES ASSUME ReplayInv, issued # NoSnapshot, NEW b \in Nat, NEW k \in Nat,
                      b = issued.business, k = issued.knowledge
               PROVE  /\ Selected(b, k) = issued.selected => Edges(b, k) = issued.edges
                      /\ issued.past => Selected(b, k) = issued.selected
    BY DEF SnapshotsReplay, ReplayInv, IssuedKept
  <2> QED
    BY DEF ReplayInv, IssuedKept, PastKept, Edges
<1> QED
  BY InitReplay, NextReplay, <1>1, PTL DEF GraphSpec

-----------------------------------------------------------------------------
\* The numbers of the revisions of an identity.
Numbers(scope) == {revisions[r].no : r \in {s \in DOMAIN revisions : s.scope = scope}}

\* A revision is superseded after it was recorded, and the numbers of an
\* identity are used once, and in order.
RowsNumbered ==
  /\ \A r \in DOMAIN revisions :
       /\ revisions[r].superseded = Never \/ revisions[r].superseded >= revisions[r].recorded
       /\ \A s \in DOMAIN revisions :
            r # s /\ r.scope = s.scope => revisions[r].no # revisions[s].no
  /\ \A scope : \E n \in Nat : Numbers(scope) = 1..n

\* A request is about a candidate, and at a time.
CallsTyped == \A q \in Calls : ~Idle(q) => Of(q) \in Candidates /\ call[q].now >= 1

\* What is published or withdrawn is so by now.
PublicationsTyped ==
  /\ publications = [p \in DOMAIN publications |-> publications[p]]
  /\ \A p \in DOMAIN publications : p[1] \in Candidates /\ publications[p] \in 0..clock

ProjectionTyped == projection = NoEdge \/ projection \in [from : Nat, to : Nat]

\* The other tables.
TablesTyped ==
  /\ clock \in Times /\ clock >= 1 /\ evidence \in Evidence
  /\ ProjectionTyped
  /\ candidate = [c \in Candidates |-> candidate[c]]
  /\ \A c \in Candidates : candidate[c].version \in 0..MaxVersion[c]
  /\ disturbed \in BOOLEAN

GraphTypeInv == ReplayInv /\ RowsNumbered /\ TablesTyped /\ PublicationsTyped /\ CallsTyped

\* The next number of an identity is behind those it has.
LEMMA NextNumber ==
  ASSUME NEW scope, NEW n \in Nat, Numbers(scope) = 1..n
  PROVE  NextNo(scope) = n + 1
<1> DEFINE nos == Numbers(scope)
<1>1. NextNo(scope) = IF nos = {} THEN 1 ELSE 1 + CHOOSE k \in nos : \A m \in nos : m <= k
  BY DEF NextNo, Numbers
<1> HIDE DEF nos
<1>2. nos = 1..n
  BY DEF nos
<1>3. CASE n = 0
  BY <1>1, <1>2, <1>3
<1>4. CASE n # 0
  <2>1. n \in nos /\ \A m \in nos : m <= n
    BY <1>2, <1>4
  <2>2. ASSUME NEW k \in nos, \A m \in nos : m <= k PROVE k = n
    BY <1>2, <2>1, <2>2
  <2> DEFINE last == CHOOSE k \in nos : \A m \in nos : m <= k
  <2>3. last = n
    BY <2>1, <2>2
  <2>4. nos # {}
    BY <2>1
  <2>5. NextNo(scope) = 1 + last
    BY <1>1, <2>4
  <2> HIDE DEF last
  <2> QED
    BY <2>3, <2>5
<1> QED
  BY <1>3, <1>4

\* Revisions that stay are numbered as they were.
LEMMA NumberedStays == ASSUME RowsNumbered, UNCHANGED revisions PROVE RowsNumbered'
  BY DEF RowsNumbered, Numbers

\* A revision that is recorded takes the next number of its identity, and ends
\* the one it replaces no earlier than that was recorded.
LEMMA RecordNumbered ==
  ASSUME GraphShape, RowsNumbered, NEW r, NEW now \in Nat, Record(r, now),
         r.prev = NoRevision \/ r.prev \in DOMAIN revisions,
         r \notin DOMAIN revisions /\ r.prev # NoRevision => revisions[r.prev].recorded <= now
  PROVE  RowsNumbered'
<1>1. CASE r \in DOMAIN revisions
  <2>1. revisions' = revisions
    BY <1>1 DEF Record
  <2> QED
    BY <2>1, NumberedStays
<1>2. CASE r \notin DOMAIN revisions
  <2> DEFINE old == Supersedes(r.prev, now)
             new == Row(NextNo(r.scope), now, Never)
  <2>1. /\ DOMAIN old = DOMAIN revisions
        /\ \A s \in DOMAIN revisions :
             /\ old[s].no = revisions[s].no /\ old[s].recorded = revisions[s].recorded
             /\ \/ old[s].superseded = revisions[s].superseded
                \/ old[s].superseded = now /\ revisions[s].recorded <= now
    <3>1. CASE r.prev = NoRevision \/ revisions[r.prev].superseded \in 1..now
      BY <3>1 DEF Supersedes
    <3>2. CASE ~(r.prev = NoRevision \/ revisions[r.prev].superseded \in 1..now)
      BY <1>2, <3>2 DEF Supersedes, Row, GraphShape
    <3> QED
      BY <3>1, <3>2
  <2>2. revisions' = [s \in DOMAIN revisions \cup {r} |-> IF s = r THEN new ELSE old[s]]
    BY <1>2, <2>1 DEF Record, With
  <2> HIDE DEF old
  <2>3. /\ revisions'[r].no = NextNo(r.scope) /\ revisions'[r].recorded = now
        /\ revisions'[r].superseded = Never
        /\ \A s \in DOMAIN revisions : s # r /\ revisions'[s] = old[s]
        /\ DOMAIN revisions' = DOMAIN revisions \cup {r}
    BY <1>2, <2>2 DEF Row
  <2> HIDE DEF new
  <2>4. ASSUME NEW s \in DOMAIN revisions'
        PROVE  revisions'[s].superseded = Never \/ revisions'[s].superseded >= revisions'[s].recorded
    BY <2>1, <2>3 DEF RowsNumbered
  <2>5. PICK n \in Nat : Numbers(r.scope) = 1..n
    BY DEF RowsNumbered
  <2>6. revisions'[r].no = n + 1
    BY <2>3, <2>5, NextNumber
  <2>7. ASSUME NEW s \in DOMAIN revisions, s.scope = r.scope
        PROVE  revisions'[s].no \in 1..n
    BY <2>1, <2>3, <2>5, <2>7 DEF Numbers
  <2>8. ASSUME NEW s \in DOMAIN revisions', NEW t \in DOMAIN revisions', s # t, s.scope = t.scope
        PROVE  revisions'[s].no # revisions'[t].no
    <3>1. CASE s = r
      <4>1. revisions'[t].no \in 1..n
        BY <2>3, <2>7, <2>8, <3>1
      <4> QED
        BY <2>6, <3>1, <4>1
    <3>2. CASE t = r
      <4>1. revisions'[s].no \in 1..n
        BY <2>3, <2>7, <2>8, <3>2
      <4> QED
        BY <2>6, <3>2, <4>1
    <3>3. CASE s # r /\ t # r
      BY <2>1, <2>3, <2>8, <3>3 DEF RowsNumbered
    <3> QED
      BY <3>1, <3>2, <3>3
  <2>9. ASSUME NEW scope PROVE \E k \in Nat : Numbers(scope)' = 1..k
    <3>1. CASE scope = r.scope
      <4>1. Numbers(scope)' = Numbers(scope) \cup {n + 1}
        <5>1. Numbers(scope)' = {revisions'[s].no : s \in {t \in DOMAIN revisions' : t.scope = scope}}
          BY DEF Numbers
        <5>2. {t \in DOMAIN revisions' : t.scope = scope} = {t \in DOMAIN revisions : t.scope = scope} \cup {r}
          BY <2>3, <3>1
        <5>3. \A s \in DOMAIN revisions : revisions'[s].no = revisions[s].no
          BY <2>1, <2>3
        <5> QED
          BY <2>6, <5>1, <5>2, <5>3 DEF Numbers
      <4>2. 1..n \cup {n + 1} = 1..(n + 1)
        OBVIOUS
      <4> QED
        BY <2>5, <3>1, <4>1, <4>2
    <3>2. CASE scope # r.scope
      <4>1. Numbers(scope)' = Numbers(scope)
        <5>1. {t \in DOMAIN revisions' : t.scope = scope} = {t \in DOMAIN revisions : t.scope = scope}
          BY <2>3, <3>2
        <5>2. \A s \in DOMAIN revisions : revisions'[s].no = revisions[s].no
          BY <2>1, <2>3
        <5> QED
          BY <5>1, <5>2 DEF Numbers
      <4> QED
        BY <4>1 DEF RowsNumbered
    <3> QED
      BY <3>1, <3>2
  <2> QED
    BY <2>4, <2>8, <2>9 DEF RowsNumbered
<1> QED
  BY <1>1, <1>2

\* In the beginning there is no revision.
LEMMA GraphTypeInit == GraphInit => GraphTypeInv
<1> SUFFICES ASSUME GraphInit PROVE GraphTypeInv
  OBVIOUS
<1>1. DOMAIN revisions = {} /\ DOMAIN publications = {} /\ projection = NoEdge /\ disturbed = FALSE
  BY DEF GraphInit
<1>2. RowsNumbered
  <2>1. \A scope : Numbers(scope) = 1..0
    BY <1>1 DEF Numbers
  <2> QED
    BY <1>1, <2>1 DEF RowsNumbered
<1>3. clock \in Times /\ clock >= 1 /\ evidence \in Evidence
  BY GraphAssumption DEF GraphInit, Times
<1>4. /\ candidate = [c \in Candidates |-> candidate[c]]
      /\ \A c \in Candidates : candidate[c].version \in 0..MaxVersion[c]
  BY GraphAssumption DEF GraphInit
<1>5. publications = [p \in DOMAIN publications |-> publications[p]]
  BY DEF GraphInit
<1>6. CallsTyped
  BY DEF GraphInit, CallsTyped, Idle, AtEase
<1> QED
  BY <1>1, <1>2, <1>3, <1>4, <1>5, <1>6, InitReplay
     DEF GraphTypeInv, TablesTyped, ProjectionTyped, PublicationsTyped

\* A step of a request keeps the types.
LEMMA CallStepTyped ==
  ASSUME GraphTypeInv, NEW q \in Calls, CallStep(q)
  PROVE  RowsNumbered' /\ TablesTyped'
<1>1. GraphShape /\ RowsNumbered /\ TablesTyped /\ CallsTyped
  BY DEF GraphTypeInv, ReplayInv
<1>2. ASSUME NEW now \in Times, RecordRevision(q, now)
      PROVE  RowsNumbered' /\ TablesTyped'
  <2> DEFINE r == PublishedRevision(q, now)
  <2>1. now \in Nat /\ Record(r, now) /\ r.prev = NoRevision
    BY <1>2, GraphAssumption DEF RecordRevision, PublishedRevision, Times
  <2> HIDE DEF r
  <2>2. RowsNumbered'
    BY <1>1, <2>1, RecordNumbered
  <2> QED
    BY <1>1, <1>2, <2>2 DEF RecordRevision, TablesTyped, ProjectionTyped
<1>3. CASE ProjectEdge(q) \/ EndEdge(q)
  <2>1. ~Idle(q) /\ UNCHANGED <<clock, evidence, candidate, revisions, disturbed>>
    BY <1>3 DEF ProjectEdge, EndEdge, Idle
  <2>2. Of(q) \in Candidates /\ call[q].now \in Nat
    BY <1>1, <2>1 DEF CallsTyped, GraphShape
  <2>3. evidence[Of(q)].from \in Nat /\ evidence[Of(q)].to \in Nat
    BY <1>1, <2>2, GraphAssumption DEF TablesTyped
  <2>4. CASE ProjectEdge(q)
    <3>1. projection' \in [from : Nat, to : Nat]
      BY <2>3, <2>4 DEF ProjectEdge, Projected, Period
    <3> QED
      BY <1>1, <2>1, <3>1, NumberedStays DEF TablesTyped, ProjectionTyped
  <2>5. CASE EndEdge(q)
    <3>1. RevokedRevision(q).from \in Nat
      BY <2>3 DEF RevokedRevision
    <3>2. projection' \in [from : Nat, to : Nat]
      BY <2>2, <2>5, <3>1 DEF EndEdge
    <3> QED
      BY <1>1, <2>1, <3>2, NumberedStays DEF TablesTyped, ProjectionTyped
  <2> QED
    BY <1>3, <2>4, <2>5
<1>4. CASE CheckPublished(q) \/ FindPrevious(q)
  <2>1. UNCHANGED <<clock, evidence, projection, candidate, revisions, disturbed>>
    BY <1>4 DEF CheckPublished, FindPrevious
  <2> QED
    BY <1>1, <2>1, NumberedStays DEF TablesTyped, ProjectionTyped
<1>5. CASE InsertPublication(q)
  <2>1. /\ UNCHANGED <<clock, evidence, projection, candidate, revisions>>
        /\ disturbed' = TRUE \/ disturbed' = disturbed
    BY <1>5 DEF InsertPublication
  <2> QED
    BY <1>1, <2>1, NumberedStays DEF TablesTyped, ProjectionTyped
<1>6. ASSUME NEW t \in Times, WithdrawPublication(q, t) \/ LookUpEdge(q, t)
      PROVE  RowsNumbered' /\ TablesTyped'
  <2>1. UNCHANGED <<clock, evidence, projection, candidate, revisions, disturbed>>
    BY <1>6 DEF WithdrawPublication, LookUpEdge
  <2> QED
    BY <1>1, <2>1, NumberedStays DEF TablesTyped, ProjectionTyped
<1>7. CASE RevokeRelation(q)
  <2> DEFINE r == RevokedRevision(q)
             now == call[q].now
  <2>1. /\ now \in Nat /\ (r.prev = NoRevision \/ r.prev \in DOMAIN revisions)
        /\ UNCHANGED <<clock, evidence, projection, candidate>>
        /\ disturbed' = TRUE \/ disturbed' = disturbed
        /\ revisions' = revisions \/ (~Refused(r, now) /\ Record(r, now))
    BY <1>1, <1>7 DEF RevokeRelation, RevokedRevision, GraphShape
  <2> HIDE DEF r, now
  <2>2. CASE revisions' = revisions
    BY <1>1, <2>1, <2>2, NumberedStays DEF TablesTyped, ProjectionTyped
  <2>3. CASE ~Refused(r, now) /\ Record(r, now)
    <3>1. r \notin DOMAIN revisions /\ r.prev # NoRevision => revisions[r.prev].recorded <= now
      BY <1>1, <2>1, <2>3 DEF Refused, GraphShape
    <3>2. RowsNumbered'
      BY <1>1, <2>1, <2>3, <3>1, RecordNumbered
    <3> QED
      BY <1>1, <2>1, <3>2 DEF TablesTyped, ProjectionTyped
  <2> QED
    BY <2>1, <2>2, <2>3
<1> QED
  BY <1>2, <1>3, <1>4, <1>5, <1>6, <1>7 DEF CallStep

\* A request starts about a candidate, and now.
LEMMA StartsTyped ==
  ASSUME GraphTypeInv, NEW q \in Calls, NEW pc, NEW of, NEW review, Starts(q, pc, of, review),
         of[1] \in Candidates
  PROVE  CallsTyped'
<1>1. call = [p \in Calls |-> call[p]] /\ CallsTyped /\ clock >= 1
  BY DEF GraphTypeInv, ReplayInv, GraphShape, TablesTyped
<1>2. /\ call'[q].of = of /\ call'[q].now = clock
      /\ \A p \in Calls : p # q => call'[p] = call[p]
  BY <1>1 DEF Starts
<1> QED
  BY <1>1, <1>2 DEF CallsTyped, Of, Idle

\* A request that goes on is about the same candidate.
LEMMA GoesTyped ==
  ASSUME GraphTypeInv, NEW q \in Calls, NEW pc, CallGoes(q, pc), ~Idle(q)
  PROVE  CallsTyped'
<1>1. GraphShape /\ CallsTyped
  BY DEF GraphTypeInv, ReplayInv
<1> QED
  BY <1>1, GoesOn DEF CallsTyped, Of, Idle

LEMMA CallStepRequests ==
  ASSUME GraphTypeInv, NEW q \in Calls, CallStep(q)
  PROVE  PublicationsTyped' /\ CallsTyped'
<1>1. GraphShape /\ PublicationsTyped /\ CallsTyped
  BY DEF GraphTypeInv, ReplayInv
<1>2. \A t \in TimeOf(q) : t \in Nat /\ call[q].now <= t /\ t <= clock
  BY <1>1 DEF TimeOf, GraphShape
<1>3. ASSUME UNCHANGED <<clock, publications>>
      PROVE  PublicationsTyped'
  BY <1>1, <1>3 DEF PublicationsTyped
<1>4. CASE \/ \E t \in Times : RecordRevision(q, t) \/ LookUpEdge(q, t)
           \/ ProjectEdge(q) \/ CheckPublished(q) \/ RevokeRelation(q) \/ EndEdge(q)
  <2>1. UNCHANGED <<clock, publications>> /\ ~Idle(q) /\ \E pc : CallGoes(q, pc)
    BY <1>4 DEF RecordRevision, LookUpEdge, ProjectEdge, CheckPublished, RevokeRelation, EndEdge, Idle
  <2> QED
    BY <1>3, <2>1, GoesTyped
<1>5. CASE InsertPublication(q)
  <2>1. UNCHANGED clock /\ ~Idle(q) /\ CallGoes(q, "idle") /\ call[q].of[1] \in Candidates
    BY <1>1, <1>5 DEF InsertPublication, Idle, CallsTyped, Of
  <2>2. CASE publications' = publications
    BY <1>3, <2>1, <2>2, GoesTyped
  <2>3. CASE publications' = With(publications, call[q].of, Never)
    <3>1. DOMAIN publications' = DOMAIN publications \cup {call[q].of}
      BY <2>3 DEF With
    <3>2. \A p \in DOMAIN publications' :
            publications'[p] = IF p = call[q].of THEN 0 ELSE publications[p]
      BY <2>3 DEF With, Never
    <3>3. publications' = [p \in DOMAIN publications' |-> publications'[p]]
      BY <2>3 DEF With
    <3>4. clock \in Nat
      BY <1>1 DEF GraphShape
    <3>5. PublicationsTyped'
      BY <1>1, <2>1, <3>1, <3>2, <3>3, <3>4 DEF PublicationsTyped
    <3> QED
      BY <2>1, <3>5, GoesTyped
  <2> QED
    BY <1>5, <2>2, <2>3 DEF InsertPublication
<1>6. ASSUME NEW now \in Times, WithdrawPublication(q, now)
      PROVE  PublicationsTyped' /\ CallsTyped'
  <2>1. /\ now \in TimeOf(q) /\ ~Idle(q) /\ UNCHANGED clock
        /\ publications' = [publications EXCEPT ![call[q].of] = now]
        /\ \/ call' = [call EXCEPT ![q] = AtEase]
           \/ call' = [call EXCEPT ![q] = Further(call[q], "lookup", now, call[q].prev)]
    BY <1>6 DEF WithdrawPublication, Idle
  <2>2. now \in 0..clock /\ call[q].now <= now
    BY <1>1, <1>2, <2>1 DEF GraphShape
  <2>3. PublicationsTyped'
    BY <1>1, <2>1, <2>2 DEF PublicationsTyped
  <2>4. /\ \A p \in Calls : p # q => call'[p] = call[p]
        /\ call'[q].pc = "idle" \/ (call'[q].of = call[q].of /\ call'[q].now = now)
    BY <1>1, <2>1 DEF GraphShape, AtEase, Further
  <2>5. Of(q) \in Candidates /\ call[q].now >= 1 /\ call[q].now \in Nat
    BY <1>1, <2>1 DEF CallsTyped, GraphShape
  <2>6. CallsTyped'
    BY <1>1, <2>2, <2>4, <2>5 DEF CallsTyped, Of, Idle
  <2> QED
    BY <2>3, <2>6
<1>7. CASE FindPrevious(q)
  <2>1. /\ UNCHANGED <<clock, publications>> /\ ~Idle(q)
        /\ \E prev : call' = [call EXCEPT ![q] = Further(call[q], "revoke", call[q].now, prev)]
    BY <1>7 DEF FindPrevious, Idle
  <2>2. /\ \A p \in Calls : p # q => call'[p] = call[p]
        /\ call'[q].of = call[q].of /\ call'[q].now = call[q].now
    BY <1>1, <2>1 DEF GraphShape, Further
  <2>3. CallsTyped'
    BY <1>1, <2>1, <2>2 DEF CallsTyped, Of, Idle
  <2> QED
    BY <1>3, <2>1, <2>3
<1> QED
  BY <1>4, <1>5, <1>6, <1>7 DEF CallStep

\* Every step keeps the types.
LEMMA GraphTypeNext == GraphTypeInv /\ [GraphNext]_graphVars => GraphTypeInv'
<1> SUFFICES ASSUME GraphTypeInv, [GraphNext]_graphVars PROVE GraphTypeInv'
  OBVIOUS
<1>1. ReplayInv /\ RowsNumbered /\ TablesTyped /\ PublicationsTyped /\ CallsTyped
  BY DEF GraphTypeInv
<1>2. ReplayInv'
  BY <1>1, NextReplay
<1>3. CASE UNCHANGED graphVars
  <2>1. RowsNumbered' /\ TablesTyped'
    BY <1>1, <1>3, NumberedStays DEF TablesTyped, ProjectionTyped, graphVars
  <2>2. PublicationsTyped' /\ CallsTyped'
    BY <1>1, <1>3 DEF PublicationsTyped, CallsTyped, Idle, Of, graphVars
  <2> QED
    BY <1>2, <2>1, <2>2 DEF GraphTypeInv
<1>4. ASSUME NEW c \in Candidates, NEW decision \in Decisions, ReviewCandidate(c, decision)
      PROVE  RowsNumbered' /\ TablesTyped'
  <2>1. /\ UNCHANGED <<clock, evidence, projection, revisions, disturbed>>
        /\ candidate[c].version < MaxVersion[c]
        /\ candidate' = [candidate EXCEPT ![c] = [version |-> @.version + 1, review |-> decision]]
    BY <1>4 DEF ReviewCandidate
  <2>2. MaxVersion[c] \in Nat
    BY GraphAssumption
  <2>3. /\ candidate' = [d \in Candidates |-> candidate'[d]]
        /\ \A d \in Candidates : candidate'[d].version \in 0..MaxVersion[d]
    BY <1>1, <2>1, <2>2 DEF TablesTyped, ProjectionTyped
  <2> QED
    BY <1>1, <2>1, <2>3, NumberedStays DEF TablesTyped, ProjectionTyped
<1>5. ASSUME NEW c \in Candidates, NEW q \in Calls, PublishCandidate(q, c) \/ RetractCandidate(q, c)
      PROVE  RowsNumbered' /\ TablesTyped'
  <2>1. /\ UNCHANGED <<clock, evidence, projection, candidate, revisions>>
        /\ disturbed' \in BOOLEAN
    BY <1>5 DEF PublishCandidate, RetractCandidate, Starts
  <2> QED
    BY <1>1, <2>1, NumberedStays DEF TablesTyped, ProjectionTyped
<1>6. ASSUME NEW q \in Calls, CallStep(q) PROVE RowsNumbered' /\ TablesTyped'
  BY <1>6, CallStepTyped
<1>7. ASSUME NEW q \in Calls, DropCall(q) PROVE RowsNumbered' /\ TablesTyped'
  <2>1. disturbed' = TRUE /\ UNCHANGED <<clock, evidence, projection, candidate, revisions>>
    BY <1>7 DEF DropCall
  <2> QED
    BY <1>1, <2>1, NumberedStays DEF TablesTyped, ProjectionTyped
<1>8. ASSUME NEW query \in Queries, TakeSnapshot(query[1], query[2])
      PROVE  RowsNumbered' /\ TablesTyped'
  <2>1. UNCHANGED <<clock, evidence, projection, candidate, revisions, disturbed>>
    BY <1>8 DEF TakeSnapshot
  <2> QED
    BY <1>1, <2>1, NumberedStays DEF TablesTyped, ProjectionTyped
<1>9. ASSUME Tick PROVE RowsNumbered' /\ TablesTyped'
  <2>1. clock' = clock + 1 /\ clock < MaxClock /\ UNCHANGED <<evidence, projection, candidate, revisions, disturbed>>
    BY <1>9 DEF Tick
  <2>2. clock' \in Times /\ clock' >= 1
    BY <1>1, <2>1, GraphAssumption DEF TablesTyped, Times
  <2>3. RowsNumbered'
    BY <1>1, <2>1, NumberedStays
  <2> QED
    BY <1>1, <2>1, <2>2, <2>3 DEF TablesTyped, ProjectionTyped
<1>10. ASSUME GraphNext PROVE RowsNumbered' /\ TablesTyped'
  <2> DEFINE typed == RowsNumbered' /\ TablesTyped'
  <2>1. /\ \A c \in Candidates, decision \in Decisions : ReviewCandidate(c, decision) => typed
        /\ \A c \in Candidates, q \in Calls : PublishCandidate(q, c) \/ RetractCandidate(q, c) => typed
    BY <1>4, <1>5
  <2>2. /\ \A q \in Calls : CallStep(q) \/ DropCall(q) => typed
        /\ \A query \in Queries : TakeSnapshot(query[1], query[2]) => typed
    BY <1>6, <1>7, <1>8
  <2>3. Tick => typed
    BY <1>9
  <2> HIDE DEF typed
  <2>4. typed
    BY <1>10, <2>1, <2>2, <2>3 DEF GraphNext
  <2> QED
    BY <2>4 DEF typed
<1>11. ASSUME GraphNext PROVE PublicationsTyped' /\ CallsTyped'
  <2> DEFINE typed == PublicationsTyped' /\ CallsTyped'
  <2>1. ASSUME UNCHANGED <<clock, publications>>
        PROVE  PublicationsTyped'
    BY <1>1, <2>1 DEF PublicationsTyped
  <2>2. ASSUME UNCHANGED call
        PROVE  CallsTyped'
    BY <1>1, <2>2 DEF CallsTyped, Idle, Of
  <2>3. \A c \in Candidates, decision \in Decisions : ReviewCandidate(c, decision) => typed
    BY <2>1, <2>2 DEF ReviewCandidate
  <2>4. \A query \in Queries : TakeSnapshot(query[1], query[2]) => typed
    BY <2>1, <2>2 DEF TakeSnapshot
  <2>5. \A c \in Candidates, q \in Calls : PublishCandidate(q, c) => typed
    BY <2>1, StartsTyped DEF PublishCandidate
  <2>6. \A c \in Candidates, q \in Calls : RetractCandidate(q, c) => typed
    BY <1>1, <2>1, StartsTyped DEF RetractCandidate, ActiveOf, PublicationsTyped
  <2>7. \A q \in Calls : DropCall(q) => typed
    BY <2>1, GoesTyped DEF DropCall
  <2>8. Tick => typed
    <3> SUFFICES ASSUME Tick PROVE typed
      OBVIOUS
    <3>1. clock' = clock + 1 /\ clock \in Nat /\ publications' = publications /\ call' = call
      BY <1>1 DEF Tick, ReplayInv, GraphShape
    <3>2. \A p \in DOMAIN publications : publications[p] \in 0..(clock + 1)
      BY <1>1, <3>1 DEF PublicationsTyped
    <3> QED
      BY <1>1, <2>2, <3>1, <3>2 DEF PublicationsTyped
  <2>9. \A q \in Calls : CallStep(q) => typed
    BY CallStepRequests
  <2> HIDE DEF typed
  <2>10. typed
    BY <1>11, <2>3, <2>4, <2>5, <2>6, <2>7, <2>8, <2>9 DEF GraphNext
  <2> QED
    BY <2>10 DEF typed
<1> QED
  BY <1>2, <1>3, <1>10, <1>11 DEF GraphTypeInv

\* The invariant says what the type does.
LEMMA GraphTypes == GraphTypeInv => GraphTypeOK
<1> SUFFICES ASSUME GraphTypeInv PROVE GraphTypeOK
  OBVIOUS
<1>1. \A p \in DOMAIN publications : publications[p] \in Times
  BY GraphAssumption DEF GraphTypeInv, TablesTyped, PublicationsTyped, Times
<1> QED
  BY <1>1 DEF GraphTypeInv, ReplayInv, GraphShape, RowsNumbered, TablesTyped, ProjectionTyped, GraphTypeOK

\* The tables keep the constraints of the schema: a revision is superseded after
\* it was recorded, and the numbers of an identity are used once
\* (record_revision_at).
THEOREM GraphTypeCorrect == GraphSpec => []GraphTypeOK
  BY GraphTypeInit, GraphTypeNext, GraphTypes, PTL DEF GraphSpec

-----------------------------------------------------------------------------
\* The row of the current graph is that of some publication.
OfPublished == \E p \in DOMAIN publications : projection = Period(p[1])

\* It is over, or begins after every publication was withdrawn.
Gone ==
  \/ projection = NoEdge
  \/ projection.to # Never /\ projection.to <= clock
  \/ \A p \in DOMAIN publications : projection.from > publications[p]

Agrees == IF Support(publications) # {} THEN OfPublished ELSE Gone

\* What was withdrawn was so before a request's time.
Withdrawn(q) == \A p \in DOMAIN publications : publications[p] <= call[q].now

\* How far a request that is alone has come.
Halfway(q) ==
  /\ call[q].pc \in {"record", "project"} => Agrees
  /\ call[q].pc \in {"look", "insert"} => projection = Period(Of(q))
  /\ call[q].pc = "withdraw" => Support(publications) # {} /\ OfPublished
  /\ call[q].pc \in {"lookup", "snapshot", "revoke", "end"} => Support(publications) = {}
  /\ ~Idle(q) => Withdrawn(q)

SupportKept ==
  ~disturbed =>
    /\ \A p, q \in Calls : ~Idle(p) /\ ~Idle(q) => p = q
    /\ AllIdle => Agrees
    /\ \A q \in Calls : Halfway(q)

SupportInv == GraphTypeInv /\ SupportKept

LEMMA InitSupport == GraphInit => SupportInv
<1> SUFFICES ASSUME GraphInit
             PROVE  SupportInv
  OBVIOUS
<1>1. DOMAIN publications = {} /\ projection = NoEdge /\ call = [q \in Calls |-> AtEase]
  BY DEF GraphInit
<1>2. Support(publications) = {}
  BY <1>1 DEF Support
<1>3. \A q \in Calls : call[q].pc = "idle"
  BY <1>1 DEF AtEase
<1> QED
  BY <1>1, <1>2, <1>3, GraphTypeInit DEF SupportInv, SupportKept, Agrees, Gone, Halfway, Idle

\* The relation and its publications stay as they are.
LEMMA TablesSupport ==
  ASSUME UNCHANGED <<clock, evidence, publications, projection>>
  PROVE  (Agrees' <=> Agrees) /\ (OfPublished' <=> OfPublished)
BY DEF Agrees, Gone, OfPublished, Period

\* A request starts undisturbed only when there is no other, and after all that
\* was withdrawn.
LEMMA StartsSupport ==
  ASSUME SupportInv, NEW q \in Calls, NEW pc \in {"record", "withdraw"}, NEW of, NEW review,
         Starts(q, pc, of, review), UNCHANGED <<clock, evidence, publications, projection>>,
         pc = "withdraw" => Support(publications) # {}
  PROVE  SupportKept'
<1>1. call = [p \in Calls |-> call[p]] /\ clock \in Nat /\ PublicationsTyped
  BY DEF SupportInv, GraphTypeInv, ReplayInv, GraphShape
<1>2. /\ call'[q].pc = pc /\ call'[q].now = clock
      /\ \A p \in Calls : p # q => call'[p] = call[p]
  BY <1>1 DEF Starts
<1>3. Withdrawn(q)'
  BY <1>1, <1>2 DEF Withdrawn, PublicationsTyped
<1>4. ASSUME ~disturbed'
      PROVE  /\ \A p \in Calls : p # q => call'[p].pc = "idle"
             /\ Agrees
  BY <1>2, <1>4 DEF Starts, SupportInv, SupportKept, AllIdle, Idle
<1>5. (Agrees' <=> Agrees) /\ (OfPublished' <=> OfPublished)
  BY TablesSupport
<1> QED
  BY <1>2, <1>3, <1>4, <1>5 DEF SupportKept, AllIdle, Idle, Halfway, Agrees

\* A request that is alone goes on: what it leaves is all that matters.
LEMMA StepSupport ==
  ASSUME SupportInv, NEW q \in Calls, ~Idle(q),
         \A p \in Calls : p # q => call'[p] = call[p],
         disturbed => disturbed',
         ~disturbed' => (Idle(q)' => Agrees') /\ Halfway(q)'
  PROVE  SupportKept'
<1> SUFFICES ASSUME ~disturbed'
             PROVE  SupportKept'
  BY DEF SupportKept
<1>1. \A p \in Calls : p # q => Idle(p)'
  BY DEF SupportInv, SupportKept, Idle
<1>2. \A p \in Calls : p # q => Halfway(p)'
  BY <1>1 DEF Halfway, Idle
<1> QED
  BY <1>1, <1>2 DEF SupportKept, AllIdle

\* Of a request, and of what it leaves to go on.
LEMMA AloneSupport ==
  ASSUME SupportInv, NEW q \in Calls
  PROVE  /\ ~disturbed => Halfway(q)
         /\ call[q].now \in Nat /\ clock \in Nat /\ call[q].now <= clock
         /\ \A pc : CallGoes(q, pc) =>
              /\ call'[q].pc = pc
              /\ \A p \in Calls : p # q => call'[p] = call[p]
              /\ pc # "idle" => call'[q].now = call[q].now /\ call'[q].of = call[q].of
BY GoesOn DEF SupportInv, SupportKept, GraphTypeInv, ReplayInv, GraphShape

LEMMA PublishSupport ==
  ASSUME SupportInv, NEW q \in Calls,
         \/ \E now \in Times : RecordRevision(q, now)
         \/ ProjectEdge(q) \/ CheckPublished(q) \/ InsertPublication(q)
  PROVE  SupportKept'
<1>1. \A pc : CallGoes(q, pc) =>
        /\ call'[q].pc = pc
        /\ \A p \in Calls : p # q => call'[p] = call[p]
        /\ pc # "idle" => call'[q].now = call[q].now /\ call'[q].of = call[q].of
  BY AloneSupport
<1>2. ~disturbed => Halfway(q)
  BY AloneSupport
<1>3. ASSUME NEW now \in Times, RecordRevision(q, now)
      PROVE  SupportKept'
  <2>1. /\ call[q].pc = "record" /\ CallGoes(q, "project")
        /\ UNCHANGED <<clock, evidence, publications, projection, disturbed>>
    BY <1>3 DEF RecordRevision
  <2> QED
    BY <1>1, <1>2, <2>1, StepSupport, TablesSupport DEF Halfway, Withdrawn, Idle
<1>4. CASE ProjectEdge(q)
  <2>1. /\ call[q].pc = "project" /\ CallGoes(q, "look")
        /\ projection' = Period(Of(q)) /\ UNCHANGED <<evidence, publications, disturbed>>
    BY <1>4 DEF ProjectEdge, Projected
  <2>2. call'[q].pc = "look" /\ projection' = Period(Of(q))' /\ (Withdrawn(q)' <=> Withdrawn(q))
    BY <1>1, <2>1 DEF Period, Of, Withdrawn
  <2> QED
    BY <1>1, <1>2, <2>1, <2>2, StepSupport DEF Halfway, Idle
<1>5. CASE CheckPublished(q)
  <2>1. /\ call[q].pc = "look" /\ UNCHANGED <<clock, evidence, publications, projection, disturbed>>
        /\ CallGoes(q, IF ActiveOf(Of(q)) = {} THEN "insert" ELSE "idle")
    BY <1>5 DEF CheckPublished
  <2>2. ActiveOf(Of(q)) # {} /\ projection = Period(Of(q)) => Agrees
    BY DEF ActiveOf, Support, Agrees, OfPublished
  <2>3. CASE ActiveOf(Of(q)) = {}
    <3>1. call'[q].pc = "insert" /\ (Withdrawn(q)' <=> Withdrawn(q)) /\ Period(Of(q))' = Period(Of(q))
      BY <1>1, <2>1, <2>3 DEF Withdrawn, Period, Of
    <3> QED
      BY <1>1, <1>2, <2>1, <2>3, <3>1, StepSupport DEF Halfway, Idle
  <2>4. CASE ActiveOf(Of(q)) # {}
    BY <1>1, <1>2, <2>1, <2>2, <2>4, StepSupport, TablesSupport DEF Halfway, Idle
  <2> QED
    BY <2>3, <2>4
<1>6. CASE InsertPublication(q)
  <2>1. /\ call[q].pc = "insert" /\ CallGoes(q, "idle") /\ UNCHANGED <<evidence, projection>>
        /\ disturbed => disturbed'
    BY <1>6 DEF InsertPublication
  <2>2. ASSUME ~disturbed'
        PROVE  Agrees'
    <3>1. publications' = With(publications, call[q].of, Never) /\ ~disturbed
      BY <1>6, <2>2 DEF InsertPublication
    <3>2. PICK p : p = call[q].of
      OBVIOUS
    <3>3. p \in Support(publications') /\ p \in DOMAIN publications'
      BY <3>1, <3>2 DEF With, Support
    <3>4. projection' = Period(p[1])'
      BY <1>2, <2>1, <3>1, <3>2 DEF Halfway, Period, Of
    <3> QED
      BY <3>3, <3>4 DEF Agrees, OfPublished
  <2> QED
    BY <1>1, <2>1, <2>2, StepSupport DEF Halfway, Idle
<1> QED
  BY <1>3, <1>4, <1>5, <1>6

\* The last publication is withdrawn: whatever comes of the request, nothing
\* supports the relation, and if it is not shown then it will not be for what
\* was withdrawn.
LEMMA RetractSupport ==
  ASSUME SupportInv, NEW q \in Calls,
         \/ \E t \in Times : WithdrawPublication(q, t) \/ LookUpEdge(q, t)
         \/ FindPrevious(q) \/ RevokeRelation(q) \/ EndEdge(q)
  PROVE  SupportKept'
<1>1. \A pc : CallGoes(q, pc) =>
        /\ call'[q].pc = pc
        /\ \A p \in Calls : p # q => call'[p] = call[p]
        /\ pc # "idle" => call'[q].now = call[q].now /\ call'[q].of = call[q].of
  BY AloneSupport
<1>2. ~disturbed => Halfway(q)
  BY AloneSupport
<1>3. /\ call[q].now \in Nat /\ clock \in Nat /\ call[q].now <= clock
      /\ call = [p \in Calls |-> call[p]] /\ PublicationsTyped /\ ProjectionTyped
  BY AloneSupport DEF SupportInv, GraphTypeInv, TablesTyped, ReplayInv, GraphShape
<1>4. ASSUME NEW now \in Times, WithdrawPublication(q, now)
      PROVE  SupportKept'
  <2>1. /\ call[q].pc = "withdraw" /\ UNCHANGED <<clock, evidence, projection, disturbed>>
        /\ publications' = [publications EXCEPT ![call[q].of] = now]
        /\ now \in Nat /\ call[q].now <= now
    BY <1>3, <1>4 DEF WithdrawPublication, TimeOf
  <2>2. DOMAIN publications' = DOMAIN publications
    BY <2>1
  <2>3. OfPublished' <=> OfPublished
    BY <2>1, <2>2 DEF OfPublished, Period
  <2>4. Withdrawn(q) => \A p \in DOMAIN publications' : publications'[p] <= now
    BY <1>3, <2>1, <2>2 DEF Withdrawn, PublicationsTyped
  <2>5. CASE Support(publications') # {}
    <3>1. call'[q].pc = "idle" /\ \A p \in Calls : p # q => call'[p] = call[p]
      BY <1>3, <1>4, <2>5 DEF WithdrawPublication, AtEase
    <3>2. ~disturbed' => Agrees'
      BY <1>2, <2>1, <2>3, <2>5 DEF Halfway, Agrees
    <3> QED
      BY <2>1, <3>1, <3>2, StepSupport DEF Halfway, Idle
  <2>6. CASE Support(publications') = {}
    <3>1. /\ call'[q].pc = "lookup" /\ call'[q].now = now
          /\ \A p \in Calls : p # q => call'[p] = call[p]
      BY <1>3, <1>4, <2>6 DEF WithdrawPublication, Further
    <3>2. ~disturbed' => Withdrawn(q)'
      BY <1>2, <2>1, <2>4, <3>1 DEF Halfway, Idle, Withdrawn
    <3> QED
      BY <2>1, <2>6, <3>1, <3>2, StepSupport DEF Halfway, Idle
  <2> QED
    BY <2>5, <2>6
<1>5. ASSUME NEW t \in Times, LookUpEdge(q, t)
      PROVE  SupportKept'
  <2>1. /\ call[q].pc = "lookup" /\ t \in Nat /\ call[q].now <= t /\ t <= clock
        /\ UNCHANGED <<clock, evidence, publications, projection, disturbed>>
        /\ CallGoes(q, IF Shown(t) THEN "snapshot" ELSE "idle")
    BY <1>3, <1>5 DEF LookUpEdge, TimeOf
  <2>2. CASE Shown(t)
    <3>1. call'[q].pc = "snapshot" /\ (Withdrawn(q)' <=> Withdrawn(q))
      BY <1>1, <2>1, <2>2 DEF Withdrawn
    <3> QED
      BY <1>1, <1>2, <2>1, <2>2, <3>1, StepSupport DEF Halfway, Idle
  <2>3. CASE ~Shown(t)
    <3>1. Withdrawn(q) => Gone
      <4>1. CASE projection = NoEdge
        BY <4>1 DEF Gone
      <4>2. CASE projection # NoEdge /\ projection.from > t
        BY <1>3, <2>1, <4>2 DEF Gone, Withdrawn, PublicationsTyped, ProjectionTyped
      <4>3. CASE projection # NoEdge /\ projection.to # Never /\ ~(projection.to > t)
        BY <1>3, <2>1, <4>3 DEF Gone, ProjectionTyped
      <4>4. projection # NoEdge => projection.from \in Nat
        BY <1>3 DEF ProjectionTyped
      <4> QED
        BY <2>1, <2>3, <4>1, <4>2, <4>3, <4>4 DEF Shown
    <3>2. ~disturbed => Agrees
      BY <1>2, <2>1, <3>1 DEF Halfway, Agrees, Idle
    <3> QED
      BY <1>1, <2>1, <2>3, <3>2, StepSupport, TablesSupport DEF Halfway, Idle
  <2> QED
    BY <2>2, <2>3
<1>6. CASE FindPrevious(q)
  <2>1. /\ call[q].pc = "snapshot" /\ UNCHANGED <<clock, evidence, publications, projection, disturbed>>
        /\ \E prev : call' = [call EXCEPT ![q] = Further(call[q], "revoke", call[q].now, prev)]
    BY <1>6 DEF FindPrevious
  <2>2. /\ call'[q].pc = "revoke" /\ call'[q].now = call[q].now
        /\ \A p \in Calls : p # q => call'[p] = call[p]
    BY <1>3, <2>1 DEF Further
  <2> QED
    BY <1>2, <2>1, <2>2, StepSupport DEF Halfway, Idle, Withdrawn
<1>7. CASE RevokeRelation(q)
  <2>1. /\ call[q].pc = "revoke" /\ UNCHANGED <<clock, evidence, publications, projection>>
        /\ \/ CallGoes(q, "idle") /\ disturbed' = TRUE
           \/ CallGoes(q, "end") /\ UNCHANGED disturbed
    BY <1>7 DEF RevokeRelation
  <2> QED
    BY <1>1, <1>2, <2>1, StepSupport DEF Halfway, Idle, Withdrawn
<1>8. CASE EndEdge(q)
  <2>1. /\ call[q].pc = "end" /\ CallGoes(q, "idle") /\ UNCHANGED <<clock, publications, disturbed>>
        /\ projection'.to = call[q].now
    BY <1>8 DEF EndEdge
  <2>2. call[q].now >= 1
    BY <2>1 DEF SupportInv, GraphTypeInv, CallsTyped, Idle
  <2>3. Gone'
    BY <1>3, <2>1, <2>2 DEF Gone, Never
  <2>4. ~disturbed' => Agrees'
    BY <1>2, <2>1, <2>3 DEF Halfway, Agrees
  <2> QED
    BY <1>1, <2>1, <2>4, StepSupport DEF Halfway, Idle
<1> QED
  BY <1>4, <1>5, <1>6, <1>7, <1>8

\* What is over stays over.
LEMMA TickSupport ==
  ASSUME SupportInv, Tick
  PROVE  SupportKept'
<1>1. clock' = clock + 1 /\ UNCHANGED <<evidence, publications, projection, call, disturbed>>
  BY DEF Tick
<1>2. clock \in Nat /\ ProjectionTyped
  BY DEF SupportInv, GraphTypeInv, TablesTyped, ReplayInv, GraphShape
<1>3. Gone => Gone'
  BY <1>1, <1>2 DEF Gone, ProjectionTyped
<1>4. (OfPublished' <=> OfPublished) /\ (Agrees => Agrees')
  BY <1>1, <1>3 DEF OfPublished, Period, Agrees
<1>5. \A q \in Calls : Halfway(q) => Halfway(q)'
  BY <1>1, <1>4 DEF Halfway, Withdrawn, Idle, Period, Of
<1> QED
  BY <1>1, <1>4, <1>5 DEF SupportInv, SupportKept, AllIdle, Idle

LEMMA NextSupport ==
  ASSUME SupportInv, [GraphNext]_graphVars
  PROVE  SupportInv'
<1>1. GraphTypeInv'
  BY GraphTypeNext DEF SupportInv
<1>2. ASSUME UNCHANGED <<clock, evidence, call, publications, projection, disturbed>>
      PROVE  SupportKept'
  <2>1. \A q \in Calls : Halfway(q)' <=> Halfway(q)
    BY <1>2, TablesSupport DEF Halfway, Idle, Withdrawn, Period, Of
  <2> QED
    BY <1>2, <2>1, TablesSupport DEF SupportInv, SupportKept, AllIdle, Idle
<1>3. CASE \/ UNCHANGED graphVars
           \/ \E c \in Candidates, decision \in Decisions : ReviewCandidate(c, decision)
           \/ \E query \in Queries : TakeSnapshot(query[1], query[2])
  <2>1. UNCHANGED <<clock, evidence, call, publications, projection, disturbed>>
    BY <1>3 DEF graphVars, ReviewCandidate, TakeSnapshot
  <2> QED
    BY <1>1, <1>2, <2>1 DEF SupportInv
<1>4. ASSUME NEW c \in Candidates, NEW q \in Calls, PublishCandidate(q, c)
      PROVE  SupportInv'
  BY <1>1, <1>4, StartsSupport DEF PublishCandidate, SupportInv
<1>5. ASSUME NEW c \in Candidates, NEW q \in Calls, RetractCandidate(q, c)
      PROVE  SupportInv'
  BY <1>1, <1>5, StartsSupport DEF RetractCandidate, ActiveOf, Support, SupportInv
<1>6. ASSUME NEW q \in Calls, CallStep(q)
      PROVE  SupportInv'
  BY <1>1, <1>6, PublishSupport, RetractSupport DEF CallStep, SupportInv
<1>7. ASSUME NEW q \in Calls, DropCall(q)
      PROVE  SupportInv'
  BY <1>1, <1>7 DEF DropCall, SupportInv, SupportKept
<1>8. CASE Tick
  BY <1>1, <1>8, TickSupport DEF SupportInv
<1> QED
  BY <1>3, <1>4, <1>5, <1>6, <1>7, <1>8 DEF GraphNext

\* Whatever is published and retracted, one request after the other, the row of
\* the relation has the business period of a publication while one supports it;
\* and when none does, the relation is in the current graph only if its period
\* began after the last one was withdrawn.
THEOREM GraphProjectionIsSupported == GraphSpec => []ProjectionIsSupported
<1>1. SupportInv => ProjectionIsSupported
  <2> SUFFICES ASSUME SupportInv, AllIdle, ~disturbed
               PROVE  ProjectionIsSupported
    BY DEF ProjectionIsSupported
  <2>1. Agrees
    BY DEF SupportInv, SupportKept
  <2>2. clock \in Nat /\ ProjectionTyped
    BY DEF SupportInv, GraphTypeInv, TablesTyped, ReplayInv, GraphShape
  <2>3. CASE Support(publications) # {}
    BY <2>1, <2>3 DEF Agrees, OfPublished, Support, ProjectionIsSupported
  <2>4. CASE Support(publications) = {}
    <3>1. Gone /\ ~\E p \in DOMAIN publications : publications[p] = Never
      BY <2>1, <2>4 DEF Agrees, Support
    <3>2. Shown(clock) => \A p \in DOMAIN publications : projection.from > publications[p]
      BY <2>2, <3>1 DEF Gone, Shown, ProjectionTyped
    <3> QED
      BY <3>1, <3>2 DEF ProjectionIsSupported
  <2> QED
    BY <2>3, <2>4
<1> QED
  BY InitSupport, NextSupport, <1>1, PTL DEF GraphSpec

-----------------------------------------------------------------------------
\* Formal disclosures.

\* The inductive invariant, beside the type invariant.

\* The version a row is ingested with is that of its own document.
OwnVersion ==
  /\ Doing("ingest") => sync.version \in {{}, {OfficialRow.url}}
  /\ Doing("mirrorRow") => sync.version = {}
  /\ \A d \in DOMAIN disclosures : disclosures[d].version # {} =>
       \E e \in OfficialEntries : e.notice = d /\ disclosures[d].version = {e.url}

\* What a row of the index has to be for a job without gaps to have passed it.
Settled(e) ==
  /\ e.notice \in DOMAIN disclosures /\ <<"cninfo", e.url>> \in DOMAIN entrances
  /\ entrances[<<"cninfo", e.url>>] = e.notice => PrimaryVerified(e.notice)

\* The rows of the index the job has passed.
Behind(c, p, r) ==
  \/ sync.pc \in {"mirror", "mirrorRow", "end"}
  \/ sync.pc \in {"index", "row", "ingest"} /\
       \/ c < sync.column
       \/ c = sync.column /\ p < sync.page
       \/ c = sync.column /\ p = sync.page /\ r < sync.row

PassedRows ==
  \A c \in DOMAIN listing.official : \A p \in DOMAIN listing.official[c] :
    p <= MaxPages => \A r \in DOMAIN listing.official[c][p] :
      Behind(c, p, r) => Settled(listing.official[c][p][r])

\* The job's status is "running" as long as it runs.
RunningIsShown == Doing("idle") <=> sync.status # "running"

\* A job that comes to its end without gaps has been told of an empty mirror.
MirrorIsPassed == Doing("end") /\ ~sync.gaps => listing.mirror = <<>>

DisclosureInv ==
  /\ DisclosureTypeOK /\ OwnVersion /\ RunningIsShown /\ MirrorIsPassed
  /\ ~Doing("idle") /\ ~sync.gaps => PassedRows
  /\ CompletedIsVerified /\ ChainsEnd

-----------------------------------------------------------------------------
\* The indexes are sequences of entries.
LEMMA ListingTyped ==
  ASSUME NEW l \in Listings
  PROVE  /\ l.official \in Seq(Seq(Seq(OfficialEntries))) /\ 1 \in DOMAIN l.official
         /\ l.mirror \in Seq(Entries)
         /\ \A c \in DOMAIN l.official :
              /\ c \in Nat \ {0} /\ l.official[c] \in Seq(Seq(OfficialEntries))
              /\ \A p \in DOMAIN l.official[c] :
                   /\ p \in Nat \ {0} /\ l.official[c][p] \in Seq(OfficialEntries)
                   /\ l.official[c][p] # <<>> /\ 1 \in DOMAIN l.official[c][p]
                   /\ \A r \in DOMAIN l.official[c][p] :
                        r \in Nat \ {0} /\ l.official[c][p][r] \in OfficialEntries
         /\ \A r \in DOMAIN l.mirror : l.mirror[r] \in Entries
<1>1. /\ l.official \in Seq(Seq(Seq(OfficialEntries))) /\ l.official # <<>>
      /\ l.mirror \in Seq(Entries)
      /\ \A c \in DOMAIN l.official : \A p \in DOMAIN l.official[c] : l.official[c][p] # <<>>
  BY DisclosureAssumption
<1>2. 1 \in DOMAIN l.official
  BY <1>1
<1>3. ASSUME NEW c \in DOMAIN l.official
      PROVE  c \in Nat \ {0} /\ l.official[c] \in Seq(Seq(OfficialEntries))
  BY <1>1
<1>4. ASSUME NEW c \in DOMAIN l.official, NEW p \in DOMAIN l.official[c]
      PROVE  /\ p \in Nat \ {0} /\ l.official[c][p] \in Seq(OfficialEntries)
             /\ l.official[c][p] # <<>> /\ 1 \in DOMAIN l.official[c][p]
  <2>1. p \in Nat \ {0} /\ l.official[c][p] \in Seq(OfficialEntries)
    BY <1>3
  <2>2. QED BY <2>1, <1>1
<1>5. ASSUME NEW c \in DOMAIN l.official, NEW p \in DOMAIN l.official[c],
             NEW r \in DOMAIN l.official[c][p]
      PROVE  r \in Nat \ {0} /\ l.official[c][p][r] \in OfficialEntries
  BY <1>4
<1>6. \A r \in DOMAIN l.mirror : l.mirror[r] \in Entries
  BY <1>1
<1>7. QED BY <1>1, <1>2, <1>3, <1>4, <1>5, <1>6

\* Every entry has a url and a notice, and official entries are entries.
LEMMA EntryTyped ==
  /\ OfficialEntries \subseteq Entries
  /\ \A e \in Entries : e.notice \in Notices /\ e.url \in Urls
BY DEF Entries, Notices, Urls

\* What ingest does to the rows (DisclosureStore::ingest): it adds at most the
\* notice of the entry, links it to others only then, and keeps the rest.
Ingested(e, provider, version) ==
  /\ DOMAIN disclosures' = DOMAIN disclosures \cup {e.notice}
  /\ DOMAIN entrances' = DOMAIN entrances \cup {<<provider, e.url>>}
  /\ \A s \in DOMAIN entrances : entrances'[s] = entrances[s]
  /\ <<provider, e.url>> \notin DOMAIN entrances =>
       entrances'[<<provider, e.url>>] = e.notice
  /\ entrances' \in [DOMAIN entrances' -> DOMAIN disclosures']
  /\ disclosures' \in [DOMAIN disclosures' ->
       [seen : Nat, revises : SUBSET DOMAIN disclosures,
        cancelledBy : SUBSET DOMAIN disclosures', version : SUBSET archived]]
  /\ \A d \in DOMAIN disclosures' :
       d \notin disclosures'[d].revises \cup disclosures'[d].cancelledBy
  /\ \A d \in DOMAIN disclosures :
       /\ disclosures'[d].revises = disclosures[d].revises
       /\ disclosures[d].cancelledBy # {} => disclosures'[d].cancelledBy # {}
       /\ d # e.notice \/ version = {} => disclosures'[d].version = disclosures[d].version
  /\ e.notice \notin DOMAIN disclosures \/ version # {} =>
       disclosures'[e.notice].version = version

\* Whatever disclosure find_prior_revision finds, ingest does no more than that.
LEMMA IngestKeeps ==
  ASSUME DisclosureTypeOK, NEW e \in Entries, NEW provider \in Providers,
         NEW version \in SUBSET archived, IngestEntry(e, provider, version)
  PROVE  Ingested(e, provider, version)
<1> DEFINE n == e.notice
           RowSet == [seen : Nat, revises : SUBSET DOMAIN disclosures,
                   cancelledBy : SUBSET DOMAIN disclosures, version : SUBSET archived]
<1>1. PICK prior \in Priors(n), now \in Moments :
        disclosures' = Marked(Upserted(n, prior, version, now), n, prior)
  BY DEF IngestEntry
<1>2. prior \subseteq DOMAIN disclosures \ {n}
  BY DEF Priors, SeenLast, SameTitle
<1>3. now \in Nat
  BY DEF Moments, DisclosureTypeOK, RowsOK, PlaceOK
<1> DEFINE Up == Upserted(n, prior, version, now)
<1>4. /\ DOMAIN Up = DOMAIN disclosures \cup {n}
      /\ Up \in [DOMAIN disclosures \cup {n} -> RowSet]
      /\ \A d \in DOMAIN disclosures :
           /\ Up[d].revises = disclosures[d].revises
           /\ Up[d].cancelledBy = disclosures[d].cancelledBy
           /\ d # n \/ version = {} => Up[d].version = disclosures[d].version
      /\ n \notin DOMAIN disclosures \/ version # {} => Up[n].version = version
      /\ n \notin DOMAIN disclosures => Up[n].revises = prior /\ Up[n].cancelledBy = {}
  <2>1. \A d \in DOMAIN disclosures : disclosures[d] \in RowSet
    BY DEF DisclosureTypeOK, RowsOK, PlaceOK
  <2>2. ASSUME NEW d \in DOMAIN disclosures
        PROVE  /\ Up[d] = [seen        |-> disclosures[d].seen,
                           revises     |-> disclosures[d].revises,
                           cancelledBy |-> disclosures[d].cancelledBy,
                           version     |-> Up[d].version]
               /\ Up[d].version = IF d = n /\ version # {} THEN version ELSE disclosures[d].version
    BY <2>1 DEF Upserted, KeptVersion, KeptLink
  <2>3. ASSUME n \notin DOMAIN disclosures
        PROVE  Up[n] = [seen |-> now, revises |-> prior, cancelledBy |-> {}, version |-> version]
    BY <2>3 DEF Upserted
  <2>4. Up = [d \in DOMAIN disclosures \cup {n} |-> Up[d]]
    BY DEF Upserted
  <2> HIDE DEF Up
  <2>5. ASSUME NEW d \in DOMAIN disclosures PROVE Up[d] \in RowSet
    <3>1. disclosures[d].version \in SUBSET archived
      BY <2>1
    <3>2. Up[d].version \in SUBSET archived
      BY <3>1, <2>2
    <3> DEFINE v == Up[d].version
    <3>3. Up[d] = [seen |-> disclosures[d].seen, revises |-> disclosures[d].revises,
                   cancelledBy |-> disclosures[d].cancelledBy, version |-> v]
      BY <2>2
    <3> HIDE DEF v
    <3>4. v \in SUBSET archived
      BY <3>2 DEF v
    <3>5. QED BY <3>3, <3>4, <2>1
  <2>6. n \notin DOMAIN disclosures => Up[n] \in RowSet
    BY <2>3, <1>2, <1>3
  <2>7. QED BY <2>2, <2>3, <2>4, <2>5, <2>6
<1>5. /\ DOMAIN disclosures' = DOMAIN disclosures \cup {n}
      /\ \A d \in DOMAIN disclosures \cup {n} :
           disclosures'[d] = IF n.kind = "cancelled" /\ d \in prior
                             THEN [Up[d] EXCEPT !.cancelledBy = {n}] ELSE Up[d]
  BY <1>1, <1>4 DEF Marked
<1> HIDE DEF Up
<1>6. ASSUME NEW d \in DOMAIN disclosures \cup {n}
      PROVE  /\ disclosures'[d] \in [seen : Nat, revises : SUBSET DOMAIN disclosures,
                  cancelledBy : SUBSET (DOMAIN disclosures \cup {n}), version : SUBSET archived]
             /\ disclosures'[d].revises = Up[d].revises
             /\ disclosures'[d].version = Up[d].version
             /\ \/ disclosures'[d].cancelledBy = Up[d].cancelledBy
                \/ d # n /\ disclosures'[d].cancelledBy = {n}
  <2>1. Up[d] \in RowSet
    BY <1>4
  <2>2. QED BY <2>1, <1>5, <1>2
<1>7. ASSUME NEW d \in DOMAIN disclosures \cup {n}
      PROVE  d \notin disclosures'[d].revises \cup disclosures'[d].cancelledBy
  <2>1. d \notin Up[d].revises \cup Up[d].cancelledBy
    <3>1. CASE d \in DOMAIN disclosures
      BY <3>1, <1>4 DEF DisclosureTypeOK, RowsOK, PlaceOK
    <3>2. CASE d \notin DOMAIN disclosures
      BY <3>2, <1>4, <1>2
    <3>3. QED BY <3>1, <3>2
  <2>2. QED BY <2>1, <1>6
<1>8. disclosures' \in [DOMAIN disclosures' ->
        [seen : Nat, revises : SUBSET DOMAIN disclosures,
         cancelledBy : SUBSET DOMAIN disclosures', version : SUBSET archived]]
  <2>1. disclosures' = [d \in DOMAIN disclosures' |-> disclosures'[d]]
    BY <1>1 DEF Marked
  <2>2. QED BY <2>1, <1>5, <1>6
<1>9. /\ DOMAIN entrances' = DOMAIN entrances \cup {<<provider, e.url>>}
      /\ \A s \in DOMAIN entrances : entrances'[s] = entrances[s]
      /\ <<provider, e.url>> \notin DOMAIN entrances =>
           entrances'[<<provider, e.url>>] = e.notice
      /\ entrances' \in [DOMAIN entrances' -> DOMAIN disclosures \cup {n}]
  BY DEF IngestEntry, WithEntrance, DisclosureTypeOK, RowsOK, PlaceOK
<1>10. ASSUME NEW d \in DOMAIN disclosures
       PROVE  /\ disclosures'[d].revises = disclosures[d].revises
              /\ disclosures[d].cancelledBy # {} => disclosures'[d].cancelledBy # {}
              /\ d # n \/ version = {} => disclosures'[d].version = disclosures[d].version
  <2>1. /\ d # n \/ version = {} => Up[d].version = disclosures[d].version
        /\ Up[d].revises = disclosures[d].revises
        /\ Up[d].cancelledBy = disclosures[d].cancelledBy
    BY <1>4
  <2>2. QED BY <2>1, <1>6
<1>11. n \notin DOMAIN disclosures \/ version # {} => disclosures'[n].version = version
  BY <1>4, <1>6
<1>12. QED
  BY <1>5, <1>7, <1>8, <1>9, <1>10, <1>11 DEF Ingested

\* A stored disclosure that is verified stays so, and so does what a row of the
\* index has to be.
LEMMA VerifiedStays ==
  ASSUME NEW e, NEW provider, NEW version, Ingested(e, provider, version)
  PROVE  /\ \A d \in DOMAIN disclosures : PrimaryVerified(d) => PrimaryVerified(d)'
         /\ \A f : Settled(f) => Settled(f)'
<1>1. ASSUME NEW d \in DOMAIN disclosures, PrimaryVerified(d) PROVE PrimaryVerified(d)'
  <2>1. disclosures'[d].version # {}
    BY <1>1 DEF PrimaryVerified, Ingested
  <2>2. \E s \in DOMAIN entrances' : entrances'[s] = d /\ Primary(s[1])
    BY <1>1 DEF PrimaryVerified, Ingested
  <2>3. QED BY <2>1, <2>2 DEF PrimaryVerified, Primary
<1>2. ASSUME NEW f, Settled(f) PROVE Settled(f)'
  BY <1>1, <1>2 DEF Settled, Ingested
<1>3. QED BY <1>1, <1>2
-----------------------------------------------------------------------------
\* The place of the job.

\* Another column begins at its first page, and the mirror follows the last.
LEMMA NextColumnPlaces ==
  ASSUME DisclosureTypeOK, NEW s \in Places
  PROVE  /\ NextColumn(s) \in Places /\ NextColumn(s).row = 1
         /\ NextColumn(s).gaps = s.gaps /\ NextColumn(s).status = s.status
         /\ NextColumn(s).version = s.version
         /\ \/ NextColumn(s).pc = "mirror" /\ s.column = Len(listing.official)
            \/ /\ NextColumn(s).pc = "index" /\ NextColumn(s).column = s.column + 1
               /\ NextColumn(s).page = 1
<1>1. /\ DOMAIN listing.official = 1..Len(listing.official)
      /\ Len(listing.official) \in Nat
  BY ListingTyped DEF DisclosureTypeOK, RowsOK, PlaceOK
<1>2. s.column \in 1..Len(listing.official)
  BY <1>1 DEF Places
<1>3. CASE s.column < Len(listing.official)
  <2>1. NextColumn(s) = [s EXCEPT !.pc = "index", !.column = s.column + 1, !.page = 1, !.row = 1]
    BY <1>3 DEF NextColumn, Places
  <2>2. s.column + 1 \in DOMAIN listing.official
    BY <1>1, <1>2, <1>3
  <2>3. 1 \in Nat \ {0}
    OBVIOUS
  <2>4. NextColumn(s) \in Places
    BY <2>1, <2>2, <2>3 DEF Places
  <2>5. QED BY <2>1, <2>4 DEF Places
<1>4. CASE s.column = Len(listing.official)
  <2>1. NextColumn(s) = [s EXCEPT !.pc = "mirror", !.row = 1]
    BY <1>1, <1>4 DEF NextColumn
  <2>2. 1 \in Nat \ {0}
    OBVIOUS
  <2>3. NextColumn(s) \in Places
    BY <2>1, <2>2 DEF Places
  <2>4. QED BY <2>1, <2>3, <1>4 DEF Places
<1>5. QED BY <1>1, <1>2, <1>3, <1>4

\* After a row comes the next one of its page, the next page, or a column.
LEMMA AfterRowPlaces ==
  ASSUME DisclosureTypeOK, sync.pc \in {"row", "ingest"}, NEW s \in Places,
         s.column = sync.column, s.page = sync.page, s.row = sync.row
  PROVE  /\ AfterRow(s) \in Places
         /\ AfterRow(s).gaps = s.gaps /\ AfterRow(s).status = s.status
         /\ AfterRow(s).version = s.version
         /\ \/ /\ AfterRow(s).pc = "row" /\ AfterRow(s).column = sync.column
               /\ AfterRow(s).page = sync.page /\ AfterRow(s).row = sync.row + 1
               /\ sync.row + 1 \in DOMAIN Column[sync.page]
            \/ /\ AfterRow(s).pc = "index" /\ AfterRow(s).column = sync.column
               /\ AfterRow(s).page = sync.page + 1 /\ AfterRow(s).row = 1
               /\ sync.row = Len(Column[sync.page]) /\ sync.page + 1 <= MaxPages
            \/ /\ AfterRow(s) = NextColumn(s) /\ sync.row = Len(Column[sync.page])
               /\ sync.page = Pages
<1>1. /\ Column \in Seq(Seq(OfficialEntries)) /\ Pages \in Nat /\ Pages <= MaxPages
      /\ sync.page \in 1..Pages /\ sync.page \in DOMAIN Column
      /\ Column[sync.page] \in Seq(OfficialEntries)
      /\ sync.row \in 1..Len(Column[sync.page]) /\ Len(Column[sync.page]) \in Nat
  <2>1. Column \in Seq(Seq(OfficialEntries))
    BY ListingTyped DEF DisclosureTypeOK, RowsOK, PlaceOK, Column, Places
  <2>2. Pages \in Nat /\ Pages <= Len(Column) /\ Pages <= MaxPages
    BY <2>1, DisclosureAssumption DEF Pages
  <2>3. sync.page \in 1..Pages /\ sync.row \in DOMAIN Column[sync.page]
    BY DEF DisclosureTypeOK, RowsOK, PlaceOK
  <2>4. sync.page \in DOMAIN Column /\ Column[sync.page] \in Seq(OfficialEntries)
    BY <2>1, <2>2, <2>3
  <2>5. QED BY <2>1, <2>2, <2>3, <2>4
<1>2. CASE sync.row < Len(Column[sync.page])
  <2>1. AfterRow(s) = [s EXCEPT !.pc = "row", !.row = s.row + 1]
    BY <1>2 DEF AfterRow, Places
  <2>2. s.row + 1 \in Nat \ {0} /\ sync.row + 1 \in DOMAIN Column[sync.page]
    BY <1>1, <1>2
  <2>3. QED BY <2>1, <2>2 DEF Places
<1>3. CASE sync.row = Len(Column[sync.page]) /\ sync.page < Pages
  <2>1. AfterRow(s) = [s EXCEPT !.pc = "index", !.page = s.page + 1, !.row = 1]
    BY <1>1, <1>3 DEF AfterRow, Places
  <2>2. s.page + 1 \in Nat \ {0} /\ sync.page + 1 <= MaxPages
    BY <1>1, <1>3, DisclosureAssumption
  <2>3. 1 \in Nat \ {0}
    OBVIOUS
  <2>4. AfterRow(s) \in Places
    BY <2>1, <2>2, <2>3 DEF Places
  <2>5. QED BY <2>1, <2>2, <2>4, <1>3 DEF Places
<1>4. CASE sync.row = Len(Column[sync.page]) /\ sync.page = Pages
  <2>1. AfterRow(s) = NextColumn(s)
    BY <1>1, <1>4 DEF AfterRow
  <2>2. QED BY <2>1, <1>4, NextColumnPlaces
<1>5. QED BY <1>1, <1>2, <1>3, <1>4
-----------------------------------------------------------------------------
\* Type correctness.

\* The entries the job is at are entries of the listing.
LEMMA EntriesAtHand ==
  ASSUME DisclosureTypeOK
  PROVE  /\ Column \in Seq(Seq(OfficialEntries)) /\ Pages \in Nat
         /\ sync.pc \in {"row", "ingest"} =>
              /\ OfficialRow \in OfficialEntries /\ OfficialRow \in Entries
              /\ OfficialRow.url \in Urls
         /\ Doing("mirrorRow") => listing.mirror[sync.row] \in Entries
<1>1. Column \in Seq(Seq(OfficialEntries))
  BY ListingTyped DEF DisclosureTypeOK, PlaceOK, Column, Places
<1>2. Pages \in Nat /\ Pages <= Len(Column)
  BY <1>1, DisclosureAssumption DEF Pages
<1>3. ASSUME sync.pc \in {"row", "ingest"}
      PROVE  OfficialRow \in OfficialEntries
  <2>1. sync.page \in 1..Pages /\ sync.row \in DOMAIN Column[sync.page]
    BY <1>3 DEF DisclosureTypeOK, PlaceOK
  <2>2. Column[sync.page] \in Seq(OfficialEntries)
    BY <2>1, <1>1, <1>2
  <2>3. QED BY <2>1, <2>2 DEF OfficialRow
<1>4. Doing("mirrorRow") => listing.mirror[sync.row] \in Entries
  BY ListingTyped DEF DisclosureTypeOK, PlaceOK
<1>5. QED BY <1>1, <1>2, <1>3, <1>4, EntryTyped

\* A row of the index, or of the mirror, is ingested.
LEMMA IngestsAnEntry ==
  ASSUME DisclosureTypeOK,
         \/ Doing("ingest") /\ IngestEntry(OfficialRow, "cninfo", sync.version)
         \/ Doing("mirrorRow") /\ IngestEntry(listing.mirror[sync.row], "eastmoney_notice_mirror", {})
  PROVE  \E e \in Entries, provider \in Providers, version \in SUBSET archived :
           Ingested(e, provider, version)
<1>1. CASE Doing("ingest") /\ IngestEntry(OfficialRow, "cninfo", sync.version)
  <2>1. OfficialRow \in Entries /\ "cninfo" \in Providers /\ sync.version \in SUBSET archived
    BY <1>1, EntriesAtHand DEF Doing, Providers, DisclosureTypeOK, PlaceOK, Places
  <2>2. QED BY <1>1, <2>1, IngestKeeps
<1>2. CASE /\ Doing("mirrorRow")
           /\ IngestEntry(listing.mirror[sync.row], "eastmoney_notice_mirror", {})
  <2>1. /\ listing.mirror[sync.row] \in Entries /\ "eastmoney_notice_mirror" \in Providers
        /\ {} \in SUBSET archived
    BY <1>2, EntriesAtHand DEF Providers
  <2>2. QED BY <1>2, <2>1, IngestKeeps
<1>3. QED BY <1>1, <1>2

\* What a step does to the rows: it ingests an entry, archives a document, or
\* leaves them alone.
LEMMA StepOnRows ==
  ASSUME DisclosureTypeOK, [DisclosureNext]_disclosureVars
  PROVE  \/ /\ \E e \in Entries, provider \in Providers, version \in SUBSET archived :
                 Ingested(e, provider, version)
            /\ UNCHANGED archived
         \/ /\ archived \subseteq archived' /\ archived' \subseteq Urls
            /\ UNCHANGED <<disclosures, entrances>>
<1>1. CASE IngestOfficial
  BY <1>1, IngestsAnEntry DEF IngestOfficial, DisclosureTypeOK, RowsOK
<1>2. CASE IngestMirror
  BY <1>2, IngestsAnEntry DEF IngestMirror, DisclosureTypeOK, RowsOK
<1>3. CASE FetchOriginal
  BY <1>3, EntriesAtHand DEF FetchOriginal, Doing, DisclosureTypeOK, RowsOK
<1>4. CASE \/ StartSync \/ StopSync \/ ReadIndex \/ ReadMirror \/ Finish \/ FinishCancelled
           \/ KillSync \/ UNCHANGED disclosureVars
  BY <1>4 DEF StartSync, StopSync, ReadIndex, ReadMirror, Finish, FinishCancelled, KillSync,
              disclosureVars, DisclosureTypeOK, RowsOK
<1>5. QED BY <1>1, <1>2, <1>3, <1>4 DEF DisclosureNext

\* The rows stay well-formed.
LEMMA RowsStep ==
  ASSUME DisclosureTypeOK, [DisclosureNext]_disclosureVars
  PROVE  RowsOK'
<1>1. ASSUME NEW e \in Entries, NEW provider \in Providers, NEW version \in SUBSET archived,
             Ingested(e, provider, version), UNCHANGED archived
      PROVE  RowsOK'
  <2>1. DOMAIN disclosures' \subseteq Notices /\ DOMAIN entrances' \subseteq Providers \X Urls
    BY <1>1, EntryTyped DEF Ingested, DisclosureTypeOK, RowsOK
  <2>2. disclosures' \in [DOMAIN disclosures' ->
          [seen : Nat, revises : SUBSET DOMAIN disclosures',
           cancelledBy : SUBSET DOMAIN disclosures', version : SUBSET archived']]
    <3>1. SUBSET DOMAIN disclosures \subseteq SUBSET DOMAIN disclosures'
      BY <1>1 DEF Ingested
    <3>2. disclosures' \in [DOMAIN disclosures' ->
            [seen : Nat, revises : SUBSET DOMAIN disclosures,
             cancelledBy : SUBSET DOMAIN disclosures', version : SUBSET archived]]
      BY <1>1 DEF Ingested
    <3>3. QED BY <3>1, <3>2, <1>1
  <2>3. QED BY <1>1, <2>1, <2>2 DEF Ingested, DisclosureTypeOK, RowsOK
<1>2. ASSUME archived \subseteq archived', archived' \subseteq Urls,
             UNCHANGED <<disclosures, entrances>>
      PROVE  RowsOK'
  <2>1. SUBSET archived \subseteq SUBSET archived'
    BY <1>2
  <2>2. QED BY <1>2, <2>1 DEF DisclosureTypeOK, RowsOK
<1>3. QED BY <1>1, <1>2, StepOnRows

\* A job that does not run is at the beginning of any listing.
LEMMA NotRunningPlaces ==
  ASSUME NEW l \in Listings, NEW a,
         NEW status \in {"never", "failed", "cancelled", "completed", "completed_with_gaps"}
  PROVE  NotRunning(status) \in
           [pc : {"idle", "index", "row", "ingest", "mirror", "mirrorRow", "end"},
            column : DOMAIN l.official, page : Nat \ {0}, row : Nat \ {0},
            version : SUBSET a, gaps : BOOLEAN,
            status : {"never", "running", "failed", "cancelled", "completed",
                      "completed_with_gaps"}]
<1>1. 1 \in DOMAIN l.official /\ 1 \in Nat \ {0}
  BY ListingTyped
<1>2. QED BY <1>1 DEF NotRunning

\* The place of the job stays one of the listing.
LEMMA PlaceStep ==
  ASSUME DisclosureTypeOK, [DisclosureNext]_disclosureVars
  PROVE  PlaceOK'
<1> USE DEF Doing
<1>1. CASE StartSync
  <2>1. listing' \in Listings /\ stopped' \in BOOLEAN /\ archived' = archived
    BY <1>1 DEF StartSync
  <2>2. CASE sync' = NotRunning("failed")
    BY <2>1, <2>2, NotRunningPlaces DEF PlaceOK, Places, NotRunning
  <2>3. CASE sync' = [NotRunning("running") EXCEPT !.pc = "index"]
    <3>1. 1 \in DOMAIN listing'.official /\ 1 \in Nat \ {0}
      BY <2>1, ListingTyped
    <3>2. sync' = [pc |-> "index", column |-> 1, page |-> 1, row |-> 1, version |-> {},
                   gaps |-> FALSE, status |-> "running"]
      BY <2>3 DEF NotRunning
    <3>3. sync' \in Places'
      BY <3>1, <3>2 DEF Places
    <3>4. 1 <= MaxPages
      BY DisclosureAssumption
    <3>5. QED BY <2>1, <3>2, <3>3, <3>4 DEF PlaceOK
  <2>4. QED BY <1>1, <2>2, <2>3 DEF StartSync
<1>2. CASE Finish \/ FinishCancelled \/ KillSync
  <2>1. /\ listing' = listing /\ archived' = archived /\ stopped' \in BOOLEAN
        /\ \E status \in {"never", "failed", "cancelled", "completed", "completed_with_gaps"} :
             sync' = NotRunning(status)
    BY <1>2 DEF Finish, FinishCancelled, KillSync, DisclosureTypeOK, PlaceOK
  <2>2. PICK status \in {"never", "failed", "cancelled", "completed", "completed_with_gaps"} :
          sync' = NotRunning(status)
    BY <2>1
  <2>3. sync' \in Places' /\ sync'.pc = "idle"
    BY <2>1, <2>2, NotRunningPlaces DEF Places, NotRunning, DisclosureTypeOK, PlaceOK
  <2>4. QED BY <2>1, <2>3 DEF PlaceOK, DisclosureTypeOK
<1>3. CASE StopSync \/ UNCHANGED disclosureVars
  BY <1>3 DEF StopSync, disclosureVars, DisclosureTypeOK, PlaceOK, Places, Pages, Column
<1>4. ASSUME listing' = listing, archived \subseteq archived', stopped' = stopped
      PROVE  Places \subseteq Places'
  <2>1. SUBSET archived \subseteq SUBSET archived'
    BY <1>4
  <2>2. QED BY <1>4, <2>1 DEF Places
\* The place behind a column, a page, or a row.
<1>5. ASSUME listing' = listing, archived' = archived, stopped' = stopped,
             NEW s \in Places, sync' \in {NextColumn(s), WithGap(NextColumn(s))}
      PROVE  PlaceOK'
  <2>1. /\ NextColumn(s) \in Places /\ NextColumn(s).row = 1
        /\ \/ NextColumn(s).pc = "mirror"
           \/ NextColumn(s).pc = "index" /\ NextColumn(s).page = 1
    BY NextColumnPlaces
  <2>2. /\ sync' \in Places /\ sync'.row = 1
        /\ \/ sync'.pc = "mirror"
           \/ sync'.pc = "index" /\ sync'.page = 1
    <3> DEFINE t == NextColumn(s)
    <3> HIDE DEF t
    <3>1. /\ t \in Places /\ t.row = 1
          /\ \/ t.pc = "mirror"
             \/ t.pc = "index" /\ t.page = 1
      BY <2>1 DEF t
    <3>2. sync' \in {t, WithGap(t)}
      BY <1>5 DEF t
    <3>3. CASE sync' = t
      BY <3>1, <3>3
    <3>4. CASE sync' = [t EXCEPT !.gaps = TRUE]
      BY <3>1, <3>4 DEF Places
    <3>5. QED BY <3>2, <3>3, <3>4 DEF WithGap
  <2>3. 1 <= MaxPages
    BY DisclosureAssumption
  <2>4. QED BY <1>5, <1>4, <2>2, <2>3 DEF PlaceOK, DisclosureTypeOK
<1>6. CASE ReadIndex
  <2>1. listing' = listing /\ archived' = archived /\ stopped' = stopped /\ sync \in Places
    BY <1>6 DEF ReadIndex, DisclosureTypeOK, PlaceOK
  <2>2. CASE sync' \in {NextColumn(sync), WithGap(NextColumn(sync))}
    BY <2>1, <2>2, <1>5
  <2>3. CASE sync.page <= Len(Column) /\ sync' = [sync EXCEPT !.pc = "row"]
    <3>1. /\ Column \in Seq(Seq(OfficialEntries)) /\ Column = listing.official[sync.column]
          /\ sync.column \in DOMAIN listing.official /\ sync.page \in Nat \ {0}
          /\ sync.row = 1 /\ sync.page <= MaxPages
      BY <1>6, EntriesAtHand DEF ReadIndex, Column, DisclosureTypeOK, PlaceOK, Places
    <3>2. sync.page \in DOMAIN Column /\ sync.page \in 1..Pages
      BY <3>1, <2>3, DisclosureAssumption DEF Pages
    <3>3. 1 \in DOMAIN Column[sync.page]
      BY <3>1, <3>2, ListingTyped DEF DisclosureTypeOK, PlaceOK
    <3>4. /\ sync' \in Places /\ sync'.pc = "row" /\ sync'.column = sync.column
          /\ sync'.page = sync.page /\ sync'.row = 1
      BY <2>1, <2>3, <3>1 DEF Places
    <3>5. Column' = Column /\ Pages' = Pages
      BY <2>1, <3>4 DEF Column, Pages
    <3>6. QED BY <2>1, <3>2, <3>3, <3>4, <3>5, <1>4 DEF PlaceOK, DisclosureTypeOK
  <2>4. QED BY <1>6, <2>2, <2>3 DEF ReadIndex
<1>7. CASE FetchOriginal
  <2>1. /\ listing' = listing /\ archived \subseteq archived' /\ stopped' = stopped
        /\ sync \in Places /\ Doing("row")
    BY <1>7 DEF FetchOriginal, DisclosureTypeOK, PlaceOK
  <2>2. /\ sync' \in Places' /\ sync'.pc = "ingest" /\ sync'.column = sync.column
        /\ sync'.page = sync.page /\ sync'.row = sync.row
    <3>1. CASE sync' = [sync EXCEPT !.pc = "ingest", !.version = {OfficialRow.url}]
               /\ archived' = archived \cup {OfficialRow.url}
      BY <2>1, <3>1, <1>4 DEF Places
    <3>2. CASE sync' = [sync EXCEPT !.pc = "ingest", !.version = {}]
      BY <2>1, <3>2, <1>4 DEF Places
    <3>3. QED BY <1>7, <3>1, <3>2 DEF FetchOriginal
  <2>3. Column' = Column /\ Pages' = Pages
    BY <2>1, <2>2 DEF Column, Pages
  <2>4. QED BY <2>1, <2>2, <2>3 DEF PlaceOK, DisclosureTypeOK
<1>8. CASE IngestOfficial
  <2>1. /\ listing' = listing /\ archived' = archived /\ stopped' = stopped
        /\ sync \in Places /\ Doing("ingest")
        /\ sync' \in {AfterRow(Reviewed(sync)), AfterRow(WithGap(sync))}
    BY <1>8 DEF IngestOfficial, DisclosureTypeOK, PlaceOK
  <2>2. ASSUME NEW s \in Places, s.column = sync.column, s.page = sync.page, s.row = sync.row,
               sync' = AfterRow(s)
        PROVE  PlaceOK'
    <3>1. sync' \in Places
      BY <2>1, <2>2, AfterRowPlaces
    <3>2. CASE sync' = NextColumn(s)
      BY <2>1, <3>2, <1>5
    <3>3. CASE /\ sync'.pc = "index" /\ sync'.page <= MaxPages /\ sync'.row = 1
      BY <2>1, <3>1, <3>3, <1>4 DEF PlaceOK, DisclosureTypeOK
    <3>4. CASE /\ sync'.pc = "row" /\ sync'.column = sync.column /\ sync'.page = sync.page
               /\ sync'.row \in DOMAIN Column[sync.page]
      <4>1. Column' = Column /\ Pages' = Pages
        BY <2>1, <3>4 DEF Column, Pages
      <4>2. sync.page \in 1..Pages
        BY <2>1 DEF DisclosureTypeOK, PlaceOK
      <4>3. QED BY <2>1, <3>1, <3>4, <4>1, <4>2, <1>4 DEF PlaceOK, DisclosureTypeOK
    <3>5. QED BY <2>1, <2>2, <3>2, <3>3, <3>4, AfterRowPlaces
  <2>3. /\ Reviewed(sync) \in Places /\ WithGap(sync) \in Places
        /\ Reviewed(sync).column = sync.column /\ WithGap(sync).column = sync.column
        /\ Reviewed(sync).page = sync.page /\ WithGap(sync).page = sync.page
        /\ Reviewed(sync).row = sync.row /\ WithGap(sync).row = sync.row
    BY <2>1 DEF Reviewed, WithGap, Places
  <2>4. QED BY <2>1, <2>2, <2>3
<1>9. CASE ReadMirror
  <2>1. /\ listing' = listing /\ archived' = archived /\ stopped' = stopped
        /\ sync \in Places /\ Doing("mirror")
    BY <1>9 DEF ReadMirror, DisclosureTypeOK, PlaceOK
  <2>2. /\ sync' \in Places /\ sync'.pc \in {"end", "mirrorRow"} /\ sync'.row = 1
        /\ sync'.pc = "mirrorRow" => listing.mirror # <<>>
    BY <1>9, <2>1 DEF ReadMirror, WithGap, Places, DisclosureTypeOK, PlaceOK
  <2>3. listing.mirror \in Seq(Entries)
    BY ListingTyped DEF DisclosureTypeOK, PlaceOK
  <2>4. sync'.pc = "mirrorRow" => 1 \in DOMAIN listing.mirror
    BY <2>2, <2>3
  <2>5. QED BY <2>1, <2>2, <2>4, <1>4 DEF PlaceOK, DisclosureTypeOK
<1>10. CASE IngestMirror
  <2>1. /\ listing' = listing /\ archived' = archived /\ stopped' = stopped
        /\ sync \in Places /\ sync.row \in DOMAIN listing.mirror
    BY <1>10 DEF IngestMirror, DisclosureTypeOK, PlaceOK
  <2>2. listing.mirror \in Seq(Entries)
    BY ListingTyped DEF DisclosureTypeOK, PlaceOK
  <2>3. Reviewed(sync) \in Places /\ Reviewed(sync).row = sync.row
        /\ Reviewed(sync).pc = "mirrorRow"
    BY <1>10, <2>1 DEF IngestMirror, Reviewed, WithGap, Places
  <2>4. /\ sync' \in Places
        /\ \/ sync'.pc = "end"
           \/ sync'.pc = "mirrorRow" /\ sync'.row \in DOMAIN listing.mirror
    <3> DEFINE t == Reviewed(sync)
    <3>1. sync' = IF sync.row < Len(listing.mirror)
                  THEN [t EXCEPT !.row = @ + 1] ELSE [t EXCEPT !.pc = "end"]
      BY <1>10 DEF IngestMirror
    <3>2. t \in Places /\ t.row = sync.row /\ t.pc = "mirrorRow"
      BY <2>3
    <3> HIDE DEF t
    <3>3. Len(listing.mirror) \in Nat /\ sync.row \in 1..Len(listing.mirror)
      BY <2>1, <2>2
    <3>4. CASE sync.row < Len(listing.mirror)
      <4>1. sync' = [t EXCEPT !.row = @ + 1]
        BY <3>1, <3>4
      <4>2. sync.row + 1 \in DOMAIN listing.mirror /\ sync.row + 1 \in Nat
        BY <2>2, <3>3, <3>4
      <4>3. sync' \in Places /\ sync'.pc = "mirrorRow" /\ sync'.row = sync.row + 1
        BY <3>2, <4>1, <4>2 DEF Places
      <4>4. QED BY <4>2, <4>3
    <3>5. CASE ~(sync.row < Len(listing.mirror))
      <4>1. sync' = [t EXCEPT !.pc = "end"]
        BY <3>1, <3>5
      <4>2. QED BY <3>2, <4>1 DEF Places
    <3>6. QED BY <3>4, <3>5
  <2>5. QED BY <2>1, <2>4, <1>4 DEF PlaceOK, DisclosureTypeOK
<1>11. QED
  BY <1>1, <1>2, <1>3, <1>6, <1>7, <1>8, <1>9, <1>10 DEF DisclosureNext

\* The type invariant is inductive.
LEMMA TypeStep ==
  ASSUME DisclosureTypeOK, [DisclosureNext]_disclosureVars
  PROVE  DisclosureTypeOK'
<1>1. /\ syncs \in 0..MaxSyncs /\ troubles \in 0..MaxTroubles
      /\ MaxSyncs \in Nat /\ MaxTroubles \in Nat
  BY DisclosureAssumption DEF DisclosureTypeOK
<1>2. syncs' \in 0..MaxSyncs
  BY <1>1 DEF DisclosureNext, disclosureVars, StartSync, StopSync, ReadIndex, FetchOriginal,
              IngestOfficial, ReadMirror, IngestMirror, Finish, FinishCancelled, KillSync
<1>3. troubles' \in 0..MaxTroubles
  BY <1>1 DEF DisclosureNext, disclosureVars, StartSync, StopSync, ReadIndex, FetchOriginal,
              IngestOfficial, ReadMirror, IngestMirror, Finish, FinishCancelled, KillSync, Trouble
<1>4. QED BY <1>2, <1>3, RowsStep, PlaceStep DEF DisclosureTypeOK

\* At first nothing is stored and no job runs.
LEMMA TypeInit == ASSUME DisclosureInit PROVE DisclosureTypeOK
<1>1. RowsOK
  BY DEF DisclosureInit, RowsOK
<1>2. listing \in Listings /\ sync = NotRunning("never")
  BY DEF DisclosureInit
<1>3. sync \in Places /\ sync.pc = "idle"
  BY <1>2, NotRunningPlaces DEF Places, NotRunning
<1>4. PlaceOK
  BY <1>2, <1>3 DEF PlaceOK, Doing, DisclosureInit
<1>5. QED BY <1>1, <1>4, DisclosureAssumption DEF DisclosureTypeOK, DisclosureInit

-----------------------------------------------------------------------------
\* The parts of the inductive invariant.

\* A row is ingested with its own document, or with none.
LEMMA OwnVersionStep ==
  ASSUME DisclosureTypeOK, OwnVersion, [DisclosureNext]_disclosureVars
  PROVE  OwnVersion'
<1> USE DEF Doing
<1>1. Doing("ingest")' => sync'.version \in {{}, {OfficialRow'.url}}
  <2>1. CASE FetchOriginal
    <3>1. /\ listing' = listing /\ sync \in Places
          /\ \/ sync' = [sync EXCEPT !.pc = "ingest", !.version = {OfficialRow.url}]
             \/ sync' = [sync EXCEPT !.pc = "ingest", !.version = {}]
      BY <2>1 DEF FetchOriginal, DisclosureTypeOK, PlaceOK
    <3>2. /\ sync'.version \in {{}, {OfficialRow.url}} /\ sync'.column = sync.column
          /\ sync'.page = sync.page /\ sync'.row = sync.row
      BY <3>1 DEF Places
    <3>3. QED BY <3>1, <3>2 DEF OfficialRow, Column
  <2>2. CASE StopSync \/ UNCHANGED disclosureVars
    BY <2>2 DEF StopSync, disclosureVars, OwnVersion, OfficialRow, Column
  <2>3. CASE IngestOfficial
    <3>1. PICK s \in {Reviewed(sync), WithGap(sync)} : sync' = AfterRow(s)
      BY <2>3 DEF IngestOfficial
    <3>2. /\ s \in Places /\ s.column = sync.column /\ s.page = sync.page /\ s.row = sync.row
          /\ sync.pc = "ingest"
      BY <2>3 DEF IngestOfficial, Reviewed, WithGap, Places, DisclosureTypeOK, PlaceOK
    <3>3. sync'.pc # "ingest"
      BY <3>1, <3>2, AfterRowPlaces, NextColumnPlaces
    <3>4. QED BY <3>3
  <2>4. CASE ReadIndex
    <3>1. sync \in Places /\ NextColumn(sync).pc # "ingest" /\ NextColumn(sync) \in Places
      BY NextColumnPlaces DEF DisclosureTypeOK, PlaceOK
    <3>2. sync'.pc # "ingest"
      BY <2>4, <3>1 DEF ReadIndex, WithGap, Places
    <3>3. QED BY <3>2
  <2>5. CASE StartSync \/ ReadMirror \/ IngestMirror \/ Finish \/ FinishCancelled \/ KillSync
    <3>1. sync \in Places
      BY DEF DisclosureTypeOK, PlaceOK
    <3>2. CASE IngestMirror
      <4> DEFINE t == Reviewed(sync)
      <4>1. /\ t \in Places /\ t.pc = "mirrorRow"
            /\ sync' \in {[t EXCEPT !.row = t.row + 1], [t EXCEPT !.pc = "end"]}
        BY <3>1, <3>2 DEF IngestMirror, Reviewed, WithGap, Places
      <4> HIDE DEF t
      <4>2. sync'.pc # "ingest"
        BY <4>1 DEF Places
      <4>3. QED BY <4>2
    <3>3. CASE ~IngestMirror
      <4>1. CASE ReadMirror
        <5>1. WithGap(sync) \in Places
          BY <3>1 DEF WithGap, Places
        <5>2. sync'.pc \in {"mirrorRow", "end"}
          BY <4>1, <5>1, <3>1 DEF ReadMirror, Places
        <5>3. QED BY <5>2
      <4>2. CASE ~ReadMirror
        BY <2>5, <3>3, <4>2 DEF StartSync, Finish, FinishCancelled, KillSync, NotRunning
      <4>3. QED BY <4>1, <4>2
    <3>4. QED BY <3>2, <3>3
  <2>6. QED BY <2>1, <2>2, <2>3, <2>4, <2>5 DEF DisclosureNext
<1>2. Doing("mirrorRow")' => sync'.version = {}
  <2>1. CASE IngestMirror
    <3>1. sync \in Places /\ sync.version = {}
      BY <2>1 DEF IngestMirror, OwnVersion, DisclosureTypeOK, PlaceOK
    <3>2. Reviewed(sync) = WithGap(sync)
      BY <3>1 DEF Reviewed
    <3>3. WithGap(sync) \in Places /\ WithGap(sync).version = {}
      BY <3>1 DEF WithGap, Places
    <3> DEFINE t == WithGap(sync)
    <3>4. sync' = IF sync.row < Len(listing.mirror)
                  THEN [t EXCEPT !.row = @ + 1] ELSE [t EXCEPT !.pc = "end"]
      BY <2>1, <3>2 DEF IngestMirror
    <3>5. t \in Places /\ t.version = {}
      BY <3>3
    <3> HIDE DEF t
    <3>6. QED BY <3>4, <3>5 DEF Places
  <2>2. CASE ReadMirror
    BY <2>2 DEF ReadMirror, WithGap, Places, DisclosureTypeOK, PlaceOK
  <2>3. CASE StopSync \/ UNCHANGED disclosureVars
    BY <2>3 DEF StopSync, disclosureVars, OwnVersion
  <2>4. CASE IngestOfficial
    <3>1. PICK s \in {Reviewed(sync), WithGap(sync)} : sync' = AfterRow(s)
      BY <2>4 DEF IngestOfficial
    <3>2. /\ s \in Places /\ s.column = sync.column /\ s.page = sync.page /\ s.row = sync.row
          /\ sync.pc = "ingest"
      BY <2>4 DEF IngestOfficial, Reviewed, WithGap, Places, DisclosureTypeOK, PlaceOK
    <3>3. sync'.pc # "mirrorRow"
      BY <3>1, <3>2, AfterRowPlaces, NextColumnPlaces
    <3>4. QED BY <3>3
  <2>5. CASE ReadIndex
    <3>1. sync \in Places /\ NextColumn(sync).pc # "mirrorRow" /\ NextColumn(sync) \in Places
      BY NextColumnPlaces DEF DisclosureTypeOK, PlaceOK
    <3>2. sync'.pc # "mirrorRow"
      BY <2>5, <3>1 DEF ReadIndex, WithGap, Places
    <3>3. QED BY <3>2
  <2>6. CASE StartSync \/ FetchOriginal \/ Finish \/ FinishCancelled \/ KillSync
    <3>1. sync \in Places
      BY DEF DisclosureTypeOK, PlaceOK
    <3>2. CASE FetchOriginal
      <4>1. sync' \in {[sync EXCEPT !.pc = "ingest", !.version = {OfficialRow.url}],
                       [sync EXCEPT !.pc = "ingest", !.version = {}]}
        BY <3>2 DEF FetchOriginal
      <4>2. sync'.pc = "ingest"
        BY <3>1, <4>1 DEF Places
      <4>3. QED BY <4>2
    <3>3. CASE ~FetchOriginal
      <4>1. sync'.pc # "mirrorRow"
        BY <2>6, <3>3 DEF StartSync, Finish, FinishCancelled, KillSync, NotRunning
      <4>2. QED BY <4>1
    <3>4. QED BY <3>2, <3>3
  <2>7. QED BY <2>1, <2>2, <2>3, <2>4, <2>5, <2>6 DEF DisclosureNext
<1>3. ASSUME NEW d \in DOMAIN disclosures', disclosures'[d].version # {}
      PROVE  \E e \in OfficialEntries : e.notice = d /\ disclosures'[d].version = {e.url}
  <2>1. ASSUME NEW e \in Entries, NEW provider, NEW version, Ingested(e, provider, version),
               version = {} \/ (e \in OfficialEntries /\ version = {e.url})
        PROVE  \E f \in OfficialEntries : f.notice = d /\ disclosures'[d].version = {f.url}
    <3>1. CASE d = e.notice /\ (version # {} \/ d \notin DOMAIN disclosures)
      BY <2>1, <3>1, <1>3 DEF Ingested
    <3>2. CASE d \in DOMAIN disclosures /\ (d # e.notice \/ version = {})
      BY <2>1, <3>2, <1>3 DEF Ingested, OwnVersion
    <3>3. QED BY <2>1, <3>1, <3>2 DEF Ingested
  <2>2. CASE IngestOfficial /\ IngestEntry(OfficialRow, "cninfo", sync.version)
    <3>1. /\ OfficialRow \in Entries /\ OfficialRow \in OfficialEntries
          /\ sync.version \in SUBSET archived /\ sync.version \in {{}, {OfficialRow.url}}
      BY <2>2, EntriesAtHand DEF IngestOfficial, DisclosureTypeOK, PlaceOK, Places, OwnVersion
    <3>2. Ingested(OfficialRow, "cninfo", sync.version)
      BY <2>2, <3>1, IngestKeeps DEF Providers
    <3>3. QED BY <2>1, <3>1, <3>2
  <2>3. CASE /\ IngestMirror
             /\ IngestEntry(listing.mirror[sync.row], "eastmoney_notice_mirror", {})
    <3>1. listing.mirror[sync.row] \in Entries /\ {} \in SUBSET archived
      BY <2>3, EntriesAtHand DEF IngestMirror
    <3>2. Ingested(listing.mirror[sync.row], "eastmoney_notice_mirror", {})
      BY <2>3, <3>1, IngestKeeps DEF Providers
    <3>3. QED BY <2>1, <3>1, <3>2
  <2>4. CASE UNCHANGED disclosures
    BY <2>4, <1>3 DEF OwnVersion
  <2>5. QED
    BY <2>2, <2>3, <2>4 DEF DisclosureNext, disclosureVars, StartSync, StopSync, ReadIndex,
         FetchOriginal, IngestOfficial, ReadMirror, IngestMirror, Finish, FinishCancelled, KillSync
<1>4. QED BY <1>1, <1>2, <1>3 DEF OwnVersion

\* revision_of is set only when a row is made, and to a row made before it, so
\* no chain of revisions closes.
LEMMA ChainsStep ==
  ASSUME DisclosureTypeOK, ChainsEnd, [DisclosureNext]_disclosureVars
  PROVE  ChainsEnd'
<1>1. ASSUME NEW e \in Entries, NEW provider, NEW version, Ingested(e, provider, version)
      PROVE  ChainsEnd'
  <2> SUFFICES ASSUME NEW S \in SUBSET DOMAIN disclosures', S # {}
               PROVE  \E d \in S : disclosures'[d].revises \cap S = {}
    BY DEF ChainsEnd
  <2>1. \A d \in DOMAIN disclosures' : disclosures'[d].revises \subseteq DOMAIN disclosures
    BY <1>1 DEF Ingested
  <2>2. \A d \in DOMAIN disclosures : disclosures'[d].revises = disclosures[d].revises
    BY <1>1 DEF Ingested
  <2> DEFINE T == S \cap DOMAIN disclosures
  <2>3. CASE T = {}
    BY <2>1, <2>3
  <2>4. CASE T # {}
    <3>1. PICK d \in T : disclosures[d].revises \cap T = {}
      BY <2>4 DEF ChainsEnd
    <3>2. disclosures[d].revises \subseteq DOMAIN disclosures
      BY <2>1, <2>2
    <3>3. QED BY <3>1, <3>2, <2>2
  <2>5. QED BY <2>3, <2>4
<1>2. CASE UNCHANGED disclosures
  BY <1>2 DEF ChainsEnd
<1>3. QED BY <1>1, <1>2, StepOnRows

\* A job that goes on after a column has left no row of it it should have read.
LEMMA BehindNextColumn ==
  ASSUME DisclosureTypeOK, sync.pc \in {"index", "row", "ingest"}, NEW s \in Places,
         s.column = sync.column, sync' = NextColumn(s),
         NEW c \in DOMAIN listing.official, NEW p \in DOMAIN listing.official[c],
         NEW r \in DOMAIN listing.official[c][p], Behind(c, p, r)'
  PROVE  Behind(c, p, r) \/ c = sync.column
<1>1. /\ c \in Nat \ {0} /\ p \in Nat \ {0} /\ r \in Nat \ {0}
      /\ c <= Len(listing.official) /\ Len(listing.official) \in Nat
  <2>1. listing \in Listings
    BY DEF DisclosureTypeOK, PlaceOK
  <2>2. c \in Nat \ {0} /\ p \in Nat \ {0} /\ r \in Nat \ {0}
    BY <2>1, ListingTyped
  <2>3. listing.official \in Seq(Seq(Seq(OfficialEntries)))
    BY <2>1, ListingTyped
  <2>4. QED BY <2>2, <2>3
<1>2. /\ sync.column \in Nat
      /\ \/ sync'.pc = "mirror" /\ sync.column = Len(listing.official)
         \/ /\ sync'.pc = "index" /\ sync'.column = sync.column + 1
            /\ sync'.page = 1 /\ sync'.row = 1
  <2>1. sync.column \in DOMAIN listing.official /\ listing \in Listings
    BY DEF DisclosureTypeOK, PlaceOK, Places
  <2>2. sync.column \in Nat
    BY <2>1, ListingTyped
  <2>3. QED BY <2>2, NextColumnPlaces
<1>3. CASE sync'.pc = "mirror" /\ sync.column = Len(listing.official)
  BY <1>1, <1>2, <1>3 DEF Behind
<1>4. CASE /\ sync'.pc = "index" /\ sync'.column = sync.column + 1
           /\ sync'.page = 1 /\ sync'.row = 1
  <2>1. c < sync.column + 1
    BY <1>1, <1>2, <1>4 DEF Behind
  <2>2. QED BY <2>1, <1>1, <1>2 DEF Behind
<1>5. QED BY <1>2, <1>3, <1>4

\* A job that goes on after a row has passed that row, and no other.
LEMMA BehindAfterRow ==
  ASSUME DisclosureTypeOK, sync.pc = "ingest", NEW s \in Places,
         s.column = sync.column, s.page = sync.page, s.row = sync.row, sync' = AfterRow(s),
         NEW c \in DOMAIN listing.official, NEW p \in DOMAIN listing.official[c],
         p <= MaxPages, NEW r \in DOMAIN listing.official[c][p], Behind(c, p, r)'
  PROVE  Behind(c, p, r) \/ (c = sync.column /\ p = sync.page /\ r = sync.row)
<1>1. /\ c \in Nat \ {0} /\ p \in Nat \ {0} /\ r \in Nat \ {0}
      /\ Len(listing.official[c]) \in Nat /\ p <= Len(listing.official[c])
      /\ Len(listing.official[c][p]) \in Nat /\ r <= Len(listing.official[c][p])
  <2>1. listing \in Listings
    BY DEF DisclosureTypeOK, PlaceOK
  <2>2. /\ c \in Nat \ {0} /\ p \in Nat \ {0} /\ r \in Nat \ {0}
        /\ listing.official[c] \in Seq(Seq(OfficialEntries))
        /\ listing.official[c][p] \in Seq(OfficialEntries)
    BY <2>1, ListingTyped
  <2>3. QED BY <2>2
<1>2. sync.column \in Nat /\ sync.page \in Nat /\ sync.row \in Nat /\ MaxPages \in Nat
  <2>1. /\ sync.column \in DOMAIN listing.official /\ listing \in Listings
        /\ sync.page \in Nat /\ sync.row \in Nat
    BY DEF DisclosureTypeOK, PlaceOK, Places
  <2>2. QED BY <2>1, ListingTyped, DisclosureAssumption
<1>3. c = sync.column => Column = listing.official[c]
  BY DEF Column
<1>4. CASE /\ sync'.pc = "row" /\ sync'.column = sync.column
           /\ sync'.page = sync.page /\ sync'.row = sync.row + 1
  BY <1>1, <1>2, <1>4 DEF Behind
<1>5. CASE /\ sync'.pc = "index" /\ sync'.column = sync.column
           /\ sync'.page = sync.page + 1 /\ sync'.row = 1
           /\ sync.row = Len(Column[sync.page])
  <2>1. c < sync.column \/ (c = sync.column /\ p < sync.page + 1)
    BY <1>1, <1>2, <1>5 DEF Behind
  <2>2. c = sync.column /\ p = sync.page => r <= sync.row
    BY <1>1, <1>3, <1>5
  <2>3. QED BY <2>1, <2>2, <1>1, <1>2 DEF Behind
<1>6. CASE sync' = NextColumn(s) /\ sync.row = Len(Column[sync.page]) /\ sync.page = Pages
  <2>1. Behind(c, p, r) \/ c = sync.column
    BY <1>6, BehindNextColumn
  <2>2. c = sync.column => p <= sync.page
    BY <1>1, <1>2, <1>3, <1>6 DEF Pages
  <2>3. c = sync.column /\ p = sync.page => r <= sync.row
    BY <1>1, <1>3, <1>6
  <2>4. QED BY <2>1, <2>2, <2>3, <1>1, <1>2 DEF Behind
<1>7. QED BY <1>4, <1>5, <1>6, AfterRowPlaces

\* The snapshot of a job is set to "running" at its start, and to another
\* status at its end only.
LEMMA RunningStep ==
  ASSUME DisclosureTypeOK, RunningIsShown, [DisclosureNext]_disclosureVars
  PROVE  /\ RunningIsShown'
         /\ \/ Doing("idle") \/ Finish \/ FinishCancelled \/ KillSync
            \/ sync'.status = "running"
<1> USE DEF Doing
<1>1. sync \in Places
  BY DEF DisclosureTypeOK, PlaceOK
<1>2. CASE StartSync
  BY <1>2 DEF StartSync, NotRunning, RunningIsShown
<1>3. CASE Finish \/ FinishCancelled \/ KillSync
  BY <1>3 DEF Finish, FinishCancelled, KillSync, NotRunning, RunningIsShown
<1>4. CASE StopSync \/ UNCHANGED disclosureVars
  BY <1>4 DEF StopSync, disclosureVars, RunningIsShown
<1>5. CASE ReadIndex
  <2>1. /\ NextColumn(sync) \in Places /\ NextColumn(sync).status = sync.status
        /\ NextColumn(sync).pc # "idle"
    BY <1>1, NextColumnPlaces
  <2>2. sync.status = "running"
    BY <1>5 DEF ReadIndex, RunningIsShown
  <2>3. CASE sync' = WithGap(NextColumn(sync))
    <3> DEFINE t == NextColumn(sync)
    <3>1. sync' = [t EXCEPT !.gaps = TRUE] /\ t \in Places /\ t.status = "running" /\ t.pc # "idle"
      BY <2>1, <2>2, <2>3 DEF WithGap
    <3> HIDE DEF t
    <3>2. sync'.status = "running" /\ sync'.pc # "idle"
      BY <3>1 DEF Places
    <3>3. QED BY <3>2 DEF RunningIsShown
  <2>4. CASE sync' = NextColumn(sync)
    BY <2>1, <2>2, <2>4 DEF RunningIsShown
  <2>5. CASE sync' = [sync EXCEPT !.pc = "row"]
    BY <2>2, <2>5, <1>1 DEF RunningIsShown, Places
  <2>6. QED BY <1>5, <2>3, <2>4, <2>5 DEF ReadIndex
<1>6. CASE FetchOriginal
  <2>1. sync.status = "running"
    BY <1>6 DEF FetchOriginal, RunningIsShown
  <2>2. sync' \in {[sync EXCEPT !.pc = "ingest", !.version = {OfficialRow.url}],
                   [sync EXCEPT !.pc = "ingest", !.version = {}]}
    BY <1>6 DEF FetchOriginal
  <2>3. sync'.status = "running" /\ sync'.pc = "ingest"
    BY <2>1, <2>2, <1>1 DEF Places
  <2>4. QED BY <2>3 DEF RunningIsShown
<1>7. CASE IngestOfficial
  <2>1. sync.status = "running" /\ sync.pc = "ingest"
    BY <1>7 DEF IngestOfficial, RunningIsShown
  <2>2. PICK s \in {Reviewed(sync), WithGap(sync)} : sync' = AfterRow(s)
    BY <1>7 DEF IngestOfficial
  <2>3. /\ s \in Places /\ s.column = sync.column /\ s.page = sync.page /\ s.row = sync.row
        /\ s.status = "running"
    BY <1>1, <2>1 DEF Reviewed, WithGap, Places
  <2>4. sync'.status = "running" /\ sync'.pc # "idle"
    BY <2>1, <2>2, <2>3, AfterRowPlaces, NextColumnPlaces
  <2>5. QED BY <2>4 DEF RunningIsShown
<1>8. CASE ReadMirror
  <2>1. sync.status = "running"
    BY <1>8 DEF ReadMirror, RunningIsShown
  <2>2. WithGap(sync) \in Places /\ WithGap(sync).status = "running"
    BY <1>1, <2>1 DEF WithGap, Places
  <2>3. sync'.status = "running" /\ sync'.pc # "idle"
    BY <1>1, <1>8, <2>1, <2>2 DEF ReadMirror, Places
  <2>4. QED BY <2>3 DEF RunningIsShown
<1>9. CASE IngestMirror
  <2> DEFINE t == Reviewed(sync)
  <2>1. /\ t \in Places /\ t.pc = "mirrorRow" /\ t.status = "running"
        /\ sync' \in {[t EXCEPT !.row = t.row + 1], [t EXCEPT !.pc = "end"]}
    BY <1>1, <1>9 DEF IngestMirror, RunningIsShown, Reviewed, WithGap, Places
  <2> HIDE DEF t
  <2>2. sync'.status = "running" /\ sync'.pc # "idle"
    BY <2>1 DEF Places
  <2>3. QED BY <2>2 DEF RunningIsShown
<1>10. QED
  BY <1>2, <1>3, <1>4, <1>5, <1>6, <1>7, <1>8, <1>9 DEF DisclosureNext

\* What was settled stays so, whatever a step does.
LEMMA SettledStays ==
  ASSUME DisclosureTypeOK, [DisclosureNext]_disclosureVars
  PROVE  \A f : Settled(f) => Settled(f)'
<1>1. ASSUME NEW e \in Entries, NEW provider \in Providers, NEW version \in SUBSET archived,
             Ingested(e, provider, version)
      PROVE  \A f : Settled(f) => Settled(f)'
  BY <1>1, VerifiedStays
<1>2. CASE UNCHANGED <<disclosures, entrances>>
  BY <1>2 DEF Settled, PrimaryVerified
<1>3. QED BY <1>1, <1>2, StepOnRows

\* A row that is ingested with its document is settled.
LEMMA RowSettled ==
  ASSUME DisclosureTypeOK, Doing("ingest"), sync.version # {},
         IngestEntry(OfficialRow, "cninfo", sync.version), NEW e, e = OfficialRow
  PROVE  Settled(e)'
<1>1. e \in Entries /\ sync.version \in SUBSET archived
  BY EntriesAtHand DEF Doing, DisclosureTypeOK, PlaceOK, Places
<1>2. Ingested(e, "cninfo", sync.version)
  BY <1>1, IngestKeeps DEF Providers
<1>3. /\ e.notice \in DOMAIN disclosures' /\ disclosures'[e.notice].version # {}
      /\ <<"cninfo", e.url>> \in DOMAIN entrances'
  BY <1>2 DEF Ingested
<1>4. QED BY <1>3 DEF Settled, PrimaryVerified, Primary

\* As long as it has no gaps, every row a job has passed is settled.
LEMMA PassedStep ==
  ASSUME DisclosureTypeOK, OwnVersion, RunningIsShown, ~Doing("idle") /\ ~sync.gaps => PassedRows,
         [DisclosureNext]_disclosureVars, ~Doing("idle")', ~sync'.gaps
  PROVE  PassedRows'
<1> USE DEF Doing
<1> SUFFICES ASSUME NEW c \in DOMAIN listing'.official, NEW p \in DOMAIN listing'.official[c],
                    p <= MaxPages, NEW r \in DOMAIN listing'.official[c][p], Behind(c, p, r)',
                    NEW e, e = listing'.official[c][p][r]
             PROVE  Settled(e)'
  BY DEF PassedRows, Settled
<1>1. sync \in Places /\ listing \in Listings
  BY DEF DisclosureTypeOK, PlaceOK
<1>2. CASE StartSync
  <2>1. sync' = [pc |-> "index", column |-> 1, page |-> 1, row |-> 1, version |-> {},
                 gaps |-> FALSE, status |-> "running"] /\ listing' \in Listings
    BY <1>2 DEF StartSync, NotRunning
  <2>2. c \in Nat \ {0} /\ p \in Nat \ {0} /\ r \in Nat \ {0}
    BY <2>1, ListingTyped
  <2>3. QED BY <2>1, <2>2 DEF Behind
\* A row that was passed before the step.
<1>3. ASSUME listing' = listing, sync.pc # "idle", ~sync.gaps, Behind(c, p, r)
      PROVE  Settled(e)'
  <2>1. Settled(e)
    BY <1>3 DEF PassedRows, Settled
  <2>2. QED BY <2>1, SettledStays
<1>4. CASE StopSync \/ UNCHANGED disclosureVars
  BY <1>3, <1>4 DEF StopSync, disclosureVars, Behind
<1>5. CASE ReadIndex
  <2>1. listing' = listing /\ sync.pc = "index" /\ sync.row = 1
    BY <1>5 DEF ReadIndex, DisclosureTypeOK, PlaceOK
  <2>2. CASE sync' = [sync EXCEPT !.pc = "row"]
    <3>1. /\ sync'.pc = "row" /\ sync'.column = sync.column /\ sync'.page = sync.page
          /\ sync'.row = sync.row /\ sync'.gaps = sync.gaps
      BY <2>2, <1>1 DEF Places
    <3>2. QED BY <2>1, <3>1, <1>3 DEF Behind
  <2>3. CASE sync' = NextColumn(sync) /\ ~ sync.page <= Len(Column)
    <3>1. sync'.gaps = sync.gaps
      BY <2>3, <1>1, NextColumnPlaces
    <3>2. Behind(c, p, r) \/ c = sync.column
      BY <2>1, <2>3, <1>1, BehindNextColumn
    <3>3. /\ p \in Nat /\ listing.official[c] \in Seq(Seq(OfficialEntries))
          /\ p <= Len(listing.official[c])
      BY <2>1, <1>1, ListingTyped
    <3>4. sync.page \in Nat
      BY <1>1 DEF Places
    <3>5. c = sync.column => p < sync.page
      BY <2>3, <3>3, <3>4 DEF Column
    <3>6. Behind(c, p, r)
      BY <2>1, <3>2, <3>5 DEF Behind
    <3>7. QED BY <2>1, <3>1, <3>6, <1>3
  <2>4. CASE sync' = WithGap(NextColumn(sync))
    <3> DEFINE t == NextColumn(sync)
    <3>1. t \in Places
      BY <1>1, NextColumnPlaces
    <3>2. sync' = [t EXCEPT !.gaps = TRUE]
      BY <2>4 DEF WithGap
    <3> HIDE DEF t
    <3>3. sync'.gaps
      BY <3>1, <3>2 DEF Places
    <3>4. QED BY <3>3
  <2>5. QED BY <1>5, <2>2, <2>3, <2>4 DEF ReadIndex
<1>6. CASE FetchOriginal
  <2>1. /\ listing' = listing /\ sync.pc = "row"
        /\ sync' \in {[sync EXCEPT !.pc = "ingest", !.version = {OfficialRow.url}],
                      [sync EXCEPT !.pc = "ingest", !.version = {}]}
    BY <1>6 DEF FetchOriginal
  <2>2. /\ sync'.pc = "ingest" /\ sync'.column = sync.column /\ sync'.page = sync.page
        /\ sync'.row = sync.row /\ sync'.gaps = sync.gaps
    BY <2>1, <1>1 DEF Places
  <2>3. QED BY <2>1, <2>2, <1>3 DEF Behind
<1>7. CASE IngestOfficial
  <2>1. listing' = listing /\ sync.pc = "ingest"
    BY <1>7 DEF IngestOfficial
  <2>2. CASE sync' = AfterRow(WithGap(sync))
    <3>1. /\ WithGap(sync) \in Places /\ WithGap(sync).column = sync.column
          /\ WithGap(sync).page = sync.page /\ WithGap(sync).row = sync.row /\ WithGap(sync).gaps
      BY <1>1 DEF WithGap, Places
    <3>2. sync'.gaps
      BY <2>1, <2>2, <3>1, AfterRowPlaces
    <3>3. QED BY <3>2
  <2>3. CASE /\ sync' = AfterRow(sync) /\ sync.version # {}
             /\ IngestEntry(OfficialRow, "cninfo", sync.version)
    <3>1. sync'.gaps = sync.gaps
      BY <2>1, <2>3, <1>1, AfterRowPlaces
    <3>2. Behind(c, p, r) \/ (c = sync.column /\ p = sync.page /\ r = sync.row)
      BY <2>1, <2>3, <1>1, BehindAfterRow
    <3>3. CASE c = sync.column /\ p = sync.page /\ r = sync.row
      <4>1. e = OfficialRow
        BY <2>1, <3>3 DEF OfficialRow, Column
      <4>2. QED BY <2>1, <2>3, <4>1, RowSettled
    <3>4. QED BY <2>1, <3>1, <3>2, <3>3, <1>3
  <2>4. QED BY <1>7, <2>2, <2>3 DEF IngestOfficial, Reviewed
<1>8. CASE ReadMirror \/ IngestMirror
  <2>1. /\ listing' = listing /\ sync.pc \in {"mirror", "mirrorRow"}
        /\ sync.pc = "mirrorRow" => sync.version = {}
    BY <1>8 DEF ReadMirror, IngestMirror, OwnVersion
  <2>2. Behind(c, p, r)
    BY <2>1 DEF Behind
  <2>3. WithGap(sync) \in Places /\ WithGap(sync).gaps
    BY <1>1 DEF WithGap, Places
  <2> DEFINE t == WithGap(sync)
  <2>4. \/ sync'.gaps = sync.gaps
        \/ sync' \in {[t EXCEPT !.pc = "end"], [t EXCEPT !.row = @ + 1]}
    <3>1. CASE ReadMirror
      BY <1>1, <3>1 DEF ReadMirror, Places
    <3>2. CASE IngestMirror
      BY <2>1, <3>2 DEF IngestMirror, Reviewed
    <3>3. QED BY <1>8, <3>1, <3>2
  <2>5. t \in Places /\ t.gaps
    BY <2>3
  <2> HIDE DEF t
  <2>6. ~sync.gaps
    BY <2>4, <2>5 DEF Places
  <2>7. QED BY <2>1, <2>2, <2>6, <1>3
<1>9. CASE Finish \/ FinishCancelled \/ KillSync
  BY <1>9 DEF Finish, FinishCancelled, KillSync, NotRunning
<1>10. QED
  BY <1>2, <1>4, <1>5, <1>6, <1>7, <1>8, <1>9 DEF DisclosureNext

\* Every row of the mirror leaves a gap.
LEMMA MirrorStep ==
  ASSUME DisclosureTypeOK, OwnVersion, MirrorIsPassed, [DisclosureNext]_disclosureVars
  PROVE  MirrorIsPassed'
<1> USE DEF Doing
<1> SUFFICES ASSUME Doing("end")', ~sync'.gaps
             PROVE  listing'.mirror = <<>>
  BY DEF MirrorIsPassed
<1>1. sync \in Places
  BY DEF DisclosureTypeOK, PlaceOK
<1>2. CASE StopSync \/ UNCHANGED disclosureVars
  BY <1>2 DEF StopSync, disclosureVars, MirrorIsPassed
<1>3. CASE ReadMirror
  <2> DEFINE t == WithGap(sync)
  <2>1. t \in Places /\ t.gaps
    BY <1>1 DEF WithGap, Places
  <2>2. \/ sync' = [t EXCEPT !.pc = "end"]
        \/ sync' = [sync EXCEPT !.pc = IF listing.mirror = <<>> THEN "end" ELSE "mirrorRow",
                                !.version = {}]
    BY <1>3 DEF ReadMirror
  <2> HIDE DEF t
  <2>3. listing' = listing
    BY <1>3 DEF ReadMirror
  <2>4. QED BY <2>1, <2>2, <2>3, <1>1 DEF Places
<1>4. CASE IngestMirror
  <2> DEFINE t == WithGap(sync)
  <2>1. t \in Places /\ t.gaps
    BY <1>1 DEF WithGap, Places
  <2>2. sync' \in {[t EXCEPT !.pc = "end"], [t EXCEPT !.row = @ + 1]}
    BY <1>4 DEF IngestMirror, Reviewed, OwnVersion
  <2> HIDE DEF t
  <2>3. QED BY <2>1, <2>2 DEF Places
<1>5. CASE ReadIndex
  <2>1. NextColumn(sync) \in Places /\ NextColumn(sync).pc # "end"
    BY <1>1, NextColumnPlaces
  <2> DEFINE t == NextColumn(sync)
  <2>2. sync' \in {[sync EXCEPT !.pc = "row"], t, [t EXCEPT !.gaps = TRUE]}
    BY <1>5 DEF ReadIndex, WithGap
  <2>3. t \in Places /\ t.pc # "end"
    BY <2>1
  <2> HIDE DEF t
  <2>4. QED BY <1>1, <2>2, <2>3 DEF Places
<1>6. CASE FetchOriginal
  <2>1. sync' \in {[sync EXCEPT !.pc = "ingest", !.version = {OfficialRow.url}],
                   [sync EXCEPT !.pc = "ingest", !.version = {}]}
    BY <1>6 DEF FetchOriginal
  <2>2. QED BY <1>1, <2>1 DEF Places
<1>7. CASE IngestOfficial
  <2>1. PICK s \in {Reviewed(sync), WithGap(sync)} : sync' = AfterRow(s)
    BY <1>7 DEF IngestOfficial
  <2>2. /\ s \in Places /\ s.column = sync.column /\ s.page = sync.page /\ s.row = sync.row
        /\ sync.pc = "ingest"
    BY <1>1, <1>7 DEF IngestOfficial, Reviewed, WithGap, Places
  <2>3. QED BY <2>1, <2>2, AfterRowPlaces, NextColumnPlaces
<1>8. CASE StartSync \/ Finish \/ FinishCancelled \/ KillSync
  BY <1>8 DEF StartSync, Finish, FinishCancelled, KillSync, NotRunning
<1>9. QED
  BY <1>2, <1>3, <1>4, <1>5, <1>6, <1>7, <1>8 DEF DisclosureNext

\* A job says "completed" only at its end, when every row was passed.
LEMMA CompletedStep ==
  ASSUME DisclosureTypeOK, RunningIsShown, MirrorIsPassed, CompletedIsVerified,
         ~Doing("idle") /\ ~sync.gaps => PassedRows, [DisclosureNext]_disclosureVars
  PROVE  CompletedIsVerified'
<1> USE DEF Doing
<1>1. CASE Finish
  <2>1. /\ sync.pc = "end" /\ UNCHANGED <<listing, disclosures, entrances>>
        /\ sync'.status = "completed" => ~sync.gaps
    BY <1>1 DEF Finish, NotRunning
  <2>2. ASSUME ~sync.gaps
        PROVE  /\ listing.mirror = <<>>
               /\ \A c \in DOMAIN listing.official : \A p \in DOMAIN listing.official[c] :
                    p <= MaxPages => \A r \in DOMAIN listing.official[c][p] :
                      Settled(listing.official[c][p][r])
    BY <2>1, <2>2 DEF MirrorIsPassed, PassedRows, Behind
  <2>3. /\ listing' = listing /\ disclosures' = disclosures /\ entrances' = entrances
        /\ sync'.status = "completed" => ~sync.gaps
    BY <2>1
  <2>4. \A f : Settled(f) => Settled(f)'
    BY <2>3 DEF Settled, PrimaryVerified
  <2>5. SUFFICES ASSUME sync'.status = "completed",
                        NEW c \in DOMAIN listing.official, NEW p \in DOMAIN listing.official[c],
                        p <= MaxPages, NEW r \in DOMAIN listing.official[c][p],
                        NEW e, e = listing.official[c][p][r]
                 PROVE  listing.mirror = <<>> /\ Settled(e)'
    BY <2>2, <2>3 DEF CompletedIsVerified, Settled
  <2>6. QED BY <2>2, <2>3, <2>4, <2>5
<1>2. CASE StartSync \/ FinishCancelled \/ KillSync
  BY <1>2 DEF StartSync, FinishCancelled, KillSync, NotRunning, CompletedIsVerified
<1>3. CASE UNCHANGED disclosureVars
  BY <1>3 DEF disclosureVars, CompletedIsVerified, PrimaryVerified
<1>4. CASE /\ ~Finish /\ ~FinishCancelled /\ ~KillSync
           /\ \/ StopSync \/ ReadIndex \/ FetchOriginal \/ IngestOfficial \/ ReadMirror
              \/ IngestMirror
  <2>1. sync.pc # "idle"
    BY <1>4 DEF StopSync, ReadIndex, FetchOriginal, IngestOfficial, ReadMirror, IngestMirror
  <2>2. sync'.status = "running"
    BY <2>1, <1>4, RunningStep
  <2>3. QED BY <2>2 DEF CompletedIsVerified
<1>5. QED BY <1>1, <1>2, <1>3, <1>4 DEF DisclosureNext

-----------------------------------------------------------------------------
\* The theorems.

\* At first there is nothing to be wrong about.
LEMMA DisclosureInvInit == ASSUME DisclosureInit PROVE DisclosureInv
<1>1. DisclosureTypeOK
  BY TypeInit
<1>2. disclosures = [n \in {} |-> {}] /\ sync = NotRunning("never")
  BY DEF DisclosureInit
<1>3. OwnVersion
  BY <1>2 DEF OwnVersion, NotRunning, Doing
<1>4. RunningIsShown /\ MirrorIsPassed /\ CompletedIsVerified /\ Doing("idle")
  BY <1>2 DEF RunningIsShown, MirrorIsPassed, CompletedIsVerified, NotRunning, Doing
<1>5. ChainsEnd
  BY <1>2 DEF ChainsEnd
<1>6. QED BY <1>1, <1>3, <1>4, <1>5 DEF DisclosureInv

\* Every step keeps the invariant.
LEMMA DisclosureInvStep ==
  ASSUME DisclosureInv, [DisclosureNext]_disclosureVars
  PROVE  DisclosureInv'
<1>1. DisclosureTypeOK' /\ OwnVersion' /\ ChainsEnd'
  BY TypeStep, OwnVersionStep, ChainsStep DEF DisclosureInv
<1>2. RunningIsShown' /\ MirrorIsPassed' /\ CompletedIsVerified'
  BY RunningStep, MirrorStep, CompletedStep DEF DisclosureInv
<1>3. (~Doing("idle"))' /\ ~sync'.gaps => PassedRows'
  BY PassedStep DEF DisclosureInv
<1>4. QED BY <1>1, <1>2, <1>3 DEF DisclosureInv

\* The invariant holds of every behaviour of the job and its store.
LEMMA DisclosureInvHolds == DisclosureSpec => []DisclosureInv
<1>1. DisclosureInit => DisclosureInv
  BY DisclosureInvInit
<1>2. DisclosureInv /\ [DisclosureNext]_disclosureVars => DisclosureInv'
  BY DisclosureInvStep
<1>3. QED BY <1>1, <1>2, PTL DEF DisclosureSpec

\* Links lead to stored disclosures, versions to archived documents, and the job
\* is at a page and a row of the index or the mirror (disclosure_sync.rs).
THEOREM DisclosureTypeCorrect == DisclosureSpec => []DisclosureTypeOK
<1>1. DisclosureInv => DisclosureTypeOK
  BY DEF DisclosureInv
<1>2. QED BY <1>1, DisclosureInvHolds, PTL

\* What the store says of disclosures can be relied on: only entries of the
\* statutory index verify, a job that says "completed" met nothing unverified,
\* and the links of revisions form no cycle (ingest, record_ingest).
THEOREM StoredDisclosuresAreSound == DisclosureSpec => []DisclosuresAreSound
<1>1. DisclosureInv => VerifiedIsOriginal
  <2> SUFFICES ASSUME DisclosureInv, NEW d \in DOMAIN disclosures, PrimaryVerified(d)
               PROVE  /\ \E u \in Urls : /\ <<"cninfo", u>> \in DOMAIN entrances
                                         /\ entrances[<<"cninfo", u>>] = d
                      /\ \E e \in OfficialEntries :
                           e.notice = d /\ disclosures[d].version = {e.url}
    BY DEF VerifiedIsOriginal
  <2>1. PICK s \in DOMAIN entrances : entrances[s] = d /\ s[1] = "cninfo"
    BY DEF PrimaryVerified, Primary
  <2>2. s \in Providers \X Urls
    BY DEF DisclosureInv, DisclosureTypeOK, RowsOK
  <2>3. s = <<"cninfo", s[2]>> /\ s[2] \in Urls
    BY <2>1, <2>2
  <2>4. QED BY <2>1, <2>3 DEF PrimaryVerified, DisclosureInv, OwnVersion
<1>2. DisclosureInv => DisclosuresAreSound
  BY <1>1 DEF DisclosureInv, DisclosuresAreSound
<1>3. QED BY <1>2, DisclosureInvHolds, PTL

\* No later row, failure, cancellation or restart takes back a verification, a
\* link, a cancellation or an entrance (the COALESCE and OR IGNORE of ingest).
THEOREM StoredIsNotTakenBack == DisclosureSpec => NothingTakenBack
<1>1. ASSUME DisclosureInv, [DisclosureNext]_disclosureVars
      PROVE  [/\ \A d \in DOMAIN disclosures :
                   /\ d \in DOMAIN disclosures'
                   /\ PrimaryVerified(d) => PrimaryVerified(d)'
                   /\ disclosures[d].revises # {} => disclosures'[d].revises = disclosures[d].revises
                   /\ disclosures[d].cancelledBy # {} => disclosures'[d].cancelledBy # {}
              /\ \A s \in DOMAIN entrances : s \in DOMAIN entrances' /\ entrances'[s] = entrances[s]
             ]_disclosureVars
  <2>1. ASSUME NEW e \in Entries, NEW provider \in Providers, NEW version \in SUBSET archived,
               Ingested(e, provider, version)
        PROVE  /\ \A d \in DOMAIN disclosures :
                    /\ d \in DOMAIN disclosures'
                    /\ PrimaryVerified(d) => PrimaryVerified(d)'
                    /\ disclosures'[d].revises = disclosures[d].revises
                    /\ disclosures[d].cancelledBy # {} => disclosures'[d].cancelledBy # {}
               /\ \A s \in DOMAIN entrances : s \in DOMAIN entrances' /\ entrances'[s] = entrances[s]
    <3>1. \A d \in DOMAIN disclosures : PrimaryVerified(d) => PrimaryVerified(d)'
      BY <2>1, VerifiedStays
    <3>2. QED BY <2>1, <3>1 DEF Ingested
  <2>2. CASE UNCHANGED <<disclosures, entrances>>
    BY <2>2 DEF PrimaryVerified
  <2>3. QED BY <1>1, <2>1, <2>2, StepOnRows DEF DisclosureInv
<1>2. QED BY <1>1, DisclosureInvHolds, PTL DEF DisclosureSpec, NothingTakenBack

-----------------------------------------------------------------------------
\* The parts together.

\* The parts write other tables, so a step of one leaves the others alone, and
\* what holds of every behaviour of a part holds while they run beside each other.
THEOREM DatabaseRunsItsParts == DatabaseSpec => Spec /\ GraphSpec /\ DisclosureSpec
<1>1. DatabaseInit => Init /\ GraphInit /\ DisclosureInit
  BY DEF DatabaseInit
<1>2. ASSUME [DatabaseNext]_databaseVars
      PROVE  [Next]_vars /\ [GraphNext]_graphVars /\ [DisclosureNext]_disclosureVars
  BY <1>2 DEF DatabaseNext, databaseVars
<1> QED
  BY <1>1, <1>2, PTL DEF DatabaseSpec, Spec, GraphSpec, DisclosureSpec

\* The tables of relations and of disclosures, and the places of those that
\* write them, are well-formed in every database
\* (graph/src/bitemporal.rs, disclosure/src/lib.rs).
THEOREM DatabaseTypeCorrect == DatabaseSpec => []DatabaseTypeOK
<1>1. DatabaseInit => focus \in Focus
  BY DEF DatabaseInit
<1>2. focus \in Focus /\ [DatabaseNext]_databaseVars => (focus \in Focus)'
  BY DEF DatabaseNext, databaseVars
<1>3. DatabaseSpec => [](focus \in Focus)
  BY <1>1, <1>2, PTL DEF DatabaseSpec
<1> QED
  BY <1>3, DatabaseRunsItsParts, GraphTypeCorrect, DisclosureTypeCorrect, PTL DEF DatabaseTypeOK
=============================================================================
