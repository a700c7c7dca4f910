----------------------------- MODULE EventStore -----------------------------
(***************************************************************************)
(* The Agent tables of the Engine database (engine/src/event_store.rs).    *)
(*                                                                         *)
(* A table is a function from the primary keys that are present to their   *)
(* rows.  Every operation is one SQLite transaction on the single storage  *)
(* thread, hence one action.  Requests reach the store from several hosts, *)
(* may be sent again after a lost reply, may arrive late, and may be       *)
(* stale; so any request of the input sets may be executed at any time,    *)
(* and `acked` remembers every request that was answered with success.  A  *)
(* request the store refuses changes nothing and is not a step.            *)
(***************************************************************************)
EXTENDS Naturals, Sequences, FiniteSets

CONSTANTS
  TaskId,      \* task identities
  ObservedTask,\* any one of them, whose journal is compared with DurableTask
  TaskSpec,    \* task specifications a creator may send
  Phase,       \* phase names; the store accepts any string
  EventId,     \* event identities
  EventBody,   \* JSON bodies of events (the kind column is not compared)
  EffectId,    \* effect identities, fresh UUIDs of the callers
  Intent,      \* effect kind and JSON body
  Key,         \* idempotency keys after hashing
  Result,      \* JSON results of effects
  MaxSeq       \* bound on the sequence numbers that are tried

ASSUME MaxSeqAssumption == MaxSeq \in Nat
ASSUME ObservedTaskAssumption == ObservedTask \in TaskId

VARIABLES
  tasks,       \* agent_tasks_v2: task -> [spec, phase, acceptedSeq, checkpoint]
  events,      \* agent_events_v2: <<task, seq>> -> [id, body]
  effects,     \* agent_effects_v2: effect -> [task, cause, intent, key, status, result]
  acked        \* the requests that were answered with success

vars == <<tasks, events, effects, acked>>

EffectStatus == {"succeeded", "failed", "cancelled"}

\* checkpoint_json is NULL until the first checkpoint is put.
NoCheckpoint == [phase |-> "none", acceptedSeq |-> 0]
\* result_json is NULL while the effect is pending.
NoResult == "none"

Insert(table, key, row) ==
  [k \in DOMAIN table \cup {key} |-> IF k = key THEN row ELSE table[k]]

\* The sequence numbers an events table holds for one task.
SeqsIn(table, t) == {k[2] : k \in {row \in DOMAIN table : row[1] = t}}

\* COALESCE(MAX(seq), 0) of a set of sequence numbers.
MaxOrZero(seqs) ==
  IF seqs = {} THEN 0 ELSE CHOOSE s \in seqs : \A other \in seqs : other <= s

LastSeq(t) == MaxOrZero(SeqsIn(events, t))

Ack(request) == acked' = acked \cup {request}

-----------------------------------------------------------------------------
Init ==
  /\ tasks = [t \in {} |-> NoCheckpoint]
  /\ events = [k \in {} |-> NoResult]
  /\ effects = [e \in {} |-> NoResult]
  /\ acked = {}

\* INSERT OR IGNORE: a second creation keeps the first row and still succeeds.
CreateTask(t, spec, phase) ==
  /\ tasks' = IF t \in DOMAIN tasks
              THEN tasks
              ELSE Insert(tasks, t, [spec |-> spec, phase |-> phase,
                                     acceptedSeq |-> 0, checkpoint |-> NoCheckpoint])
  /\ Ack([op |-> "create", task |-> t])
  /\ UNCHANGED <<events, effects>>

\* FOREIGN KEY(task_id) of the events and effects tables, enforced.
TaskRowExists(t) == t \in DOMAIN tasks

\* Mutant: a number beyond the next one is let in.
LaterThanLast(t, seq) == seq > LastSeq(t)

NextInSequence(t, seq) == seq = LastSeq(t) + 1

\* Mutant: the stored body is not compared.
SameNumberAndId(t, seq, id, body) ==
  <<t, seq>> \in DOMAIN events /\ events[<<t, seq>>].id = id

SameEvent(t, seq, id, body) ==
  <<t, seq>> \in DOMAIN events /\ events[<<t, seq>>] = [id |-> id, body |-> body]

AppendRequest(t, seq, id, body) ==
  [op |-> "append", task |-> t, seq |-> seq, id |-> id, body |-> body]

\* A new event takes exactly the next number, and its identity is used nowhere
\* else (UNIQUE).  A number at or below the last one succeeds only as an
\* identical replay, which changes nothing.
AppendEvent(t, seq, id, body) ==
  /\ seq > 0
  /\ \/ /\ NextInSequence(t, seq)
        /\ TaskRowExists(t)
        /\ \A k \in DOMAIN events : events[k].id # id
        /\ events' = Insert(events, <<t, seq>>, [id |-> id, body |-> body])
     \/ /\ seq <= LastSeq(t)
        /\ SameEvent(t, seq, id, body)
        /\ UNCHANGED events
  /\ Ack(AppendRequest(t, seq, id, body))
  /\ UNCHANGED <<tasks, effects>>

\* Mutant: a checkpoint beyond the log is let in.
NotBehind(t, seq) == tasks[t].acceptedSeq <= seq

InAcceptableRange(t, seq) == tasks[t].acceptedSeq <= seq /\ seq <= LastSeq(t)

PutCheckpoint(t, seq, phase) ==
  /\ t \in DOMAIN tasks
  /\ InAcceptableRange(t, seq)
  /\ tasks' = [tasks EXCEPT
                 ![t].phase = phase,
                 ![t].acceptedSeq = seq,
                 ![t].checkpoint = [phase |-> phase, acceptedSeq |-> seq]]
  /\ Ack([op |-> "checkpoint", task |-> t, seq |-> seq])
  /\ UNCHANGED <<events, effects>>

\* Mutant: only the effect identity is looked up.
SameIdentity(e, k) == {e} \cap DOMAIN effects

\* The rows the duplicate lookup finds: by identity or by idempotency key.
SameIdentityOrKey(e, k) == {x \in DOMAIN effects : x = e \/ effects[x].key = k}

\* The causing number and the key are not compared.
SameEffect(e, t, intent) == effects[e].task = t /\ effects[e].intent = intent

\* The lookup returns one of the rows it finds, and only that row is compared:
\* an identical effect is a replay, anything else a conflict.
BeginEffect(e, t, cause, intent, k) ==
  /\ \/ /\ SameIdentityOrKey(e, k) = {}
        /\ TaskRowExists(t)
        /\ effects' = Insert(effects, e,
                        [task |-> t, cause |-> cause, intent |-> intent, key |-> k,
                         status |-> "pending", result |-> NoResult])
     \/ /\ e \in SameIdentityOrKey(e, k)
        /\ SameEffect(e, t, intent)
        /\ UNCHANGED effects
  /\ Ack([op |-> "begin", effect |-> e, task |-> t, intent |-> intent])
  /\ UNCHANGED <<tasks, events>>

\* Mutant: the terminal status is not validated.
AnyStatus(status) == TRUE

ValidStatus(status) == status \in EffectStatus

\* Mutant: a closed effect accepts a second outcome.
AlwaysAccepts(e, status, result) == TRUE

\* A pending effect is closed; a closed one accepts only the same outcome again.
AcceptsOutcome(e, status, result) ==
  effects[e].status # "pending"
    => effects[e].status = status /\ effects[e].result = result

CompleteEffect(e, status, result) ==
  /\ ValidStatus(status)
  /\ e \in DOMAIN effects
  /\ AcceptsOutcome(e, status, result)
  /\ effects' = [effects EXCEPT ![e].status = status, ![e].result = result]
  /\ Ack([op |-> "complete", effect |-> e, status |-> status, result |-> result])
  /\ UNCHANGED <<tasks, events>>

\* Statuses a caller may send: the three terminal ones, and anything else.
SentStatus == EffectStatus \cup {"pending", "unknown"}

Next ==
  \/ \E t \in TaskId, spec \in TaskSpec, phase \in Phase : CreateTask(t, spec, phase)
  \/ \E t \in TaskId, seq \in 0..MaxSeq, id \in EventId, body \in EventBody :
       AppendEvent(t, seq, id, body)
  \/ \E t \in TaskId, seq \in 0..MaxSeq, phase \in Phase : PutCheckpoint(t, seq, phase)
  \/ \E e \in EffectId, t \in TaskId, cause \in 0..MaxSeq, intent \in Intent, k \in Key :
       BeginEffect(e, t, cause, intent, k)
  \/ \E e \in EffectId, status \in SentStatus, result \in Result :
       CompleteEffect(e, status, result)

Spec == Init /\ [][Next]_vars

-----------------------------------------------------------------------------
CheckpointRow == [phase : Phase \cup {"none"}, acceptedSeq : Nat]

TypeOK ==
  /\ DOMAIN tasks \subseteq TaskId
  /\ \A t \in DOMAIN tasks :
       tasks[t] \in [spec : TaskSpec, phase : Phase, acceptedSeq : Nat,
                    checkpoint : CheckpointRow]
  /\ DOMAIN events \subseteq (DOMAIN tasks) \X (Nat \ {0})
  /\ \A k \in DOMAIN events : events[k] \in [id : EventId, body : EventBody]
  /\ DOMAIN effects \subseteq EffectId
  /\ \A e \in DOMAIN effects :
       effects[e] \in [task : DOMAIN tasks, cause : Nat, intent : Intent, key : Key,
                      status : EffectStatus \cup {"pending"},
                      result : Result \cup {NoResult}]

\* The sequence numbers of a task have no gap and start at 1, in whatever order
\* and however often the append requests arrive (append_event's sequence check).
LogContiguous == \A t \in TaskId : SeqsIn(events, t) = 1..LastSeq(t)

\* A checkpoint never accepts an event that is not in the log, the row and the
\* checkpoint document agree on what is accepted, and a task that was never
\* checkpointed accepts nothing (put_checkpoint writes both or neither).
CheckpointWithinLog ==
  \A t \in DOMAIN tasks :
    /\ tasks[t].acceptedSeq <= LastSeq(t)
    /\ tasks[t].checkpoint.acceptedSeq = tasks[t].acceptedSeq

\* No two effects carry the same idempotency key, so a retried side effect
\* cannot be recorded twice under two identities (begin_effect's lookup).
OneEffectPerKey ==
  \A e, f \in DOMAIN effects : effects[e].key = effects[f].key => e = f

\* What the tables must hold once a request has been answered with success.
Stored(r) ==
  /\ r.op = "create" => r.task \in DOMAIN tasks
  /\ r.op = "append" => /\ <<r.task, r.seq>> \in DOMAIN events
                        /\ events[<<r.task, r.seq>>] = [id |-> r.id, body |-> r.body]
  /\ r.op = "checkpoint" => /\ r.task \in DOMAIN tasks
                            /\ r.seq <= tasks[r.task].acceptedSeq
  /\ r.op = "begin" => /\ r.effect \in DOMAIN effects
                       /\ effects[r.effect].task = r.task
                       /\ effects[r.effect].intent = r.intent
  /\ r.op = "complete" => /\ r.effect \in DOMAIN effects
                          /\ effects[r.effect].status = r.status
                          /\ effects[r.effect].result = r.result

\* Whatever the store has once acknowledged is in the tables for good: the
\* acknowledged event sits under its number unchanged, the acknowledged effect
\* exists with the intent that was sent, its acknowledged outcome is the one
\* that is stored, and an acknowledged checkpoint is never taken back.  Late,
\* repeated and conflicting requests of other callers cannot undo it.
AckedIsDurable == \A r \in acked : Stored(r)

-----------------------------------------------------------------------------
(***************************************************************************)
(* Each task, seen alone, is a DurableTask.                                *)
(***************************************************************************)
LogOf(t) == [n \in 1..LastSeq(t) |-> events[<<t, n>>]]
AcceptedOf(t) == IF t \in DOMAIN tasks THEN tasks[t].acceptedSeq ELSE 0
EffectsOf(t) == [e \in {x \in DOMAIN effects : effects[x].task = t} |-> effects[e].status]

Journal == INSTANCE DurableTask
           WITH log <- LogOf(ObservedTask),
                accepted <- AcceptedOf(ObservedTask),
                effects <- EffectsOf(ObservedTask)

\* The transactions implement the abstract task journal, for whichever task is
\* observed: append-only log, forward-moving checkpoint behind it, effects
\* opened once and closed once.
ImplementsDurableTask == Journal!Spec
=============================================================================
