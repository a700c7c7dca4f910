---------------------------- MODULE DurableTask ----------------------------
(***************************************************************************)
(* What one Agent task promises to whoever reads the database afterwards,  *)
(* whatever component wrote it: an append-only event log, a checkpoint     *)
(* cursor that only moves forward and never runs ahead of the log, and an  *)
(* effect ledger in which an effect is opened once and closed once.        *)
(*                                                                         *)
(* The transactions of EventStore and the whole run of AgentTask are both  *)
(* checked to implement this specification.                                *)
(***************************************************************************)
EXTENDS Naturals, Sequences

VARIABLES
  log,       \* the events of the task, in sequence order
  accepted,  \* the sequence number the latest checkpoint accepts
  effects    \* effect identity -> its status

vars == <<log, accepted, effects>>

Open == "pending"
Closed == {"succeeded", "failed", "cancelled"}

Init ==
  /\ log = <<>>
  /\ accepted = 0
  /\ effects = [e \in {} |-> Open]

\* One event is added at the end; nothing already in the log changes.
AppendEvent ==
  /\ Len(log') = Len(log) + 1
  /\ SubSeq(log', 1, Len(log)) = log
  /\ UNCHANGED <<accepted, effects>>

\* The cursor moves forward, at most up to the end of the log.
Accept ==
  /\ accepted' \in accepted..Len(log)
  /\ UNCHANGED <<log, effects>>

BeginEffect ==
  /\ \E e \in DOMAIN effects' \ DOMAIN effects :
       effects' = [x \in DOMAIN effects \cup {e} |->
                     IF x = e THEN Open ELSE effects[x]]
  /\ UNCHANGED <<log, accepted>>

CompleteEffect ==
  /\ \E e \in DOMAIN effects, status \in Closed :
       /\ effects[e] = Open
       /\ effects' = [effects EXCEPT ![e] = status]
  /\ UNCHANGED <<log, accepted>>

Next == AppendEvent \/ Accept \/ BeginEffect \/ CompleteEffect

Spec == Init /\ [][Next]_vars
=============================================================================
