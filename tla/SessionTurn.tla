---------------------------- MODULE SessionTurn -----------------------------
(***************************************************************************)
(* A turn of a conversation: the relay of `start_session_turn` between a   *)
(* running task and the client, the conversation row it keeps saving, and  *)
(* the conversation operations of the store (event_store.rs 664-1003) that *)
(* other requests perform on the same rows meanwhile.                      *)
(*                                                                         *)
(* The task is that of AgentTask reduced to its journal: each event is     *)
(* appended, checkpointed, then sent.  The two channels hold parts of its  *)
(* log: `sent` was put into the first, `got` taken by the relay, `passed`  *)
(* put into the second and `seen` taken by the client.  The process may    *)
(* end in any state.                                                       *)
(***************************************************************************)
EXTENDS Naturals, Sequences, SequencesExt, FiniteSets

CONSTANTS Turns,           \* turns, named by their task ids
          Conversations,   \* conversation ids
          Known,           \* the one that has a row from an earlier turn
          MaxEvents,       \* events of a task before its last
          ChannelCapacity, \* of either channel
          MaxSaveFaults,   \* saves of a session that may fail
          MaxEdits         \* bound: renames, deletions and branches asked for

ASSUME TurnAssumption ==
  /\ Turns \cap {"earlier", "none"} = {} /\ Known \in Conversations
  /\ {ChannelCapacity, MaxSaveFaults, MaxEdits} \subseteq Nat

VARIABLES log,     \* agent_events_v2: the events of each task
          work,    \* each task: its state, checkpoint and channel
          relay,   \* each relay: where it is and the session it holds
          client,  \* the client of each turn
          rows,    \* agent_conversations_v2
          asked,   \* a branch requested with the session as it was loaded
          faults,  \* failed saves
          edits    \* renames, deletions and branches so far

turnVars == <<log, work, relay, client, rows, asked, faults, edits>>

Terminal == {"completed", "cancelled", "failed"}
Kinds == {"started", "model", "delta"} \cup Terminal
Earlier == "earlier"      \* the task of a turn before this behaviour
NoTurn == "none"

\* A session document.  Its title is a copy; rename changes only the row's.
Doc(turn, seq, phase, messages) ==
  [turn |-> turn, seq |-> seq, phase |-> phase, messages |-> messages, title |-> "given"]
NoOrigin == [turn |-> NoTurn, seq |-> 0, phase |-> "idle"]
NoRow == [stored |-> FALSE]
Row(title, doc, origin) ==
  [stored |-> TRUE, deleted |-> FALSE, title |-> title, doc |-> doc, origin |-> origin]

EarlierDoc == Doc(Earlier, 1, "completed", <<<<"user", Earlier>>, <<"agent", Earlier>>>>)
NewDoc == Doc(NoTurn, 0, "idle", <<>>)
NoRequest == [state |-> "idle"]

TurnInit ==
  /\ log = [t \in Turns |-> <<>>]
  /\ work = [t \in Turns |-> [state |-> "absent", stage |-> "none", accepted |-> 0,
                              sent |-> 0, cancelled |-> FALSE]]
  /\ relay = [t \in Turns |-> [pc |-> "idle", conversation |-> NoTurn, got |-> 0,
                               passed |-> 0, doc |-> NewDoc]]
  /\ client = [t \in Turns |-> [attached |-> TRUE, cancelled |-> FALSE, seen |-> 0]]
  /\ rows = [c \in Conversations |->
               IF c = Known THEN Row("given", EarlierDoc, NoOrigin) ELSE NoRow]
  /\ asked = NoRequest
  /\ faults = 0 /\ edits = 0

Live(c) == rows[c].stored /\ ~rows[c].deleted

-----------------------------------------------------------------------------
\* The task.

\* The phase after some events; text leaves it alone.
PhaseOf(kind) ==
  CASE kind = "started" -> "preparing" [] kind = "model" -> "reasoning" [] OTHER -> kind
PhaseAfter(events) ==
  LET marks == {i \in DOMAIN events : events[i] # "delta"}
  IN  IF marks = {} THEN "preparing" ELSE PhaseOf(events[Max(marks)])

RelayGone(t) == relay[t].pc \in {"done", "failed"}

\* Records an event.  A cancelled task notices at some point; one whose last
\* send failed records its cancellation at once.
AppendToLog(t, kind) ==
  /\ work[t].stage = "none"
  /\ \/ work[t].state = "aborting" /\ kind = "cancelled"
     \/ /\ work[t].state = "running"
        /\ \/ kind = "started" /\ log[t] = <<>>
           \/ kind \in {"model", "delta"} /\ Len(log[t]) \in 1..(MaxEvents - 1)
           \/ kind \in {"completed", "failed"} /\ log[t] # <<>>
           \/ kind = "cancelled" /\ work[t].cancelled
  /\ log' = [log EXCEPT ![t] = Append(@, kind)]
  /\ work' = [work EXCEPT ![t].stage = "checkpoint"]
  /\ UNCHANGED <<relay, client, rows, asked, faults, edits>>

PutAccepted(t) ==
  /\ work[t].stage = "checkpoint"
  /\ work' = [work EXCEPT ![t].stage = "send", ![t].accepted = Len(log[t])]
  /\ UNCHANGED <<log, relay, client, rows, asked, faults, edits>>

\* A send nobody receives is an error, recorded as a cancellation; that of the
\* record of an error is only logged.
Unheard(t) ==
  [work[t] EXCEPT !.stage = "none", !.cancelled = TRUE,
     !.state = IF Last(log[t]) \in {"cancelled", "failed"} THEN "ended" ELSE "aborting"]
Heard(t) ==
  [work[t] EXCEPT !.stage = "none", !.sent = @ + 1,
     !.state = IF Last(log[t]) \in Terminal THEN "ended" ELSE "running"]

HasRoom(t) == work[t].sent - relay[t].got < ChannelCapacity

SendToRelay(t) ==
  /\ work[t].stage = "send"
  /\ RelayGone(t) \/ HasRoom(t)
  /\ work' = [work EXCEPT ![t] = IF RelayGone(t) THEN Unheard(t) ELSE Heard(t)]
  /\ UNCHANGED <<log, relay, client, rows, asked, faults, edits>>

-----------------------------------------------------------------------------
\* The relay.  RuntimeSession is loaded, or new for an unused identity.

StartTurn(t, c) ==
  /\ relay[t].pc = "idle"
  /\ ~rows[c].stored \/ Live(c)
  /\ LET doc == IF rows[c].stored THEN rows[c].doc ELSE NewDoc IN
       relay' = [relay EXCEPT ![t] =
         [@ EXCEPT !.pc = "save_first", !.conversation = c,
                   !.doc = [doc EXCEPT !.turn = t, !.seq = 0, !.phase = "preparing",
                                       !.messages = Append(@, <<"user", t>>)]]]
  /\ UNCHANGED <<log, work, client, rows, asked, faults, edits>>

\* apply_session_event.
\* Mutant: text is not counted.
TextUncounted(doc, kind) ==
  [doc EXCEPT !.seq = IF kind = "delta" THEN @ ELSE @ + 1,
              !.phase = IF kind = "delta" THEN @ ELSE PhaseOf(kind),
              !.messages = IF kind = "completed" THEN Append(@, <<"agent", doc.turn>>) ELSE @]
Applied(doc, kind) ==
  [doc EXCEPT !.seq = @ + 1,
              !.phase = IF kind = "delta" THEN @ ELSE PhaseOf(kind),
              !.messages = IF kind = "completed" THEN Append(@, <<"agent", doc.turn>>) ELSE @]

\* Mutant: the event is passed on first.
PassedUnsaved(kind) == "send"
AfterReceipt(kind) == IF kind = "delta" THEN "send" ELSE "save"

RelayReceives(t) ==
  /\ relay[t].pc = "select" /\ relay[t].got < work[t].sent
  /\ LET kind == log[t][relay[t].got + 1] IN
       relay' = [relay EXCEPT ![t].got = @ + 1, ![t].doc = Applied(@, kind),
                              ![t].pc = AfterReceipt(kind)]
  /\ UNCHANGED <<log, work, client, rows, asked, faults, edits>>

\* The upsert: it brings a deleted row back and replaces its title.
Saved(t) ==
  LET c == relay[t].conversation
      origin == IF rows[c].stored THEN rows[c].origin ELSE NoOrigin
  IN  [rows EXCEPT ![c] = Row(relay[t].doc.title, relay[t].doc, origin)]

Saving == {"save_first", "save", "save_last"}
AfterSave(pc) ==
  CASE pc = "save_first" -> "select" [] pc = "save" -> "send" [] OTHER -> "done"

SaveSession(t) ==
  /\ relay[t].pc \in Saving
  /\ rows' = Saved(t)
  /\ relay' = [relay EXCEPT ![t].pc = AfterSave(@)]
  /\ work' = IF relay[t].pc = "save_first" THEN [work EXCEPT ![t].state = "running"] ELSE work
  /\ UNCHANGED <<log, client, asked, faults, edits>>

\* Dropping the task's stream cancels it.
Abandons(t) ==
  /\ relay' = [relay EXCEPT ![t].pc = "failed"]
  /\ work' = [work EXCEPT ![t].cancelled = @ \/ work[t].state = "running"]

SaveFails(t) ==
  /\ relay[t].pc \in Saving /\ faults < MaxSaveFaults
  /\ faults' = faults + 1
  /\ rows' \in {rows, Saved(t)}          \* only the answer may have been lost
  /\ Abandons(t)
  /\ UNCHANGED <<log, client, asked, edits>>

\* Mutant: a closed channel is not noticed.
NeverGone(t) == FALSE
ClientGone(t) == ~client[t].attached
PassOn(t) ==
  /\ relay[t].pc = "send"
  /\ IF ClientGone(t)
     THEN Abandons(t)
     ELSE /\ relay[t].passed - client[t].seen < ChannelCapacity
          /\ relay' = [relay EXCEPT ![t].pc = "select", ![t].passed = relay[t].got]
          /\ UNCHANGED work
  /\ UNCHANGED <<log, client, rows, asked, faults, edits>>

\* Only between events: not while it saves or waits for the client.
ForwardCancel(t) ==
  /\ relay[t].pc = "select" /\ client[t].cancelled /\ ~work[t].cancelled
  /\ work' = [work EXCEPT ![t].cancelled = TRUE]
  /\ UNCHANGED <<log, relay, client, rows, asked, faults, edits>>

\* The task's channel is closed and empty; its outcome is taken.
JoinTask(t) ==
  /\ relay[t].pc = "select" /\ work[t].state = "ended" /\ relay[t].got = work[t].sent
  /\ relay' = [relay EXCEPT ![t].pc =
       IF Last(log[t]) = "completed" THEN "save_last" ELSE "failed"]
  /\ UNCHANGED <<log, work, client, rows, asked, faults, edits>>

-----------------------------------------------------------------------------
\* The client of a turn: SessionTaskStream.

ClientReceives(t) ==
  /\ client[t].attached /\ client[t].seen < relay[t].passed
  /\ client' = [client EXCEPT ![t].seen = @ + 1]
  /\ UNCHANGED <<log, work, relay, rows, asked, faults, edits>>

CancelTurn(t) ==
  /\ relay[t].pc # "idle" /\ ~client[t].cancelled
  /\ client' = [client EXCEPT ![t].cancelled = TRUE]
  /\ UNCHANGED <<log, work, relay, rows, asked, faults, edits>>

DropTurn(t) ==
  /\ relay[t].pc # "idle" /\ client[t].attached
  /\ client' = [client EXCEPT ![t].attached = FALSE, ![t].cancelled = TRUE]
  /\ UNCHANGED <<log, work, relay, rows, asked, faults, edits>>

-----------------------------------------------------------------------------
\* Other requests on conversations.

AnotherEdit == edits < MaxEdits /\ edits' = edits + 1

RenameConversation(c) ==
  /\ Live(c) /\ AnotherEdit
  /\ rows' = [rows EXCEPT ![c].title = "renamed"]
  /\ UNCHANGED <<log, work, relay, client, asked, faults>>

DeleteConversation(c) ==
  /\ Live(c) /\ AnotherEdit
  /\ rows' = [rows EXCEPT ![c].deleted = TRUE]
  /\ UNCHANGED <<log, work, relay, client, asked, faults>>

\* SessionManager::branch loads the source; at the latest message it also
\* sends the checkpoint it read.
AskBranch(c, i) ==
  /\ asked.state = "idle" /\ Live(c) /\ AnotherEdit
  /\ i \in 1..Len(rows[c].doc.messages)
  /\ LET doc == rows[c].doc
         checked == i = Len(doc.messages) /\ doc.turn # NoTurn /\ doc.seq > 0
     IN  asked' = [state |-> "sent", source |-> c, message |-> doc.messages[i],
                   turn |-> IF checked THEN doc.turn ELSE NoTurn,
                   seq |-> IF checked THEN doc.seq ELSE 0]
  /\ UNCHANGED <<log, work, relay, client, rows, faults>>

DurableSeq(t) == IF t \in Turns THEN work[t].accepted ELSE 1
DurablePhase(t) ==
  IF t \in Turns THEN PhaseAfter(SubSeq(log[t], 1, work[t].accepted)) ELSE "completed"

\* Mutant: the task's own checkpoint is not compared.
SessionAgrees(q) ==
  q.turn # NoTurn => /\ rows[q.source].doc.turn = q.turn
                     /\ rows[q.source].doc.seq = q.seq
CheckpointAgrees(q) ==
  q.turn # NoTurn => /\ rows[q.source].doc.turn = q.turn
                     /\ rows[q.source].doc.seq = q.seq
                     /\ DurableSeq(q.turn) = q.seq

\* branch_conversation: one transaction.
ServeBranch(new) ==
  /\ asked.state = "sent" /\ ~rows[new].stored
  /\ asked' = NoRequest
  /\ LET q == asked messages == rows[q.source].doc.messages IN
       IF /\ Live(q.source) /\ CheckpointAgrees(q)
          /\ \E i \in 1..Len(messages) : messages[i] = q.message
       THEN LET i == CHOOSE j \in 1..Len(messages) : messages[j] = q.message IN
            rows' = [rows EXCEPT ![new] =
              Row("branched", [Doc(NoTurn, 0, "idle", SubSeq(messages, 1, i))
                                 EXCEPT !.title = "branched"],
                  IF q.turn = NoTurn THEN NoOrigin
                  ELSE [turn |-> q.turn, seq |-> q.seq, phase |-> DurablePhase(q.turn)])]
       ELSE UNCHANGED rows
  /\ UNCHANGED <<log, work, relay, client, faults, edits>>

-----------------------------------------------------------------------------
TaskStep(t) == (\E kind \in Kinds : AppendToLog(t, kind)) \/ PutAccepted(t) \/ SendToRelay(t)

RelayStep(t) ==
  RelayReceives(t) \/ SaveSession(t) \/ SaveFails(t) \/ PassOn(t) \/ ForwardCancel(t) \/ JoinTask(t)

TurnNext ==
  \/ \E t \in Turns : \/ TaskStep(t) \/ RelayStep(t)
                      \/ ClientReceives(t) \/ CancelTurn(t) \/ DropTurn(t)
                      \/ \E c \in Conversations : StartTurn(t, c)
  \/ \E c \in Conversations : RenameConversation(c) \/ DeleteConversation(c) \/ ServeBranch(c)
  \/ \E c \in Conversations : \E i \in 1..3 : AskBranch(c, i)

\* The executor polls tasks and relays, the Engine answers, and a client that
\* keeps the stream goes on receiving, as the terminal and the desktop do.
TurnFairness ==
  \A t \in Turns : /\ WF_turnVars(TaskStep(t)) /\ WF_turnVars(RelayStep(t))
                   /\ WF_turnVars(ClientReceives(t))

TurnSpec == TurnInit /\ [][TurnNext]_turnVars /\ TurnFairness

-----------------------------------------------------------------------------
\* Every part has its type and both channels (mpsc::channel) hold at most
\* their capacity of the task's events, in order.
TurnTypeOK ==
  /\ log \in [Turns -> Seq(Kinds)]
  /\ faults \in 0..MaxSaveFaults /\ edits \in 0..MaxEdits
  /\ \A t \in Turns :
       /\ work[t].state \in {"absent", "running", "aborting", "ended"}
       /\ work[t].stage \in {"none", "checkpoint", "send"}
       /\ relay[t].pc \in Saving \cup {"idle", "select", "send", "done", "failed"}
       /\ client[t].seen <= relay[t].passed /\ relay[t].passed <= relay[t].got
       /\ relay[t].got <= work[t].sent /\ work[t].sent <= work[t].accepted
       /\ work[t].accepted <= Len(log[t])
       /\ work[t].sent - relay[t].got <= ChannelCapacity
       /\ relay[t].passed - client[t].seen <= ChannelCapacity

\* The session saved of a turn (save_session after apply_session_event) is the
\* projection of a checkpointed part of its log: position, phase and report.
RowsProjectTheLog ==
  \A t \in Turns, c \in Conversations : rows[c].stored /\ rows[c].doc.turn = t =>
    LET doc == rows[c].doc IN
      /\ doc.seq <= work[t].accepted
      /\ doc.phase = PhaseAfter(SubSeq(log[t], 1, doc.seq))
      /\ <<"agent", t>> \in ToSet(doc.messages) <=>
           "completed" \in ToSet(SubSeq(log[t], 1, doc.seq))

\* Nothing but text that the client has been passed is missing from the saved
\* session (start_session_turn saves before it sends), whatever other requests
\* did to the row, unless another turn has taken it over.
SeenIsSaved ==
  \A t \in Turns : relay[t].passed > 0 =>
    LET row == rows[relay[t].conversation] IN
      row.doc.turn = t =>
        \A i \in 1..relay[t].passed : log[t][i] # "delta" => i <= row.doc.seq

\* What the client saw of a turn survives in the saved session, and nothing
\* else is in it (start_session_turn, save_conversation).
SessionIsSaved == RowsProjectTheLog /\ SeenIsSaved

\* A branch that names a checkpoint (branch_conversation) records the phase
\* the task had at just that event, and carries no task.
BranchOriginIsReal ==
  \A c \in Conversations : rows[c].stored /\ rows[c].origin.turn \in Turns =>
    LET origin == rows[c].origin IN
      /\ origin.phase = PhaseAfter(SubSeq(log[origin.turn], 1, origin.seq))
      /\ origin.seq <= work[origin.turn].accepted

\* Every turn ends, even if its client cancels it or drops the stream, or a
\* save fails (start_session_turn): none is under way for ever.
TurnEnds ==
  \A t \in Turns :
    []<>(relay[t].pc = "idle" \/ (RelayGone(t) /\ work[t].state \in {"absent", "ended"}))
=============================================================================
