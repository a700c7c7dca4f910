----------------------------- MODULE AgentTask ------------------------------
(***************************************************************************)
(* One research task of the Agent (agent-runtime/src/runtime.rs): the task *)
(* that AgentRuntime::start spawns, the Engine store it writes to and the  *)
(* client that holds the TaskStream.                                       *)
(*                                                                         *)
(* Between two decisions the runtime performs a fixed sequence of awaited  *)
(* writes: events to record, effects to open and to close.  `todo` is what *)
(* remains of that sequence and each element is taken in a step of its own *)
(* (an event in three: append, checkpoint, send), so that the client, a    *)
(* cancellation, a store failure or the end of the process can come        *)
(* between any two of them.  A decision is taken when `todo` is empty.     *)
(*                                                                         *)
(* Everything outside the task answers nondeterministically: the provider, *)
(* the tools, the evidence contract, the verifier and the store.           *)
(***************************************************************************)
EXTENDS Naturals, Sequences, FiniteSets

CONSTANTS
  MaxModelRounds,          \* RuntimeConfig.max_model_rounds
  MaxFinalizationAttempts, \* RuntimeConfig.max_finalization_attempts, at least 1
  MaxUnknownToolRejections,\* RuntimeConfig.max_unknown_tool_rejections
  MaxEmptyTurnRetries,     \* RuntimeConfig.max_empty_turn_retries
  MaxParallelTools,        \* RuntimeConfig.max_parallel_tools
  MaxCalls,                \* RuntimeConfig.max_tool_calls_per_round
  MaxChunks,               \* RuntimeConfig.max_model_chunks_per_round
  MaxResearchRounds,       \* RuntimeConfig.max_research_rounds
  VerifyReports,           \* RuntimeConfig.verify_reports
  ChannelCapacity,         \* event_channel_capacity.max(8), scaled down
  Tool,                    \* what the model may call; see the kinds below
  Draft,                   \* report drafts the model may submit
  Undecodable,             \* those that do not match the schema
  Prose,                   \* free-form answers
  MaxStoreFaults,          \* bound: store operations that fail
  MayCancel,               \* whether the client may cancel ...
  MayClose                 \* ... and then drop its end of the stream

ASSUME BoundsAssumption ==
  /\ {MaxModelRounds, MaxUnknownToolRejections, MaxEmptyTurnRetries, MaxResearchRounds,
      MaxCalls, MaxChunks, MaxStoreFaults} \subseteq Nat
  /\ {ChannelCapacity, MaxParallelTools, MaxFinalizationAttempts} \subseteq Nat \ {0}
  /\ {VerifyReports, MayCancel, MayClose} \subseteq BOOLEAN
  /\ Undecodable \subseteq Draft /\ Draft \cap Prose = {}

VARIABLES
  log,         \* agent_events_v2: the recorded events
  checkpoint,  \* agent_tasks_v2: phase, accepted number, round, completed tools
  effects,     \* agent_effects_v2: idempotency key -> effect
  pc,          \* where the runtime is
  todo,        \* the awaited writes before its next decision
  stage,       \* how far the first of them, if it records an event, has come
  seq,         \* RunState.seq
  phase,       \* RunState.phase
  round,       \* RunState.model_round
  turn,        \* the model turn being streamed
  unknown,     \* RunState.unknown_tool_calls
  ledger,      \* FinalizationLedger: attempts, and how often each draft was seen
  batch,       \* the tool calls of the turn being executed
  ids,         \* the keys of the effects the runtime has open
  completed,   \* RunState.completed_tool_ids
  result,      \* how execute_loop ended
  unread,      \* events in the channel
  sent,        \* number of the last event put into the channel
  open,        \* the client holds its end of the channel
  cancelled,   \* the cancellation token
  faults       \* store failures so far

durable == <<log, checkpoint, effects>>
memory  == <<seq, phase, round, turn, unknown, ledger, batch, ids, completed, result>>
stream  == <<unread, sent, open, cancelled>>
vars    == <<durable, pc, todo, stage, memory, stream, faults>>

-----------------------------------------------------------------------------
\* Tools served by the Engine and by the runtime itself; the remaining members
\* of Tool are names that are not registered and calls whose arguments do not
\* parse.
EngineTool  == {"retrieve", "run_financial_calculation"}
RuntimeTool == {"search_evidence", "submit_report"}
Registered  == EngineTool \cup RuntimeTool

Terminal == {"Completed", "Cancelled", "Suspended", "Failed"}

\* A slot names what an effect is for: a provider request, the verification, or
\* the i-th call of the batch.
SelectSlot == <<"provider.model.select", 0>>
StreamSlot == <<"provider.stream", 0>>
VerifySlot == <<"report.verify", 0>>
NoSlot     == <<"none", 0>>
CallSlot(i) == <<batch.calls[i], i>>

\* The writes a decision leaves to do.
Event(kind, slot, r) == [kind |-> kind, slot |-> slot, round |-> r]
Record(kind)         == [op |-> "record", event |-> Event(kind, NoSlot, round)]
RecordCall(kind, i)  == [op |-> "record", event |-> Event(kind, CallSlot(i), round)]
Begin(slot)          == [op |-> "begin", slot |-> slot]
Complete(slot, status, value) ==
  [op |-> "complete", slot |-> slot, status |-> status, value |-> value]
Keep(i)              == [op |-> "keep", slot |-> CallSlot(i)]
Return(class)        == [op |-> "return", class |-> class]

EmptyBatch == [calls |-> <<>>, next |-> 1, open |-> {}, done |-> {}, messages |-> <<>>,
               exhausted |-> FALSE, draft |-> NoSlot]
NewTurn    == [text |-> "none", calls |-> 0, chunks |-> 0, empty |-> 0]

-----------------------------------------------------------------------------
Init ==
  /\ log = <<>>
  /\ checkpoint = [phase |-> "Preparing", acceptedSeq |-> 0, round |-> 0, tools |-> {}]
  /\ effects = [k \in {} |-> NoSlot]
  /\ pc = "create" /\ todo = <<>> /\ stage = "append"
  /\ seq = 0 /\ phase = "Preparing" /\ round = 0 /\ turn = NewTurn
  /\ unknown = 0 /\ ledger = [attempts |-> 0, seen |-> [d \in Draft \cup Prose |-> 0]]
  /\ batch = EmptyBatch /\ ids = [s \in {} |-> NoSlot] /\ completed = {}
  /\ result = "running"
  /\ unread = 0 /\ sent = 0 /\ open = TRUE /\ cancelled = FALSE
  /\ faults = 0

At(place) == pc = place /\ todo = <<>>

\* The runtime decides: it goes to `place` once `writes` are done.
Then(place, writes) == pc' = place /\ todo' = writes /\ UNCHANGED stage

\* Mutant: the terminal event is recorded under the phase of the failed step.
RaiseInPlace(class) ==
  /\ stage' = "append"
  /\ IF pc = "stopping"
     THEN pc' = "ended" /\ todo' = <<>> /\ UNCHANGED <<phase, result>>
     ELSE pc' = "stopping" /\ todo' = <<Record(class)>> /\ result' = class /\ UNCHANGED phase

\* execute_task: an error of the loop sets the terminal phase and records the
\* terminal event; an error of that record is only logged.
Raise(class) ==
  /\ stage' = "append"
  /\ IF pc = "stopping"
     THEN pc' = "ended" /\ todo' = <<>> /\ UNCHANGED <<phase, result>>
     ELSE /\ pc' = "stopping" /\ todo' = <<Record(class)>>
          /\ phase' = class /\ result' = class

-----------------------------------------------------------------------------
(***************************************************************************)
(* The awaited writes, one store call or channel send each.  A call may    *)
(* fail with or without having been carried out; the failure of any of     *)
(* them ends the task.                                                     *)
(***************************************************************************)
Doing(op) == todo # <<>> /\ Head(todo).op = op

Advance == todo' = Tail(todo) /\ stage' = "append" /\ UNCHANGED <<pc, phase, result, faults>>

Fault   == faults < MaxStoreFaults /\ faults' = faults + 1 /\ Raise("Failed")
Refused == Raise("Failed") /\ UNCHANGED faults

\* Mutant: the store takes an event under any number.
AnyNumber(n) == TRUE

\* append_event of the store: the next number of the log, and no other.
NextInLog(n) == n = Len(log) + 1

\* Mutant: the event is sent before a checkpoint accepts it.
NoCheckpointAfter == "send"

AfterAppend == "checkpoint"

\* record, first part: the number is taken before the event is appended, and
\* the store only takes the next number of its log.
AppendEvent ==
  /\ Doing("record") /\ stage = "append"
  /\ seq' = seq + 1
  /\ \/ /\ NextInLog(seq')
        /\ log' = Append(log, Head(todo).event)
        /\ \/ stage' = AfterAppend /\ UNCHANGED <<pc, todo, phase, result, faults>>
           \/ Fault
     \/ /\ UNCHANGED log
        /\ Fault \/ (~NextInLog(seq') /\ Refused)
  /\ UNCHANGED <<checkpoint, effects, round, turn, unknown, ledger, batch, ids, completed, stream>>

\* record, second part.
PutCheckpoint ==
  /\ Doing("record") /\ stage = "checkpoint"
  /\ \/ /\ checkpoint' = [phase |-> phase, acceptedSeq |-> seq, round |-> round,
                           tools |-> completed]
        /\ \/ stage' = "send" /\ UNCHANGED <<pc, todo, phase, result, faults>>
           \/ Fault
     \/ Fault /\ UNCHANGED checkpoint
  /\ UNCHANGED <<log, effects, seq, round, turn, unknown, ledger, batch, ids, completed, stream>>

\* Mutant: the channel is unbounded.
AlwaysRoom == TRUE

Room == unread < ChannelCapacity

\* record, last part: the send waits for room in the channel, whether or not
\* the task is cancelled, and fails once the client has dropped its end.
Send ==
  /\ Doing("record") /\ stage = "send"
  /\ \/ /\ open /\ Room
        /\ unread' = unread + 1 /\ sent' = seq
        /\ Advance
     \/ /\ ~open
        /\ Raise("Cancelled") /\ UNCHANGED <<unread, sent, faults>>
  /\ UNCHANGED <<durable, seq, round, turn, unknown, ledger, batch, ids, completed, open, cancelled>>

\* Mutant: the key is made of the round.
RoundKey(slot) == <<round, slot[1]>>

Key(slot) == <<seq, slot[1]>>

\* begin_effect: the idempotency key is made of the current number and the kind
\* of the effect; the store refuses a key it already holds.
BeginEffect ==
  /\ Doing("begin")
  /\ LET slot == Head(todo).slot
         key  == Key(slot)
         row  == [slot |-> slot, round |-> round, status |-> "pending", value |-> "none"]
     IN \/ /\ key \notin DOMAIN effects
           /\ effects' = [k \in DOMAIN effects \cup {key} |-> IF k = key THEN row ELSE effects[k]]
           /\ \/ Advance /\ ids' = [s \in DOMAIN ids \cup {slot} |-> IF s = slot THEN key ELSE ids[s]]
              \/ Fault /\ UNCHANGED ids
        \/ /\ Fault \/ (key \in DOMAIN effects /\ Refused)
           /\ UNCHANGED <<effects, ids>>
  /\ UNCHANGED <<log, checkpoint, seq, round, turn, unknown, ledger, batch, completed, stream>>

\* complete_effect of an effect the runtime has open.
CompleteEffect ==
  /\ Doing("complete")
  /\ LET op  == Head(todo)
         key == ids[op.slot]
     IN \/ /\ effects' = [effects EXCEPT ![key].status = op.status, ![key].value = op.value]
           /\ Advance \/ Fault
        \/ Fault /\ UNCHANGED effects
  /\ ids' = [s \in DOMAIN ids \ {Head(todo).slot} |-> ids[s]]
  /\ UNCHANGED <<log, checkpoint, seq, round, turn, unknown, ledger, batch, completed, stream>>

\* completed_tool_ids.push, only after the events of the call are recorded.
KeepCompleted ==
  /\ Doing("keep")
  /\ completed' = completed \cup {<<round, Head(todo).slot>>}
  /\ Advance
  /\ UNCHANGED <<durable, seq, round, turn, unknown, ledger, batch, ids, stream>>

ReturnError ==
  /\ Doing("return")
  /\ Raise(Head(todo).class)
  /\ UNCHANGED <<durable, seq, round, turn, unknown, ledger, batch, ids, completed, stream, faults>>

Perform ==
  \/ AppendEvent \/ PutCheckpoint \/ Send
  \/ BeginEffect \/ CompleteEffect \/ KeepCompleted \/ ReturnError

-----------------------------------------------------------------------------
(***************************************************************************)
(* The decisions.                                                          *)
(***************************************************************************)
\* How a provider request may end badly: with an error worth resuming after
\* (retryable, rate limit, quota, timeout), with another error, and, in the
\* select! of the wait, with the cancellation.
ProviderFailure == {"Suspended", "Failed"} \cup (IF cancelled THEN {"Cancelled"} ELSE {})

\* Mutant: the effect is left open.
JustReturn(slot, class) == Then(pc, <<Return(class)>>)

CloseFailed(slot, class) == Then(pc, <<Complete(slot, "failed", "error"), Return(class)>>)

\* validate and create_task; a refused task is never spawned into the loop.
CreateTask ==
  /\ At("create")
  /\ \/ Then("plan", <<Record("SessionStarted"), Record("UserMessageAccepted")>>)
        /\ UNCHANGED result
     \/ Then("ended", <<>>) /\ result' = "rejected"
  /\ UNCHANGED <<phase, round, turn, unknown, ledger, batch>>

Plan ==
  /\ At("plan")
  /\ phase' = "Planning"
  /\ Then("select", <<Record("PlanningStarted"), Record("PlanUpdated"), Begin(SelectSlot)>>)
  /\ UNCHANGED <<round, turn, unknown, ledger, batch, result>>

SelectModel ==
  /\ At("select")
  /\ \/ Then("round", <<Complete(SelectSlot, "succeeded", "ok")>>)
     \/ \E class \in ProviderFailure : CloseFailed(SelectSlot, class)
  /\ UNCHANGED <<phase, round, turn, unknown, ledger, batch, result>>

\* The head of the round loop.
StartRound ==
  /\ At("round")
  /\ \/ /\ round < MaxModelRounds /\ ~cancelled
        /\ round' = round + 1 /\ phase' = "Reasoning" /\ turn' = NewTurn
        /\ Then("connect", <<[op |-> "record", event |-> Event("ModelStarted", NoSlot, round + 1)],
                             Begin(StreamSlot)>>)
        /\ UNCHANGED result
     \/ /\ round < MaxModelRounds /\ cancelled
        /\ Raise("Cancelled") /\ UNCHANGED <<round, turn>>
     \/ /\ round = MaxModelRounds
        /\ Raise("Failed") /\ UNCHANGED <<round, turn>>
  /\ UNCHANGED <<unknown, ledger, batch>>

Connect ==
  /\ At("connect")
  /\ \/ Then("stream", <<>>)
     \/ \E class \in ProviderFailure : CloseFailed(StreamSlot, class)
  /\ UNCHANGED <<phase, round, turn, unknown, ledger, batch, result>>

\* ensure_active before each wait for a chunk leaves the effect open.
AwaitChunk ==
  /\ At("stream")
  /\ \/ ~cancelled /\ Then("chunk", <<>>) /\ UNCHANGED <<phase, result>>
     \/ cancelled /\ Raise("Cancelled")
  /\ UNCHANGED <<round, turn, unknown, ledger, batch>>

\* Mutant: chunks without text are not counted.
Uncounted(new) == [turn EXCEPT !.calls = @ + new]

\* A chunk without visible text begins a call, continues one, or is the end mark.
Fragment(new) == [turn EXCEPT !.chunks = @ + 1, !.calls = @ + new]

\* A chunk with visible text is recorded; fragments of calls only accumulate.
ChunkArrives ==
  /\ At("chunk") /\ turn.chunks < MaxChunks
  /\ \/ \E text \in {"blank", "prose"} :
          /\ turn' = [turn EXCEPT !.chunks = @ + 1,
                                 !.text = IF @ = "prose" THEN @ ELSE text]
          /\ Then("stream", <<Record("TextDelta")>>)
     \/ /\ \E new \in {0, 1} : turn.calls + new <= MaxCalls /\ turn' = Fragment(new)
        /\ Then("stream", <<>>)
  /\ UNCHANGED <<phase, round, unknown, ledger, batch, result>>

\* Error frames, idle timeouts, cancellation, and every limit of the stream.
StreamFails ==
  /\ At("chunk")
  /\ \E class \in ProviderFailure : CloseFailed(StreamSlot, class)
  /\ UNCHANGED <<phase, round, turn, unknown, ledger, batch, result>>

\* The tools a round offers to the model: once the research budget is spent,
\* those that retrieve are withdrawn.
Offered(r) ==
  IF r > MaxResearchRounds THEN Registered \ {"retrieve"} ELSE Registered

\* A turn without text and without calls is requested again, a few times.
EmptyTurn ==
  /\ At("chunk") /\ turn.text # "prose" /\ turn.calls = 0
  /\ turn' = [NewTurn EXCEPT !.empty = turn.empty + 1]
  /\ Then("connect",
          <<Complete(StreamSlot, "failed", "empty"), Record("ModelTurnEmpty"),
            IF turn.empty + 1 > MaxEmptyTurnRetries THEN Return("Failed") ELSE Begin(StreamSlot)>>)
  /\ UNCHANGED <<phase, round, unknown, ledger, batch, result>>

CallTurn ==
  /\ At("chunk") /\ turn.calls > 0
  /\ \E calls \in [1..turn.calls -> Tool] : batch' = [EmptyBatch EXCEPT !.calls = calls]
  /\ turn' = NewTurn /\ phase' = "AwaitingTools"
  /\ Then("prepare", <<Complete(StreamSlot, "succeeded", "ok")>>)
  /\ UNCHANGED <<round, unknown, ledger, result>>

TextTurn ==
  /\ At("chunk") /\ turn.text = "prose" /\ turn.calls = 0
  /\ turn' = NewTurn
  /\ Then("answer", <<Complete(StreamSlot, "succeeded", "ok")>>)
  /\ UNCHANGED <<phase, round, unknown, ledger, batch, result>>

\* FinalizationLedger::record_rejection: the third submission of one draft, or
\* the last permitted attempt, exhausts the ledger.
Exhausts(d) ==
  \/ ledger.seen[d] + 1 > 2
  \/ ledger.attempts + 1 >= MaxFinalizationAttempts

Reject(d) == ledger' = [attempts |-> ledger.attempts + 1,
                        seen |-> [ledger.seen EXCEPT ![d] = @ + 1]]

\* Mutant: any answer is a report.
EveryAnswer == TRUE

ProseIsReport == ~VerifyReports

\* Prose is a report only where reports need no verification.
Answer ==
  /\ At("answer")
  /\ \/ /\ ProseIsReport
        /\ phase' = "Completed" /\ Then("finish", <<Record("Completed")>>)
        /\ UNCHANGED <<ledger, result>>
     \/ /\ VerifyReports
        /\ \E p \in Prose :
             /\ Reject(p)
             /\ \/ Exhausts(p) /\ Raise("Failed")
                \/ /\ ~Exhausts(p)
                   /\ phase' = "Reviewing" /\ Then("round", <<>>) /\ UNCHANGED result
  /\ UNCHANGED <<round, turn, unknown, batch>>

\* Mutant: the call starts without a stored intent.
StartedAtOnce(i) == <<RecordCall("ToolScheduled", i), RecordCall("ToolStarted", i)>>
\* Mutant: a call counts as completed once it has started.
StartedIsCompleted(i) ==
  <<RecordCall("ToolScheduled", i), Begin(CallSlot(i)), RecordCall("ToolStarted", i), Keep(i)>>

Opened(i) == <<RecordCall("ToolScheduled", i), Begin(CallSlot(i)), RecordCall("ToolStarted", i)>>

\* execute_tools, first part, one call after the other: an unregistered name
\* and unparsable arguments are answered at once, everything else is opened.
PrepareCall ==
  /\ At("prepare") /\ batch.next <= Len(batch.calls)
  /\ LET i    == batch.next
         tool == batch.calls[i]
         Answered ==
           /\ batch' = [batch EXCEPT !.next = i + 1, !.done = @ \cup {i}]
           /\ Then("prepare", <<RecordCall("ToolFailed", i)>>)
           /\ UNCHANGED <<phase, result>>
     IN \/ /\ tool = "unregistered"
           /\ unknown' = unknown + 1
           /\ \/ unknown' > MaxUnknownToolRejections /\ Raise("Failed") /\ UNCHANGED batch
              \/ unknown' <= MaxUnknownToolRejections /\ Answered
        \/ tool = "malformed" /\ Answered /\ UNCHANGED unknown
        \/ /\ tool \in Registered
           /\ batch' = [batch EXCEPT !.next = i + 1, !.open = @ \cup {i}]
           /\ Then("prepare", Opened(i))
           /\ UNCHANGED <<phase, unknown, result>>
  /\ UNCHANGED <<round, turn, ledger>>

Prepared ==
  /\ At("prepare") /\ batch.next > Len(batch.calls)
  /\ Then("collect", <<>>)
  /\ UNCHANGED <<phase, round, turn, unknown, ledger, batch, result>>

OpenEngineCalls == {i \in batch.open : batch.calls[i] \in EngineTool}

\* buffer_unordered runs the first few that have not been collected.
Running == {i \in OpenEngineCalls :
              Cardinality({j \in OpenEngineCalls : j < i}) < MaxParallelTools}

TakenOut(i) == [batch EXCEPT !.open = @ \ {i}, !.done = @ \cup {i}]

\* Mutant: the failure is announced before it is stored.
AnnouncedEarly(i) == <<RecordCall("ToolFailed", i), Complete(CallSlot(i), "failed", "error")>>

CallFailed(i) == <<Complete(CallSlot(i), "failed", "error"), RecordCall("ToolFailed", i)>>

\* A running call ends: with a result, with or without evidence, or with an
\* error, a timeout or an oversized result.
ToolReturns ==
  /\ At("collect")
  /\ \E i \in Running :
       \/ cancelled /\ Raise("Cancelled") /\ UNCHANGED batch
       \/ /\ ~cancelled
          /\ batch' = TakenOut(i)
          /\ \/ Then("collect", <<Complete(CallSlot(i), "succeeded", "ok"),
                                   RecordCall("ToolCompleted", i), Keep(i)>>)
             \/ Then("collect", <<Complete(CallSlot(i), "succeeded", "ok"),
                                   RecordCall("ToolCompleted", i), RecordCall("EvidenceAdded", i), Keep(i)>>)
             \/ Then("collect", CallFailed(i))
          /\ UNCHANGED <<phase, result>>
  /\ UNCHANGED <<round, turn, unknown, ledger>>

\* The messages answered so far, in call order.
Sorted(S) == CHOOSE s \in [1..Cardinality(S) -> S] :
               \A m, n \in 1..Cardinality(S) : m < n => s[m] < s[n]

Collected ==
  /\ At("collect") /\ OpenEngineCalls = {}
  /\ batch' = [batch EXCEPT !.messages = Sorted(batch.done)]
  /\ Then("serve", <<>>)
  /\ UNCHANGED <<phase, round, turn, unknown, ledger, result>>

\* The runtime's own tools, in call order, after all others.
IsServed(i) == i \in batch.open /\ \A j \in batch.open : i <= j

\* Mutant: an exhausted ledger is not remembered.
ServedAgain(i, exhausted) == [TakenOut(i) EXCEPT !.messages = Append(@, i)]
\* Mutant: a draft that exhausts the ledger is not answered.
ServedSilently(i, exhausted) ==
  [TakenOut(i) EXCEPT !.messages = IF exhausted THEN @ ELSE Append(@, i),
                      !.exhausted = @ \/ exhausted]

Served(i, exhausted) ==
  [TakenOut(i) EXCEPT !.messages = Append(@, i), !.exhausted = @ \/ exhausted]

SearchEvidence ==
  /\ At("serve") /\ ~cancelled
  /\ \E i \in batch.open :
       /\ IsServed(i) /\ batch.calls[i] = "search_evidence"
       /\ batch' = Served(i, FALSE)
       /\ Then("serve", <<Complete(CallSlot(i), "succeeded", "ok"), RecordCall("ToolCompleted", i)>>)
  /\ UNCHANGED <<phase, round, turn, unknown, ledger, result>>

\* A draft is refused: by its schema, by the report contract, or by the
\* verifier.  The rest of the batch is still served.
Refuse(i, d, writes) ==
  /\ Reject(d)
  /\ batch' = Served(i, Exhausts(d))
  /\ Then("serve", writes \o <<Complete(CallSlot(i), "failed", "refused"), RecordCall("ToolFailed", i)>>)

SubmitReport ==
  /\ At("serve") /\ ~cancelled
  /\ \E i \in batch.open, d \in Draft :
       /\ IsServed(i) /\ batch.calls[i] = "submit_report"
       /\ \/ /\ d \in Undecodable
             /\ Refuse(i, d, <<>>) /\ UNCHANGED phase
          \/ /\ d \notin Undecodable
             /\ Refuse(i, d, <<Record("VerificationFinding")>>) /\ UNCHANGED phase
          \/ /\ d \notin Undecodable
             /\ batch' = [batch EXCEPT !.draft = d]
             /\ phase' = "Verifying"
             /\ Then("verify", <<Record("VerificationStarted"), Begin(VerifySlot)>>)
             /\ UNCHANGED ledger
  /\ UNCHANGED <<round, turn, unknown, result>>

\* The verifier answers, or fails: by an error, by its deadline, or because the
\* cancellation reached it.
VerifierAnswers ==
  /\ At("verify")
  /\ \E i \in batch.open :
       /\ IsServed(i)
       /\ \/ /\ Then("publish", <<Complete(VerifySlot, "succeeded", "passed"),
                                 Complete(CallSlot(i), "succeeded", "published"),
                                 RecordCall("ToolCompleted", i)>>)
             /\ UNCHANGED <<ledger, batch>>
          \/ \E findings \in {<<>>, <<Record("VerificationFinding")>>} :
               Refuse(i, batch.draft, <<Complete(VerifySlot, "succeeded", "refused")>> \o findings)
          \/ CloseFailed(VerifySlot, "Failed") /\ UNCHANGED <<ledger, batch>>
  /\ UNCHANGED <<phase, round, turn, unknown, result>>

\* Mutant: the loop goes on after the publication.
PublishAndContinue ==
  /\ At("publish")
  /\ phase' = "Completed" /\ Then("round", <<Record("Completed")>>)
  /\ UNCHANGED <<round, turn, unknown, ledger, batch, result>>

\* Publication ends the batch; calls after the published one are left open.
Publish ==
  /\ At("publish")
  /\ phase' = "Completed" /\ Then("finish", <<Record("Completed")>>)
  /\ UNCHANGED <<round, turn, unknown, ledger, batch, result>>

\* ensure_active before each call of the runtime's own.
ServeCancelled ==
  /\ At("serve") /\ batch.open # {} /\ cancelled
  /\ Raise("Cancelled")
  /\ UNCHANGED <<round, turn, unknown, ledger, batch>>

BatchEnds ==
  /\ At("serve") /\ batch.open = {}
  /\ \/ batch.exhausted /\ Raise("Failed")
     \/ ~batch.exhausted /\ Then("round", <<>>) /\ UNCHANGED <<phase, result>>
  /\ UNCHANGED <<round, turn, unknown, ledger, batch>>

Finish ==
  /\ At("finish") \/ At("stopping")
  /\ result' = IF pc = "finish" THEN "ok" ELSE result
  /\ Then("ended", <<>>)
  /\ UNCHANGED <<phase, round, turn, unknown, ledger, batch>>

Decide ==
  /\ \/ CreateTask \/ Plan \/ SelectModel \/ StartRound \/ Connect
     \/ AwaitChunk \/ ChunkArrives \/ StreamFails
     \/ EmptyTurn \/ CallTurn \/ TextTurn \/ Answer
     \/ PrepareCall \/ Prepared \/ ToolReturns \/ Collected
     \/ SearchEvidence \/ SubmitReport \/ VerifierAnswers \/ Publish
     \/ ServeCancelled \/ BatchEnds \/ Finish
  /\ UNCHANGED <<durable, seq, ids, completed, stream, faults>>

-----------------------------------------------------------------------------
(***************************************************************************)
(* The client.  Dropping a TaskStream first cancels the task and then      *)
(* closes the channel.                                                     *)
(***************************************************************************)
Recv ==
  /\ open /\ unread > 0
  /\ unread' = unread - 1
  /\ UNCHANGED <<durable, pc, todo, stage, memory, sent, open, cancelled, faults>>

Cancel ==
  /\ MayCancel /\ open /\ ~cancelled
  /\ cancelled' = TRUE
  /\ UNCHANGED <<durable, pc, todo, stage, memory, unread, sent, open, faults>>

Close ==
  /\ MayClose /\ open /\ cancelled
  /\ open' = FALSE /\ unread' = 0
  /\ UNCHANGED <<durable, pc, todo, stage, memory, sent, cancelled, faults>>

\* Nothing is left to do.
Ended == pc = "ended" /\ UNCHANGED vars

Runtime == Perform \/ Decide

Next == Runtime \/ Recv \/ Cancel \/ Close \/ Ended

Spec == Init /\ [][Next]_vars

\* The executor polls the task, every wait of the task but the store's and the
\* channel's has a deadline, the Engine answers the store's, and the client
\* keeps receiving (TaskStream::finish and every front end drain the stream).
FairSpec == Spec /\ WF_vars(Runtime) /\ WF_vars(Recv)

-----------------------------------------------------------------------------
Slot == ((Tool \cup {"provider.model.select", "provider.stream", "report.verify", "none"})
           \X (0..MaxCalls))
Phase == {"Preparing", "Planning", "Reasoning", "AwaitingTools", "Reviewing", "Verifying"}
           \cup Terminal
CallEvent == {"ToolScheduled", "ToolStarted", "ToolCompleted", "ToolFailed", "EvidenceAdded"}
EventKind == CallEvent \cup Terminal \cup
  {"SessionStarted", "UserMessageAccepted", "PlanningStarted", "PlanUpdated", "ModelStarted",
   "TextDelta", "ModelTurnEmpty", "VerificationStarted", "VerificationFinding"}
EventRow  == [kind : EventKind, slot : Slot, round : 0..MaxModelRounds]
EffectKey == Nat \X {s[1] : s \in Slot}
EffectRow == [slot : Slot, round : 0..MaxModelRounds, status : {"pending", "succeeded", "failed"},
              value : {"none", "ok", "error", "empty", "refused", "passed", "published"}]

TypeOK ==
  /\ log \in Seq(EventRow)
  /\ checkpoint \in [phase : Phase, acceptedSeq : Nat, round : 0..MaxModelRounds,
                     tools : SUBSET ((0..MaxModelRounds) \X Slot)]
  /\ DOMAIN effects \subseteq EffectKey
  /\ \A k \in DOMAIN effects : effects[k] \in EffectRow
  /\ DOMAIN ids \subseteq Slot /\ \A s \in DOMAIN ids : ids[s] \in DOMAIN effects
  /\ stage \in {"append", "checkpoint", "send"} /\ (todo = <<>> => stage = "append")
  /\ seq \in Nat /\ phase \in Phase /\ round \in 0..MaxModelRounds
  /\ batch.open \cup batch.done \subseteq 1..Len(batch.calls)
  /\ unread \in 0..ChannelCapacity /\ sent \in 0..seq
  /\ completed \subseteq (0..MaxModelRounds) \X Slot
  /\ result \in {"running", "ok", "rejected"} \cup Terminal

\* What the client has been sent can be read back after a crash at any moment:
\* the event is in the log and a checkpoint accepts it, and no checkpoint runs
\* ahead of the log (record's order: append, checkpoint, send).
DeliveredIsDurable == sent <= checkpoint.acceptedSeq /\ checkpoint.acceptedSeq <= Len(log)

Logged(kind, slot, r) == \E n \in 1..Len(log) : log[n] = Event(kind, slot, r)

\* The stored effect of a call, a provider request or a verification.
StoredAs(slot, r, statuses) ==
  \E k \in DOMAIN effects : /\ effects[k].slot = slot /\ effects[k].round = r
                           /\ effects[k].status \in statuses

\* Work outside the task is only under way while its intent is stored and
\* pending: the request being waited for, every call of the batch that may be
\* running, and the verification.
IntentFirst ==
  LET Underway == CASE At("select") -> {SelectSlot}
                    [] pc \in {"connect", "stream", "chunk"} /\ todo = <<>> -> {StreamSlot}
                    [] At("collect") \/ At("serve") -> {CallSlot(i) : i \in batch.open}
                    [] At("verify") -> {VerifySlot} \cup {CallSlot(i) : i \in batch.open}
                    [] OTHER -> {}
  IN \A slot \in Underway : slot \in DOMAIN ids /\ effects[ids[slot]].status = "pending"

\* The log never says more than the effect table: a started call has an effect,
\* a completed one has its result stored and a failed one its failure.  Nor does
\* the checkpoint say more than the log it accepts: a tool it names as completed
\* is completed there.
OutcomeFirst ==
  /\ \A n \in 1..Len(log) :
       LET e == log[n] IN
       /\ e.kind = "ToolStarted" => StoredAs(e.slot, e.round, {"pending", "succeeded", "failed"})
       /\ e.kind = "ToolCompleted" => StoredAs(e.slot, e.round, {"succeeded"})
       /\ e.kind = "ToolFailed" /\ Logged("ToolScheduled", e.slot, e.round)
            => StoredAs(e.slot, e.round, {"failed"})
       /\ e.kind = "ModelTurnEmpty" => StoredAs(StreamSlot, e.round, {"failed"})
  /\ \A t \in checkpoint.tools :
       \E n \in 1..checkpoint.acceptedSeq : log[n] = Event("ToolCompleted", t[2], t[1])

\* As long as the store works, it never refuses what the runtime asks for: the
\* next event takes the next number and every idempotency key is new, although
\* keys are made of numbers that other effects of the same kind also saw.
StoreNeverRefuses ==
  faults = 0 =>
    /\ Doing("record") /\ stage = "append" => NextInLog(seq + 1)
    /\ Doing("begin") => Key(Head(todo).slot) \notin DOMAIN effects

\* A completed task has a report that the verifier passed on its canonical form
\* and a submission that was closed as published (finalize_report).
PublishedOnlyVerified ==
  VerifyReports /\ (\E n \in 1..Len(log) : log[n].kind = "Completed") =>
    \E k, m \in DOMAIN effects : /\ effects[k].slot = VerifySlot /\ effects[k].value = "passed"
                                /\ effects[m].value = "published"
                                /\ effects[m].slot[1] = "submit_report"
                                /\ effects[m].round = effects[k].round

ByRuntime(i) == batch.calls[i] \in RuntimeTool

\* When a batch is done, every call the model made has exactly one message and
\* exactly one outcome in the log, the refused and rejected ones included, and
\* the messages are in call order, those of the runtime's own tools last.
EveryCallAnswered ==
  At("serve") /\ batch.open = {} =>
    /\ \A m, n \in 1..Len(batch.messages) :
         m < n => \/ batch.messages[m] < batch.messages[n]
                  \/ ByRuntime(batch.messages[n]) /\ ~ByRuntime(batch.messages[m])
    /\ \A i \in 1..Len(batch.calls) :
         /\ Cardinality({m \in 1..Len(batch.messages) : batch.messages[m] = i}) = 1
         /\ Cardinality({n \in 1..Len(log) : /\ log[n].kind \in {"ToolCompleted", "ToolFailed"}
                                            /\ log[n].slot = CallSlot(i)
                                            /\ log[n].round = round}) = 1

\* While the store works, a task that was created ends with its outcome as the
\* last event of the log and in a checkpoint that accepts the whole log; and as
\* long as the client listens, no event follows a terminal one.
OutcomeIsStored ==
  faults = 0 =>
    /\ pc = "ended" /\ result # "rejected" =>
         LET outcome == IF result = "ok" THEN "Completed" ELSE result
         IN /\ log[Len(log)].kind = outcome
            /\ checkpoint.phase = outcome /\ checkpoint.acceptedSeq = Len(log)
    /\ open => \A n \in 1..(Len(log) - 1) : log[n].kind \notin Terminal

\* How a task ended is stored, and a completed one has a verified report, whatever
\* the client does meanwhile (execute_task, finalize_report).
OutcomesAreSound == OutcomeIsStored /\ PublishedOnlyVerified

Open == {k \in DOMAIN effects : effects[k].status = "pending"}

\* Which effects a task may leave pending when it ends by itself: none when it
\* is suspended; calls of the last batch when it fails; and when it completes,
\* only calls behind the published submission that were never served.
EffectsSettled ==
  pc = "ended" /\ faults = 0 =>
    /\ result = "Suspended" => Open = {}
    /\ result = "Failed" => \A k \in Open : effects[k].round = round /\ effects[k].slot[1] \in Registered
    /\ result = "ok" => \A k \in Open :
         /\ effects[k].round = round /\ effects[k].slot[1] \in RuntimeTool
         /\ \E m \in DOMAIN effects : /\ effects[m].value = "published"
                                      /\ effects[m].slot[2] < effects[k].slot[2]

\* The order a recovery relies on: intent, work, stored outcome, event,
\* checkpoint (begin_effect, finish_effect, record); and when the task ended by
\* itself, no more is open than that.
EffectsInOrder == IntentFirst /\ OutcomeFirst /\ EffectsSettled

Exhausted == \/ ledger.attempts >= MaxFinalizationAttempts
             \/ \E d \in DOMAIN ledger.seen : ledger.seen[d] > 2

\* Once the finalization budget is spent or a draft came a third time, no
\* further round is asked of the model.
NoRoundAfterExhaustion == [][VerifyReports /\ Exhausted => round' = round]_vars

\* Seen through the store the task is a DurableTask.
Journal == INSTANCE DurableTask
           WITH accepted <- checkpoint.acceptedSeq,
                effects <- [k \in DOMAIN effects |-> effects[k].status]

\* Whatever is cancelled, dropped or fails, the stored task grows only at the
\* end of its log, its checkpoint only forward inside it, and every effect is
\* opened once and closed once.
ImplementsDurableTask == Journal!Spec

\* Every task ends, and for good (Ended).
Terminates == []<>(pc = "ended")

-----------------------------------------------------------------------------
(***************************************************************************)
(* What the documentation says and the code does not do: each of these is  *)
(* violated by a run of its own.                                           *)
(***************************************************************************)
\* Once a submission has exhausted the budget, nothing is published, a later
\* submission of the same batch included (execute_tools goes on serving).
ExhaustedNeverPublishes ==
  ~(batch.exhausted /\ \E n \in 1..Len(log) : log[n].kind = "Completed")

\* Nothing is recorded after a task has been completed, cancelled or failed,
\* even when the client drops the stream before it received that event.
TerminalAbsorbing ==
  \A n \in 1..(Len(log) - 1) : log[n].kind \notin {"Completed", "Cancelled", "Failed"}

\* A tool that the round did not offer is not executed.
WithdrawnToolsNotExecuted ==
  \A n \in 1..Len(log) : log[n].kind = "ToolStarted" => log[n].slot[1] \in Offered(log[n].round)

\* One failed append does not keep the task from recording how it ended.
EveryExitIsTerminal ==
  pc = "ended" /\ result # "rejected" => log # <<>> /\ log[Len(log)].kind \in Terminal
=============================================================================
