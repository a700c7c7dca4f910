-------------------------- MODULE AgentTaskProofs ---------------------------
(***************************************************************************)
(* Proofs about AgentTask, for every budget, every set of tools and drafts *)
(* and any number of store failures.                                       *)
(*                                                                         *)
(* DeliveredIsDurable is not inductive: a send may only advance `sent`     *)
(* because the checkpoint of the same event has been put, and a checkpoint *)
(* may only accept the number because its append has been carried out.     *)
(* DInv adds what each stage of a record has established.                  *)
(*                                                                         *)
(* No other property is either, because what justifies a step was decided  *)
(* several writes earlier and sits in `todo`.  So each invariant speaks of *)
(* the writes that are left as well as of what is stored:                  *)
(*   Typed       types, of the writes and the batch too;                   *)
(*   WorkInv     what is open, less what is going to be closed, plus what  *)
(*               is going to be opened, is what the place needs;           *)
(*   Fresh       a key is made of a number no other effect of the kind     *)
(*               has, since every begin follows a record;                  *)
(*   OutcomeInv  an event is backed by an outcome that is stored, or by    *)
(*               the write in front of it that stores it;                  *)
(*   Shapes      a terminal event is the only write left, an error is      *)
(*               returned by the last one;                                 *)
(*   EndStored, NoneAfter   the end of a task whose store works;           *)
(*   Published   the verdict and the publication behind a completion;      *)
(*   Settled     the pending effects are those the runtime holds;          *)
(*   NotSpent    where the task can be once its budget is spent;           *)
(*   AnswersKept, LogKept   the messages of the calls done so far, and the *)
(*               outcome that is in the log or on its way to it.           *)
(***************************************************************************)
EXTENDS AgentTask, SequenceTheorems, FiniteSetTheorems, WellFoundedInduction, TLAPS

\* The log is a finite sequence, of whatever events.
LogIsSequence == \E S : log \in Seq(S)

\* What the stages of `record` have established so far.
StagesEstablish ==
  /\ stage \in {"append", "checkpoint", "send"}
  /\ stage = "checkpoint" => seq = Len(log)
  /\ stage = "send" => checkpoint.acceptedSeq = seq

NumbersAreNatural == seq \in Nat /\ sent \in Nat /\ checkpoint.acceptedSeq \in Nat

DInv ==
  /\ LogIsSequence
  /\ NumbersAreNatural
  /\ StagesEstablish
  /\ DeliveredIsDurable

-----------------------------------------------------------------------------
\* The steps that neither append, nor put a checkpoint, nor send leave the
\* three numbers alone, and a record they interrupt starts afresh.
Elsewhere ==
  /\ UNCHANGED <<log, checkpoint, seq, sent>>
  /\ stage' \in {stage, "append"}

LEMMA ElsewhereDInv ==
  ASSUME DInv, Elsewhere
  PROVE  DInv'
BY DEF DInv, LogIsSequence, NumbersAreNatural, StagesEstablish, DeliveredIsDurable, Elsewhere

\* Appending one event keeps the log a sequence and makes it longer by one.
LEMMA AppendedLog ==
  ASSUME LogIsSequence, NEW e, log' = Append(log, e)
  PROVE  /\ LogIsSequence'
         /\ Len(log) \in Nat /\ Len(log') = Len(log) + 1
<1>1. PICK S : log \in Seq(S)
  BY DEF LogIsSequence
<1>2. log \in Seq(S \cup {e}) /\ e \in S \cup {e}
  BY <1>1
<1>3. log' \in Seq(S \cup {e}) /\ Len(log') = Len(log) + 1 /\ Len(log) \in Nat
  BY <1>2, AppendProperties
<1> QED
  BY <1>3 DEF LogIsSequence

-----------------------------------------------------------------------------
LEMMA InitDInv == Init => DInv
<1> SUFFICES ASSUME Init PROVE DInv
  OBVIOUS
<1>1. log = <<>> /\ <<>> \in Seq({}) /\ Len(log) = 0
  BY DEF Init
<1>2. seq = 0 /\ sent = 0 /\ checkpoint.acceptedSeq = 0 /\ stage = "append"
  BY DEF Init
<1> QED
  BY <1>1, <1>2 DEF DInv, LogIsSequence, NumbersAreNatural, StagesEstablish, DeliveredIsDurable

\* record, first part: only an append that was carried out leads to the
\* checkpoint, and then the number is that of the last event.
LEMMA AppendEventDInv ==
  ASSUME DInv, AppendEvent
  PROVE  DInv'
<1>1. UNCHANGED <<checkpoint, sent>> /\ seq' = seq + 1
  BY DEF AppendEvent, stream
<1>2. CASE UNCHANGED log /\ stage' = "append"
  BY <1>1, <1>2 DEF DInv, LogIsSequence, NumbersAreNatural, StagesEstablish, DeliveredIsDurable
<1>3. CASE /\ log' = Append(log, Head(todo).event)
           /\ NextInLog(seq')
           /\ stage' \in {"append", "checkpoint"}
  <2>1. LogIsSequence' /\ Len(log) \in Nat /\ Len(log') = Len(log) + 1
    BY <1>3, AppendedLog DEF DInv
  <2>2. seq' = Len(log')
    BY <1>3, <2>1 DEF NextInLog
  <2> QED
    BY <1>1, <1>3, <2>1, <2>2
       DEF DInv, NumbersAreNatural, StagesEstablish, DeliveredIsDurable
<1> QED
  BY <1>2, <1>3 DEF AppendEvent, AfterAppend, Fault, Refused, Raise

\* record, second part: the checkpoint accepts the number just appended.
LEMMA PutCheckpointDInv ==
  ASSUME DInv, PutCheckpoint
  PROVE  DInv'
<1>1. stage = "checkpoint" /\ UNCHANGED <<log, seq, sent>>
  BY DEF PutCheckpoint, stream
<1>2. CASE UNCHANGED checkpoint /\ stage' = "append"
  BY <1>1, <1>2, ElsewhereDInv DEF Elsewhere
<1>3. CASE checkpoint'.acceptedSeq = seq /\ stage' \in {"append", "send"}
  <2>1. checkpoint'.acceptedSeq = Len(log') /\ checkpoint'.acceptedSeq = seq'
    BY <1>1, <1>3 DEF DInv, StagesEstablish
  <2>2. sent' <= checkpoint'.acceptedSeq
    BY <1>1, <2>1 DEF DInv, NumbersAreNatural, StagesEstablish, DeliveredIsDurable
  <2> QED
    BY <1>1, <1>3, <2>1, <2>2
       DEF DInv, LogIsSequence, NumbersAreNatural, StagesEstablish, DeliveredIsDurable
<1> QED
  BY <1>2, <1>3 DEF PutCheckpoint, Fault, Raise

\* record, last part: only an accepted number is sent.
LEMMA SendDInv ==
  ASSUME DInv, Send
  PROVE  DInv'
<1>1. stage = "send" /\ stage' = "append" /\ UNCHANGED <<log, checkpoint, seq>>
  BY DEF Send, Raise, Advance, durable
<1>2. sent' = seq \/ sent' = sent
  BY DEF Send
<1> QED
  BY <1>1, <1>2
     DEF DInv, LogIsSequence, NumbersAreNatural, StagesEstablish, DeliveredIsDurable

\* The other writes and every decision happen elsewhere.
LEMMA OtherWrites ==
  ASSUME BeginEffect \/ CompleteEffect \/ KeepCompleted \/ ReturnError
  PROVE  Elsewhere
BY DEF BeginEffect, CompleteEffect, KeepCompleted, ReturnError, Advance, Fault, Refused, Raise,
       Elsewhere, stream, durable

LEMMA OpeningDecisions ==
  ASSUME CreateTask \/ Plan \/ SelectModel \/ StartRound \/ Connect \/ Finish
  PROVE  stage' \in {stage, "append"}
BY DEF CreateTask, Plan, SelectModel, StartRound, Connect, Finish, Then, Raise, CloseFailed

LEMMA StreamDecisions ==
  ASSUME \/ AwaitChunk \/ ChunkArrives \/ StreamFails
         \/ EmptyTurn \/ CallTurn \/ TextTurn \/ Answer
  PROVE  stage' \in {stage, "append"}
BY DEF AwaitChunk, ChunkArrives, StreamFails, EmptyTurn, CallTurn, TextTurn, Answer,
       Then, Raise, CloseFailed

LEMMA BatchDecisions ==
  ASSUME \/ PrepareCall \/ Prepared \/ ToolReturns \/ Collected
         \/ SearchEvidence \/ SubmitReport \/ VerifierAnswers \/ Publish
         \/ ServeCancelled \/ BatchEnds
  PROVE  stage' \in {stage, "append"}
BY DEF PrepareCall, Prepared, ToolReturns, Collected, SearchEvidence, SubmitReport,
       VerifierAnswers, Publish, ServeCancelled, BatchEnds, Then, Raise, CloseFailed, Refuse

LEMMA Decisions ==
  ASSUME Decide
  PROVE  Elsewhere
<1>1. UNCHANGED <<log, checkpoint, seq, sent>>
  BY DEF Decide, durable, stream
<1>2. stage' \in {stage, "append"}
  BY OpeningDecisions, StreamDecisions, BatchDecisions DEF Decide
<1> QED
  BY <1>1, <1>2 DEF Elsewhere

\* The client only takes events out of the channel.
LEMMA ClientSteps ==
  ASSUME Recv \/ Cancel \/ Close \/ Ended \/ UNCHANGED vars
  PROVE  Elsewhere
BY DEF Recv, Cancel, Close, Ended, Elsewhere, vars, durable, memory, stream

LEMMA NextDInv ==
  ASSUME DInv, [Next]_vars
  PROVE  DInv'
<1>1. CASE AppendEvent
  BY <1>1, AppendEventDInv
<1>2. CASE PutCheckpoint
  BY <1>2, PutCheckpointDInv
<1>3. CASE Send
  BY <1>3, SendDInv
<1>4. CASE BeginEffect \/ CompleteEffect \/ KeepCompleted \/ ReturnError
  BY <1>4, OtherWrites, ElsewhereDInv
<1>5. CASE Decide
  BY <1>5, Decisions, ElsewhereDInv
<1>6. CASE Recv \/ Cancel \/ Close \/ Ended \/ UNCHANGED vars
  BY <1>6, ClientSteps, ElsewhereDInv
<1> QED
  BY <1>1, <1>2, <1>3, <1>4, <1>5, <1>6 DEF Next, Runtime, Perform

\* Whatever was sent to the client is in the log and accepted by a checkpoint,
\* at every moment of every run: after a crash, a cancellation, a dropped
\* stream or a failed store call, the database is never behind the client.
THEOREM SpecDeliveredIsDurable == Spec => []DeliveredIsDurable
<1>1. DInv => DeliveredIsDurable
  BY DEF DInv
<1> QED
  BY InitDInv, NextDInv, <1>1, PTL DEF Spec
-----------------------------------------------------------------------------
\* The type of the writes, and of what TypeOK leaves open.
Stop  == {"Cancelled", "Suspended", "Failed"}
Value == {"none", "ok", "error", "empty", "refused", "passed", "published"}

RecordWrite   == [op : {"record"}, event : EventRow]
BeginWrite    == [op : {"begin"}, slot : Slot]
CompleteWrite == [op : {"complete"}, slot : Slot, status : {"succeeded", "failed"}, value : Value]
KeepWrite     == [op : {"keep"}, slot : Slot]
ReturnWrite   == [op : {"return"}, class : Stop]
Write == RecordWrite \cup BeginWrite \cup CompleteWrite \cup KeepWrite \cup ReturnWrite

Place == {"create", "plan", "select", "round", "connect", "stream", "chunk", "answer", "prepare",
          "collect", "serve", "verify", "publish", "finish", "stopping", "ended"}
Turn  == [text : {"none", "blank", "prose"}, calls : 0..MaxCalls, chunks : Nat, empty : Nat]
Batch(M) == [calls : Seq(Tool), next : Nat \ {0}, open : SUBSET Nat, done : SUBSET Nat,
             messages : M, exhausted : BOOLEAN, draft : Draft \cup {NoSlot}]

\* A batch, whatever its messages are.
BatchTyped == (\E M : batch \in Batch(M)) /\ Len(batch.calls) <= MaxCalls

RunTyped ==
  /\ pc \in Place /\ todo \in Seq(Write) /\ turn \in Turn
  /\ BatchTyped
  /\ batch.open \cup batch.done \subseteq 1..(batch.next - 1)
  /\ batch.next <= Len(batch.calls) + 1

Typed == TypeOK /\ RunTyped

\* The fields of a write tell which it is.
LEMMA WriteFields ==
  ASSUME NEW w \in Write
  PROVE  /\ w.op \in {"record", "begin", "complete", "keep", "return"}
         /\ w.op = "record" => w.event \in EventRow
         /\ w.op = "begin" => w.slot \in Slot
         /\ w.op = "complete" => w.slot \in Slot /\ w.status \in {"succeeded", "failed"} /\ w.value \in Value
         /\ w.op = "keep" => w.slot \in Slot
         /\ w.op = "return" => w.class \in Stop
BY DEF Write, RecordWrite, BeginWrite, CompleteWrite, KeepWrite, ReturnWrite

\* The slots of provider requests and of the verification.
LEMMA FixedSlots == {SelectSlot, StreamSlot, VerifySlot, NoSlot} \subseteq Slot
BY BoundsAssumption DEF SelectSlot, StreamSlot, VerifySlot, NoSlot, Slot

LEMMA CallSlots ==
  ASSUME BatchTyped, NEW i \in 1..Len(batch.calls)
  PROVE  CallSlot(i) \in Slot /\ CallSlot(i)[1] = batch.calls[i] /\ CallSlot(i)[2] = i
<1>1. PICK M : batch \in Batch(M)
  BY DEF BatchTyped
<1>2. batch.calls \in Seq(Tool) /\ Len(batch.calls) \in Nat
  BY <1>1 DEF Batch
<1>3. batch.calls[i] \in Tool
  BY <1>2, ElementOfSeq
<1>4. i \in 0..MaxCalls
  BY <1>2, BoundsAssumption DEF BatchTyped
<1> QED
  BY <1>3, <1>4 DEF CallSlot, Slot

LEMMA RecordTyped ==
  ASSUME NEW r \in 0..MaxModelRounds, NEW k \in EventKind, NEW s \in Slot
  PROVE  [op |-> "record", event |-> Event(k, s, r)] \in Write
BY DEF Event, EventRow, Write, RecordWrite

LEMMA WritesTyped ==
  ASSUME Typed
  PROVE  /\ \A k \in EventKind : Record(k) \in Write
         /\ \A s \in Slot : Begin(s) \in Write
         /\ \A s \in Slot, status \in {"succeeded", "failed"}, v \in Value :
              Complete(s, status, v) \in Write
         /\ \A class \in Stop : Return(class) \in Write
<1>1. \A k \in EventKind : Record(k) \in Write
  BY RecordTyped, FixedSlots DEF Record, Typed, TypeOK
<1>2. \A s \in Slot : Begin(s) \in Write
  BY DEF Begin, Write, BeginWrite
<1>3. \A s \in Slot, status \in {"succeeded", "failed"}, v \in Value :
        Complete(s, status, v) \in Write
  BY DEF Complete, Write, CompleteWrite
<1>4. \A class \in Stop : Return(class) \in Write
  BY DEF Return, Write, ReturnWrite
<1> QED
  BY <1>1, <1>2, <1>3, <1>4

LEMMA CallWritesTyped ==
  ASSUME Typed, NEW i \in 1..Len(batch.calls)
  PROVE  /\ CallSlot(i) \in Slot
         /\ \A k \in EventKind : RecordCall(k, i) \in Write
         /\ Keep(i) \in Write
<1>1. CallSlot(i) \in Slot
  BY CallSlots DEF Typed, RunTyped
<1>2. \A k \in EventKind : RecordCall(k, i) \in Write
  BY <1>1, RecordTyped DEF RecordCall, Typed, TypeOK
<1> QED
  BY <1>1, <1>2 DEF Keep, Write, KeepWrite

\* The writes that are left when one is done.
LEMMA TailWrites ==
  ASSUME Typed, todo # <<>>
  PROVE  /\ Len(todo) \in Nat \ {0} /\ Head(todo) = todo[1] /\ Head(todo) \in Write
         /\ Tail(todo) \in Seq(Write) /\ Len(Tail(todo)) = Len(todo) - 1
         /\ \A n \in 1..Len(Tail(todo)) : Tail(todo)[n] = todo[n + 1]
<1>1. todo \in Seq(Write)
  BY DEF Typed, RunTyped
<1>2. Len(todo) \in Nat \ {0} /\ Head(todo) = todo[1]
  BY <1>1, EmptySeq
<1> QED
  BY <1>1, <1>2, HeadTailProperties

LEMMA RaiseTyped ==
  ASSUME Typed, NEW class \in Stop, Raise(class)
  PROVE  /\ pc' \in Place /\ todo' \in Seq(Write) /\ stage' = "append"
         /\ phase' \in Phase /\ result' \in {"running", "ok", "rejected"} \cup Terminal
<1>1. class \in EventKind /\ class \in Phase /\ class \in Terminal
  BY DEF Stop, EventKind, Phase, Terminal
<1>2. Record(class) \in Write
  BY <1>1, WritesTyped
<1>3. <<>> \in Seq(Write) /\ <<Record(class)>> \in Seq(Write)
  BY <1>2
<1>4. phase \in Phase /\ result \in {"running", "ok", "rejected"} \cup Terminal
  BY DEF Typed, TypeOK
<1>5. {"stopping", "ended"} \subseteq Place
  BY DEF Place
<1> QED
  BY <1>1, <1>3, <1>4, <1>5 DEF Raise

-----------------------------------------------------------------------------
LEMMA InitTyped == Init => Typed
<1> SUFFICES ASSUME Init PROVE Typed
  OBVIOUS
<1>1. /\ log \in Seq(EventRow) /\ todo \in Seq(Write) /\ EmptyBatch.calls \in Seq(Tool)
      /\ Len(EmptyBatch.calls) = 0 /\ EmptyBatch.calls = <<>>
  BY EmptySeq DEF Init, EmptyBatch
<1>2. EmptyBatch \in Batch({<<>>}) /\ EmptyBatch.next = 1 /\ EmptyBatch.open = {} /\ EmptyBatch.done = {}
  BY <1>1 DEF EmptyBatch, Batch
<1>3. RunTyped
  BY <1>1, <1>2, BoundsAssumption DEF Init, RunTyped, BatchTyped, Place, Turn, NewTurn
<1>4. /\ checkpoint \in [phase : Phase, acceptedSeq : Nat, round : 0..MaxModelRounds,
                     tools : SUBSET ((0..MaxModelRounds) \X Slot)]
  BY BoundsAssumption DEF Init, Phase
<1>5. DOMAIN effects = {} /\ DOMAIN ids = {}
  BY DEF Init
<1> QED
  BY <1>1, <1>2, <1>3, <1>4, <1>5, BoundsAssumption DEF Init, Typed, TypeOK, Phase

\* A write that succeeds leaves the decision taken as it is.
LEMMA AdvanceTyped ==
  ASSUME Typed, todo # <<>>, Advance
  PROVE  /\ pc' \in Place /\ todo' \in Seq(Write) /\ stage' = "append"
         /\ phase' \in Phase /\ result' \in {"running", "ok", "rejected"} \cup Terminal
BY TailWrites DEF Advance, Typed, RunTyped, TypeOK

\* What the writes change beside the decision: nothing of the run.
LEMMA SameRun ==
  ASSUME Typed, UNCHANGED <<turn, batch>>, pc' \in Place, todo' \in Seq(Write)
  PROVE  RunTyped'
BY DEF Typed, RunTyped, BatchTyped, Batch

\* A store call that fails, or is refused, ends the task.
LEMMA StopsTyped ==
  ASSUME Typed, Fault \/ Refused
  PROVE  /\ pc' \in Place /\ todo' \in Seq(Write) /\ stage' = "append"
         /\ phase' \in Phase /\ result' \in {"running", "ok", "rejected"} \cup Terminal
<1>1. Raise("Failed") /\ "Failed" \in Stop
  BY DEF Fault, Refused, Stop
<1> QED
  BY <1>1, RaiseTyped

LEMMA StayTyped ==
  ASSUME Typed, UNCHANGED <<pc, todo, phase, result>>
  PROVE  /\ pc' \in Place /\ todo' \in Seq(Write)
         /\ phase' \in Phase /\ result' \in {"running", "ok", "rejected"} \cup Terminal
BY DEF Typed, RunTyped, TypeOK

LEMMA AppendEventTyped ==
  ASSUME Typed, AppendEvent
  PROVE  Typed'
<1>1. /\ seq' = seq + 1 /\ todo # <<>>
      /\ UNCHANGED <<checkpoint, effects, round, turn, batch, ids, completed, unread, sent>>
  BY DEF AppendEvent, stream, Doing
<1>2. Head(todo).event \in EventRow
  BY <1>1, TailWrites, WriteFields DEF AppendEvent, Doing
<1>3. log' \in Seq(EventRow)
  <2>1. log \in Seq(EventRow)
    BY DEF Typed, TypeOK
  <2> QED
    BY <1>2, <2>1, AppendProperties DEF AppendEvent
<1>4. /\ pc' \in Place /\ todo' \in Seq(Write) /\ phase' \in Phase
      /\ result' \in {"running", "ok", "rejected"} \cup Terminal
      /\ stage' \in {"append", "checkpoint"} /\ (todo' = <<>> => stage' = "append")
  BY <1>1, StopsTyped, StayTyped DEF AppendEvent, AfterAppend
<1>5. RunTyped'
  BY <1>1, <1>4, SameRun
<1> QED
  BY <1>1, <1>3, <1>4, <1>5 DEF Typed, TypeOK

LEMMA PutCheckpointTyped ==
  ASSUME Typed, PutCheckpoint
  PROVE  Typed'
<1>1. /\ todo # <<>> /\ stage = "checkpoint"
      /\ UNCHANGED <<log, effects, seq, round, turn, batch, ids, completed, unread, sent>>
  BY DEF PutCheckpoint, stream, Doing
<1>2. checkpoint' \in [phase : Phase, acceptedSeq : Nat, round : 0..MaxModelRounds,
                     tools : SUBSET ((0..MaxModelRounds) \X Slot)]
  BY DEF PutCheckpoint, Typed, TypeOK
<1>3. /\ pc' \in Place /\ todo' \in Seq(Write) /\ phase' \in Phase
      /\ result' \in {"running", "ok", "rejected"} \cup Terminal
      /\ stage' \in {"append", "send"} /\ (todo' = <<>> => stage' = "append")
  BY <1>1, StopsTyped, StayTyped DEF PutCheckpoint
<1>4. RunTyped'
  BY <1>1, <1>3, SameRun
<1> QED
  BY <1>1, <1>2, <1>3, <1>4 DEF Typed, TypeOK

LEMMA SendTyped ==
  ASSUME Typed, Send
  PROVE  Typed'
<1>1. /\ todo # <<>>
      /\ UNCHANGED <<log, checkpoint, effects, seq, round, turn, batch, ids, completed>>
  BY DEF Send, durable, Doing
<1>2. unread' \in 0..ChannelCapacity /\ sent' \in 0..seq
  <2>1. unread \in 0..ChannelCapacity /\ sent \in 0..seq /\ seq \in Nat
    BY DEF Typed, TypeOK
  <2>2. \/ unread' = unread + 1 /\ sent' = seq /\ unread < ChannelCapacity
        \/ UNCHANGED <<unread, sent>>
    BY DEF Send, Room
  <2>3. ChannelCapacity \in Nat
    BY BoundsAssumption DEF BoundsAssumption
  <2> QED
    BY <2>1, <2>2, <2>3
<1>3. /\ pc' \in Place /\ todo' \in Seq(Write) /\ phase' \in Phase /\ stage' = "append"
      /\ result' \in {"running", "ok", "rejected"} \cup Terminal
  BY <1>1, AdvanceTyped, RaiseTyped DEF Send, Stop
<1>4. RunTyped'
  BY <1>1, <1>3, SameRun
<1> QED
  BY <1>1, <1>2, <1>3, <1>4 DEF Typed, TypeOK

\* The keys an effect may get.
LEMMA KeyTyped ==
  ASSUME Typed, NEW s \in Slot
  PROVE  Key(s) \in EffectKey
BY DEF Key, EffectKey, Typed, TypeOK

LEMMA BeginEffectTyped ==
  ASSUME Typed, BeginEffect
  PROVE  Typed'
<1> DEFINE slot == Head(todo).slot
           key == Key(slot)
           row == [slot |-> slot, round |-> round, status |-> "pending", value |-> "none"]
<1>1. /\ todo # <<>> /\ UNCHANGED <<log, checkpoint, seq, round, turn, batch, completed, unread, sent>>
  BY DEF BeginEffect, stream, Doing
<1>2. slot \in Slot
  BY <1>1, TailWrites, WriteFields DEF BeginEffect, Doing
<1>3. key \in EffectKey
  BY <1>2, KeyTyped
<1>4. row \in EffectRow
  BY <1>2 DEF EffectRow, Typed, TypeOK
<1>5. /\ pc' \in Place /\ todo' \in Seq(Write) /\ phase' \in Phase /\ stage' = "append"
      /\ result' \in {"running", "ok", "rejected"} \cup Terminal
  BY <1>1, AdvanceTyped, StopsTyped DEF BeginEffect
<1>6. \/ UNCHANGED <<effects, ids>>
      \/ /\ effects' = [k \in DOMAIN effects \cup {key} |-> IF k = key THEN row ELSE effects[k]]
         /\ \/ ids' = [s \in DOMAIN ids \cup {slot} |-> IF s = slot THEN key ELSE ids[s]]
            \/ UNCHANGED ids
  BY DEF BeginEffect
<1> HIDE DEF slot, key, row
<1>7. /\ DOMAIN effects' \subseteq EffectKey /\ \A k \in DOMAIN effects' : effects'[k] \in EffectRow
      /\ DOMAIN ids' \subseteq Slot /\ \A s \in DOMAIN ids' : ids'[s] \in DOMAIN effects'
  BY <1>2, <1>3, <1>4, <1>6 DEF Typed, TypeOK
<1>8. RunTyped'
  BY <1>1, <1>5, SameRun
<1> QED
  BY <1>1, <1>5, <1>7, <1>8 DEF Typed, TypeOK

LEMMA ClosedRow ==
  ASSUME NEW r \in EffectRow, NEW s \in {"succeeded", "failed"}, NEW v \in Value
  PROVE  [r EXCEPT !.status = s, !.value = v] \in EffectRow
BY DEF EffectRow, Value

LEMMA CompleteEffectTyped ==
  ASSUME Typed, CompleteEffect
  PROVE  Typed'
<1> DEFINE w == Head(todo)
           key == ids[w.slot]
<1>1. /\ todo # <<>> /\ UNCHANGED <<log, checkpoint, seq, round, turn, batch, completed, unread, sent>>
  BY DEF CompleteEffect, stream, Doing
<1>2. w.slot \in Slot /\ w.status \in {"succeeded", "failed"} /\ w.value \in Value
  BY <1>1, TailWrites, WriteFields DEF CompleteEffect, Doing
<1>3. /\ pc' \in Place /\ todo' \in Seq(Write) /\ phase' \in Phase /\ stage' = "append"
      /\ result' \in {"running", "ok", "rejected"} \cup Terminal
  BY <1>1, AdvanceTyped, StopsTyped DEF CompleteEffect
<1>4. /\ \/ UNCHANGED effects
         \/ effects' = [effects EXCEPT ![key] = [effects[key] EXCEPT !.status = w.status, !.value = w.value]]
      /\ ids' = [s \in DOMAIN ids \ {w.slot} |-> ids[s]]
  BY DEF CompleteEffect
<1> HIDE DEF w, key
<1>5. \A k \in DOMAIN effects : effects[k] \in EffectRow
  BY DEF Typed, TypeOK
<1>6. DOMAIN effects' = DOMAIN effects /\ \A k \in DOMAIN effects' : effects'[k] \in EffectRow
  <2>1. key \in DOMAIN effects => [effects[key] EXCEPT !.status = w.status, !.value = w.value] \in EffectRow
    BY <1>2, <1>5, ClosedRow
  <2>2. CASE UNCHANGED effects
    BY <1>5, <2>2
  <2>3. CASE effects' = [effects EXCEPT ![key] = [effects[key] EXCEPT !.status = w.status, !.value = w.value]]
    BY <1>5, <2>1, <2>3
  <2> QED
    BY <1>4, <2>2, <2>3
<1>7. DOMAIN ids' \subseteq Slot /\ \A s \in DOMAIN ids' : ids'[s] \in DOMAIN effects'
  BY <1>4, <1>6 DEF Typed, TypeOK
<1>8. RunTyped'
  BY <1>1, <1>3, SameRun
<1> QED
  BY <1>1, <1>3, <1>6, <1>7, <1>8 DEF Typed, TypeOK

LEMMA OtherWritesTyped ==
  ASSUME Typed, KeepCompleted \/ ReturnError
  PROVE  Typed'
<1>1. /\ todo # <<>> /\ UNCHANGED <<log, checkpoint, effects, seq, round, turn, batch, ids, unread, sent>>
  BY DEF KeepCompleted, ReturnError, stream, durable, Doing
<1>2. /\ pc' \in Place /\ todo' \in Seq(Write) /\ phase' \in Phase /\ stage' = "append"
      /\ result' \in {"running", "ok", "rejected"} \cup Terminal
  BY <1>1, AdvanceTyped, RaiseTyped, TailWrites, WriteFields DEF KeepCompleted, ReturnError, Doing
<1>3. completed' \subseteq (0..MaxModelRounds) \X Slot
  BY <1>1, TailWrites, WriteFields DEF KeepCompleted, ReturnError, Doing, Typed, TypeOK
<1>4. RunTyped'
  BY <1>1, <1>2, SameRun
<1> QED
  BY <1>1, <1>2, <1>3, <1>4 DEF Typed, TypeOK

-----------------------------------------------------------------------------
\* What a decision must leave well-formed: where the runtime goes and what it
\* is going to write, and the batch.
GoesOn ==
  /\ pc' \in Place /\ todo' \in Seq(Write) /\ stage' = "append"
  /\ phase' \in Phase /\ result' \in {"running", "ok", "rejected"} \cup Terminal

BatchFits ==
  /\ batch.open \cup batch.done \subseteq 1..(batch.next - 1)
  /\ batch.next <= Len(batch.calls) + 1

LEMMA DecisionTyped ==
  ASSUME Typed, UNCHANGED <<durable, seq, ids, completed, stream, faults>>, GoesOn,
         turn' \in Turn, round' \in 0..MaxModelRounds, BatchTyped', BatchFits'
  PROVE  Typed'
<1>1. \E M : batch' \in Batch(M)
  BY DEF BatchTyped
<1>2. batch'.next \in Nat /\ Len(batch'.calls) \in Nat
  BY <1>1, LenProperties DEF Batch
<1>3. batch'.open \cup batch'.done \subseteq 1..Len(batch'.calls)
  BY <1>2 DEF BatchFits
<1>4. RunTyped'
  BY DEF GoesOn, BatchFits, RunTyped
<1>5. log' = log /\ checkpoint' = checkpoint /\ effects' = effects /\ unread' = unread /\ sent' = sent
      /\ UNCHANGED <<seq, ids, completed>>
  BY DEF durable, stream
<1> QED
  BY <1>3, <1>4, <1>5 DEF GoesOn, Typed, TypeOK

LEMMA SameBatch ==
  ASSUME Typed, UNCHANGED batch
  PROVE  BatchTyped' /\ BatchFits'
BY DEF Typed, RunTyped, BatchTyped, BatchFits, Batch

LEMMA AtTyped ==
  ASSUME Typed, NEW place, At(place)
  PROVE  /\ stage = "append" /\ phase \in Phase /\ turn \in Turn /\ round \in 0..MaxModelRounds
         /\ result \in {"running", "ok", "rejected"} \cup Terminal
BY DEF At, Typed, TypeOK, RunTyped

\* Going to another place with some writes, and stopping.
LEMMA ThenGoesOn ==
  ASSUME Typed, stage = "append", NEW place \in Place, NEW w \in Seq(Write), Then(place, w),
         phase' \in Phase, result' \in {"running", "ok", "rejected"} \cup Terminal
  PROVE  GoesOn
BY DEF Then, GoesOn

LEMMA RaiseGoesOn ==
  ASSUME Typed, NEW class \in Stop, Raise(class)
  PROVE  GoesOn
BY RaiseTyped DEF GoesOn

LEMMA CloseFailedGoesOn ==
  ASSUME Typed, stage = "append", NEW s \in Slot, NEW class \in Stop, CloseFailed(s, class),
         UNCHANGED <<phase, result>>
  PROVE  GoesOn
<1>1. Complete(s, "failed", "error") \in Write /\ Return(class) \in Write
  BY WritesTyped DEF Value
<1>2. <<Complete(s, "failed", "error"), Return(class)>> \in Seq(Write)
  BY <1>1
<1>3. pc \in Place /\ phase' \in Phase /\ result' \in {"running", "ok", "rejected"} \cup Terminal
  BY DEF Typed, TypeOK, RunTyped
<1> QED
  BY <1>2, <1>3, ThenGoesOn DEF CloseFailed

LEMMA Failures == ProviderFailure \subseteq Stop
BY DEF ProviderFailure, Stop

\* Phases, places and events the decisions name.
LEMMA Names ==
  /\ {"Preparing", "Planning", "Reasoning", "AwaitingTools", "Reviewing", "Verifying",
      "Completed"} \subseteq Phase
  /\ Terminal \cup CallEvent \cup
       {"SessionStarted", "UserMessageAccepted", "PlanningStarted", "PlanUpdated", "ModelStarted",
        "TextDelta", "ModelTurnEmpty", "VerificationStarted", "VerificationFinding"} = EventKind
  /\ Stop \cup {"Completed"} = Terminal
BY DEF Phase, EventKind, Terminal, Stop

LEMMA CreateTaskTyped ==
  ASSUME Typed, CreateTask
  PROVE  GoesOn
<1>1. stage = "append" /\ phase' \in Phase
  BY AtTyped DEF CreateTask
<1>2. Record("SessionStarted") \in Write /\ Record("UserMessageAccepted") \in Write
  BY WritesTyped, Names
<1>3. <<Record("SessionStarted"), Record("UserMessageAccepted")>> \in Seq(Write) /\ <<>> \in Seq(Write)
  BY <1>2
<1>4. result' \in {"running", "ok", "rejected"} \cup Terminal
  BY AtTyped DEF CreateTask
<1>5. {"plan", "ended"} \subseteq Place
  BY DEF Place
<1> QED
  BY <1>1, <1>3, <1>4, <1>5, ThenGoesOn DEF CreateTask

LEMMA PlanTyped ==
  ASSUME Typed, Plan
  PROVE  GoesOn
<1>1. stage = "append" /\ phase' \in Phase /\ result' \in {"running", "ok", "rejected"} \cup Terminal
  BY AtTyped, Names DEF Plan
<1>2. /\ Record("PlanningStarted") \in Write /\ Record("PlanUpdated") \in Write
      /\ Begin(SelectSlot) \in Write
  BY WritesTyped, Names, FixedSlots
<1>3. <<Record("PlanningStarted"), Record("PlanUpdated"), Begin(SelectSlot)>> \in Seq(Write)
  BY <1>2
<1> QED
  BY <1>1, <1>3, ThenGoesOn DEF Plan, Place

LEMMA SelectModelTyped ==
  ASSUME Typed, SelectModel
  PROVE  GoesOn
<1>1. /\ stage = "append" /\ phase' \in Phase /\ UNCHANGED <<phase, result>>
      /\ result' \in {"running", "ok", "rejected"} \cup Terminal
  BY AtTyped DEF SelectModel
<1>2. Complete(SelectSlot, "succeeded", "ok") \in Write
  BY WritesTyped, FixedSlots DEF Value
<1>3. <<Complete(SelectSlot, "succeeded", "ok")>> \in Seq(Write)
  BY <1>2
<1>4. CASE Then("round", <<Complete(SelectSlot, "succeeded", "ok")>>)
  BY <1>1, <1>3, <1>4, ThenGoesOn DEF Place
<1>5. CASE \E class \in ProviderFailure : CloseFailed(SelectSlot, class)
  BY <1>1, <1>5, Failures, FixedSlots, CloseFailedGoesOn
<1> QED
  BY <1>4, <1>5 DEF SelectModel

LEMMA StartRoundTyped ==
  ASSUME Typed, StartRound
  PROVE  GoesOn /\ round' \in 0..MaxModelRounds /\ turn' \in Turn
<1>1. /\ stage = "append" /\ turn \in Turn /\ NewTurn \in Turn /\ round \in 0..MaxModelRounds
      /\ result \in {"running", "ok", "rejected"} \cup Terminal /\ MaxModelRounds \in Nat
  BY AtTyped, BoundsAssumption DEF StartRound, NewTurn, Turn
<1>2. CASE Raise("Cancelled") /\ UNCHANGED <<round, turn>>
  BY <1>1, <1>2, RaiseGoesOn DEF Stop
<1>3. CASE Raise("Failed") /\ UNCHANGED <<round, turn>>
  BY <1>1, <1>3, RaiseGoesOn DEF Stop
<1>4. CASE /\ round < MaxModelRounds /\ round' = round + 1 /\ phase' = "Reasoning" /\ turn' = NewTurn
           /\ Then("connect", <<[op |-> "record", event |-> Event("ModelStarted", NoSlot, round + 1)],
                                Begin(StreamSlot)>>)
           /\ UNCHANGED result
  <2>1. round + 1 \in 0..MaxModelRounds
    BY <1>1, <1>4
  <2>2. /\ [op |-> "record", event |-> Event("ModelStarted", NoSlot, round + 1)] \in Write
        /\ Begin(StreamSlot) \in Write
    BY <2>1, RecordTyped, WritesTyped, FixedSlots, Names
  <2>3. <<[op |-> "record", event |-> Event("ModelStarted", NoSlot, round + 1)], Begin(StreamSlot)>>
          \in Seq(Write)
    BY <2>2
  <2>4. "connect" \in Place /\ phase' \in Phase
    BY <1>4, Names DEF Place
  <2> QED
    BY <1>1, <1>4, <2>1, <2>3, <2>4, ThenGoesOn
<1> QED
  BY <1>2, <1>3, <1>4 DEF StartRound

LEMMA QuietTyped ==
  ASSUME Typed, Connect \/ Finish \/ StreamFails \/ Prepared \/ ServeCancelled \/ BatchEnds \/ Publish
  PROVE  GoesOn
<1>1. /\ stage = "append" /\ phase \in Phase
      /\ result \in {"running", "ok", "rejected"} \cup Terminal
  BY AtTyped DEF Connect, Finish, StreamFails, Prepared, ServeCancelled, BatchEnds, Publish
<1>2. <<>> \in Seq(Write) /\ <<Record("Completed")>> \in Seq(Write)
  <2>1. Record("Completed") \in Write
    BY WritesTyped, Names
  <2> QED
    BY <2>1
<1>3. {"stream", "collect", "round", "ended", "finish"} \subseteq Place /\ {"Cancelled", "Failed"} \subseteq Stop
  BY DEF Place, Stop
<1>4. CASE Connect
  BY <1>1, <1>2, <1>3, <1>4, ThenGoesOn, Failures, FixedSlots, CloseFailedGoesOn DEF Connect
<1>5. CASE StreamFails
  BY <1>1, <1>5, Failures, FixedSlots, CloseFailedGoesOn DEF StreamFails
<1>6. CASE Finish
  BY <1>1, <1>2, <1>3, <1>6, ThenGoesOn DEF Finish
<1>7. CASE Prepared
  BY <1>1, <1>2, <1>3, <1>7, ThenGoesOn DEF Prepared
<1>8. CASE ServeCancelled
  BY <1>3, <1>8, RaiseGoesOn DEF ServeCancelled
<1>9. CASE BatchEnds
  BY <1>1, <1>2, <1>3, <1>9, ThenGoesOn, RaiseGoesOn DEF BatchEnds
<1>10. CASE Publish
  BY <1>1, <1>2, <1>3, <1>10, ThenGoesOn, Names DEF Publish
<1> QED
  BY <1>4, <1>5, <1>6, <1>7, <1>8, <1>9, <1>10

LEMMA TurnText ==
  ASSUME NEW r \in Turn, NEW n \in Nat, NEW text \in {"blank", "prose"}
  PROVE  [r EXCEPT !.chunks = n, !.text = IF @ = "prose" THEN @ ELSE text] \in Turn
BY DEF Turn

LEMMA TurnCalls ==
  ASSUME NEW r \in Turn, NEW n \in Nat, NEW c \in 0..MaxCalls
  PROVE  [r EXCEPT !.chunks = n, !.calls = c] \in Turn
BY DEF Turn

LEMMA ChunksTyped ==
  ASSUME Typed, AwaitChunk \/ ChunkArrives
  PROVE  GoesOn /\ turn' \in Turn
<1>1. /\ stage = "append" /\ phase \in Phase /\ turn \in Turn
      /\ result \in {"running", "ok", "rejected"} \cup Terminal
  BY AtTyped DEF AwaitChunk, ChunkArrives
<1>2. <<>> \in Seq(Write) /\ <<Record("TextDelta")>> \in Seq(Write)
  <2>1. Record("TextDelta") \in Write
    BY WritesTyped, Names
  <2> QED
    BY <2>1
<1>3. {"stream", "chunk"} \subseteq Place /\ "Cancelled" \in Stop
  BY DEF Place, Stop
<1>4. CASE AwaitChunk
  BY <1>1, <1>2, <1>3, <1>4, ThenGoesOn, RaiseGoesOn DEF AwaitChunk
<1>5. CASE ChunkArrives
  <2>1. GoesOn
    BY <1>1, <1>2, <1>3, <1>5, ThenGoesOn DEF ChunkArrives
  <2>2. turn' \in Turn
    <3>0. turn \in Turn /\ turn.chunks + 1 \in Nat
      BY <1>1 DEF Turn
    <3>1. ASSUME NEW text \in {"blank", "prose"},
                 turn' = [turn EXCEPT !.chunks = @ + 1, !.text = IF @ = "prose" THEN @ ELSE text]
          PROVE  turn' \in Turn
      BY <3>0, <3>1, TurnText
    <3>2. ASSUME NEW new \in {0, 1}, turn.calls + new <= MaxCalls, turn' = Fragment(new)
          PROVE  turn' \in Turn
      <4>1. turn.calls + new \in 0..MaxCalls
        BY <1>1, <3>2, BoundsAssumption DEF Turn
      <4> QED
        BY <3>0, <3>2, <4>1, TurnCalls DEF Fragment
    <3> QED
      BY <1>5, <3>1, <3>2 DEF ChunkArrives
  <2> QED
    BY <2>1, <2>2
<1> QED
  BY <1>4, <1>5

LEMMA EmptyTurnTyped ==
  ASSUME Typed, EmptyTurn
  PROVE  GoesOn /\ turn' \in Turn
<1> DEFINE last == IF turn.empty + 1 > MaxEmptyTurnRetries THEN Return("Failed") ELSE Begin(StreamSlot)
<1>1. /\ stage = "append" /\ turn \in Turn /\ UNCHANGED <<phase, result>>
      /\ phase' \in Phase /\ result' \in {"running", "ok", "rejected"} \cup Terminal
  BY AtTyped DEF EmptyTurn
<1>2. /\ Complete(StreamSlot, "failed", "empty") \in Write /\ Record("ModelTurnEmpty") \in Write
      /\ last \in Write
  BY WritesTyped, Names, FixedSlots DEF Value, Stop
<1> HIDE DEF last
<1>3. <<Complete(StreamSlot, "failed", "empty"), Record("ModelTurnEmpty"), last>> \in Seq(Write)
  BY <1>2
<1>4. Then("connect", <<Complete(StreamSlot, "failed", "empty"), Record("ModelTurnEmpty"), last>>)
  BY DEF EmptyTurn, last
<1>5. turn' \in Turn
  BY <1>1, BoundsAssumption DEF EmptyTurn, NewTurn, Turn
<1> QED
  BY <1>1, <1>3, <1>4, <1>5, ThenGoesOn DEF Place

LEMMA CallTurnTyped ==
  ASSUME Typed, CallTurn
  PROVE  GoesOn /\ turn' \in Turn /\ BatchTyped' /\ BatchFits'
<1>1. /\ stage = "append" /\ turn \in Turn /\ phase' \in Phase /\ phase' = "AwaitingTools"
      /\ result' \in {"running", "ok", "rejected"} \cup Terminal
  BY AtTyped, Names DEF CallTurn
<1>2. <<Complete(StreamSlot, "succeeded", "ok")>> \in Seq(Write)
  <2>1. Complete(StreamSlot, "succeeded", "ok") \in Write
    BY WritesTyped, FixedSlots DEF Value
  <2> QED
    BY <2>1
<1>3. GoesOn
  BY <1>1, <1>2, ThenGoesOn DEF CallTurn, Place
<1>4. PICK calls \in [1..turn.calls -> Tool] : batch' = [EmptyBatch EXCEPT !.calls = calls]
  BY DEF CallTurn
<1>5. turn.calls \in Nat /\ turn.calls <= MaxCalls
  BY <1>1, BoundsAssumption DEF Turn
<1>6. calls \in Seq(Tool) /\ Len(calls) = turn.calls
  <2>1. calls \in Seq(Tool)
    BY <1>5, SeqDef
  <2>2. Len(calls) \in Nat /\ 1..Len(calls) = 1..turn.calls
    BY <2>1, LenProperties
  <2>3. \A a, b \in Nat : 1..a = 1..b => a <= b
    <3> SUFFICES ASSUME NEW a \in Nat, NEW b \in Nat, 1..a = 1..b, a > b PROVE FALSE
      OBVIOUS
    <3>1. a \in 1..a
      OBVIOUS
    <3> QED
      BY <3>1
  <2> QED
    BY <1>5, <2>1, <2>2, <2>3
<1>7. /\ batch'.calls = calls /\ batch'.next = 1 /\ batch'.open = {} /\ batch'.done = {}
      /\ batch' \in Batch({<<>>})
  <2>1. batch' = [calls |-> calls, next |-> 1, open |-> {}, done |-> {}, messages |-> <<>>,
                  exhausted |-> FALSE, draft |-> NoSlot]
    BY <1>4 DEF EmptyBatch
  <2> QED
    BY <1>6, <2>1 DEF Batch
<1>8. turn' \in Turn
  BY BoundsAssumption DEF CallTurn, NewTurn, Turn
<1> QED
  BY <1>3, <1>5, <1>6, <1>7, <1>8 DEF BatchTyped, BatchFits

LEMMA AnswersTyped ==
  ASSUME Typed, TextTurn \/ Answer
  PROVE  GoesOn /\ turn' \in Turn
<1>1. /\ stage = "append" /\ phase \in Phase /\ turn \in Turn
      /\ result \in {"running", "ok", "rejected"} \cup Terminal
  BY AtTyped DEF TextTurn, Answer
<1>2. /\ <<>> \in Seq(Write) /\ <<Record("Completed")>> \in Seq(Write)
      /\ <<Complete(StreamSlot, "succeeded", "ok")>> \in Seq(Write)
  <2>1. Record("Completed") \in Write /\ Complete(StreamSlot, "succeeded", "ok") \in Write
    BY WritesTyped, Names, FixedSlots DEF Value
  <2> QED
    BY <2>1
<1>3. {"answer", "finish", "round"} \subseteq Place /\ "Failed" \in Stop
  BY DEF Place, Stop
<1>4. CASE TextTurn
  BY <1>1, <1>2, <1>3, <1>4, ThenGoesOn, BoundsAssumption DEF TextTurn, NewTurn, Turn
<1>5. CASE Answer
  BY <1>1, <1>2, <1>3, <1>5, ThenGoesOn, RaiseGoesOn, Names DEF Answer
<1> QED
  BY <1>4, <1>5

\* A call is answered or opened: the batch moves on by one call.
LEMMA CallMovesOn ==
  ASSUME Typed, NEW i, i = batch.next, i <= Len(batch.calls), NEW new,
         \/ new = [batch EXCEPT !.next = i + 1, !.done = @ \cup {i}]
         \/ new = [batch EXCEPT !.next = i + 1, !.open = @ \cup {i}],
         batch' = new
  PROVE  /\ BatchTyped' /\ BatchFits'
         /\ batch'.calls = batch.calls /\ batch'.next = i + 1 /\ batch'.exhausted = batch.exhausted
<1>1. PICK M : batch \in Batch(M)
  BY DEF Typed, RunTyped, BatchTyped
<1>2. i \in Nat \ {0} /\ Len(batch.calls) \in Nat
  BY <1>1, LenProperties DEF Batch
<1>3. /\ batch' \in Batch(M) /\ batch'.calls = batch.calls /\ batch'.next = i + 1
      /\ batch'.exhausted = batch.exhausted
      /\ batch'.open \cup batch'.done = batch.open \cup batch.done \cup {i}
  <2>1. batch.open \cup {i} \in SUBSET Nat /\ batch.done \cup {i} \in SUBSET Nat /\ i + 1 \in Nat \ {0}
    BY <1>1, <1>2 DEF Batch
  <2>2. CASE new = [batch EXCEPT !.next = i + 1, !.done = @ \cup {i}]
    BY <1>1, <2>1, <2>2 DEF Batch
  <2>3. CASE new = [batch EXCEPT !.next = i + 1, !.open = @ \cup {i}]
    BY <1>1, <2>1, <2>3 DEF Batch
  <2> QED
    BY <2>2, <2>3
<1>4. batch.open \cup batch.done \subseteq 1..(i - 1) /\ Len(batch.calls) <= MaxCalls
  BY DEF Typed, RunTyped, BatchTyped
<1>5. batch'.open \cup batch'.done \subseteq 1..(batch'.next - 1)
  BY <1>2, <1>3, <1>4
<1> QED
  BY <1>2, <1>3, <1>4, <1>5 DEF BatchTyped, BatchFits

LEMMA PrepareCallTyped ==
  ASSUME Typed, PrepareCall
  PROVE  GoesOn /\ BatchTyped' /\ BatchFits'
<1> DEFINE i == batch.next
<1>1. /\ stage = "append" /\ phase \in Phase
      /\ result \in {"running", "ok", "rejected"} \cup Terminal
  BY AtTyped DEF PrepareCall
<1>2. i \in 1..Len(batch.calls)
  BY LenProperties DEF PrepareCall, Typed, RunTyped, BatchTyped, Batch
<1>3. <<RecordCall("ToolFailed", i)>> \in Seq(Write) /\ Opened(i) \in Seq(Write)
  <2>1. /\ RecordCall("ToolFailed", i) \in Write /\ RecordCall("ToolScheduled", i) \in Write
        /\ RecordCall("ToolStarted", i) \in Write /\ Begin(CallSlot(i)) \in Write
    BY <1>2, CallWritesTyped, WritesTyped, Names DEF CallEvent
  <2> QED
    BY <2>1 DEF Opened
<1>4. \/ Raise("Failed") /\ UNCHANGED batch
      \/ /\ Then("prepare", <<RecordCall("ToolFailed", i)>>) /\ UNCHANGED <<phase, result>>
         /\ batch' = [batch EXCEPT !.next = i + 1, !.done = @ \cup {i}]
      \/ /\ Then("prepare", Opened(i)) /\ UNCHANGED <<phase, result>>
         /\ batch' = [batch EXCEPT !.next = i + 1, !.open = @ \cup {i}]
  BY DEF PrepareCall
<1>5. GoesOn
  BY <1>1, <1>3, <1>4, ThenGoesOn, RaiseGoesOn DEF Place, Stop
<1>6. BatchTyped' /\ BatchFits'
  <2>1. i <= Len(batch.calls)
    BY DEF PrepareCall
  <2> HIDE DEF i
  <2> QED
    BY <1>4, <2>1, SameBatch, CallMovesOn DEF i
<1> QED
  BY <1>5, <1>6

\* A call is taken out of those that are open, with or without a message.
LEMMA TakenOutTyped ==
  ASSUME Typed, NEW i \in batch.open, NEW new,
         \/ new = TakenOut(i)
         \/ \E m, x : new = [TakenOut(i) EXCEPT !.messages = m, !.exhausted = x] /\ x \in BOOLEAN,
         batch' = new
  PROVE  /\ BatchTyped' /\ BatchFits'
         /\ batch'.calls = batch.calls /\ batch'.next = batch.next
         /\ batch'.open = batch.open \ {i} /\ batch'.draft = batch.draft
<1>1. PICK M : batch \in Batch(M)
  BY DEF Typed, RunTyped, BatchTyped
<1>2. i \in Nat
  BY <1>1 DEF Batch
<1>3. /\ TakenOut(i) \in Batch(M) /\ TakenOut(i).calls = batch.calls /\ TakenOut(i).next = batch.next
      /\ TakenOut(i).open = batch.open \ {i} /\ TakenOut(i).done = batch.done \cup {i}
      /\ TakenOut(i).draft = batch.draft
  BY <1>1, <1>2 DEF TakenOut, Batch
<1>4. /\ \E N : new \in Batch(N)
      /\ new.calls = batch.calls /\ new.next = batch.next /\ new.open = batch.open \ {i}
      /\ new.done = batch.done \cup {i} /\ new.draft = batch.draft
  <2>1. CASE new = TakenOut(i)
    BY <1>3, <2>1
  <2>2. ASSUME NEW m, NEW x \in BOOLEAN, new = [TakenOut(i) EXCEPT !.messages = m, !.exhausted = x]
        PROVE  <1>4!1
    <3>1. new \in Batch({m})
      BY <1>3, <2>2 DEF Batch
    <3> QED
      BY <3>1
  <2> QED
    BY <1>3, <2>1, <2>2 DEF Batch
<1> QED
  BY <1>4 DEF BatchTyped, BatchFits, Typed, RunTyped

LEMMA RefuseTyped ==
  ASSUME Typed, stage = "append", UNCHANGED <<phase, result>>, NEW i \in batch.open, NEW d,
         NEW w \in Seq(Write), Refuse(i, d, w)
  PROVE  GoesOn /\ BatchTyped' /\ BatchFits'
<1>1. i \in 1..Len(batch.calls)
  BY DEF Typed, TypeOK
<1>2. Complete(CallSlot(i), "failed", "refused") \in Write /\ RecordCall("ToolFailed", i) \in Write
  BY <1>1, CallWritesTyped, WritesTyped, Names DEF CallEvent, Value
<1>3. w \o <<Complete(CallSlot(i), "failed", "refused"), RecordCall("ToolFailed", i)>> \in Seq(Write)
  <2>1. <<Complete(CallSlot(i), "failed", "refused"), RecordCall("ToolFailed", i)>> \in Seq(Write)
    BY <1>2
  <2> QED
    BY <2>1, ConcatProperties
<1>4. GoesOn
  <2>1. phase' \in Phase /\ result' \in {"running", "ok", "rejected"} \cup Terminal /\ "serve" \in Place
    BY DEF Typed, TypeOK, Place
  <2> QED
    BY <1>3, <2>1, ThenGoesOn DEF Refuse
<1>5. PICK M : batch \in Batch(M)
  BY DEF Typed, RunTyped, BatchTyped
<1>6. batch.exhausted \in BOOLEAN /\ Exhausts(d) \in BOOLEAN
  BY <1>5 DEF Batch, Exhausts
<1>7. TakenOut(i).exhausted = batch.exhausted
  BY <1>5 DEF Batch, TakenOut
<1>8. \E m, x : Served(i, Exhausts(d)) = [TakenOut(i) EXCEPT !.messages = m, !.exhausted = x] /\ x \in BOOLEAN
  BY <1>6, <1>7 DEF Served
<1> QED
  BY <1>4, <1>8, TakenOutTyped DEF Refuse

LEMMA ToolReturnsTyped ==
  ASSUME Typed, ToolReturns
  PROVE  GoesOn /\ BatchTyped' /\ BatchFits'
<1>1. /\ stage = "append" /\ phase \in Phase
      /\ result \in {"running", "ok", "rejected"} \cup Terminal
  BY AtTyped DEF ToolReturns
<1>2. PICK i \in Running :
        \/ Raise("Cancelled") /\ UNCHANGED batch
        \/ /\ batch' = TakenOut(i)
           /\ \/ Then("collect", <<Complete(CallSlot(i), "succeeded", "ok"),
                                    RecordCall("ToolCompleted", i), Keep(i)>>)
              \/ Then("collect", <<Complete(CallSlot(i), "succeeded", "ok"), RecordCall("ToolCompleted", i),
                                   RecordCall("EvidenceAdded", i), Keep(i)>>)
              \/ Then("collect", CallFailed(i))
           /\ UNCHANGED <<phase, result>>
  BY DEF ToolReturns
<1>3. i \in batch.open /\ i \in 1..Len(batch.calls)
  BY DEF Running, OpenEngineCalls, Typed, TypeOK
<1>4. /\ Complete(CallSlot(i), "succeeded", "ok") \in Write /\ Complete(CallSlot(i), "failed", "error") \in Write
      /\ \A k \in CallEvent : RecordCall(k, i) \in Write
      /\ Keep(i) \in Write
  BY <1>3, CallWritesTyped, WritesTyped, Names DEF Value
<1>5. /\ <<Complete(CallSlot(i), "succeeded", "ok"), RecordCall("ToolCompleted", i), Keep(i)>> \in Seq(Write)
      /\ <<Complete(CallSlot(i), "succeeded", "ok"), RecordCall("ToolCompleted", i),
           RecordCall("EvidenceAdded", i), Keep(i)>> \in Seq(Write)
      /\ CallFailed(i) \in Seq(Write)
  BY <1>4 DEF CallFailed, CallEvent
<1>6. GoesOn
  BY <1>1, <1>2, <1>5, ThenGoesOn, RaiseGoesOn DEF Place, Stop
<1> QED
  BY <1>2, <1>3, <1>6, SameBatch, TakenOutTyped

LEMMA CollectedTyped ==
  ASSUME Typed, Collected
  PROVE  GoesOn /\ BatchTyped' /\ BatchFits'
<1>1. /\ stage = "append" /\ phase' \in Phase /\ <<>> \in Seq(Write) /\ "serve" \in Place
      /\ result' \in {"running", "ok", "rejected"} \cup Terminal
  BY AtTyped DEF Collected, Place
<1>2. PICK M : batch \in Batch(M)
  BY DEF Typed, RunTyped, BatchTyped
<1>3. /\ batch' \in Batch({Sorted(batch.done)}) /\ batch'.calls = batch.calls /\ batch'.next = batch.next
      /\ batch'.open = batch.open /\ batch'.done = batch.done
  BY <1>2 DEF Collected, Batch
<1> QED
  BY <1>1, <1>3, ThenGoesOn DEF Collected, BatchTyped, BatchFits, Typed, RunTyped

LEMMA SearchEvidenceTyped ==
  ASSUME Typed, SearchEvidence
  PROVE  GoesOn /\ BatchTyped' /\ BatchFits'
<1>1. /\ stage = "append" /\ phase' \in Phase
      /\ result' \in {"running", "ok", "rejected"} \cup Terminal
  BY AtTyped DEF SearchEvidence
<1>2. PICK i \in batch.open :
        /\ batch' = Served(i, FALSE)
        /\ Then("serve", <<Complete(CallSlot(i), "succeeded", "ok"), RecordCall("ToolCompleted", i)>>)
  BY DEF SearchEvidence
<1>3. i \in 1..Len(batch.calls)
  BY DEF Typed, TypeOK
<1>4. Complete(CallSlot(i), "succeeded", "ok") \in Write /\ RecordCall("ToolCompleted", i) \in Write
  BY <1>3, CallWritesTyped, WritesTyped, Names DEF CallEvent, Value
<1>5. <<Complete(CallSlot(i), "succeeded", "ok"), RecordCall("ToolCompleted", i)>> \in Seq(Write)
  BY <1>4
<1>6. GoesOn
  BY <1>1, <1>2, <1>5, ThenGoesOn DEF Place
<1>7. PICK M : batch \in Batch(M)
  BY DEF Typed, RunTyped, BatchTyped
<1>8. TakenOut(i).exhausted \in BOOLEAN
  BY <1>7 DEF Batch, TakenOut
<1>9. \E m, x : Served(i, FALSE) = [TakenOut(i) EXCEPT !.messages = m, !.exhausted = x] /\ x \in BOOLEAN
  BY <1>8 DEF Served
<1> QED
  BY <1>2, <1>6, <1>9, TakenOutTyped

LEMMA SubmitReportTyped ==
  ASSUME Typed, SubmitReport
  PROVE  GoesOn /\ BatchTyped' /\ BatchFits'
<1>1. stage = "append" /\ phase \in Phase /\ result \in {"running", "ok", "rejected"} \cup Terminal
  BY AtTyped DEF SubmitReport
<1>2. PICK i \in batch.open, d \in Draft :
        \/ Refuse(i, d, <<>>) /\ UNCHANGED <<phase, result>>
        \/ Refuse(i, d, <<Record("VerificationFinding")>>) /\ UNCHANGED <<phase, result>>
        \/ /\ batch' = [batch EXCEPT !.draft = d] /\ phase' = "Verifying" /\ UNCHANGED result
           /\ Then("verify", <<Record("VerificationStarted"), Begin(VerifySlot)>>)
  BY DEF SubmitReport
<1>3. /\ <<>> \in Seq(Write) /\ <<Record("VerificationFinding")>> \in Seq(Write)
      /\ <<Record("VerificationStarted"), Begin(VerifySlot)>> \in Seq(Write)
  <2>1. /\ Record("VerificationFinding") \in Write /\ Record("VerificationStarted") \in Write
        /\ Begin(VerifySlot) \in Write
    BY WritesTyped, Names, FixedSlots
  <2> QED
    BY <2>1
<1>4. CASE Refuse(i, d, <<>>) /\ UNCHANGED <<phase, result>>
  BY <1>1, <1>3, <1>4, RefuseTyped
<1>5. CASE Refuse(i, d, <<Record("VerificationFinding")>>) /\ UNCHANGED <<phase, result>>
  BY <1>1, <1>3, <1>5, RefuseTyped
<1>6. CASE /\ batch' = [batch EXCEPT !.draft = d] /\ phase' = "Verifying" /\ UNCHANGED result
           /\ Then("verify", <<Record("VerificationStarted"), Begin(VerifySlot)>>)
  <2>1. GoesOn
    BY <1>1, <1>3, <1>6, ThenGoesOn, Names DEF Place
  <2>2. PICK M : batch \in Batch(M)
    BY DEF Typed, RunTyped, BatchTyped
  <2>3. /\ batch' \in Batch(M) /\ batch'.calls = batch.calls /\ batch'.next = batch.next
        /\ batch'.open = batch.open /\ batch'.done = batch.done
    BY <1>6, <2>2 DEF Batch
  <2> QED
    BY <2>1, <2>3 DEF BatchTyped, BatchFits, Typed, RunTyped
<1> QED
  BY <1>2, <1>4, <1>5, <1>6

LEMMA VerifierAnswersTyped ==
  ASSUME Typed, VerifierAnswers
  PROVE  GoesOn /\ BatchTyped' /\ BatchFits'
<1>1. /\ stage = "append" /\ phase' \in Phase /\ UNCHANGED <<phase, result>>
      /\ result' \in {"running", "ok", "rejected"} \cup Terminal
  BY AtTyped DEF VerifierAnswers
<1>2. PICK i \in batch.open :
        \/ /\ Then("publish", <<Complete(VerifySlot, "succeeded", "passed"),
                                 Complete(CallSlot(i), "succeeded", "published"),
                                 RecordCall("ToolCompleted", i)>>)
           /\ UNCHANGED batch
        \/ \E findings \in {<<>>, <<Record("VerificationFinding")>>} :
             Refuse(i, batch.draft, <<Complete(VerifySlot, "succeeded", "refused")>> \o findings)
        \/ CloseFailed(VerifySlot, "Failed") /\ UNCHANGED batch
  BY DEF VerifierAnswers
<1>3. i \in 1..Len(batch.calls)
  BY DEF Typed, TypeOK
<1>4. /\ Complete(VerifySlot, "succeeded", "passed") \in Write
      /\ Complete(VerifySlot, "succeeded", "refused") \in Write
      /\ Complete(CallSlot(i), "succeeded", "published") \in Write
      /\ RecordCall("ToolCompleted", i) \in Write /\ Record("VerificationFinding") \in Write
  BY <1>3, CallWritesTyped, WritesTyped, Names, FixedSlots DEF CallEvent, Value
<1>5. /\ <<Complete(VerifySlot, "succeeded", "passed"), Complete(CallSlot(i), "succeeded", "published"),
           RecordCall("ToolCompleted", i)>> \in Seq(Write)
      /\ <<Complete(VerifySlot, "succeeded", "refused")>> \in Seq(Write)
      /\ <<>> \in Seq(Write) /\ <<Record("VerificationFinding")>> \in Seq(Write)
  BY <1>4
<1>6. \A w \in {<<>>, <<Record("VerificationFinding")>>} :
        <<Complete(VerifySlot, "succeeded", "refused")>> \o w \in Seq(Write)
  BY <1>5, ConcatProperties
<1>7. CASE Then("publish", <<Complete(VerifySlot, "succeeded", "passed"),
                              Complete(CallSlot(i), "succeeded", "published"),
                              RecordCall("ToolCompleted", i)>>) /\ UNCHANGED batch
  BY <1>1, <1>5, <1>7, ThenGoesOn, SameBatch DEF Place
<1>8. ASSUME NEW w \in {<<>>, <<Record("VerificationFinding")>>},
             Refuse(i, batch.draft, <<Complete(VerifySlot, "succeeded", "refused")>> \o w)
      PROVE  GoesOn /\ BatchTyped' /\ BatchFits'
  BY <1>1, <1>6, <1>8, RefuseTyped
<1>9. CASE CloseFailed(VerifySlot, "Failed") /\ UNCHANGED batch
  BY <1>1, <1>9, CloseFailedGoesOn, FixedSlots, SameBatch DEF Stop
<1> QED
  BY <1>2, <1>7, <1>8, <1>9

LEMMA DecideTyped ==
  ASSUME Typed, Decide
  PROVE  Typed'
<1>1. UNCHANGED <<durable, seq, ids, completed, stream, faults>>
  BY DEF Decide
<1>2. turn \in Turn /\ round \in 0..MaxModelRounds
  BY DEF Typed, TypeOK, RunTyped
<1>3. CASE \/ CreateTask \/ Plan \/ SelectModel \/ Connect \/ Finish \/ StreamFails \/ Prepared
           \/ ServeCancelled \/ BatchEnds \/ Publish
  <2>1. UNCHANGED <<turn, round, batch>>
    BY <1>3 DEF CreateTask, Plan, SelectModel, Connect, Finish, StreamFails, Prepared, ServeCancelled,
                BatchEnds, Publish
  <2>2. GoesOn
    BY <1>3, CreateTaskTyped, PlanTyped, SelectModelTyped, QuietTyped
  <2> QED
    BY <1>1, <1>2, <2>1, <2>2, SameBatch, DecisionTyped
<1>4. CASE StartRound
  <2>1. UNCHANGED batch
    BY <1>4 DEF StartRound
  <2> QED
    BY <1>1, <1>4, <2>1, StartRoundTyped, SameBatch, DecisionTyped
<1>5. CASE AwaitChunk \/ ChunkArrives \/ EmptyTurn \/ TextTurn \/ Answer
  <2>1. UNCHANGED <<round, batch>>
    BY <1>5 DEF AwaitChunk, ChunkArrives, EmptyTurn, TextTurn, Answer
  <2>2. GoesOn /\ turn' \in Turn
    BY <1>5, ChunksTyped, EmptyTurnTyped, AnswersTyped
  <2> QED
    BY <1>1, <1>2, <2>1, <2>2, SameBatch, DecisionTyped
<1>6. CASE CallTurn
  <2>1. UNCHANGED round
    BY <1>6 DEF CallTurn
  <2> QED
    BY <1>1, <1>2, <1>6, <2>1, CallTurnTyped, DecisionTyped
<1>7. CASE PrepareCall \/ ToolReturns \/ Collected \/ SearchEvidence \/ SubmitReport \/ VerifierAnswers
  <2>1. UNCHANGED <<turn, round>>
    BY <1>7 DEF PrepareCall, ToolReturns, Collected, SearchEvidence, SubmitReport, VerifierAnswers
  <2>2. GoesOn /\ BatchTyped' /\ BatchFits'
    BY <1>7, PrepareCallTyped, ToolReturnsTyped, CollectedTyped, SearchEvidenceTyped,
       SubmitReportTyped, VerifierAnswersTyped
  <2> QED
    BY <1>1, <1>2, <2>1, <2>2, DecisionTyped
<1> QED
  BY <1>3, <1>4, <1>5, <1>6, <1>7 DEF Decide

LEMMA ClientTyped ==
  ASSUME Typed, Recv \/ Cancel \/ Close \/ Ended \/ UNCHANGED vars
  PROVE  Typed'
<1>1. UNCHANGED <<log, checkpoint, effects, pc, todo, stage, seq, phase, round, turn, batch, ids,
                  completed, result, sent>>
  BY DEF Recv, Cancel, Close, Ended, vars, durable, memory, stream
<1>2. unread' \in 0..ChannelCapacity
  BY BoundsAssumption DEF Recv, Cancel, Close, Ended, vars, stream, Typed, TypeOK
<1>3. RunTyped'
  BY <1>1, SameRun DEF Typed, RunTyped
<1> QED
  BY <1>1, <1>2, <1>3 DEF Typed, TypeOK

LEMMA NextTyped ==
  ASSUME Typed, [Next]_vars
  PROVE  Typed'
<1>1. CASE Perform
  BY <1>1, AppendEventTyped, PutCheckpointTyped, SendTyped, BeginEffectTyped, CompleteEffectTyped,
     OtherWritesTyped DEF Perform
<1> QED
  BY <1>1, DecideTyped, ClientTyped DEF Next, Runtime

\* What is stored is well-formed, whatever the model answers and the store fails:
\* every effect the runtime has open is in the table, the channel never holds
\* more than it may, and no event is sent under a number that was not taken.
THEOREM TaskTypeCorrect == Spec => []TypeOK
<1>1. Typed => TypeOK
  BY DEF Typed
<1> QED
  BY InitTyped, NextTyped, <1>1, PTL DEF Spec

-----------------------------------------------------------------------------
(***************************************************************************)
(* What the runtime has open.  An effect is closed by a write that was     *)
(* decided several steps before, so that it closes the one it means, and   *)
(* while it is open, needs to be known of the writes still to be done.     *)
(***************************************************************************)
\* An effect is begun behind the record whose number its key takes, and last of
\* all effects; every effect is closed once; events are of the round.
Program ==
  /\ \A m, n \in 1..Len(todo) :
       m < n /\ todo[m].op = "begin" => todo[n].op \notin {"begin", "complete"}
  /\ \A m, n \in 1..Len(todo) :
       m < n /\ todo[m].op = "complete" /\ todo[n].op = "complete" => todo[m].slot # todo[n].slot
  /\ \A n \in 1..Len(todo) : n > 1 /\ todo[n].op = "begin" => todo[n - 1].op = "record"
  /\ \A n \in 1..Len(todo) : todo[n].op = "record" => todo[n].event.round = round
  /\ stage # "append" => Doing("record")

\* The slots that are going to be closed, and to be opened.
Closing   == {todo[n].slot : n \in {m \in 1..Len(todo) : todo[m].op = "complete"}}
Opening   == {todo[n].slot : n \in {m \in 1..Len(todo) : todo[m].op = "begin"}}
Returning == \E n \in 1..Len(todo) : todo[n].op = "return"

\* The slots of the work that is under way at a place, once its writes are done.
NeededAt(place, calls, begun) ==
  {s \in Slot :
     \/ place = "select" /\ s = SelectSlot
     \/ place \in {"connect", "stream", "chunk"} /\ s = StreamSlot
     \/ place = "verify" /\ s = VerifySlot
     \/ place \in {"prepare", "collect", "serve", "verify"} /\ \E i \in begun : s = <<calls[i], i>>
     \/ place \in {"publish", "finish"} /\ \E i, j \in begun : j < i /\ s = <<calls[i], i>>}
Needed == NeededAt(pc, batch.calls, batch.open)

\* An effect the runtime has open is pending in the store, under the slot and
\* of the round.
Held ==
  \A s \in DOMAIN ids :
    /\ ids[s] \in DOMAIN effects
    /\ effects[ids[s]].slot = s /\ effects[ids[s]].status = "pending" /\ effects[ids[s]].round = round

Balanced ==
  /\ Closing \subseteq DOMAIN ids
  /\ pc \notin {"stopping", "ended"} /\ ~Returning => Needed = (DOMAIN ids \ Closing) \cup Opening

BatchOpen ==
  /\ \A i \in batch.open : batch.calls[i] \in Registered
  /\ pc \in {"create", "plan", "select", "round", "connect", "stream", "chunk", "answer"} =>
       batch.open = {}
  /\ pc \in {"serve", "verify", "publish", "finish"} =>
       \A i \in batch.open : batch.calls[i] \in RuntimeTool

WorkInv == Typed /\ Program /\ Held /\ Balanced /\ BatchOpen

LEMMA InitWork == Init => WorkInv
<1> SUFFICES ASSUME Init PROVE WorkInv
  OBVIOUS
<1>1. Typed
  BY InitTyped
<1>2. todo = <<>> /\ Len(todo) = 0 /\ stage = "append" /\ pc = "create" /\ batch.open = {}
  BY DEF Init, EmptyBatch
<1>3. DOMAIN ids = {}
  BY DEF Init
<1>4. Needed = {} /\ Closing = {} /\ Opening = {}
  BY <1>2 DEF Needed, NeededAt, Closing, Opening
<1> QED
  BY <1>1, <1>2, <1>3, <1>4 DEF WorkInv, Program, Held, Balanced, BatchOpen

-----------------------------------------------------------------------------
\* Lists of writes, by their length.
LEMMA Program0 ==
  ASSUME todo' = <<>>, stage' = "append"
  PROVE  Program' /\ Closing' = {} /\ Opening' = {} /\ ~Returning'
BY DEF Program, Closing, Opening, Returning

LEMMA Program1 ==
  ASSUME NEW a, todo' = <<a>>, stage' = "append", a.op # "begin",
         a.op = "record" => a.event.round = round'
  PROVE  /\ Program' /\ Opening' = {} /\ (Returning' <=> a.op = "return")
         /\ Closing' = {w.slot : w \in {x \in {a} : x.op = "complete"}}
<1>1. 1..Len(todo') = {1} /\ todo'[1] = a
  OBVIOUS
<1>2. Program'
  BY <1>1 DEF Program
<1> QED
  BY <1>1, <1>2 DEF Closing, Opening, Returning

LEMMA Program2 ==
  ASSUME NEW a, NEW b, todo' = <<a, b>>, stage' = "append",
         a.op # "begin", b.op = "begin" => a.op = "record",
         a.op = "complete" /\ b.op = "complete" => a.slot # b.slot,
         \A w \in {a, b} : w.op = "record" => w.event.round = round'
  PROVE  /\ Program' /\ (Returning' <=> \E w \in {a, b} : w.op = "return")
         /\ Closing' = {w.slot : w \in {x \in {a, b} : x.op = "complete"}}
         /\ Opening' = {w.slot : w \in {x \in {a, b} : x.op = "begin"}}
<1>1. 1..Len(todo') = {1, 2} /\ todo'[1] = a /\ todo'[2] = b
  OBVIOUS
<1>2. Program'
  BY <1>1 DEF Program
<1> QED
  BY <1>1, <1>2 DEF Closing, Opening, Returning

LEMMA Program3 ==
  ASSUME NEW a, NEW b, NEW c, todo' = <<a, b, c>>, stage' = "append",
         a.op # "begin",
         b.op = "begin" => a.op = "record" /\ c.op \notin {"begin", "complete"},
         c.op = "begin" => b.op = "record",
         a.op = "complete" /\ b.op = "complete" => a.slot # b.slot,
         a.op = "complete" /\ c.op = "complete" => a.slot # c.slot,
         b.op = "complete" /\ c.op = "complete" => b.slot # c.slot,
         \A w \in {a, b, c} : w.op = "record" => w.event.round = round'
  PROVE  /\ Program' /\ (Returning' <=> \E w \in {a, b, c} : w.op = "return")
         /\ Closing' = {w.slot : w \in {x \in {a, b, c} : x.op = "complete"}}
         /\ Opening' = {w.slot : w \in {x \in {a, b, c} : x.op = "begin"}}
<1>1. 1..Len(todo') = {1, 2, 3} /\ todo'[1] = a /\ todo'[2] = b /\ todo'[3] = c
  OBVIOUS
<1>2. Program'
  BY <1>1 DEF Program
<1> QED
  BY <1>1, <1>2 DEF Closing, Opening, Returning

LEMMA Program4 ==
  ASSUME NEW a, NEW b, NEW c, NEW d, todo' = <<a, b, c, d>>, stage' = "append",
         \A w \in {a, b, c, d} : w.op # "begin",
         a.op = "complete" /\ c.op = "complete" => a.slot # c.slot,
         b.op # "complete", d.op # "complete",
         \A w \in {a, b, c, d} : w.op = "record" => w.event.round = round'
  PROVE  /\ Program' /\ Opening' = {} /\ (Returning' <=> \E w \in {a, b, c, d} : w.op = "return")
         /\ Closing' = {w.slot : w \in {x \in {a, b, c, d} : x.op = "complete"}}
<1>1. 1..Len(todo') = {1, 2, 3, 4} /\ todo'[1] = a /\ todo'[2] = b /\ todo'[3] = c /\ todo'[4] = d
  OBVIOUS
<1>2. Program'
  BY <1>1 DEF Program
<1> QED
  BY <1>1, <1>2 DEF Closing, Opening, Returning

\* A list that is one shorter.
LEMMA ProgramTail ==
  ASSUME Typed, Program, todo # <<>>, todo' = Tail(todo), stage' = "append", UNCHANGED round
  PROVE  /\ Program'
         /\ Head(todo).op # "complete" => Closing' = Closing
         /\ Head(todo).op = "complete" =>
              Head(todo).slot \in Closing /\ Closing' = Closing \ {Head(todo).slot}
         /\ Head(todo).op # "begin" => Opening' = Opening
         /\ Head(todo).op = "begin" =>
              Opening = Opening' \cup {Head(todo).slot} /\ Closing = {}
         /\ Head(todo).op # "return" => (Returning' <=> Returning)
<1>1. /\ Len(todo) \in Nat \ {0} /\ Head(todo) = todo[1] /\ Len(todo') = Len(todo) - 1
      /\ \A n \in 1..Len(todo') : todo'[n] = todo[n + 1]
  BY TailWrites
<1>2. \A n \in 1..Len(todo) : n = 1 \/ (n - 1 \in 1..Len(todo') /\ todo'[n - 1] = todo[n])
  BY <1>1
<1>3. \A n \in 1..Len(todo') : n + 1 \in 1..Len(todo) /\ todo'[n] = todo[n + 1]
  BY <1>1
<1>4. Program'
  <2>1. \A m, n \in 1..Len(todo') :
          /\ m < n /\ todo'[m].op = "begin" => todo'[n].op \notin {"begin", "complete"}
          /\ m < n /\ todo'[m].op = "complete" /\ todo'[n].op = "complete" => todo'[m].slot # todo'[n].slot
    BY <1>3 DEF Program
  <2>2. ASSUME NEW n \in 1..Len(todo'), n > 1, todo'[n].op = "begin" PROVE todo'[n - 1].op = "record"
    <3>1. n + 1 \in 1..Len(todo) /\ n + 1 > 1 /\ todo[n + 1].op = "begin" /\ (n + 1) - 1 = n
      BY <1>3, <2>2
    <3>2. todo[n].op = "record"
      BY <3>1 DEF Program
    <3>3. n - 1 \in 1..Len(todo') /\ (n - 1) + 1 = n
      BY <1>1, <2>2
    <3> QED
      BY <1>3, <3>2, <3>3
  <2>3. \A n \in 1..Len(todo') : todo'[n].op = "record" => todo'[n].event.round = round'
    BY <1>3 DEF Program
  <2> QED
    BY <2>1, <2>2, <2>3 DEF Program
<1>5. \A n \in 1..Len(todo) : n > 1 /\ todo[1].op = "begin" => todo[n].op \notin {"begin", "complete"}
  BY <1>1 DEF Program
<1>6. \A n \in 1..Len(todo) :
        n > 1 /\ todo[1].op = "complete" /\ todo[n].op = "complete" => todo[1].slot # todo[n].slot
  BY <1>1 DEF Program
<1>7. /\ Head(todo).op # "complete" => Closing' = Closing
      /\ Head(todo).op = "complete" =>
           Head(todo).slot \in Closing /\ Closing' = Closing \ {Head(todo).slot}
  <2>1. \A s : s \in Closing <=> \E n \in 1..Len(todo) : todo[n].op = "complete" /\ todo[n].slot = s
    BY DEF Closing
  <2>2. \A s : s \in Closing' <=> \E n \in 1..Len(todo') : todo'[n].op = "complete" /\ todo'[n].slot = s
    BY DEF Closing
  <2>3. \A s : s \in Closing' => \E n \in 1..Len(todo) : n > 1 /\ todo[n].op = "complete" /\ todo[n].slot = s
    BY <1>1, <1>3, <2>2
  <2>4. \A s : s \in Closing =>
          s \in Closing' \/ (todo[1].op = "complete" /\ todo[1].slot = s)
    BY <1>2, <2>1, <2>2
  <2>5. Closing' \subseteq Closing
    BY <2>1, <2>3
  <2>6. todo[1].op = "complete" => todo[1].slot \in Closing /\ todo[1].slot \notin Closing'
    BY <1>1, <1>6, <2>1, <2>3
  <2> QED
    BY <1>1, <2>4, <2>5, <2>6
<1>8. /\ Head(todo).op # "begin" => Opening' = Opening
      /\ Head(todo).op = "begin" => Opening = Opening' \cup {Head(todo).slot}
  <2>1. \A s : s \in Opening <=> \E n \in 1..Len(todo) : todo[n].op = "begin" /\ todo[n].slot = s
    BY DEF Opening
  <2>2. \A s : s \in Opening' <=> \E n \in 1..Len(todo') : todo'[n].op = "begin" /\ todo'[n].slot = s
    BY DEF Opening
  <2>3. Opening' \subseteq Opening
    BY <1>3, <2>1, <2>2
  <2>4. \A s : s \in Opening => s \in Opening' \/ (todo[1].op = "begin" /\ todo[1].slot = s)
    BY <1>2, <2>1, <2>2
  <2>5. todo[1].op = "begin" => todo[1].slot \in Opening
    BY <1>1, <2>1
  <2> QED
    BY <1>1, <2>3, <2>4, <2>5
<1>9. Head(todo).op = "begin" => Closing = {}
  BY <1>1, <1>5 DEF Closing
<1>10. Head(todo).op # "return" => (Returning' <=> Returning)
  BY <1>1, <1>2, <1>3 DEF Returning
<1> QED
  BY <1>4, <1>7, <1>8, <1>9, <1>10

\* A task that stops needs nothing any more.
LEMMA RaisedWork ==
  ASSUME WorkInv, NEW class \in Stop, Raise(class), UNCHANGED <<round, batch>>, Typed', Held'
  PROVE  WorkInv'
<1>1. stage' = "append" /\ pc' \in {"stopping", "ended"} /\ (todo' = <<>> \/ todo' = <<Record(class)>>)
  BY DEF Raise
<1>2. Record(class).op = "record" /\ Record(class).event.round = round'
  BY DEF Record, Event
<1>3. Program' /\ Closing' = {}
  BY <1>1, <1>2, Program0, Program1
<1> QED
  BY <1>1, <1>3 DEF WorkInv, Balanced, BatchOpen

LEMMA FaultWork ==
  ASSUME WorkInv, Fault \/ Refused, UNCHANGED <<round, batch>>, Typed', Held'
  PROVE  WorkInv'
<1>1. Raise("Failed") /\ "Failed" \in Stop
  BY DEF Fault, Refused, Stop
<1> QED
  BY <1>1, RaisedWork

\* What is needed depends on the place and on the open calls.
LEMMA SameNeeded ==
  ASSUME UNCHANGED <<pc, batch>>
  PROVE  Needed' = Needed /\ (BatchOpen => BatchOpen')
BY DEF Needed, BatchOpen

LEMMA SameHeld ==
  ASSUME Held, UNCHANGED <<ids, effects, round>>
  PROVE  Held'
BY DEF Held

LEMMA SameWork ==
  ASSUME WorkInv, Typed', UNCHANGED <<pc, todo, round, batch, ids, effects>>,
         stage' # "append" => Doing("record")
  PROVE  WorkInv'
<1>1. Program' /\ Closing' = Closing /\ Opening' = Opening /\ Returning' = Returning
  BY DEF WorkInv, Program, Closing, Opening, Returning, Doing
<1> QED
  BY <1>1, SameNeeded, SameHeld DEF WorkInv, Balanced

LEMMA AdvancedWork ==
  ASSUME WorkInv, Typed', todo # <<>>, Advance, UNCHANGED <<round, batch, ids, effects>>,
         Head(todo).op \notin {"begin", "complete", "return"}
  PROVE  WorkInv'
<1>1. Program' /\ Closing' = Closing /\ Opening' = Opening /\ (Returning' <=> Returning)
  BY ProgramTail DEF WorkInv, Advance
<1>2. Needed' = Needed /\ BatchOpen' /\ Held'
  BY SameNeeded, SameHeld DEF WorkInv, Advance
<1> QED
  BY <1>1, <1>2 DEF WorkInv, Balanced, Advance

LEMMA RecordWork ==
  ASSUME WorkInv, Typed', AppendEvent \/ PutCheckpoint \/ Send \/ KeepCompleted
  PROVE  WorkInv'
<1>1. /\ todo # <<>> /\ UNCHANGED <<effects, round, batch, ids>>
      /\ Head(todo).op \in {"record", "keep"}
  BY DEF AppendEvent, PutCheckpoint, Send, KeepCompleted, Doing, durable
<1>2. Held'
  BY <1>1, SameHeld DEF WorkInv
<1>3. CASE Fault \/ Refused
  BY <1>1, <1>2, <1>3, FaultWork
<1>4. CASE Advance
  BY <1>1, <1>4, AdvancedWork
<1>5. CASE UNCHANGED <<pc, todo>> /\ Doing("record")
  BY <1>1, <1>5, SameWork
<1>6. CASE Raise("Cancelled")
  BY <1>1, <1>2, <1>6, RaisedWork DEF Stop
<1> QED
  BY <1>3, <1>4, <1>5, <1>6 DEF AppendEvent, PutCheckpoint, Send, KeepCompleted

LEMMA ReturnWork ==
  ASSUME WorkInv, Typed', ReturnError
  PROVE  WorkInv'
<1>1. todo # <<>> /\ UNCHANGED <<effects, round, batch, ids>> /\ Raise(Head(todo).class)
  BY DEF ReturnError, durable, Doing
<1>2. Head(todo).class \in Stop
  BY <1>1, TailWrites, WriteFields DEF ReturnError, Doing, WorkInv
<1> QED
  BY <1>1, <1>2, RaisedWork, SameHeld DEF WorkInv

\* begin_effect: the new effect is held, and the others still are.
LEMMA BeginWork ==
  ASSUME WorkInv, Typed', BeginEffect
  PROVE  WorkInv'
<1> DEFINE slot == Head(todo).slot
           key == Key(slot)
           row == [slot |-> slot, round |-> round, status |-> "pending", value |-> "none"]
<1>1. todo # <<>> /\ Head(todo).op = "begin" /\ UNCHANGED <<round, batch>>
  BY DEF BeginEffect, Doing
<1>2. \/ /\ key \notin DOMAIN effects
         /\ effects' = [k \in DOMAIN effects \cup {key} |-> IF k = key THEN row ELSE effects[k]]
         /\ \/ Advance /\ ids' = [s \in DOMAIN ids \cup {slot} |-> IF s = slot THEN key ELSE ids[s]]
            \/ Fault /\ UNCHANGED ids
      \/ (Fault \/ Refused) /\ UNCHANGED <<effects, ids>>
  BY DEF BeginEffect
<1>3. row.slot = slot /\ row.status = "pending" /\ row.round = round
  OBVIOUS
<1> HIDE DEF slot, key, row
<1>4. CASE (Fault \/ Refused) /\ UNCHANGED <<effects, ids>>
  BY <1>1, <1>4, SameHeld, FaultWork DEF WorkInv
<1>5. CASE /\ key \notin DOMAIN effects
           /\ effects' = [k \in DOMAIN effects \cup {key} |-> IF k = key THEN row ELSE effects[k]]
           /\ Fault /\ UNCHANGED ids
  <2>1. Held'
    BY <1>1, <1>5 DEF WorkInv, Held
  <2> QED
    BY <1>1, <1>5, <2>1, FaultWork
<1>6. CASE /\ key \notin DOMAIN effects
           /\ effects' = [k \in DOMAIN effects \cup {key} |-> IF k = key THEN row ELSE effects[k]]
           /\ Advance /\ ids' = [s \in DOMAIN ids \cup {slot} |-> IF s = slot THEN key ELSE ids[s]]
  <2>1. Held'
    BY <1>1, <1>3, <1>6 DEF WorkInv, Held
  <2>2. /\ Program' /\ Closing' = {} /\ Closing = {} /\ Opening = Opening' \cup {slot}
        /\ (Returning' <=> Returning)
    BY <1>1, <1>6, ProgramTail DEF WorkInv, Advance, slot
  <2>3. Needed' = Needed /\ BatchOpen' /\ pc' = pc
    BY <1>1, <1>6, SameNeeded DEF WorkInv, Advance
  <2>4. DOMAIN ids' = DOMAIN ids \cup {slot}
    BY <1>6
  <2>5. Balanced'
    BY <2>2, <2>3, <2>4 DEF WorkInv, Balanced
  <2> QED
    BY <2>1, <2>2, <2>3, <2>5 DEF WorkInv
<1> QED
  BY <1>2, <1>4, <1>5, <1>6

\* complete_effect: it was open, and no other has its key.
LEMMA CompleteWork ==
  ASSUME WorkInv, Typed', CompleteEffect
  PROVE  /\ WorkInv'
         /\ Head(todo).slot \in DOMAIN ids /\ ids[Head(todo).slot] \in DOMAIN effects
         /\ effects[ids[Head(todo).slot]].status = "pending"
<1> DEFINE w == Head(todo)
           key == ids[w.slot]
<1>1. todo # <<>> /\ w.op = "complete" /\ UNCHANGED <<round, batch>>
  BY DEF CompleteEffect, Doing
<1>2. /\ \/ /\ effects' = [effects EXCEPT ![key] = [effects[key] EXCEPT !.status = w.status, !.value = w.value]]
            /\ Advance \/ Fault
         \/ Fault /\ UNCHANGED effects
      /\ ids' = [s \in DOMAIN ids \ {w.slot} |-> ids[s]]
  BY DEF CompleteEffect
<1>3. w \in Write /\ w = todo[1] /\ 1 \in 1..Len(todo)
  BY <1>1, TailWrites DEF WorkInv
<1>4. w.slot \in Closing
  BY <1>1, <1>3 DEF Closing
<1>5. /\ w.slot \in DOMAIN ids /\ key \in DOMAIN effects
      /\ effects[key].status = "pending" /\ effects[key].slot = w.slot
  BY <1>4 DEF WorkInv, Balanced, Held
<1> HIDE DEF w, key
<1>6. Held'
  <2>1. \A s \in DOMAIN ids' : s \in DOMAIN ids /\ s # w.slot /\ ids'[s] = ids[s]
    BY <1>2
  <2>2. \A s \in DOMAIN ids' : ids'[s] # key /\ ids'[s] \in DOMAIN effects
    BY <1>5, <2>1 DEF WorkInv, Held
  <2>3. \A s \in DOMAIN ids' : ids'[s] \in DOMAIN effects' /\ effects'[ids'[s]] = effects[ids[s]]
    BY <1>2, <2>1, <2>2
  <2> QED
    BY <1>1, <2>1, <2>3 DEF WorkInv, Held
<1>7. CASE Fault
  BY <1>1, <1>5, <1>6, <1>7, FaultWork DEF w, key
<1>8. CASE Advance
  <2>1. /\ Program' /\ Closing' = Closing \ {w.slot} /\ Opening' = Opening
        /\ (Returning' <=> Returning)
    BY <1>1, <1>8, ProgramTail DEF WorkInv, Advance, w
  <2>2. Needed' = Needed /\ BatchOpen' /\ pc' = pc
    BY <1>1, <1>8, SameNeeded DEF WorkInv, Advance
  <2>3. DOMAIN ids' = DOMAIN ids \ {w.slot}
    BY <1>2
  <2>4. Balanced'
    BY <1>4, <2>1, <2>2, <2>3 DEF WorkInv, Balanced
  <2> QED
    BY <1>5, <1>6, <2>1, <2>2, <2>4 DEF WorkInv, w, key
<1> QED
  BY <1>2, <1>7, <1>8

LEMMA PerformWork ==
  ASSUME WorkInv, Perform
  PROVE  WorkInv'
<1>1. Typed'
  BY NextTyped DEF WorkInv, Next, Runtime
<1> QED
  BY <1>1, RecordWork, ReturnWork, BeginWork, CompleteWork DEF Perform

LEMMA ClientWork ==
  ASSUME WorkInv, Recv \/ Cancel \/ Close \/ Ended \/ UNCHANGED vars
  PROVE  WorkInv'
<1>1. UNCHANGED <<pc, todo, stage, round, batch, ids, effects>>
  BY DEF Recv, Cancel, Close, Ended, vars, durable, memory, stream
<1>2. Typed'
  BY ClientTyped DEF WorkInv
<1>3. stage' # "append" => Doing("record")
  BY <1>1 DEF WorkInv, Program
<1> QED
  BY <1>1, <1>2, <1>3, SameWork

-----------------------------------------------------------------------------
\* What is needed at each place.
LEMMA NeededIs ==
  ASSUME NEW calls, NEW begun, \A i \in begun : <<calls[i], i>> \in Slot
  PROVE  /\ \A p \in {"create", "plan", "round", "answer", "stopping", "ended"} :
              NeededAt(p, calls, begun) = {}
         /\ NeededAt("select", calls, begun) = {SelectSlot}
         /\ \A p \in {"connect", "stream", "chunk"} : NeededAt(p, calls, begun) = {StreamSlot}
         /\ \A p \in {"prepare", "collect", "serve"} :
              NeededAt(p, calls, begun) = {<<calls[i], i>> : i \in begun}
         /\ NeededAt("verify", calls, begun) = {VerifySlot} \cup {<<calls[i], i>> : i \in begun}
         /\ \A p \in {"publish", "finish"} :
              NeededAt(p, calls, begun) = {<<calls[i], i>> : i \in {n \in begun : \E j \in begun : j < n}}
BY FixedSlots DEF NeededAt

LEMMA OpenSlots ==
  ASSUME Typed
  PROVE  /\ \A i \in batch.open : i \in 1..Len(batch.calls) /\ i \in Nat /\ <<batch.calls[i], i>> \in Slot
         /\ \A i, j \in batch.open : <<batch.calls[i], i>> = <<batch.calls[j], j>> => i = j
         /\ \A i \in batch.open : <<batch.calls[i], i>> # VerifySlot
<1>1. \A i \in batch.open : i \in 1..Len(batch.calls)
  BY DEF Typed, TypeOK
<1>2. \A i \in batch.open : CallSlot(i) \in Slot
  BY <1>1, CallSlots DEF Typed, RunTyped
<1>3. Len(batch.calls) \in Nat
  BY LenProperties DEF Typed, RunTyped, BatchTyped, Batch
<1>4. \A i \in batch.open : i \in Nat \ {0}
  BY <1>1, <1>3
<1> QED
  BY <1>1, <1>2, <1>4 DEF CallSlot, VerifySlot

\* When a decision is taken, what is open is what is needed.
LEMMA AtNeeded ==
  ASSUME WorkInv, NEW place \in Place \ {"stopping", "ended"}, At(place)
  PROVE  /\ stage = "append" /\ DOMAIN ids = NeededAt(place, batch.calls, batch.open)
         /\ \A i \in batch.open :
              i \in Nat /\ CallSlot(i) = <<batch.calls[i], i>> /\ <<batch.calls[i], i>> \in Slot
         /\ place \in {"create", "plan", "round", "answer"} => DOMAIN ids = {}
         /\ place = "select" => DOMAIN ids = {SelectSlot}
         /\ place \in {"connect", "stream", "chunk"} => DOMAIN ids = {StreamSlot}
         /\ place \in {"prepare", "collect", "serve"} => DOMAIN ids = {<<batch.calls[i], i>> : i \in batch.open}
         /\ place = "verify" => DOMAIN ids = {VerifySlot} \cup {<<batch.calls[i], i>> : i \in batch.open}
<1>1. stage = "append" /\ Len(todo) = 0 /\ pc = place
  BY AtTyped DEF WorkInv, At
<1>2. Closing = {} /\ Opening = {} /\ ~Returning
  BY <1>1 DEF Closing, Opening, Returning
<1>3. DOMAIN ids = NeededAt(place, batch.calls, batch.open)
  BY <1>1, <1>2 DEF WorkInv, Balanced, Needed
<1>4. \A i \in batch.open : i \in Nat /\ CallSlot(i) = <<batch.calls[i], i>> /\ <<batch.calls[i], i>> \in Slot
  BY OpenSlots DEF WorkInv, CallSlot
<1> QED
  BY <1>1, <1>3, <1>4, NeededIs

LEMMA DecidedWork ==
  ASSUME WorkInv, Typed', UNCHANGED <<ids, effects>>, UNCHANGED round \/ DOMAIN ids = {},
         Program', BatchOpen', Closing' \subseteq DOMAIN ids,
         \/ pc' \in {"stopping", "ended"} \/ Returning'
         \/ NeededAt(pc', batch'.calls, batch'.open) = (DOMAIN ids \ Closing') \cup Opening'
  PROVE  WorkInv'
<1>1. Held'
  BY DEF WorkInv, Held
<1> QED
  BY <1>1 DEF WorkInv, Balanced, Needed

LEMMA CloseFailedWork ==
  ASSUME WorkInv, Typed', UNCHANGED <<ids, effects, round, batch>>, stage = "append",
         NEW s \in DOMAIN ids, NEW class, CloseFailed(s, class)
  PROVE  WorkInv'
<1> DEFINE a == Complete(s, "failed", "error")
           b == Return(class)
<1>1. todo' = <<a, b>> /\ stage' = "append" /\ pc' = pc
  BY DEF CloseFailed, Then
<1>2. a.op = "complete" /\ a.slot = s /\ b.op = "return"
  BY DEF Complete, Return
<1> HIDE DEF a, b
<1>3. Program' /\ Returning' /\ Closing' = {s}
  BY <1>1, <1>2, Program2
<1>4. BatchOpen'
  BY <1>1, SameNeeded DEF WorkInv
<1> QED
  BY <1>3, <1>4, DecidedWork

\* Decisions that leave the batch alone and stop.
LEMMA StoppedWork ==
  ASSUME WorkInv, Typed', UNCHANGED <<ids, effects, round, batch>>, NEW class \in Stop, Raise(class)
  PROVE  WorkInv'
BY RaisedWork, SameHeld DEF WorkInv

LEMMA OpeningWork ==
  ASSUME WorkInv, Typed', UNCHANGED <<ids, effects>>, CreateTask \/ Plan
  PROVE  WorkInv'
<1> DEFINE a == Record("SessionStarted")
           b == Record("UserMessageAccepted")
           c == Record("PlanningStarted")
           d == Record("PlanUpdated")
           e == Begin(SelectSlot)
<1>1. /\ \A w \in {a, b, c, d} : w.op = "record" /\ w.event.round = round
      /\ e.op = "begin" /\ e.slot = SelectSlot
  BY DEF Record, Event, Begin
<1>2. UNCHANGED <<round, batch>> /\ DOMAIN ids = {} /\ stage = "append" /\ pc \in {"create", "plan"}
  BY AtNeeded DEF CreateTask, Plan, At, Place
<1>3. \A i \in batch.open : <<batch.calls[i], i>> \in Slot
  BY OpenSlots DEF WorkInv
<1> HIDE DEF a, b, c, d, e
<1>4. CASE Then("plan", <<a, b>>)
  <2>1. Program' /\ Closing' = {} /\ Opening' = {}
    BY <1>1, <1>2, <1>4, Program2 DEF Then
  <2> QED
    BY <1>2, <1>3, <1>4, <2>1, NeededIs, DecidedWork DEF Then, BatchOpen, WorkInv
<1>5. CASE Then("ended", <<>>)
  BY <1>2, <1>5, Program0, DecidedWork DEF Then, BatchOpen, WorkInv
<1>6. CASE Then("select", <<c, d, e>>)
  <2>1. Program' /\ Closing' = {} /\ Opening' = {SelectSlot}
    BY <1>1, <1>2, <1>6, Program3 DEF Then
  <2> QED
    BY <1>2, <1>3, <1>6, <2>1, NeededIs, DecidedWork DEF Then, BatchOpen, WorkInv
<1> QED
  BY <1>4, <1>5, <1>6 DEF CreateTask, Plan, a, b, c, d, e

\* Decisions that write nothing, record one event, or close one effect.
LEMMA MovedWork ==
  ASSUME WorkInv, Typed', UNCHANGED <<ids, effects>>, UNCHANGED round \/ DOMAIN ids = {}, stage = "append",
         NEW place, Then(place, <<>>), BatchOpen', NeededAt(place, batch'.calls, batch'.open) = DOMAIN ids
  PROVE  WorkInv'
<1>1. Program' /\ Closing' = {} /\ Opening' = {}
  BY Program0 DEF Then
<1> QED
  BY <1>1, DecidedWork DEF Then

LEMMA RecordedWork ==
  ASSUME WorkInv, Typed', UNCHANGED <<ids, effects, round>>, stage = "append",
         NEW place, NEW k, Then(place, <<Record(k)>>), BatchOpen',
         NeededAt(place, batch'.calls, batch'.open) = DOMAIN ids
  PROVE  WorkInv'
<1>1. Record(k).op = "record" /\ Record(k).event.round = round'
  BY DEF Record, Event
<1>2. Program' /\ Closing' = {} /\ Opening' = {}
  BY <1>1, Program1 DEF Then
<1> QED
  BY <1>2, DecidedWork DEF Then

LEMMA ClosedWork ==
  ASSUME WorkInv, Typed', UNCHANGED <<ids, effects, round>>, stage = "append",
         NEW place, NEW s \in DOMAIN ids, NEW status, NEW v, Then(place, <<Complete(s, status, v)>>),
         BatchOpen', NeededAt(place, batch'.calls, batch'.open) = DOMAIN ids \ {s}
  PROVE  WorkInv'
<1>1. Complete(s, status, v).op = "complete" /\ Complete(s, status, v).slot = s
  BY DEF Complete
<1>2. Program' /\ Closing' = {s} /\ Opening' = {}
  BY <1>1, Program1 DEF Then
<1> QED
  BY <1>2, DecidedWork DEF Then

-----------------------------------------------------------------------------
\* The request for a model and for a turn, and the wait for its chunks.
LEMMA RequestWork ==
  ASSUME WorkInv, Typed', UNCHANGED <<ids, effects>>, SelectModel \/ Connect \/ StreamFails
  PROVE  WorkInv'
<1>1. UNCHANGED <<round, batch>> /\ stage = "append" /\ pc \in {"select", "connect", "chunk"}
  BY AtNeeded DEF SelectModel, Connect, StreamFails, At, Place
<1>2. DOMAIN ids = IF pc = "select" THEN {SelectSlot} ELSE {StreamSlot}
  BY AtNeeded DEF SelectModel, Connect, StreamFails, At, Place
<1>3. \A i \in batch.open : <<batch.calls[i], i>> \in Slot
  BY OpenSlots DEF WorkInv
<1>4. batch.open = {} /\ \A i \in batch.open : batch.calls[i] \in Registered
  BY <1>1 DEF WorkInv, BatchOpen
<1>5. CASE pc = "select" /\ Then("round", <<Complete(SelectSlot, "succeeded", "ok")>>)
  <2>1. BatchOpen' /\ NeededAt("round", batch'.calls, batch'.open) = {}
    BY <1>1, <1>3, <1>4, <1>5, NeededIs DEF BatchOpen
  <2> QED
    BY <1>1, <1>2, <1>5, <2>1, ClosedWork
<1>6. CASE Then("stream", <<>>) /\ pc = "connect"
  <2>1. BatchOpen' /\ NeededAt("stream", batch'.calls, batch'.open) = {StreamSlot}
    BY <1>1, <1>3, <1>4, <1>6, NeededIs DEF BatchOpen
  <2> QED
    BY <1>1, <1>2, <1>6, <2>1, MovedWork
<1>7. CASE \/ pc = "select" /\ \E class : CloseFailed(SelectSlot, class)
           \/ pc # "select" /\ \E class : CloseFailed(StreamSlot, class)
  BY <1>1, <1>2, <1>7, CloseFailedWork
<1> QED
  BY <1>5, <1>6, <1>7 DEF SelectModel, Connect, StreamFails, At

LEMMA ChunksWork ==
  ASSUME WorkInv, Typed', UNCHANGED <<ids, effects>>, AwaitChunk \/ ChunkArrives
  PROVE  WorkInv'
<1>1. UNCHANGED <<round, batch>> /\ stage = "append" /\ DOMAIN ids = {StreamSlot} /\ pc \in {"stream", "chunk"}
  BY AtNeeded DEF AwaitChunk, ChunkArrives, At, Place
<1>2. \A i \in batch.open : <<batch.calls[i], i>> \in Slot
  BY OpenSlots DEF WorkInv
<1>3. batch.open = {} /\ \A i \in batch.open : batch.calls[i] \in Registered
  BY <1>1 DEF WorkInv, BatchOpen
<1>4. \A p \in {"stream", "chunk"} : NeededAt(p, batch'.calls, batch'.open) = {StreamSlot}
  BY <1>1, <1>2, NeededIs
<1>5. pc' \in {"stream", "chunk"} => BatchOpen'
  BY <1>1, <1>3 DEF BatchOpen
<1>6. CASE Then("chunk", <<>>)
  BY <1>1, <1>4, <1>5, <1>6, MovedWork DEF Then
<1>7. CASE Then("stream", <<>>)
  BY <1>1, <1>4, <1>5, <1>7, MovedWork DEF Then
<1>8. CASE Then("stream", <<Record("TextDelta")>>)
  BY <1>1, <1>4, <1>5, <1>8, RecordedWork DEF Then
<1>9. CASE Raise("Cancelled")
  BY <1>1, <1>9, StoppedWork DEF Stop
<1> QED
  BY <1>6, <1>7, <1>8, <1>9 DEF AwaitChunk, ChunkArrives

\* The head of the round loop: nothing is open, so that nothing of the former
\* round is left behind.
LEMMA StartRoundWork ==
  ASSUME WorkInv, Typed', UNCHANGED <<ids, effects>>, StartRound
  PROVE  WorkInv'
<1> DEFINE a == [op |-> "record", event |-> Event("ModelStarted", NoSlot, round + 1)]
           b == Begin(StreamSlot)
<1>1. UNCHANGED batch /\ stage = "append" /\ DOMAIN ids = {} /\ pc = "round"
  <2>1. At("round") /\ UNCHANGED batch /\ "round" \in Place \ {"stopping", "ended"}
    BY DEF StartRound, Place
  <2> QED
    BY <2>1, AtNeeded DEF At
<1>2. \A i \in batch.open : <<batch.calls[i], i>> \in Slot
  BY OpenSlots DEF WorkInv
<1>3. batch.open = {} /\ \A i \in batch.open : batch.calls[i] \in Registered
  BY <1>1 DEF WorkInv, BatchOpen
<1>4. a.op = "record" /\ a.event.round = round + 1 /\ b.op = "begin" /\ b.slot = StreamSlot
  BY DEF Event, Begin
<1> HIDE DEF a, b
<1>5. CASE round' = round + 1 /\ Then("connect", <<a, b>>)
  <2>1. Program' /\ Closing' = {} /\ Opening' = {StreamSlot}
    BY <1>1, <1>4, <1>5, Program2 DEF Then
  <2>2. BatchOpen' /\ NeededAt("connect", batch'.calls, batch'.open) = {StreamSlot}
    BY <1>1, <1>2, <1>3, <1>5, NeededIs DEF BatchOpen, Then
  <2> QED
    BY <1>1, <1>5, <2>1, <2>2, DecidedWork DEF Then
<1>6. CASE UNCHANGED round /\ (Raise("Cancelled") \/ Raise("Failed"))
  BY <1>1, <1>6, StoppedWork DEF Stop
<1> QED
  BY <1>5, <1>6 DEF StartRound, a, b

\* The end of a turn.
LEMMA TurnEndsWork ==
  ASSUME WorkInv, Typed', UNCHANGED <<ids, effects>>, EmptyTurn \/ CallTurn \/ TextTurn
  PROVE  WorkInv'
<1> DEFINE a == Complete(StreamSlot, "failed", "empty")
           b == Record("ModelTurnEmpty")
           c == IF turn.empty + 1 > MaxEmptyTurnRetries THEN Return("Failed") ELSE Begin(StreamSlot)
<1>1. UNCHANGED round /\ stage = "append" /\ DOMAIN ids = {StreamSlot} /\ pc = "chunk"
  BY AtNeeded DEF EmptyTurn, CallTurn, TextTurn, At, Place
<1>2. batch.open = {}
  BY <1>1 DEF WorkInv, BatchOpen
<1>3. a.op = "complete" /\ a.slot = StreamSlot /\ b.op = "record" /\ b.event.round = round
  BY DEF Complete, Record, Event
<1>4. c.op = "return" \/ (c.op = "begin" /\ c.slot = StreamSlot)
  BY DEF Begin, Return
<1> HIDE DEF a, b, c
<1>5. CASE Then("connect", <<a, b, c>>) /\ UNCHANGED batch
  <2>1. Program' /\ Closing' = {StreamSlot} /\ (Returning' \/ Opening' = {StreamSlot})
    BY <1>1, <1>3, <1>4, <1>5, Program3 DEF Then
  <2>2. BatchOpen' /\ NeededAt("connect", batch'.calls, batch'.open) = {StreamSlot}
    BY <1>1, <1>2, <1>5, NeededIs DEF BatchOpen, Then
  <2> QED
    BY <1>1, <1>5, <2>1, <2>2, DecidedWork DEF Then
<1>6. CASE CallTurn
  <2>1. batch'.open = {}
    <3>1. PICK calls : batch' = [EmptyBatch EXCEPT !.calls = calls]
      BY <1>6 DEF CallTurn
    <3> QED
      BY <3>1 DEF EmptyBatch
  <2>2. BatchOpen' /\ NeededAt("prepare", batch'.calls, batch'.open) = {}
    BY <1>6, <2>1, NeededIs DEF BatchOpen, CallTurn, Then
  <2> QED
    BY <1>1, <1>6, <2>2, ClosedWork DEF CallTurn
<1>7. CASE TextTurn
  <2>1. BatchOpen' /\ NeededAt("answer", batch'.calls, batch'.open) = {}
    BY <1>2, <1>7, NeededIs DEF BatchOpen, TextTurn, Then
  <2> QED
    BY <1>1, <1>7, <2>1, ClosedWork DEF TextTurn
<1> QED
  BY <1>5, <1>6, <1>7 DEF EmptyTurn, a, b, c

LEMMA AnswerWork ==
  ASSUME WorkInv, Typed', UNCHANGED <<ids, effects>>, Answer
  PROVE  WorkInv'
<1>1. UNCHANGED <<round, batch>> /\ stage = "append" /\ DOMAIN ids = {} /\ pc = "answer"
  <2>1. At("answer") /\ UNCHANGED <<round, batch>> /\ "answer" \in Place \ {"stopping", "ended"}
    BY DEF Answer, Place
  <2> QED
    BY <2>1, AtNeeded DEF At
<1>2. batch.open = {}
  BY <1>1 DEF WorkInv, BatchOpen
<1>3. \A p \in {"finish", "round"} : NeededAt(p, batch'.calls, batch'.open) = {}
  BY <1>1, <1>2, NeededIs
<1>4. BatchOpen'
  BY <1>1, <1>2 DEF BatchOpen
<1>5. CASE Then("finish", <<Record("Completed")>>)
  BY <1>1, <1>3, <1>4, <1>5, RecordedWork
<1>6. CASE Then("round", <<>>)
  BY <1>1, <1>3, <1>4, <1>6, MovedWork
<1>7. CASE Raise("Failed")
  BY <1>1, <1>7, StoppedWork DEF Stop
<1> QED
  BY <1>5, <1>6, <1>7 DEF Answer

-----------------------------------------------------------------------------
\* The calls of a batch are opened one after the other.
LEMMA PrepareWork ==
  ASSUME WorkInv, Typed', UNCHANGED <<ids, effects>>, PrepareCall
  PROVE  WorkInv'
<1> DEFINE i == batch.next
           a == RecordCall("ToolScheduled", i)
           b == Begin(CallSlot(i))
           c == RecordCall("ToolStarted", i)
           d == RecordCall("ToolFailed", i)
<1>1. UNCHANGED round /\ stage = "append" /\ pc = "prepare"
      /\ DOMAIN ids = {<<batch.calls[n], n>> : n \in batch.open}
  <2>1. At("prepare") /\ UNCHANGED round /\ "prepare" \in Place \ {"stopping", "ended"}
    BY DEF PrepareCall, Place
  <2> QED
    BY <2>1, AtNeeded DEF At
<1>2. \A w \in {a, c, d} : w.op = "record" /\ w.event.round = round
  BY DEF RecordCall, Event
<1>3. b.op = "begin" /\ b.slot = <<batch.calls[i], i>>
  BY DEF Begin, CallSlot
<1>4. \A n \in batch'.open : <<batch'.calls[n], n>> \in Slot
  <2>1. \A n \in batch'.open : n \in 1..Len(batch'.calls)
    BY DEF Typed, TypeOK
  <2>2. ASSUME NEW n \in 1..Len(batch'.calls) PROVE <<batch'.calls[n], n>> \in Slot
    <3>1. PICK M : batch' \in Batch(M)
      BY DEF Typed, RunTyped, BatchTyped
    <3>2. batch'.calls \in Seq(Tool) /\ Len(batch'.calls) \in Nat /\ Len(batch'.calls) <= MaxCalls
      BY <3>1 DEF Batch, Typed, RunTyped, BatchTyped
    <3> QED
      BY <3>2, ElementOfSeq, BoundsAssumption DEF Slot
  <2> QED
    BY <2>1, <2>2
<1>5. NeededAt("prepare", batch'.calls, batch'.open) = {<<batch'.calls[n], n>> : n \in batch'.open}
  BY <1>4, NeededIs
<1>6. PICK M : batch \in Batch(M)
  BY DEF WorkInv, Typed, RunTyped, BatchTyped
<1> HIDE DEF a, b, c, d
<1>7. CASE batch' = [batch EXCEPT !.next = i + 1, !.done = @ \cup {i}] /\ Then("prepare", <<d>>)
  <2>1. batch'.calls = batch.calls /\ batch'.open = batch.open
    BY <1>6, <1>7 DEF Batch
  <2>2. Program' /\ Closing' = {} /\ Opening' = {}
    BY <1>1, <1>2, <1>7, Program1 DEF Then
  <2>3. BatchOpen'
    BY <1>1, <1>7, <2>1 DEF BatchOpen, WorkInv, Then
  <2> QED
    BY <1>1, <1>5, <1>7, <2>1, <2>2, <2>3, DecidedWork DEF Then
<1>8. CASE /\ batch' = [batch EXCEPT !.next = i + 1, !.open = @ \cup {i}]
           /\ batch.calls[i] \in Registered /\ Then("prepare", <<a, b, c>>)
  <2>1. batch'.calls = batch.calls /\ batch'.open = batch.open \cup {i}
    BY <1>6, <1>8 DEF Batch
  <2>2. Program' /\ Closing' = {} /\ Opening' = {b.slot}
    BY <1>1, <1>2, <1>3, <1>8, Program3 DEF Then
  <2>3. BatchOpen'
    BY <1>1, <1>8, <2>1 DEF BatchOpen, WorkInv, Then
  <2>4. NeededAt("prepare", batch'.calls, batch'.open) = DOMAIN ids \cup {b.slot}
    BY <1>1, <1>3, <1>5, <2>1
  <2> QED
    BY <1>1, <1>8, <2>2, <2>3, <2>4, DecidedWork DEF Then
<1>9. CASE Raise("Failed") /\ UNCHANGED batch
  BY <1>1, <1>9, StoppedWork DEF Stop
<1> QED
  BY <1>7, <1>8, <1>9 DEF PrepareCall, Opened, a, b, c, d

\* The slots of the calls that are left when one is taken out of the batch.
LEMMA TakenOutSlots ==
  ASSUME WorkInv, NEW i \in batch.open, batch'.open = batch.open \ {i}, batch'.calls = batch.calls
  PROVE  /\ {<<batch'.calls[n], n>> : n \in batch'.open} =
              {<<batch.calls[n], n>> : n \in batch.open} \ {CallSlot(i)}
         /\ CallSlot(i) = <<batch.calls[i], i>> /\ CallSlot(i) \in Slot /\ CallSlot(i) # VerifySlot
         /\ \A n \in batch'.open : <<batch'.calls[n], n>> \in Slot
BY OpenSlots DEF WorkInv, CallSlot

\* A call is taken out of the batch with the write that closes its effect.
LEMMA TakenOutWork ==
  ASSUME WorkInv, Typed', UNCHANGED <<ids, effects, round>>, stage = "append",
         NEW place \in {"collect", "serve"}, pc = place,
         DOMAIN ids = {<<batch.calls[n], n>> : n \in batch.open},
         NEW i \in batch.open, batch'.open = batch.open \ {i}, batch'.calls = batch.calls,
         pc' = place, Program', ~Returning', Closing' = {CallSlot(i)}, Opening' = {}
  PROVE  WorkInv'
<1>1. NeededAt(place, batch'.calls, batch'.open) = DOMAIN ids \ {CallSlot(i)}
  BY TakenOutSlots, NeededIs
<1>2. CallSlot(i) \in DOMAIN ids
  BY TakenOutSlots
<1>3. BatchOpen'
  BY DEF WorkInv, BatchOpen
<1> QED
  BY <1>1, <1>2, <1>3, DecidedWork

LEMMA CollectWork ==
  ASSUME WorkInv, Typed', UNCHANGED <<ids, effects>>, Prepared \/ Collected
  PROVE  WorkInv'
<1>1. /\ UNCHANGED round /\ stage = "append" /\ pc \in {"prepare", "collect"}
      /\ DOMAIN ids = {<<batch.calls[n], n>> : n \in batch.open}
      /\ \A n \in batch.open : <<batch.calls[n], n>> \in Slot
  <2>1. /\ (At("prepare") \/ At("collect")) /\ UNCHANGED round
        /\ {"prepare", "collect"} \subseteq Place \ {"stopping", "ended"}
    BY DEF Prepared, Collected, Place
  <2> QED
    BY <2>1, AtNeeded DEF At
<1>2. \A p \in {"collect", "serve"} :
        NeededAt(p, batch.calls, batch.open) = {<<batch.calls[n], n>> : n \in batch.open}
  BY <1>1, NeededIs
<1>3. CASE Prepared
  <2>1. BatchOpen' /\ UNCHANGED batch
    BY <1>1, <1>3 DEF BatchOpen, WorkInv, Prepared, Then
  <2> QED
    BY <1>1, <1>2, <1>3, <2>1, MovedWork DEF Prepared
<1>4. CASE Collected
  <2>1. PICK M : batch \in Batch(M)
    BY DEF WorkInv, Typed, RunTyped, BatchTyped
  <2>2. batch'.calls = batch.calls /\ batch'.open = batch.open
    BY <1>4, <2>1 DEF Batch, Collected
  <2>3. \A i \in batch.open : batch.calls[i] \in RuntimeTool
    BY <1>4 DEF Collected, OpenEngineCalls, WorkInv, BatchOpen, Registered
  <2>4. BatchOpen'
    BY <1>4, <2>2, <2>3 DEF BatchOpen, WorkInv, Collected, Then
  <2> QED
    BY <1>1, <1>2, <1>4, <2>2, <2>4, MovedWork DEF Collected
<1> QED
  BY <1>3, <1>4

LEMMA ToolReturnsWork ==
  ASSUME WorkInv, Typed', UNCHANGED <<ids, effects>>, ToolReturns
  PROVE  WorkInv'
<1>1. /\ UNCHANGED round /\ stage = "append" /\ pc = "collect"
      /\ DOMAIN ids = {<<batch.calls[n], n>> : n \in batch.open}
  <2>1. At("collect") /\ UNCHANGED round /\ "collect" \in Place \ {"stopping", "ended"}
    BY DEF ToolReturns, Place
  <2> QED
    BY <2>1, AtNeeded DEF At
<1>2. PICK i \in Running :
        \/ Raise("Cancelled") /\ UNCHANGED batch
        \/ /\ batch' = TakenOut(i)
           /\ \/ Then("collect", <<Complete(CallSlot(i), "succeeded", "ok"),
                                   RecordCall("ToolCompleted", i), Keep(i)>>)
              \/ Then("collect", <<Complete(CallSlot(i), "succeeded", "ok"),
                                   RecordCall("ToolCompleted", i), RecordCall("EvidenceAdded", i), Keep(i)>>)
              \/ Then("collect", CallFailed(i))
  BY DEF ToolReturns
<1>3. i \in batch.open
  BY DEF Running, OpenEngineCalls
<1> DEFINE a == Complete(CallSlot(i), "succeeded", "ok")
           f == Complete(CallSlot(i), "failed", "error")
           b == RecordCall("ToolCompleted", i)
           e == RecordCall("EvidenceAdded", i)
           g == RecordCall("ToolFailed", i)
           k == Keep(i)
<1>4. /\ \A w \in {a, f} : w.op = "complete" /\ w.slot = CallSlot(i)
      /\ \A w \in {b, e, g} : w.op = "record" /\ w.event.round = round
      /\ k.op = "keep"
  BY DEF Complete, RecordCall, Event, Keep
<1> HIDE DEF a, b, e, f, g, k
<1>5. CASE Raise("Cancelled") /\ UNCHANGED batch
  BY <1>1, <1>5, StoppedWork DEF Stop
<1>6. ASSUME batch' = TakenOut(i), pc' = "collect", Program', ~Returning', Closing' = {CallSlot(i)}, Opening' = {}
      PROVE  WorkInv'
  BY <1>1, <1>3, <1>6, TakenOutTyped, TakenOutWork DEF WorkInv
<1>7. CASE batch' = TakenOut(i) /\ Then("collect", <<a, b, k>>)
  <2>1. Program' /\ ~Returning' /\ Closing' = {CallSlot(i)} /\ Opening' = {}
    BY <1>1, <1>4, <1>7, Program3 DEF Then
  <2> QED
    BY <1>6, <1>7, <2>1 DEF Then
<1>8. CASE batch' = TakenOut(i) /\ Then("collect", <<a, b, e, k>>)
  <2>1. Program' /\ ~Returning' /\ Closing' = {CallSlot(i)} /\ Opening' = {}
    BY <1>1, <1>4, <1>8, Program4 DEF Then
  <2> QED
    BY <1>6, <1>8, <2>1 DEF Then
<1>9. CASE batch' = TakenOut(i) /\ Then("collect", <<f, g>>)
  <2>1. Program' /\ ~Returning' /\ Closing' = {CallSlot(i)} /\ Opening' = {}
    BY <1>1, <1>4, <1>9, Program2 DEF Then
  <2> QED
    BY <1>6, <1>9, <2>1 DEF Then
<1> QED
  BY <1>2, <1>5, <1>7, <1>8, <1>9 DEF CallFailed, a, b, e, f, g, k

\* One list of writes behind another.
LEMMA Joined ==
  ASSUME NEW S, NEW p \in Seq(S), NEW q \in Seq(S), NEW r \in Seq(S), Len(r) = Len(p) + Len(q),
         \A i \in 1..Len(r) : r[i] = IF i <= Len(p) THEN p[i] ELSE q[i - Len(p)]
  PROVE  p \o q = r
<1>1. p \o q \in Seq(S) /\ Len(p \o q) = Len(r) /\ \A i \in 1..Len(p \o q) : (p \o q)[i] = r[i]
  BY ConcatProperties
<1> QED
  BY <1>1, SeqEqual

\* The lists that a refusal ends with.
LEMMA Joined12 ==
  ASSUME NEW S, NEW x \in S, NEW a \in S, NEW b \in S
  PROVE  <<x>> \o <<a, b>> = <<x, a, b>>
<1> DEFINE p == <<x>>
           q == <<a, b>>
           r == <<x, a, b>>
<1>1. p \in Seq(S) /\ q \in Seq(S) /\ r \in Seq(S)
  OBVIOUS
<1>2. Len(p) = 1 /\ Len(q) = 2 /\ Len(r) = 3
  OBVIOUS
<1>3. \A i \in 1..3 : r[i] = IF i <= 1 THEN p[i] ELSE q[i - 1]
  OBVIOUS
<1> HIDE DEF p, q, r
<1>4. /\ Len(r) = Len(p) + Len(q)
      /\ \A i \in 1..Len(r) : r[i] = IF i <= Len(p) THEN p[i] ELSE q[i - Len(p)]
  BY <1>2, <1>3
<1>5. p \o q = r
  BY <1>1, <1>4, Joined
<1> QED
  BY <1>5 DEF p, q, r

LEMMA Joined22 ==
  ASSUME NEW S, NEW x \in S, NEW y \in S, NEW a \in S, NEW b \in S
  PROVE  <<x, y>> \o <<a, b>> = <<x, y, a, b>>
<1> DEFINE p == <<x, y>>
           q == <<a, b>>
           r == <<x, y, a, b>>
<1>1. p \in Seq(S) /\ q \in Seq(S) /\ r \in Seq(S)
  OBVIOUS
<1>2. Len(p) = 2 /\ Len(q) = 2 /\ Len(r) = 4
  OBVIOUS
<1>3. \A i \in 1..4 : r[i] = IF i <= 2 THEN p[i] ELSE q[i - 2]
  OBVIOUS
<1> HIDE DEF p, q, r
<1>4. /\ Len(r) = Len(p) + Len(q)
      /\ \A i \in 1..Len(r) : r[i] = IF i <= Len(p) THEN p[i] ELSE q[i - Len(p)]
  BY <1>2, <1>3
<1>5. p \o q = r
  BY <1>1, <1>4, Joined
<1> QED
  BY <1>5 DEF p, q, r

LEMMA Joined11 ==
  ASSUME NEW S, NEW x \in S, NEW y \in S
  PROVE  <<x>> \o <<y>> = <<x, y>>
<1> DEFINE p == <<x>>
           q == <<y>>
           r == <<x, y>>
<1>1. p \in Seq(S) /\ q \in Seq(S) /\ r \in Seq(S)
  OBVIOUS
<1>2. Len(p) = 1 /\ Len(q) = 1 /\ Len(r) = 2
  OBVIOUS
<1>3. \A i \in 1..2 : r[i] = IF i <= 1 THEN p[i] ELSE q[i - 1]
  OBVIOUS
<1> HIDE DEF p, q, r
<1>4. /\ Len(r) = Len(p) + Len(q)
      /\ \A i \in 1..Len(r) : r[i] = IF i <= Len(p) THEN p[i] ELSE q[i - Len(p)]
  BY <1>2, <1>3
<1>5. p \o q = r
  BY <1>1, <1>4, Joined
<1> QED
  BY <1>5 DEF p, q, r

LEMMA Refusals ==
  ASSUME NEW a, NEW b, NEW v, NEW f
  PROVE  /\ <<>> \o <<a, b>> = <<a, b>>
         /\ <<f>> \o <<a, b>> = <<f, a, b>>
         /\ (<<v>> \o <<>>) \o <<a, b>> = <<v, a, b>>
         /\ (<<v>> \o <<f>>) \o <<a, b>> = <<v, f, a, b>>
<1> DEFINE S == {a, b, v, f}
<1>1. a \in S /\ b \in S /\ v \in S /\ f \in S
  OBVIOUS
<1> HIDE DEF S
<1>2. <<a, b>> \in Seq(S) /\ <<v>> \in Seq(S)
  BY <1>1
<1>3. <<>> \o <<a, b>> = <<a, b>> /\ <<v>> \o <<>> = <<v>>
  BY <1>2, ConcatEmptySeq
<1>4. <<f>> \o <<a, b>> = <<f, a, b>> /\ <<v>> \o <<a, b>> = <<v, a, b>>
  BY <1>1, Joined12
<1>5. <<v>> \o <<f>> = <<v, f>>
  BY <1>1, Joined11
<1>6. <<v, f>> \o <<a, b>> = <<v, f, a, b>>
  BY <1>1, Joined22
<1> QED
  BY <1>3, <1>4, <1>5, <1>6

LEMMA SearchEvidenceWork ==
  ASSUME WorkInv, Typed', UNCHANGED <<ids, effects>>, SearchEvidence
  PROVE  WorkInv'
<1>1. /\ UNCHANGED round /\ stage = "append" /\ pc = "serve"
      /\ DOMAIN ids = {<<batch.calls[n], n>> : n \in batch.open}
  <2>1. At("serve") /\ UNCHANGED round /\ "serve" \in Place \ {"stopping", "ended"}
    BY DEF SearchEvidence, Place
  <2> QED
    BY <2>1, AtNeeded DEF At
<1>2. PICK i \in batch.open :
        /\ batch' = Served(i, FALSE)
        /\ Then("serve", <<Complete(CallSlot(i), "succeeded", "ok"), RecordCall("ToolCompleted", i)>>)
  BY DEF SearchEvidence
<1> DEFINE a == Complete(CallSlot(i), "succeeded", "ok")
           b == RecordCall("ToolCompleted", i)
<1>3. /\ a.op = "complete" /\ a.slot = CallSlot(i) /\ b.op = "record" /\ b.event.round = round
  BY DEF Complete, RecordCall, Event
<1>4. batch'.open = batch.open \ {i} /\ batch'.calls = batch.calls
  <2>1. PICK M : batch \in Batch(M)
    BY DEF WorkInv, Typed, RunTyped, BatchTyped
  <2> QED
    BY <1>2, <2>1 DEF Batch, Served, TakenOut
<1>5. Then("serve", <<a, b>>)
  BY <1>2
<1> HIDE DEF a, b
<1>6. Program' /\ ~Returning' /\ Closing' = {CallSlot(i)} /\ Opening' = {}
  BY <1>1, <1>3, <1>5, Program2 DEF Then
<1> QED
  BY <1>1, <1>4, <1>5, <1>6, TakenOutWork DEF Then

\* A refusal: what else is closed with the call is the verification.
LEMMA RefuseWork ==
  ASSUME WorkInv, Typed', UNCHANGED <<ids, effects, round>>, stage = "append",
         NEW i \in batch.open, NEW d,
         \/ /\ pc = "serve" /\ DOMAIN ids = {<<batch.calls[n], n>> : n \in batch.open}
            /\ Refuse(i, d, <<>>) \/ Refuse(i, d, <<Record("VerificationFinding")>>)
         \/ /\ pc = "verify" /\ DOMAIN ids = {VerifySlot} \cup {<<batch.calls[n], n>> : n \in batch.open}
            /\ \E findings \in {<<>>, <<Record("VerificationFinding")>>} :
                 Refuse(i, d, <<Complete(VerifySlot, "succeeded", "refused")>> \o findings)
  PROVE  WorkInv'
<1> DEFINE a == Complete(CallSlot(i), "failed", "refused")
           b == RecordCall("ToolFailed", i)
           v == Complete(VerifySlot, "succeeded", "refused")
           f == Record("VerificationFinding")
<1>1. /\ a.op = "complete" /\ a.slot = CallSlot(i) /\ v.op = "complete" /\ v.slot = VerifySlot
      /\ \A w \in {b, f} : w.op = "record" /\ w.event.round = round
  BY DEF Complete, Record, RecordCall, Event
<1>2. batch' = Served(i, Exhausts(d))
  BY DEF Refuse
<1>3. batch'.open = batch.open \ {i} /\ batch'.calls = batch.calls
  <2>1. PICK M : batch \in Batch(M)
    BY DEF WorkInv, Typed, RunTyped, BatchTyped
  <2> QED
    BY <1>2, <2>1 DEF Batch, Served, TakenOut
<1>4. \/ pc = "serve" /\ (Then("serve", <<>> \o <<a, b>>) \/ Then("serve", <<f>> \o <<a, b>>))
      \/ /\ pc = "verify"
         /\ Then("serve", (<<v>> \o <<>>) \o <<a, b>>) \/ Then("serve", (<<v>> \o <<f>>) \o <<a, b>>)
  BY DEF Refuse
<1> HIDE DEF a, b, v, f
<1>5. \/ pc = "serve" /\ (Then("serve", <<a, b>>) \/ Then("serve", <<f, a, b>>))
      \/ pc = "verify" /\ (Then("serve", <<v, a, b>>) \/ Then("serve", <<v, f, a, b>>))
  <2>1. /\ <<>> \o <<a, b>> = <<a, b>> /\ <<f>> \o <<a, b>> = <<f, a, b>>
        /\ (<<v>> \o <<>>) \o <<a, b>> = <<v, a, b>> /\ (<<v>> \o <<f>>) \o <<a, b>> = <<v, f, a, b>>
    BY Refusals
  <2> QED
    BY <1>4, <2>1
<1>6. CallSlot(i) # VerifySlot
  BY <1>3, TakenOutSlots
<1>7. CASE pc = "serve"
  <2>1. Program' /\ ~Returning' /\ Closing' = {CallSlot(i)} /\ Opening' = {}
    <3>1. CASE Then("serve", <<a, b>>)
      BY <1>1, <3>1, Program2 DEF Then
    <3>2. CASE Then("serve", <<f, a, b>>)
      BY <1>1, <3>2, Program3 DEF Then
    <3> QED
      BY <1>5, <1>7, <3>1, <3>2
  <2> QED
    BY <1>3, <1>5, <1>7, <2>1, TakenOutWork DEF Then
<1>8. CASE pc = "verify"
  <2>1. Program' /\ ~Returning' /\ Closing' = {VerifySlot, CallSlot(i)} /\ Opening' = {}
    <3>1. CASE Then("serve", <<v, a, b>>)
      BY <1>1, <1>6, <3>1, Program3 DEF Then
    <3>2. CASE Then("serve", <<v, f, a, b>>)
      BY <1>1, <1>6, <3>2, Program4 DEF Then
    <3> QED
      BY <1>5, <1>8, <3>1, <3>2
  <2>2. DOMAIN ids = {VerifySlot} \cup {<<batch.calls[n], n>> : n \in batch.open}
    BY <1>8
  <2>3. /\ {<<batch'.calls[n], n>> : n \in batch'.open} =
             {<<batch.calls[n], n>> : n \in batch.open} \ {CallSlot(i)}
        /\ CallSlot(i) = <<batch.calls[i], i>> /\ VerifySlot \notin {<<batch.calls[n], n>> : n \in batch.open}
    BY <1>3, TakenOutSlots, OpenSlots DEF WorkInv
  <2>4. NeededAt("serve", batch'.calls, batch'.open) = {<<batch'.calls[n], n>> : n \in batch'.open}
    BY <1>3, TakenOutSlots, NeededIs
  <2>5. NeededAt("serve", batch'.calls, batch'.open) = DOMAIN ids \ Closing' /\ Closing' \subseteq DOMAIN ids
    BY <2>1, <2>2, <2>3, <2>4
  <2>6. BatchOpen' /\ pc' = "serve"
    BY <1>3, <1>5, <1>8 DEF WorkInv, BatchOpen, Then
  <2> QED
    BY <2>1, <2>5, <2>6, DecidedWork
<1> QED
  BY <1>7, <1>8

LEMMA SubmitReportWork ==
  ASSUME WorkInv, Typed', UNCHANGED <<ids, effects>>, SubmitReport
  PROVE  WorkInv'
<1>1. /\ UNCHANGED round /\ stage = "append" /\ pc = "serve"
      /\ DOMAIN ids = {<<batch.calls[n], n>> : n \in batch.open}
      /\ \A n \in batch.open : <<batch.calls[n], n>> \in Slot
  <2>1. At("serve") /\ UNCHANGED round /\ "serve" \in Place \ {"stopping", "ended"}
    BY DEF SubmitReport, Place
  <2> QED
    BY <2>1, AtNeeded DEF At
<1>2. PICK i \in batch.open, d \in Draft :
        \/ Refuse(i, d, <<>>)
        \/ Refuse(i, d, <<Record("VerificationFinding")>>)
        \/ /\ batch' = [batch EXCEPT !.draft = d]
           /\ Then("verify", <<Record("VerificationStarted"), Begin(VerifySlot)>>)
  BY DEF SubmitReport
<1>3. CASE Refuse(i, d, <<>>) \/ Refuse(i, d, <<Record("VerificationFinding")>>)
  BY <1>1, <1>3, RefuseWork
<1>4. CASE /\ batch' = [batch EXCEPT !.draft = d]
           /\ Then("verify", <<Record("VerificationStarted"), Begin(VerifySlot)>>)
  <2> DEFINE a == Record("VerificationStarted")
             b == Begin(VerifySlot)
  <2>1. a.op = "record" /\ a.event.round = round /\ b.op = "begin" /\ b.slot = VerifySlot
    BY DEF Record, Event, Begin
  <2>2. Then("verify", <<a, b>>)
    BY <1>4
  <2> HIDE DEF a, b
  <2>3. Program' /\ Closing' = {} /\ Opening' = {VerifySlot}
    BY <1>1, <2>1, <2>2, Program2 DEF Then
  <2>4. PICK M : batch \in Batch(M)
    BY DEF WorkInv, Typed, RunTyped, BatchTyped
  <2>5. batch'.calls = batch.calls /\ batch'.open = batch.open
    BY <1>4, <2>4 DEF Batch
  <2>6. BatchOpen'
    BY <1>1, <2>2, <2>5 DEF WorkInv, BatchOpen, Then
  <2>7. NeededAt("verify", batch'.calls, batch'.open) = {VerifySlot} \cup DOMAIN ids
    BY <1>1, <2>5, NeededIs
  <2> QED
    BY <1>1, <2>2, <2>3, <2>6, <2>7, DecidedWork DEF Then
<1> QED
  BY <1>2, <1>3, <1>4

LEMMA VerifierAnswersWork ==
  ASSUME WorkInv, Typed', UNCHANGED <<ids, effects>>, VerifierAnswers
  PROVE  WorkInv'
<1>1. /\ UNCHANGED round /\ stage = "append" /\ pc = "verify"
      /\ DOMAIN ids = {VerifySlot} \cup {<<batch.calls[n], n>> : n \in batch.open}
      /\ \A n \in batch.open : <<batch.calls[n], n>> \in Slot
  <2>1. At("verify") /\ UNCHANGED round /\ "verify" \in Place \ {"stopping", "ended"}
    BY DEF VerifierAnswers, Place
  <2> QED
    BY <2>1, AtNeeded DEF At
<1>2. PICK i \in batch.open :
        /\ IsServed(i)
        /\ \/ /\ Then("publish", <<Complete(VerifySlot, "succeeded", "passed"),
                                   Complete(CallSlot(i), "succeeded", "published"),
                                   RecordCall("ToolCompleted", i)>>)
              /\ UNCHANGED batch
           \/ \E findings \in {<<>>, <<Record("VerificationFinding")>>} :
                Refuse(i, batch.draft, <<Complete(VerifySlot, "succeeded", "refused")>> \o findings)
           \/ CloseFailed(VerifySlot, "Failed") /\ UNCHANGED batch
  BY DEF VerifierAnswers
<1>3. CASE \E findings \in {<<>>, <<Record("VerificationFinding")>>} :
             Refuse(i, batch.draft, <<Complete(VerifySlot, "succeeded", "refused")>> \o findings)
  BY <1>1, <1>3, RefuseWork
<1>4. CASE CloseFailed(VerifySlot, "Failed") /\ UNCHANGED batch
  BY <1>1, <1>4, CloseFailedWork
<1>5. CASE /\ UNCHANGED batch
           /\ Then("publish", <<Complete(VerifySlot, "succeeded", "passed"),
                                Complete(CallSlot(i), "succeeded", "published"),
                                RecordCall("ToolCompleted", i)>>)
  <2> DEFINE v == Complete(VerifySlot, "succeeded", "passed")
             a == Complete(CallSlot(i), "succeeded", "published")
             b == RecordCall("ToolCompleted", i)
  <2>1. /\ a.op = "complete" /\ a.slot = CallSlot(i) /\ v.op = "complete" /\ v.slot = VerifySlot
        /\ b.op = "record" /\ b.event.round = round
    BY DEF Complete, RecordCall, Event
  <2>2. Then("publish", <<v, a, b>>)
    BY <1>5
  <2> HIDE DEF v, a, b
  <2>3. /\ \A m, n \in batch.open : <<batch.calls[m], m>> = <<batch.calls[n], n>> => m = n
        /\ \A n \in batch.open : n \in Nat /\ <<batch.calls[n], n>> # VerifySlot
        /\ CallSlot(i) = <<batch.calls[i], i>>
    BY OpenSlots DEF WorkInv, CallSlot
  <2>4. Program' /\ ~Returning' /\ Closing' = {VerifySlot, CallSlot(i)} /\ Opening' = {}
    BY <1>1, <2>1, <2>2, <2>3, Program3 DEF Then
  <2>5. {n \in batch.open : \E j \in batch.open : j < n} = batch.open \ {i}
    BY <1>2, <2>3 DEF IsServed
  <2>6. NeededAt("publish", batch'.calls, batch'.open) = {<<batch.calls[n], n>> : n \in batch.open \ {i}}
    BY <1>1, <1>5, <2>5, NeededIs
  <2>7. {<<batch.calls[n], n>> : n \in batch.open \ {i}} = DOMAIN ids \ {VerifySlot, CallSlot(i)}
    BY <1>1, <2>3
  <2>8. BatchOpen'
    BY <1>1, <1>5, <2>2 DEF WorkInv, BatchOpen, Then
  <2>9. CallSlot(i) \in DOMAIN ids /\ VerifySlot \in DOMAIN ids
    BY <1>1, <2>3
  <2> QED
    BY <1>1, <2>2, <2>4, <2>6, <2>7, <2>8, <2>9, DecidedWork DEF Then
<1> QED
  BY <1>2, <1>3, <1>4, <1>5

LEMMA EndingWork ==
  ASSUME WorkInv, Typed', UNCHANGED <<ids, effects>>, Publish \/ ServeCancelled \/ BatchEnds \/ Finish
  PROVE  WorkInv'
<1>1. UNCHANGED <<round, batch>>
  BY DEF Publish, ServeCancelled, BatchEnds, Finish
<1>2. \A n \in batch.open : <<batch.calls[n], n>> \in Slot
  BY OpenSlots DEF WorkInv
<1>3. CASE Publish
  <2>1. At("publish") /\ "publish" \in Place \ {"stopping", "ended"}
    BY <1>3 DEF Publish, Place
  <2>2. stage = "append" /\ DOMAIN ids = NeededAt("publish", batch.calls, batch.open)
    BY <2>1, AtNeeded
  <2>3. NeededAt("finish", batch'.calls, batch'.open) = DOMAIN ids
    <3>1. NeededAt("finish", batch.calls, batch.open) = NeededAt("publish", batch.calls, batch.open)
      BY DEF NeededAt
    <3> QED
      BY <1>1, <2>2, <3>1
  <2>4. BatchOpen'
    BY <1>1, <1>3, <2>1 DEF BatchOpen, WorkInv, Publish, Then, At
  <2> QED
    BY <1>1, <1>3, <2>2, <2>3, <2>4, RecordedWork DEF Publish
<1>4. CASE Raise("Cancelled") \/ Raise("Failed")
  BY <1>1, <1>4, StoppedWork DEF Stop
<1>5. CASE BatchEnds /\ Then("round", <<>>)
  <2>1. At("serve") /\ "serve" \in Place \ {"stopping", "ended"} /\ batch.open = {}
    BY <1>5 DEF BatchEnds, Place
  <2>2. stage = "append" /\ DOMAIN ids = {}
    BY <2>1, AtNeeded
  <2>3. NeededAt("round", batch'.calls, batch'.open) = {}
    BY <1>1, <1>2, NeededIs
  <2>4. BatchOpen'
    BY <1>1, <2>1 DEF BatchOpen
  <2> QED
    BY <1>1, <1>5, <2>2, <2>3, <2>4, MovedWork
<1>6. CASE Finish
  <2>1. stage = "append" /\ Then("ended", <<>>)
    BY <1>6, AtTyped DEF Finish, WorkInv
  <2>2. Program' /\ Closing' = {}
    BY <2>1, Program0 DEF Then
  <2>3. BatchOpen'
    BY <1>1, <2>1 DEF BatchOpen, WorkInv, Then
  <2> QED
    BY <1>1, <2>1, <2>2, <2>3, DecidedWork DEF Then
<1> QED
  BY <1>3, <1>4, <1>5, <1>6 DEF ServeCancelled, BatchEnds

LEMMA NextWork ==
  ASSUME WorkInv, [Next]_vars
  PROVE  WorkInv'
<1>1. CASE Decide
  <2>1. Typed' /\ UNCHANGED <<ids, effects>>
    BY <1>1, DecideTyped DEF WorkInv, Decide, durable
  <2>2. CASE \/ CreateTask \/ Plan \/ SelectModel \/ StartRound \/ Connect \/ AwaitChunk \/ ChunkArrives
             \/ StreamFails \/ EmptyTurn \/ CallTurn \/ TextTurn \/ Answer
    BY <2>1, <2>2, OpeningWork, RequestWork, StartRoundWork, ChunksWork, TurnEndsWork, AnswerWork
  <2>3. CASE PrepareCall \/ Prepared \/ ToolReturns \/ Collected
    BY <2>1, <2>3, PrepareWork, CollectWork, ToolReturnsWork
  <2>4. CASE SearchEvidence \/ SubmitReport \/ VerifierAnswers
    BY <2>1, <2>4, SearchEvidenceWork, SubmitReportWork, VerifierAnswersWork
  <2>5. CASE Publish \/ ServeCancelled \/ BatchEnds \/ Finish
    BY <2>1, <2>5, EndingWork
  <2> QED
    BY <1>1, <2>2, <2>3, <2>4, <2>5 DEF Decide
<1> QED
  BY <1>1, PerformWork, ClientWork DEF Next, Runtime

-----------------------------------------------------------------------------
(***************************************************************************)
(* The stored task is a DurableTask.  The checkpoint moves forward because *)
(* it accepts the number of the append before it (DInv), and an effect is  *)
(* closed once because what is closed is open (WorkInv).                   *)
(***************************************************************************)
LEMMA AppendRefines ==
  ASSUME DInv, AppendEvent
  PROVE  Journal!AppendEvent \/ UNCHANGED Journal!vars
<1>1. UNCHANGED <<checkpoint, effects>>
  BY DEF AppendEvent
<1>2. CASE UNCHANGED log
  BY <1>1, <1>2 DEF Journal!vars
<1>3. CASE log' = Append(log, Head(todo).event)
  <2>1. PICK S : log \in Seq(S)
    BY DEF DInv, LogIsSequence
  <2> DEFINE e == Head(todo).event
             T == S \cup {e}
             n == Len(log)
  <2>2. log \in Seq(T) /\ e \in T /\ n \in Nat
    BY <2>1, LenProperties
  <2>3. /\ log' \in Seq(T) /\ Len(log') = n + 1
        /\ \A i \in 1..n : log'[i] = log[i] /\ log[i] \in T
    BY <1>3, <2>2, AppendProperties, ElementOfSeq
  <2> HIDE DEF e, T, n
  <2>4. /\ SubSeq(log', 1, n) \in Seq(T) /\ Len(SubSeq(log', 1, n)) = n
        /\ \A i \in 1..n : SubSeq(log', 1, n)[i] = log'[i]
    BY <2>2, <2>3, SubSeqProperties
  <2>5. SubSeq(log', 1, n) = log
    BY <2>2, <2>3, <2>4, SeqEqual DEF n
  <2> QED
    BY <1>1, <2>3, <2>5 DEF Journal!AppendEvent, n
<1> QED
  BY <1>2, <1>3 DEF AppendEvent

LEMMA CheckpointRefines ==
  ASSUME DInv, PutCheckpoint
  PROVE  Journal!Accept \/ UNCHANGED Journal!vars
<1>1. UNCHANGED <<log, effects>> /\ stage = "checkpoint"
  BY DEF PutCheckpoint
<1>2. CASE UNCHANGED checkpoint
  BY <1>1, <1>2 DEF Journal!vars
<1>3. CASE checkpoint'.acceptedSeq = seq
  <2>1. /\ seq = Len(log) /\ seq \in Nat /\ checkpoint.acceptedSeq \in Nat
        /\ checkpoint.acceptedSeq <= Len(log)
    BY <1>1 DEF DInv, StagesEstablish, NumbersAreNatural, DeliveredIsDurable
  <2>2. checkpoint'.acceptedSeq \in checkpoint.acceptedSeq..Len(log)
    BY <1>3, <2>1
  <2> QED
    BY <1>1, <2>2 DEF Journal!Accept
<1> QED
  BY <1>2, <1>3 DEF PutCheckpoint

LEMMA BeginRefines ==
  ASSUME WorkInv, BeginEffect
  PROVE  Journal!BeginEffect \/ UNCHANGED Journal!vars
<1> DEFINE slot == Head(todo).slot
           key == Key(slot)
           row == [slot |-> slot, round |-> round, status |-> "pending", value |-> "none"]
           table == [k \in DOMAIN effects |-> effects[k].status]
<1>1. UNCHANGED <<log, checkpoint>>
  BY DEF BeginEffect
<1>2. \/ /\ key \notin DOMAIN effects
         /\ effects' = [k \in DOMAIN effects \cup {key} |-> IF k = key THEN row ELSE effects[k]]
      \/ UNCHANGED effects
  BY DEF BeginEffect
<1>3. row.status = "pending"
  OBVIOUS
<1> HIDE DEF slot, key, row
<1>4. CASE UNCHANGED effects
  BY <1>1, <1>4 DEF Journal!vars
<1>5. CASE /\ key \notin DOMAIN effects
           /\ effects' = [k \in DOMAIN effects \cup {key} |-> IF k = key THEN row ELSE effects[k]]
  <2>1. DOMAIN effects' = DOMAIN effects \cup {key} /\ DOMAIN table = DOMAIN effects
    BY <1>5
  <2>2. \A k \in DOMAIN effects' : effects'[k].status = IF k = key THEN "pending" ELSE table[k]
    BY <1>3, <1>5
  <2>3. table' = [k \in DOMAIN table \cup {key} |-> IF k = key THEN "pending" ELSE table[k]]
    BY <2>1, <2>2
  <2>4. key \in DOMAIN table' \ DOMAIN table
    BY <1>5, <2>1
  <2> QED
    BY <1>1, <2>3, <2>4 DEF Journal!BeginEffect, Journal!Open
<1> QED
  BY <1>2, <1>4, <1>5

LEMMA CompleteRefines ==
  ASSUME WorkInv, CompleteEffect
  PROVE  Journal!CompleteEffect \/ UNCHANGED Journal!vars
<1> DEFINE w == Head(todo)
           key == ids[w.slot]
           row == [effects[key] EXCEPT !.status = w.status, !.value = w.value]
           table == [k \in DOMAIN effects |-> effects[k].status]
<1>1. UNCHANGED <<log, checkpoint>> /\ todo # <<>> /\ w.op = "complete"
  BY DEF CompleteEffect, Doing
<1>2. effects' = [effects EXCEPT ![key] = row] \/ UNCHANGED effects
  BY DEF CompleteEffect
<1>3. key \in DOMAIN effects /\ effects[key].status = "pending" /\ effects[key] \in EffectRow
  <2>1. Typed'
    BY CompleteEffectTyped DEF WorkInv
  <2> QED
    BY <2>1, CompleteWork DEF WorkInv, Typed, TypeOK
<1>4. w.status \in {"succeeded", "failed"}
  BY <1>1, TailWrites, WriteFields DEF WorkInv
<1>5. row.status = w.status
  BY <1>3 DEF EffectRow
<1> HIDE DEF w, key, row
<1>6. CASE UNCHANGED effects
  BY <1>1, <1>6 DEF Journal!vars
<1>7. CASE effects' = [effects EXCEPT ![key] = row]
  <2>1. DOMAIN effects' = DOMAIN effects /\ DOMAIN table = DOMAIN effects
    BY <1>7
  <2>2. \A k \in DOMAIN effects : effects'[k].status = IF k = key THEN w.status ELSE table[k]
    BY <1>3, <1>5, <1>7
  <2>3. table' = [table EXCEPT ![key] = w.status]
    BY <1>3, <2>1, <2>2
  <2>4. key \in DOMAIN table /\ table[key] = "pending" /\ w.status \in Journal!Closed
    BY <1>3, <1>4 DEF Journal!Closed
  <2> QED
    BY <1>1, <2>3, <2>4 DEF Journal!CompleteEffect, Journal!Open
<1> QED
  BY <1>2, <1>6, <1>7

\* What runs until the task ends, the client included: the task seen through
\* the store behaves as a DurableTask, whatever is cancelled, dropped or fails.
THEOREM TaskRefinement == Spec => ImplementsDurableTask
<1>1. Init => Journal!Init
  <2> SUFFICES ASSUME Init PROVE Journal!Init
    OBVIOUS
  <2>1. log = <<>> /\ checkpoint.acceptedSeq = 0 /\ DOMAIN effects = {}
    BY DEF Init
  <2> QED
    BY <2>1 DEF Journal!Init
<1>2. DInv /\ WorkInv /\ [Next]_vars => [Journal!Next]_(Journal!vars)
  <2> SUFFICES ASSUME DInv, WorkInv, [Next]_vars
               PROVE  Journal!Next \/ UNCHANGED Journal!vars
    OBVIOUS
  <2>1. CASE AppendEvent \/ PutCheckpoint
    BY <2>1, AppendRefines, CheckpointRefines DEF Journal!Next
  <2>2. CASE BeginEffect \/ CompleteEffect
    BY <2>2, BeginRefines, CompleteRefines DEF Journal!Next
  <2>3. CASE Send \/ KeepCompleted \/ ReturnError \/ Decide \/ Recv \/ Cancel \/ Close \/ Ended \/ UNCHANGED vars
    <3>1. UNCHANGED <<log, checkpoint, effects>>
      BY <2>3 DEF Send, KeepCompleted, ReturnError, Decide, Recv, Cancel, Close, Ended, vars, durable
    <3> QED
      BY <3>1 DEF Journal!vars
  <2> QED
    BY <2>1, <2>2, <2>3 DEF Next, Runtime, Perform
<1>3. Spec => []DInv
  BY InitDInv, NextDInv, PTL DEF Spec
<1>4. Spec => []WorkInv
  BY InitWork, NextWork, PTL DEF Spec
<1> QED
  BY <1>1, <1>2, <1>3, <1>4, PTL DEF Spec, ImplementsDurableTask, Journal!Spec

-----------------------------------------------------------------------------
(***************************************************************************)
(* Numbers and keys.  A key is made of the number of the last event, so it *)
(* is new if an event has been recorded since the last effect was begun:   *)
(* every begin follows a record (Program).                                 *)
(***************************************************************************)
Fresh ==
  /\ \A k \in DOMAIN effects : k[1] <= seq
  /\ Doing("begin") \/ stage # "append" => \A k \in DOMAIN effects : k[1] < seq

\* Only a store failure can take the numbers of the runtime past the log's.
InStep == faults \in Nat /\ (faults = 0 => seq = Len(log))

LEMMA InitFresh == Init => Fresh /\ InStep
<1> SUFFICES ASSUME Init PROVE Fresh /\ InStep
  OBVIOUS
<1>1. DOMAIN effects = {} /\ seq = 0 /\ faults = 0 /\ log = <<>> /\ Len(log) = 0
  BY DEF Init
<1> QED
  BY <1>1 DEF Fresh, InStep

LEMMA RequestStarts ==
  ASSUME CreateTask \/ Plan \/ SelectModel \/ StartRound \/ Connect \/ AwaitChunk \/ ChunkArrives \/ StreamFails
  PROVE  todo' = <<>> \/ Head(todo').op # "begin"
BY DEF CreateTask, Plan, SelectModel, StartRound, Connect, AwaitChunk, ChunkArrives, StreamFails,
       Then, Raise, CloseFailed, Record, Complete

LEMMA TurnStarts ==
  ASSUME EmptyTurn \/ CallTurn \/ TextTurn \/ Answer
  PROVE  todo' = <<>> \/ Head(todo').op # "begin"
BY DEF EmptyTurn, CallTurn, TextTurn, Answer, Then, Raise, Record, Complete

LEMMA CallStarts ==
  ASSUME PrepareCall \/ Prepared \/ ToolReturns \/ Collected \/ SearchEvidence
  PROVE  todo' = <<>> \/ Head(todo').op # "begin"
<1>1. CASE PrepareCall
  BY <1>1 DEF PrepareCall, Then, Raise, Opened, Record, RecordCall
<1>2. CASE ToolReturns
  <2>1. PICK i : \/ Raise("Cancelled") \/ Then("collect", CallFailed(i))
                 \/ Then("collect", <<Complete(CallSlot(i), "succeeded", "ok"),
                                      RecordCall("ToolCompleted", i), Keep(i)>>)
                 \/ Then("collect", <<Complete(CallSlot(i), "succeeded", "ok"), RecordCall("ToolCompleted", i),
                                      RecordCall("EvidenceAdded", i), Keep(i)>>)
    BY <1>2 DEF ToolReturns
  <2> QED
    BY <2>1 DEF Then, Raise, CallFailed, Record, Complete
<1>3. CASE SearchEvidence
  <2>1. PICK i : Then("serve", <<Complete(CallSlot(i), "succeeded", "ok"), RecordCall("ToolCompleted", i)>>)
    BY <1>3 DEF SearchEvidence
  <2> QED
    BY <2>1 DEF Then, Complete
<1>4. CASE Prepared \/ Collected
  BY <1>4 DEF Prepared, Collected, Then
<1> QED
  BY <1>1, <1>2, <1>3, <1>4

LEMMA RefusalStarts ==
  ASSUME NEW i, NEW d,
         \/ Refuse(i, d, <<>>) \/ Refuse(i, d, <<Record("VerificationFinding")>>)
         \/ \E findings \in {<<>>, <<Record("VerificationFinding")>>} :
              Refuse(i, d, <<Complete(VerifySlot, "succeeded", "refused")>> \o findings)
  PROVE  Head(todo').op # "begin"
<1> DEFINE a == Complete(CallSlot(i), "failed", "refused")
           b == RecordCall("ToolFailed", i)
           v == Complete(VerifySlot, "succeeded", "refused")
           f == Record("VerificationFinding")
<1>1. a.op = "complete" /\ v.op = "complete" /\ f.op = "record"
  BY DEF Complete, Record
<1>2. \/ todo' = <<>> \o <<a, b>> \/ todo' = <<f>> \o <<a, b>>
      \/ todo' = (<<v>> \o <<>>) \o <<a, b>> \/ todo' = (<<v>> \o <<f>>) \o <<a, b>>
  BY DEF Refuse, Then
<1> HIDE DEF a, b, v, f
<1>3. /\ <<>> \o <<a, b>> = <<a, b>> /\ <<f>> \o <<a, b>> = <<f, a, b>>
      /\ (<<v>> \o <<>>) \o <<a, b>> = <<v, a, b>> /\ (<<v>> \o <<f>>) \o <<a, b>> = <<v, f, a, b>>
  BY Refusals
<1> QED
  BY <1>1, <1>2, <1>3

LEMMA EndStarts ==
  ASSUME SubmitReport \/ VerifierAnswers \/ Publish \/ ServeCancelled \/ BatchEnds \/ Finish
  PROVE  todo' = <<>> \/ Head(todo').op # "begin"
<1>1. CASE SubmitReport
  <2>1. PICK i, d : \/ Refuse(i, d, <<>>) \/ Refuse(i, d, <<Record("VerificationFinding")>>)
                    \/ Then("verify", <<Record("VerificationStarted"), Begin(VerifySlot)>>)
    BY <1>1 DEF SubmitReport
  <2> QED
    BY <2>1, RefusalStarts DEF Then, Record
<1>2. CASE VerifierAnswers
  <2>1. PICK i : \/ \E findings \in {<<>>, <<Record("VerificationFinding")>>} :
                      Refuse(i, batch.draft, <<Complete(VerifySlot, "succeeded", "refused")>> \o findings)
                 \/ Then("publish", <<Complete(VerifySlot, "succeeded", "passed"),
                                      Complete(CallSlot(i), "succeeded", "published"),
                                      RecordCall("ToolCompleted", i)>>)
                 \/ CloseFailed(VerifySlot, "Failed")
    BY <1>2 DEF VerifierAnswers
  <2>2. CASE \E findings \in {<<>>, <<Record("VerificationFinding")>>} :
               Refuse(i, batch.draft, <<Complete(VerifySlot, "succeeded", "refused")>> \o findings)
    BY <2>2, RefusalStarts
  <2> QED
    BY <2>1, <2>2 DEF Then, Complete, CloseFailed
<1>3. CASE Publish \/ ServeCancelled \/ BatchEnds \/ Finish
  BY <1>3 DEF Publish, ServeCancelled, BatchEnds, Finish, Then, Raise, Record
<1> QED
  BY <1>1, <1>2, <1>3

\* No decision begins an effect before it has recorded an event.
LEMMA DecisionStarts ==
  ASSUME Decide
  PROVE  ~Doing("begin")'
<1>1. todo' = <<>> \/ Head(todo').op # "begin"
  BY RequestStarts, TurnStarts, CallStarts, EndStarts DEF Decide
<1> QED
  BY <1>1 DEF Doing

\* Nor does a task that stops.
LEMMA RaiseStarts ==
  ASSUME NEW class, Raise(class)
  PROVE  ~Doing("begin")' /\ stage' = "append"
BY DEF Raise, Doing, Record

\* The write behind a begin or a close is not a begin.
LEMMA AdvanceStarts ==
  ASSUME WorkInv, todo # <<>>, Advance, Head(todo).op # "record"
  PROVE  ~Doing("begin")' /\ stage' = "append"
<1>1. /\ Len(todo) \in Nat \ {0} /\ Head(todo) = todo[1] /\ Tail(todo) \in Seq(Write)
      /\ Len(Tail(todo)) = Len(todo) - 1 /\ \A n \in 1..Len(Tail(todo)) : Tail(todo)[n] = todo[n + 1]
  BY TailWrites DEF WorkInv
<1>2. stage' = "append" /\ todo' = Tail(todo)
  BY DEF Advance
<1>3. ASSUME todo' # <<>> PROVE Head(todo').op # "begin"
  <2>1. Head(todo') = todo'[1] /\ 1 \in 1..Len(todo')
    BY <1>1, <1>2, <1>3, EmptySeq
  <2>2. Head(todo') = todo[2] /\ 2 \in 1..Len(todo)
    BY <1>1, <1>2, <2>1
  <2>3. todo[2].op = "begin" => todo[2 - 1].op = "record"
    BY <2>2 DEF WorkInv, Program
  <2> QED
    BY <1>1, <2>2, <2>3
<1> QED
  BY <1>2, <1>3 DEF Doing

LEMMA RecordFresh ==
  ASSUME WorkInv, Fresh, InStep, AppendEvent \/ PutCheckpoint \/ Send
  PROVE  Fresh' /\ InStep'
<1>1. seq \in Nat /\ faults \in Nat /\ (faults = 0 => seq = Len(log)) /\ UNCHANGED effects
  BY DEF WorkInv, Typed, TypeOK, InStep, AppendEvent, PutCheckpoint, Send, durable
<1>2. \A k \in DOMAIN effects : k[1] \in Nat
  BY DEF WorkInv, Typed, TypeOK, EffectKey
<1>3. CASE AppendEvent
  <2>1. seq' = seq + 1 /\ \A k \in DOMAIN effects' : k[1] < seq'
    BY <1>1, <1>2, <1>3 DEF AppendEvent, Fresh
  <2>2. LogIsSequence
    BY DEF WorkInv, Typed, TypeOK, LogIsSequence
  <2>3. faults' \in Nat /\ (faults' = 0 => faults = 0 /\ log' = Append(log, Head(todo).event))
    BY <1>1, <1>3 DEF AppendEvent, Fault, Refused, NextInLog
  <2>4. faults' = 0 => seq' = Len(log')
    BY <1>1, <2>1, <2>2, <2>3, AppendedLog
  <2> QED
    BY <1>1, <1>2, <2>1, <2>3, <2>4 DEF Fresh, InStep
<1>4. CASE PutCheckpoint
  <2>1. UNCHANGED <<seq, log>> /\ \A k \in DOMAIN effects : k[1] < seq
    BY <1>4 DEF PutCheckpoint, Fresh
  <2>2. faults' \in Nat /\ (faults' = 0 => faults = 0)
    BY <1>1, <1>4 DEF PutCheckpoint, Fault
  <2> QED
    BY <1>1, <1>2, <2>1, <2>2 DEF Fresh, InStep
<1>5. CASE Send
  <2>1. UNCHANGED <<seq, log, faults>> /\ \A k \in DOMAIN effects : k[1] < seq
    BY <1>5 DEF Send, Fresh, durable, Advance
  <2> QED
    BY <1>1, <1>2, <2>1 DEF Fresh, InStep
<1> QED
  BY <1>3, <1>4, <1>5

LEMMA OtherFresh ==
  ASSUME WorkInv, Fresh, InStep, BeginEffect \/ CompleteEffect \/ KeepCompleted \/ ReturnError
  PROVE  Fresh' /\ InStep'
<1>1. seq \in Nat /\ faults \in Nat /\ UNCHANGED <<seq, log>> /\ todo # <<>> /\ Head(todo).op # "record"
  BY DEF WorkInv, Typed, TypeOK, InStep, BeginEffect, CompleteEffect, KeepCompleted, ReturnError,
         durable, Doing
<1>2. faults' \in Nat /\ (faults' = 0 => faults = 0)
  BY <1>1 DEF BeginEffect, CompleteEffect, KeepCompleted, ReturnError, Fault, Refused, Advance
<1>3. ~Doing("begin")' /\ stage' = "append"
  BY <1>1, AdvanceStarts, RaiseStarts
     DEF BeginEffect, CompleteEffect, KeepCompleted, ReturnError, Fault, Refused
<1>4. \A k \in DOMAIN effects' : k[1] <= seq'
  <2>1. \A k \in DOMAIN effects' : k \in DOMAIN effects \/ k = Key(Head(todo).slot)
    BY DEF BeginEffect, CompleteEffect, KeepCompleted, ReturnError, durable
  <2>2. Key(Head(todo).slot)[1] = seq
    BY DEF Key
  <2> QED
    BY <1>1, <2>1, <2>2 DEF Fresh
<1> QED
  BY <1>1, <1>2, <1>3, <1>4 DEF Fresh, InStep

LEMMA NextFresh ==
  ASSUME WorkInv, Fresh, InStep, [Next]_vars
  PROVE  Fresh' /\ InStep'
<1>1. CASE Decide
  <2>1. UNCHANGED <<effects, seq, log, faults>> /\ stage' \in {stage, "append"} /\ ~Doing("begin")'
    BY <1>1, Decisions, DecisionStarts DEF Decide, durable, Elsewhere
  <2> QED
    BY <2>1 DEF Fresh, InStep
<1>2. CASE Recv \/ Cancel \/ Close \/ Ended \/ UNCHANGED vars
  <2>1. UNCHANGED <<effects, seq, log, faults, todo, stage>>
    BY <1>2 DEF Recv, Cancel, Close, Ended, vars, durable, memory
  <2> QED
    BY <2>1 DEF Fresh, InStep, Doing
<1> QED
  BY <1>1, <1>2, RecordFresh, OtherFresh DEF Next, Runtime, Perform

\* As long as no call of the store has failed, the store never refuses one: the
\* number of the next event is the next of the log, and an idempotency key is
\* never used twice, although several effects may carry one number.
THEOREM TaskStoreNeverRefuses == Spec => []StoreNeverRefuses
<1>1. WorkInv /\ Fresh /\ InStep => StoreNeverRefuses
  <2> SUFFICES ASSUME WorkInv, Fresh, InStep, faults = 0
               PROVE  /\ Doing("record") /\ stage = "append" => NextInLog(seq + 1)
                      /\ Doing("begin") => Key(Head(todo).slot) \notin DOMAIN effects
    BY DEF StoreNeverRefuses
  <2>1. seq \in Nat /\ seq = Len(log)
    BY DEF WorkInv, Typed, TypeOK, InStep
  <2>2. Key(Head(todo).slot)[1] = seq
    BY DEF Key
  <2> QED
    BY <2>1, <2>2 DEF Fresh, NextInLog
<1>2. Spec => []WorkInv
  BY InitWork, NextWork, PTL DEF Spec
<1>3. Spec => [](Fresh /\ InStep)
  BY InitFresh, NextFresh, <1>2, PTL DEF Spec
<1> QED
  BY <1>1, <1>2, <1>3, PTL

-----------------------------------------------------------------------------
\* Whatever is under way outside the task has its intent stored and pending.
LEMMA WorkIntentFirst == WorkInv => IntentFirst
<1> SUFFICES ASSUME WorkInv PROVE IntentFirst
  OBVIOUS
<1>1. \A s \in DOMAIN ids : effects[ids[s]].status = "pending"
  BY DEF WorkInv, Held
<1>2. At("select") => DOMAIN ids = {SelectSlot}
  BY AtNeeded DEF Place
<1>3. pc \in {"connect", "stream", "chunk"} /\ todo = <<>> => DOMAIN ids = {StreamSlot}
  BY AtNeeded DEF Place, At
<1>4. At("collect") \/ At("serve") => DOMAIN ids = {CallSlot(i) : i \in batch.open}
  BY AtNeeded DEF Place, At
<1>5. At("verify") => DOMAIN ids = {VerifySlot} \cup {CallSlot(i) : i \in batch.open}
  BY AtNeeded DEF Place, At
<1> QED
  BY <1>1, <1>2, <1>3, <1>4, <1>5 DEF IntentFirst, At

-----------------------------------------------------------------------------
(***************************************************************************)
(* Why the log never says more than the effect table: before an outcome is *)
(* recorded it is stored or will be by a write in front of it (Backed),    *)
(* and a call that was answered without being executed has not been        *)
(* scheduled, because calls are numbered and taken in order (CallsPast).   *)
(* A tool is kept for the checkpoint behind the record of its completion   *)
(* (Kept), whose event an accepted number has by then.                     *)
(***************************************************************************)
AnyStatus == {"pending", "succeeded", "failed"}
StoredIn(table, s, r, statuses) ==
  \E k \in DOMAIN table : table[k].slot = s /\ table[k].round = r /\ table[k].status \in statuses
LoggedIn(l, kind, s, r) == \E n \in 1..Len(l) : l[n] = Event(kind, s, r)
Records   == {n \in 1..Len(todo) : todo[n].op = "record"}

AfterCalls == {"prepare", "collect", "serve", "verify", "publish", "finish", "round"}
PastAt(e, place, r, next) ==
  e.kind \in CallEvent => e.round <= r /\ (e.round = r => place \in AfterCalls /\ e.slot[2] < next)
Past(e) == PastAt(e, pc, round, batch.next)

\* What is said about calls is said about earlier rounds, or calls of this one
\* that have been taken up.
CallsPast ==
  pc \notin {"stopping", "ended"} =>
    /\ \A n \in 1..Len(log) : Past(log[n])
    /\ \A n \in Records : Past(todo[n].event)

Begins(n, slot) == \E m \in 1..(n - 1) : todo[m].op = "begin" /\ todo[m].slot = slot
Closes(n, slot, status) ==
  \E m \in 1..(n - 1) : todo[m].op = "complete" /\ todo[m].slot = slot /\ todo[m].status = status

BackedEvent(n, e) ==
  /\ e.kind = "ToolScheduled" => n = 1 /\ (stage = "append" => ~LoggedIn(log, "ToolFailed", e.slot, e.round))
  /\ e.kind = "ToolStarted" => StoredIn(effects, e.slot, e.round, AnyStatus) \/ Begins(n, e.slot)
  /\ e.kind = "ToolCompleted" =>
       StoredIn(effects, e.slot, e.round, {"succeeded"}) \/ Closes(n, e.slot, "succeeded")
  /\ e.kind = "ToolFailed" => \/ StoredIn(effects, e.slot, e.round, {"failed"})
                              \/ Closes(n, e.slot, "failed")
                              \/ Len(todo) = 1 /\ ~LoggedIn(log, "ToolScheduled", e.slot, e.round)
  /\ e.kind = "ModelTurnEmpty" =>
       StoredIn(effects, StreamSlot, e.round, {"failed"}) \/ Closes(n, StreamSlot, "failed")
Backed == \A n \in Records : BackedEvent(n, todo[n].event)

\* The event of the record under way is the last of the log.
HeadLogged == stage # "append" => seq \in 1..Len(log) /\ seq = Len(log) /\ log[seq] = Head(todo).event

AcceptedIn(l, n, t) == \E j \in 1..n : l[j] = Event("ToolCompleted", t[2], t[1])
KeptWrites ==
  \A n \in 1..Len(todo) : todo[n].op = "keep" =>
    \/ AcceptedIn(log, checkpoint.acceptedSeq, <<round, todo[n].slot>>)
    \/ \E m \in 1..(n - 1) : /\ todo[m].op = "record"
                             /\ todo[m].event = Event("ToolCompleted", todo[n].slot, round)
Kept ==
  KeptWrites /\ \A t \in completed \cup checkpoint.tools : AcceptedIn(log, checkpoint.acceptedSeq, t)

LoggedIsStored ==
  \A n \in 1..Len(log) :
    LET e == log[n] IN
    /\ e.kind = "ToolStarted" => StoredIn(effects, e.slot, e.round, AnyStatus)
    /\ e.kind = "ToolCompleted" => StoredIn(effects, e.slot, e.round, {"succeeded"})
    /\ e.kind = "ToolFailed" /\ LoggedIn(log, "ToolScheduled", e.slot, e.round) =>
         StoredIn(effects, e.slot, e.round, {"failed"})
    /\ e.kind = "ModelTurnEmpty" => StoredIn(effects, StreamSlot, e.round, {"failed"})

OutcomeInv == CallsPast /\ Backed /\ HeadLogged /\ Kept /\ LoggedIsStored

LEMMA InitOutcome == Init => OutcomeInv
<1> SUFFICES ASSUME Init PROVE OutcomeInv
  OBVIOUS
<1>1. /\ log = <<>> /\ Len(log) = 0 /\ todo = <<>> /\ Len(todo) = 0 /\ stage = "append"
      /\ completed = {} /\ checkpoint.tools = {}
  BY DEF Init
<1>2. CallsPast /\ Backed
  BY <1>1 DEF CallsPast, Backed, Records
<1>3. HeadLogged /\ Kept /\ LoggedIsStored
  BY <1>1 DEF HeadLogged, Kept, KeptWrites, LoggedIsStored
<1> QED
  BY <1>2, <1>3 DEF OutcomeInv

-----------------------------------------------------------------------------
\* What is stored stays: effects are only added, and what is closed is pending.
LEMMA StoredStays ==
  ASSUME WorkInv, [Next]_vars, NEW s, NEW r, NEW S, S = AnyStatus \/ "pending" \notin S, StoredIn(effects, s, r, S)
  PROVE  StoredIn(effects', s, r, S)
<1>1. PICK k \in DOMAIN effects : effects[k].slot = s /\ effects[k].round = r /\ effects[k].status \in S
  BY DEF StoredIn
<1>2. CASE UNCHANGED effects
  BY <1>1, <1>2 DEF StoredIn
<1>3. CASE BeginEffect
  <2> DEFINE key == Key(Head(todo).slot)
             row == [slot |-> Head(todo).slot, round |-> round, status |-> "pending", value |-> "none"]
  <2>1. \/ /\ key \notin DOMAIN effects
           /\ effects' = [l \in DOMAIN effects \cup {key} |-> IF l = key THEN row ELSE effects[l]]
        \/ UNCHANGED effects
    BY <1>3 DEF BeginEffect
  <2> HIDE DEF key, row
  <2>2. k \in DOMAIN effects' /\ effects'[k] = effects[k]
    BY <2>1
  <2> QED
    BY <1>1, <2>2 DEF StoredIn
<1>4. CASE CompleteEffect
  <2> DEFINE w == Head(todo)
             key == ids[w.slot]
             row == [effects[key] EXCEPT !.status = w.status, !.value = w.value]
  <2>1. effects' = [effects EXCEPT ![key] = row] \/ UNCHANGED effects
    BY <1>4 DEF CompleteEffect
  <2>2. key \in DOMAIN effects /\ effects[key].status = "pending" /\ effects[key] \in EffectRow
    <3>1. Typed'
      BY <1>4, CompleteEffectTyped DEF WorkInv
    <3> QED
      BY <1>4, <3>1, CompleteWork DEF WorkInv, Typed, TypeOK
  <2>3. row.slot = effects[key].slot /\ row.round = effects[key].round /\ row.status = w.status
    BY <2>2 DEF EffectRow
  <2>4. w.status \in AnyStatus
    BY <1>4, TailWrites, WriteFields DEF WorkInv, CompleteEffect, Doing, AnyStatus
  <2> HIDE DEF w, key, row
  <2>5. k \in DOMAIN effects' /\ effects'[k] = IF k = key /\ ~UNCHANGED effects THEN row ELSE effects[k]
    BY <2>1, <1>1
  <2>6. k = key => S = AnyStatus
    BY <1>1, <2>2
  <2>7. effects'[k].slot = s /\ effects'[k].round = r /\ effects'[k].status \in S
    BY <1>1, <2>3, <2>4, <2>5, <2>6
  <2> QED
    BY <2>5, <2>7 DEF StoredIn
<1>5. CASE ~BeginEffect /\ ~CompleteEffect
  <2>1. UNCHANGED effects
    BY <1>5 DEF Next, Runtime, Perform, AppendEvent, PutCheckpoint, Send, KeepCompleted, ReturnError,
                Decide, Recv, Cancel, Close, Ended, vars, durable
  <2> QED
    BY <1>2, <2>1
<1> QED
  BY <1>3, <1>4, <1>5


\* A write that succeeds does not stop the task.
LEMMA AdvanceOrRaise ==
  ASSUME Advance, NEW class
  PROVE  ~Raise(class) /\ ~Fault /\ ~Refused
BY DEF Advance, Raise, Fault, Refused

\* What the write of a begun or of a closed effect establishes.
LEMMA BegunStored ==
  ASSUME Advance, BeginEffect
  PROVE  StoredIn(effects', Head(todo).slot, round, AnyStatus)
<1> DEFINE s == Head(todo).slot
           key == Key(s)
           row == [slot |-> s, round |-> round, status |-> "pending", value |-> "none"]
<1>1. effects' = [l \in DOMAIN effects \cup {key} |-> IF l = key THEN row ELSE effects[l]]
  BY AdvanceOrRaise DEF BeginEffect
<1>2. row.slot = s /\ row.round = round /\ row.status = "pending"
  OBVIOUS
<1> HIDE DEF key, row, s
<1>3. key \in DOMAIN effects' /\ effects'[key] = row
  BY <1>1
<1>4. \E k \in DOMAIN effects' :
        effects'[k].slot = s /\ effects'[k].round = round /\ effects'[k].status \in AnyStatus
  BY <1>2, <1>3 DEF AnyStatus
<1> QED
  BY <1>4 DEF StoredIn, s

LEMMA ClosedStored ==
  ASSUME WorkInv, Advance, CompleteEffect
  PROVE  StoredIn(effects', Head(todo).slot, round, {Head(todo).status})
<1> DEFINE w == Head(todo)
           key == ids[w.slot]
           row == [effects[key] EXCEPT !.status = w.status, !.value = w.value]
<1>1. effects' = [effects EXCEPT ![key] = row]
  BY AdvanceOrRaise DEF CompleteEffect
<1>2. w.slot \in DOMAIN ids /\ key \in DOMAIN effects /\ effects[key] \in EffectRow
  <2>1. Typed'
    BY CompleteEffectTyped DEF WorkInv
  <2> QED
    BY <2>1, CompleteWork DEF WorkInv, Typed, TypeOK
<1>3. effects[key].slot = w.slot /\ effects[key].round = round
  BY <1>2 DEF WorkInv, Held
<1>4. row.slot = w.slot /\ row.round = round /\ row.status = w.status
  BY <1>2, <1>3 DEF EffectRow
<1> HIDE DEF w, key, row
<1>5. key \in DOMAIN effects' /\ effects'[key] = row
  BY <1>1, <1>2
<1>6. \E k \in DOMAIN effects' :
        effects'[k].slot = w.slot /\ effects'[k].round = round /\ effects'[k].status = w.status
  BY <1>4, <1>5
<1> QED
  BY <1>6 DEF StoredIn, w

-----------------------------------------------------------------------------
\* The rows of a log with one more event.
LEMMA AppendedRows ==
  ASSUME Typed, NEW e, log' = Append(log, e)
  PROVE  /\ Len(log) \in Nat /\ Len(log') = Len(log) + 1 /\ log'[Len(log) + 1] = e
         /\ \A n \in 1..Len(log) : log'[n] = log[n]
<1>1. log \in Seq(EventRow \cup {e}) /\ e \in EventRow \cup {e}
  BY DEF Typed, TypeOK
<1> QED
  BY <1>1, AppendProperties

LEMMA EventIs ==
  ASSUME NEW e \in EventRow
  PROVE  e = Event(e.kind, e.slot, e.round)
BY DEF EventRow, Event

LEMMA LogRows ==
  ASSUME Typed
  PROVE  Len(log) \in Nat /\ \A n \in 1..Len(log) : log[n] \in EventRow
<1>1. log \in Seq(EventRow)
  BY DEF Typed, TypeOK
<1> QED
  BY <1>1, ElementOfSeq, LenProperties

\* The log changes by an append or not at all.
LEMMA LogSteps ==
  ASSUME [Next]_vars
  PROVE  \/ UNCHANGED log
         \/ /\ AppendEvent /\ log' = Append(log, Head(todo).event)
            /\ todo # <<>> /\ Head(todo).op = "record" /\ stage = "append"
            /\ seq' = Len(log) + 1 /\ UNCHANGED <<effects, checkpoint>>
<1>1. CASE AppendEvent
  BY <1>1 DEF AppendEvent, Doing, NextInLog
<1>2. CASE ~AppendEvent
  BY <1>2 DEF Next, Runtime, Perform, PutCheckpoint, Send, BeginEffect, CompleteEffect, KeepCompleted,
              ReturnError, Decide, Recv, Cancel, Close, Ended, vars, durable
<1> QED
  BY <1>1, <1>2

\* The head of the writes is the first of them.
LEMMA HeadRecord ==
  ASSUME Typed, todo # <<>>, Head(todo).op = "record"
  PROVE  1 \in Records /\ todo[1] = Head(todo) /\ Head(todo).event \in EventRow
<1>1. Len(todo) \in Nat \ {0} /\ Head(todo) = todo[1] /\ Head(todo) \in Write
  BY TailWrites
<1> QED
  BY <1>1, WriteFields DEF Records

LEMMA LoggedStays ==
  ASSUME WorkInv, OutcomeInv, [Next]_vars
  PROVE  LoggedIsStored'
<1>1. /\ \A s, r : StoredIn(effects, s, r, AnyStatus) => StoredIn(effects', s, r, AnyStatus)
      /\ \A s, r : StoredIn(effects, s, r, {"succeeded"}) => StoredIn(effects', s, r, {"succeeded"})
      /\ \A s, r : StoredIn(effects, s, r, {"failed"}) => StoredIn(effects', s, r, {"failed"})
  BY StoredStays
<1>2. CASE UNCHANGED log
  BY <1>1, <1>2 DEF OutcomeInv, LoggedIsStored
<1>3. CASE /\ log' = Append(log, Head(todo).event)
           /\ todo # <<>> /\ Head(todo).op = "record" /\ stage = "append"
  <2> DEFINE e == Head(todo).event
  <2>1. 1 \in Records /\ todo[1].event = e /\ e \in EventRow
    BY <1>3, HeadRecord DEF WorkInv
  <2>2. BackedEvent(1, e) /\ \A s, status : ~Begins(1, s) /\ ~Closes(1, s, status)
    BY <2>1 DEF OutcomeInv, Backed, Begins, Closes
  <2> HIDE DEF e
  <2>3. /\ Len(log) \in Nat /\ Len(log') = Len(log) + 1 /\ log'[Len(log) + 1] = e
        /\ \A n \in 1..Len(log) : log'[n] = log[n]
    BY <1>3, AppendedRows DEF WorkInv, e
  <2>4. \A k, s, r : LoggedIn(log', k, s, r) => LoggedIn(log, k, s, r) \/ e = Event(k, s, r)
    BY <2>3 DEF LoggedIn
  <2>5. /\ e.kind = "ToolStarted" => StoredIn(effects, e.slot, e.round, AnyStatus)
        /\ e.kind = "ToolCompleted" => StoredIn(effects, e.slot, e.round, {"succeeded"})
        /\ e.kind = "ModelTurnEmpty" => StoredIn(effects, StreamSlot, e.round, {"failed"})
    BY <2>2 DEF BackedEvent
  <2>6. e.kind = "ToolFailed" /\ LoggedIn(log', "ToolScheduled", e.slot, e.round) =>
          StoredIn(effects, e.slot, e.round, {"failed"})
    <3>1. e.kind = "ToolFailed" => e # Event("ToolScheduled", e.slot, e.round)
      BY DEF Event
    <3> QED
      BY <2>2, <2>4, <3>1 DEF BackedEvent
  <2>7. \A n \in 1..Len(log) : log[n].kind = "ToolFailed"
          /\ LoggedIn(log', "ToolScheduled", log[n].slot, log[n].round) =>
               StoredIn(effects, log[n].slot, log[n].round, {"failed"})
    <3> SUFFICES ASSUME NEW n \in 1..Len(log), log[n].kind = "ToolFailed",
                        LoggedIn(log', "ToolScheduled", log[n].slot, log[n].round)
                 PROVE  LoggedIn(log, "ToolScheduled", log[n].slot, log[n].round)
      BY DEF OutcomeInv, LoggedIsStored
    <3> SUFFICES ASSUME e = Event("ToolScheduled", log[n].slot, log[n].round) PROVE FALSE
      BY <2>4
    <3>1. e.kind = "ToolScheduled" /\ e.slot = log[n].slot /\ e.round = log[n].round
      BY DEF Event
    <3>2. ~LoggedIn(log, "ToolFailed", e.slot, e.round)
      BY <1>3, <2>2, <3>1 DEF BackedEvent
    <3>3. log[n] = Event("ToolFailed", e.slot, e.round)
      BY <3>1, LogRows, EventIs DEF WorkInv
    <3> QED
      BY <3>2, <3>3 DEF LoggedIn
  <2>8. \A n \in 1..Len(log') : n \in 1..Len(log) \/ n = Len(log) + 1
    BY <2>3
  <2> QED
    BY <1>1, <2>3, <2>5, <2>6, <2>7, <2>8 DEF OutcomeInv, LoggedIsStored
<1> QED
  BY <1>2, <1>3, LogSteps

\* What a checkpoint accepts, later ones accept too.
LEMMA AcceptedStays ==
  ASSUME WorkInv, DInv, [Next]_vars, NEW t, AcceptedIn(log, checkpoint.acceptedSeq, t)
  PROVE  AcceptedIn(log', checkpoint'.acceptedSeq, t)
<1>1. PICK j \in 1..checkpoint.acceptedSeq : log[j] = Event("ToolCompleted", t[2], t[1])
  BY DEF AcceptedIn
<1>2. /\ checkpoint.acceptedSeq \in Nat /\ checkpoint.acceptedSeq <= Len(log) /\ Len(log) \in Nat
      /\ j \in 1..Len(log)
  BY <1>1, LogRows DEF DInv, DeliveredIsDurable, NumbersAreNatural, WorkInv
<1>3. CASE UNCHANGED <<log, checkpoint>>
  BY <1>1, <1>3 DEF AcceptedIn
<1>4. CASE log' = Append(log, Head(todo).event) /\ UNCHANGED checkpoint
  BY <1>1, <1>2, <1>4, AppendedRows DEF AcceptedIn, WorkInv
<1>5. CASE PutCheckpoint
  <2>1. UNCHANGED log /\ (UNCHANGED checkpoint \/ checkpoint'.acceptedSeq = seq) /\ seq = Len(log)
    BY <1>5 DEF PutCheckpoint, DInv, StagesEstablish
  <2>2. checkpoint'.acceptedSeq \in Nat /\ checkpoint'.acceptedSeq >= checkpoint.acceptedSeq
    BY <1>2, <2>1
  <2> QED
    BY <1>1, <1>2, <2>1, <2>2 DEF AcceptedIn
<1>6. CASE ~AppendEvent /\ ~PutCheckpoint
  <2>1. UNCHANGED <<log, checkpoint>>
    BY <1>6 DEF Next, Runtime, Perform, Send, BeginEffect, CompleteEffect, KeepCompleted, ReturnError,
                Decide, Recv, Cancel, Close, Ended, vars, durable
  <2> QED
    BY <1>3, <2>1
<1>7. CASE AppendEvent
  BY <1>3, <1>4, <1>7, LogSteps DEF AppendEvent
<1> QED
  BY <1>5, <1>6, <1>7

\* The tools a checkpoint names and those the runtime keeps.
LEMMA ToolsStay ==
  ASSUME WorkInv, DInv, OutcomeInv, [Next]_vars
  PROVE  \A t \in completed' \cup checkpoint'.tools : AcceptedIn(log', checkpoint'.acceptedSeq, t)
<1>1. \A t \in completed \cup checkpoint.tools : AcceptedIn(log', checkpoint'.acceptedSeq, t)
  <2>1. \A t \in completed \cup checkpoint.tools : AcceptedIn(log, checkpoint.acceptedSeq, t)
    BY DEF OutcomeInv, Kept
  <2> QED
    BY <2>1, AcceptedStays
<1>2. CASE KeepCompleted
  <2>1. /\ completed' = completed \cup {<<round, Head(todo).slot>>} /\ UNCHANGED <<log, checkpoint>>
        /\ todo # <<>> /\ Head(todo).op = "keep"
    BY <1>2 DEF KeepCompleted, durable, Doing
  <2>2. Head(todo) = todo[1] /\ 1 \in 1..Len(todo)
    BY <2>1, TailWrites DEF WorkInv
  <2>3. AcceptedIn(log, checkpoint.acceptedSeq, <<round, Head(todo).slot>>)
    BY <2>1, <2>2 DEF OutcomeInv, Kept, KeptWrites
  <2> QED
    BY <1>1, <2>1, <2>3
<1>3. CASE ~KeepCompleted
  <2>1. UNCHANGED completed
    BY <1>3 DEF Next, Runtime, Perform, AppendEvent, PutCheckpoint, Send, BeginEffect, CompleteEffect,
                ReturnError, Decide, Recv, Cancel, Close, Ended, vars, memory
  <2>2. checkpoint'.tools \subseteq completed \cup checkpoint.tools
    <3>1. CASE PutCheckpoint
      BY <3>1 DEF PutCheckpoint
    <3>2. CASE ~PutCheckpoint
      BY <3>2 DEF Next, Runtime, Perform, AppendEvent, Send, BeginEffect, CompleteEffect, KeepCompleted,
                  ReturnError, Decide, Recv, Cancel, Close, Ended, vars, durable
    <3> QED
      BY <3>1, <3>2
  <2> QED
    BY <1>1, <2>1, <2>2
<1> QED
  BY <1>2, <1>3

\* A task that stops has one event left to record, its terminal one.
LEMMA RaisedOutcome ==
  ASSUME NEW class \in Stop, Raise(class)
  PROVE  CallsPast' /\ Backed' /\ KeptWrites' /\ HeadLogged'
<1>1. stage' = "append" /\ pc' \in {"stopping", "ended"} /\ (todo' = <<>> \/ todo' = <<Record(class)>>)
  BY DEF Raise
<1>2. /\ Record(class).op = "record" /\ Record(class).event.kind \in Stop
  BY DEF Record, Event
<1>3. \A n \in 1..Len(todo') : todo'[n] = Record(class)
  BY <1>1
<1>4. Backed'
  <2>1. ASSUME NEW n \in Records' PROVE BackedEvent(n, todo[n].event)'
    <3>1. todo'[n].event.kind \in Stop
      BY <1>2, <1>3, <2>1 DEF Records
    <3> QED
      BY <3>1 DEF BackedEvent, Stop
  <2> QED
    BY <2>1 DEF Backed
<1> QED
  BY <1>1, <1>2, <1>3, <1>4 DEF CallsPast, KeptWrites, HeadLogged

\* How a write leaves the writes that remain.
LEMMA PerformShape ==
  ASSUME WorkInv, Perform
  PROVE  /\ todo # <<>> /\ UNCHANGED <<round, batch>>
         /\ \/ \E class \in Stop : Raise(class)
            \/ Advance /\ ~AppendEvent /\ UNCHANGED log /\ Head(todo).op # "return"
            \/ UNCHANGED <<pc, todo>> /\ stage' # "append" /\ (AppendEvent \/ PutCheckpoint)
<1>1. todo # <<>> /\ UNCHANGED <<round, batch>>
  BY DEF Perform, AppendEvent, PutCheckpoint, Send, BeginEffect, CompleteEffect, KeepCompleted, ReturnError,
         Doing, durable
<1>2. "Failed" \in Stop /\ "Cancelled" \in Stop /\ (Fault \/ Refused => Raise("Failed"))
  BY DEF Stop, Fault, Refused
<1>3. CASE AppendEvent
  BY <1>1, <1>2, <1>3 DEF AppendEvent, AfterAppend
<1>4. CASE PutCheckpoint
  BY <1>1, <1>2, <1>4 DEF PutCheckpoint
<1>5. CASE Send
  <2>1. ~AppendEvent /\ UNCHANGED log /\ Head(todo).op = "record"
    BY <1>5 DEF Send, AppendEvent, durable, Doing
  <2> QED
    BY <1>1, <1>2, <1>5, <2>1 DEF Send
<1>6. CASE BeginEffect \/ CompleteEffect \/ KeepCompleted
  <2>1. ~AppendEvent /\ UNCHANGED log /\ Head(todo).op # "return"
    BY <1>6 DEF BeginEffect, CompleteEffect, KeepCompleted, AppendEvent, durable, Doing
  <2> QED
    BY <1>1, <1>2, <1>6, <2>1 DEF BeginEffect, CompleteEffect, KeepCompleted
<1>7. CASE ReturnError
  <2>1. Head(todo).class \in Stop
    BY <1>1, <1>7, TailWrites, WriteFields DEF ReturnError, Doing, WorkInv
  <2> QED
    BY <1>1, <1>7, <2>1 DEF ReturnError
<1> QED
  BY <1>3, <1>4, <1>5, <1>6, <1>7 DEF Perform

\* What the head of the writes has established when it is done.
LEMMA HeadDone ==
  ASSUME WorkInv, DInv, OutcomeInv, Perform, Advance
  PROVE  /\ Head(todo).op = "begin" => StoredIn(effects', Head(todo).slot, round, AnyStatus)
         /\ Head(todo).op = "complete" => StoredIn(effects', Head(todo).slot, round, {Head(todo).status})
         /\ \A s : Head(todo).op = "record" /\ Head(todo).event = Event("ToolCompleted", s, round)
              => AcceptedIn(log', checkpoint'.acceptedSeq, <<round, s>>)
<1>1. CASE Head(todo).op = "begin"
  <2>1. BeginEffect
    BY <1>1 DEF Perform, AppendEvent, PutCheckpoint, Send, CompleteEffect, KeepCompleted, ReturnError, Doing
  <2> QED
    BY <1>1, <2>1, BegunStored
<1>2. CASE Head(todo).op = "complete"
  <2>1. CompleteEffect
    BY <1>2 DEF Perform, AppendEvent, PutCheckpoint, Send, BeginEffect, KeepCompleted, ReturnError, Doing
  <2> QED
    BY <1>2, <2>1, ClosedStored
<1>3. CASE Head(todo).op = "record"
  <2>1. AppendEvent \/ PutCheckpoint \/ Send
    BY <1>3 DEF Perform, BeginEffect, CompleteEffect, KeepCompleted, ReturnError, Doing
  <2>2. Send
    BY <2>1, AdvanceOrRaise DEF AppendEvent, PutCheckpoint, Advance, AfterAppend
  <2>3. stage = "send" /\ UNCHANGED <<log, checkpoint>>
    BY <2>2 DEF Send, durable
  <2>4. /\ checkpoint.acceptedSeq = seq /\ seq \in 1..Len(log) /\ log[seq] = Head(todo).event /\ seq \in Nat
    BY <2>3 DEF DInv, StagesEstablish, NumbersAreNatural, OutcomeInv, HeadLogged
  <2>5. seq \in 1..checkpoint.acceptedSeq
    BY <2>4
  <2> QED
    BY <1>3, <2>3, <2>4, <2>5 DEF AcceptedIn
<1> QED
  BY <1>1, <1>2, <1>3

LEMMA AdvancedOutcome ==
  ASSUME WorkInv, WorkInv', DInv, OutcomeInv, Perform, Advance
  PROVE  CallsPast' /\ Backed' /\ KeptWrites' /\ HeadLogged'
<1>1. /\ todo # <<>> /\ UNCHANGED <<round, batch, pc, log>> /\ todo' = Tail(todo) /\ stage' = "append"
  <2>1. todo # <<>> /\ UNCHANGED <<round, batch>> /\ UNCHANGED log
    BY PerformShape, AdvanceOrRaise DEF Advance
  <2> QED
    BY <2>1 DEF Advance
<1>2. /\ Len(todo) \in Nat \ {0} /\ Head(todo) = todo[1] /\ Len(todo') = Len(todo) - 1
      /\ \A n \in 1..Len(todo') : todo'[n] = todo[n + 1] /\ n + 1 \in 1..Len(todo)
  BY <1>1, TailWrites DEF WorkInv
<1>3. \A n \in Records' : n + 1 \in Records /\ todo'[n] = todo[n + 1] /\ n \in Nat \ {0}
  BY <1>2 DEF Records
<1>4. CallsPast'
  <2>1. \A n \in 1..Len(log') :
          pc' \notin {"stopping", "ended"} => PastAt(log'[n], pc', round', batch'.next)
    BY <1>1 DEF OutcomeInv, CallsPast, Past
  <2>2. \A n \in Records' :
          pc' \notin {"stopping", "ended"} => PastAt(todo'[n].event, pc', round', batch'.next)
    BY <1>1, <1>3 DEF OutcomeInv, CallsPast, Past
  <2> QED
    BY <2>1, <2>2 DEF CallsPast, Past
<1>5. Backed'
  <2> SUFFICES ASSUME NEW n \in Records' PROVE BackedEvent(n, todo[n].event)'
    BY DEF Backed
  <2> DEFINE e == todo[n + 1].event
  <2>1. BackedEvent(n + 1, e) /\ todo'[n].event = e /\ n \in Nat \ {0} /\ n + 1 \in 1..Len(todo)
    BY <1>3 DEF OutcomeInv, Backed, Records
  <2>2. e.round = round
    BY <1>3 DEF WorkInv, Program, Records
  <2> HIDE DEF e
  <2>3. \A m \in 1..((n + 1) - 1) : m = 1 \/ (m - 1 \in 1..(n - 1) /\ todo'[m - 1] = todo[m])
    BY <1>2, <2>1
  <2>4. \A s : Begins(n + 1, s) =>
          \/ Head(todo).op = "begin" /\ Head(todo).slot = s
          \/ \E m \in 1..(n - 1) : todo'[m].op = "begin" /\ todo'[m].slot = s
    BY <1>2, <2>3 DEF Begins
  <2>5. \A s, status : Closes(n + 1, s, status) =>
          \/ Head(todo).op = "complete" /\ Head(todo).slot = s /\ Head(todo).status = status
          \/ \E m \in 1..(n - 1) : todo'[m].op = "complete" /\ todo'[m].slot = s /\ todo'[m].status = status
    BY <1>2, <2>3 DEF Closes
  <2>6. /\ \A s, r : StoredIn(effects, s, r, AnyStatus) => StoredIn(effects', s, r, AnyStatus)
        /\ \A s, r : StoredIn(effects, s, r, {"succeeded"}) => StoredIn(effects', s, r, {"succeeded"})
        /\ \A s, r : StoredIn(effects, s, r, {"failed"}) => StoredIn(effects', s, r, {"failed"})
    <3>1. [Next]_vars
      BY DEF Next, Runtime
    <3>2. "pending" \notin {"succeeded"} /\ "pending" \notin {"failed"}
      OBVIOUS
    <3> QED
      BY <3>1, <3>2, StoredStays
  <2>7. Len(todo) # 1 /\ n + 1 # 1
    BY <1>2, <2>1
  <2>8. e.kind # "ToolScheduled"
    BY <2>1, <2>7 DEF BackedEvent
  <2>9. \A s, status : Head(todo).op = "complete" /\ Head(todo).slot = s /\ Head(todo).status = status =>
           StoredIn(effects', s, round, {status})
    BY HeadDone
  <2>10. e.kind = "ToolStarted" =>
          StoredIn(effects', e.slot, e.round, AnyStatus)
          \/ \E m \in 1..(n - 1) : todo'[m].op = "begin" /\ todo'[m].slot = e.slot
    BY <2>1, <2>2, <2>4, <2>6, HeadDone DEF BackedEvent
  <2>11. e.kind = "ToolCompleted" =>
          \/ StoredIn(effects', e.slot, e.round, {"succeeded"})
          \/ \E m \in 1..(n - 1) :
               todo'[m].op = "complete" /\ todo'[m].slot = e.slot /\ todo'[m].status = "succeeded"
    BY <2>1, <2>2, <2>5, <2>6, <2>9 DEF BackedEvent
  <2>12. e.kind = "ToolFailed" =>
          \/ StoredIn(effects', e.slot, e.round, {"failed"})
          \/ \E m \in 1..(n - 1) :
               todo'[m].op = "complete" /\ todo'[m].slot = e.slot /\ todo'[m].status = "failed"
    BY <2>1, <2>2, <2>5, <2>6, <2>7, <2>9 DEF BackedEvent
  <2>13. e.kind = "ModelTurnEmpty" =>
          \/ StoredIn(effects', StreamSlot, e.round, {"failed"})
          \/ \E m \in 1..(n - 1) :
               todo'[m].op = "complete" /\ todo'[m].slot = StreamSlot /\ todo'[m].status = "failed"
    BY <2>1, <2>2, <2>5, <2>6, <2>9 DEF BackedEvent
  <2> QED
    BY <2>1, <2>8, <2>10, <2>11, <2>12, <2>13 DEF BackedEvent, Begins, Closes
<1>6. KeptWrites'
  <2> SUFFICES ASSUME NEW n \in 1..Len(todo'), todo'[n].op = "keep"
               PROVE  \/ AcceptedIn(log', checkpoint'.acceptedSeq, <<round, todo'[n].slot>>)
                      \/ \E m \in 1..(n - 1) : /\ todo'[m].op = "record"
                                               /\ todo'[m].event = Event("ToolCompleted", todo'[n].slot, round)
    BY <1>1 DEF KeptWrites
  <2> DEFINE s == todo[n + 1].slot
  <2>1. /\ n \in Nat \ {0} /\ n + 1 \in 1..Len(todo) /\ todo[n + 1].op = "keep" /\ todo'[n].slot = s
    BY <1>2
  <2>2. \/ AcceptedIn(log, checkpoint.acceptedSeq, <<round, s>>)
        \/ \E m \in 1..((n + 1) - 1) : todo[m].op = "record" /\ todo[m].event = Event("ToolCompleted", s, round)
    BY <2>1 DEF OutcomeInv, Kept, KeptWrites
  <2>3. AcceptedIn(log, checkpoint.acceptedSeq, <<round, s>>) =>
          AcceptedIn(log', checkpoint'.acceptedSeq, <<round, s>>)
    BY AcceptedStays DEF Next, Runtime
  <2> HIDE DEF s
  <2>4. \A m \in 1..((n + 1) - 1) : m = 1 \/ (m - 1 \in 1..(n - 1) /\ todo'[m - 1] = todo[m])
    BY <1>2, <2>1
  <2>5. ASSUME NEW m \in 1..((n + 1) - 1), todo[m].op = "record", todo[m].event = Event("ToolCompleted", s, round)
        PROVE  \/ AcceptedIn(log', checkpoint'.acceptedSeq, <<round, s>>)
               \/ \E l \in 1..(n - 1) : todo'[l].op = "record" /\ todo'[l].event = Event("ToolCompleted", s, round)
    BY <1>2, <2>4, <2>5, HeadDone
  <2> QED
    BY <2>1, <2>2, <2>3, <2>5
<1>7. HeadLogged'
  BY <1>1 DEF HeadLogged
<1> QED
  BY <1>4, <1>5, <1>6, <1>7

\* The stages of a record leave the writes as they are.
LEMMA StagedOutcome ==
  ASSUME WorkInv, DInv, OutcomeInv, AppendEvent \/ PutCheckpoint, UNCHANGED <<pc, todo>>, stage' # "append"
  PROVE  CallsPast' /\ Backed' /\ KeptWrites' /\ HeadLogged'
<1>1. /\ todo # <<>> /\ Head(todo).op = "record" /\ UNCHANGED <<round, batch, effects>>
  BY DEF AppendEvent, PutCheckpoint, Doing
<1>2. /\ 1 \in Records /\ todo[1].event = Head(todo).event
  BY <1>1, HeadRecord DEF WorkInv
<1>3. \/ UNCHANGED log /\ stage = "checkpoint" /\ UNCHANGED seq
      \/ log' = Append(log, Head(todo).event) /\ seq' = Len(log) + 1 /\ stage = "append"
  BY DEF AppendEvent, PutCheckpoint, NextInLog, Fault, Refused, Raise
<1>4. /\ Len(log) \in Nat
      /\ \A n \in 1..Len(log') : (n \in 1..Len(log) /\ log'[n] = log[n]) \/ log'[n] = Head(todo).event
  BY <1>3, AppendedRows, LogRows DEF WorkInv
<1>5. CallsPast'
  BY <1>1, <1>2, <1>4 DEF OutcomeInv, CallsPast, Records, Past
<1>6. HeadLogged'
  BY <1>3, <1>4, AppendedRows DEF OutcomeInv, HeadLogged, WorkInv
<1>7. Backed'
  <2> SUFFICES ASSUME NEW n \in Records PROVE BackedEvent(n, todo[n].event)'
    BY DEF Backed, Records
  <2>1. BackedEvent(n, todo[n].event)
    BY DEF OutcomeInv, Backed
  <2>2. ~LoggedIn(log, "ToolScheduled", todo[n].event.slot, todo[n].event.round) /\ Len(todo) = 1
        /\ todo[n].event.kind = "ToolFailed"
        => ~LoggedIn(log', "ToolScheduled", todo[n].event.slot, todo[n].event.round)
    <3> SUFFICES ASSUME Len(todo) = 1, todo[n].event.kind = "ToolFailed",
                        LoggedIn(log', "ToolScheduled", todo[n].event.slot, todo[n].event.round)
                 PROVE  LoggedIn(log, "ToolScheduled", todo[n].event.slot, todo[n].event.round)
      OBVIOUS
    <3>1. n = 1 /\ Head(todo).event.kind = "ToolFailed"
      BY <1>2 DEF Records
    <3> QED
      BY <1>4, <3>1 DEF LoggedIn, Event
  <2> QED
    BY <1>1, <2>1, <2>2 DEF BackedEvent, Begins, Closes
<1>8. KeptWrites'
  <2>1. \A s : AcceptedIn(log, checkpoint.acceptedSeq, <<round, s>>) =>
                 AcceptedIn(log', checkpoint'.acceptedSeq, <<round, s>>)
    BY AcceptedStays DEF Next, Runtime, Perform
  <2> QED
    BY <1>1, <2>1 DEF OutcomeInv, Kept, KeptWrites
<1> QED
  BY <1>5, <1>6, <1>7, <1>8

LEMMA PerformOutcome ==
  ASSUME WorkInv, WorkInv', DInv, OutcomeInv, Perform
  PROVE  CallsPast' /\ Backed' /\ KeptWrites' /\ HeadLogged'
BY PerformShape, RaisedOutcome, AdvancedOutcome, StagedOutcome

-----------------------------------------------------------------------------
\* What a decision writes, as far as calls are concerned: nothing about them, or
\* the outcome of one call behind the write that stores it.
Plain(w) == w.op # "keep" /\ (w.op = "record" => w.event.kind \notin CallEvent \cup {"ModelTurnEmpty"})
PlainWrites == \A n \in 1..Len(todo) : Plain(todo[n])

WritesPast == \A n \in Records : Past(todo[n].event)

LEMMA DecideAt ==
  ASSUME Decide
  PROVE  todo = <<>>
BY DEF Decide, CreateTask, Plan, SelectModel, StartRound, Connect, AwaitChunk, ChunkArrives, StreamFails,
       EmptyTurn, CallTurn, TextTurn, Answer, PrepareCall, Prepared, ToolReturns, Collected, SearchEvidence,
       SubmitReport, VerifierAnswers, Publish, ServeCancelled, BatchEnds, Finish, At

LEMMA PlainOutcome ==
  ASSUME PlainWrites', stage' = "append"
  PROVE  WritesPast' /\ Backed' /\ KeptWrites' /\ HeadLogged'
<1>1. \A n \in 1..Len(todo') :
        /\ todo'[n].op # "keep"
        /\ todo'[n].op = "record" => todo'[n].event.kind \notin CallEvent \cup {"ModelTurnEmpty"}
  BY DEF PlainWrites, Plain
<1>2. \A n \in Records' : BackedEvent(n, todo[n].event)'
  BY <1>1 DEF BackedEvent, Records, CallEvent
<1>3. \A n \in Records' : PastAt(todo'[n].event, pc', round', batch'.next)
  BY <1>1 DEF PastAt, Records
<1> QED
  BY <1>1, <1>2, <1>3 DEF WritesPast, Past, Backed, KeptWrites, HeadLogged

LEMMA ClosingOutcome ==
  ASSUME UNCHANGED round, pc' \in AfterCalls, stage' = "append", round \in Nat,
         NEW i, i < batch'.next,
         \A n \in 1..Len(todo') :
           \/ Plain(todo'[n])
           \/ todo'[n] = RecordCall("EvidenceAdded", i)
           \/ /\ todo'[n] = RecordCall("ToolCompleted", i)
              /\ \E m \in 1..(n - 1) : \E v : todo'[m] = Complete(CallSlot(i), "succeeded", v)
           \/ /\ todo'[n] = RecordCall("ToolFailed", i)
              /\ \E m \in 1..(n - 1) : \E v : todo'[m] = Complete(CallSlot(i), "failed", v)
           \/ /\ todo'[n] = Keep(i)
              /\ \E m \in 1..(n - 1) : todo'[m] = RecordCall("ToolCompleted", i)
  PROVE  WritesPast' /\ Backed' /\ KeptWrites' /\ HeadLogged'
<1> DEFINE s == CallSlot(i)
<1>1. s[2] = i
  BY DEF CallSlot
<1>2. \A k : /\ RecordCall(k, i).op = "record" /\ RecordCall(k, i).event.kind = k
             /\ RecordCall(k, i).event.slot = s /\ RecordCall(k, i).event.round = round
             /\ RecordCall(k, i).event = Event(k, s, round)
  BY DEF RecordCall, Event
<1>3. Keep(i).op = "keep" /\ Keep(i).slot = s
  BY DEF Keep
<1>4. \A status, v : /\ Complete(s, status, v).op = "complete" /\ Complete(s, status, v).slot = s
                     /\ Complete(s, status, v).status = status
  BY DEF Complete
<1> HIDE DEF s
<1>5. ASSUME NEW n \in Records'
      PROVE  /\ PastAt(todo'[n].event, pc', round', batch'.next)
             /\ todo'[n].event.kind # "ToolScheduled" /\ todo'[n].event.kind # "ToolStarted"
             /\ todo'[n].event.kind # "ModelTurnEmpty"
             /\ todo'[n].event.kind = "ToolCompleted" =>
                  \E m \in 1..(n - 1) : /\ todo'[m].op = "complete" /\ todo'[m].slot = todo'[n].event.slot
                                        /\ todo'[m].status = "succeeded"
             /\ todo'[n].event.kind = "ToolFailed" =>
                  \E m \in 1..(n - 1) : /\ todo'[m].op = "complete" /\ todo'[m].slot = todo'[n].event.slot
                                        /\ todo'[m].status = "failed"
  <2>1. n \in 1..Len(todo') /\ todo'[n].op = "record"
    BY <1>5 DEF Records
  <2>2. CASE Plain(todo'[n])
    BY <2>1, <2>2 DEF Plain, PastAt, CallEvent
  <2>3. CASE todo'[n] = RecordCall("EvidenceAdded", i)
    BY <1>1, <1>2, <2>3 DEF PastAt
  <2>4. CASE /\ todo'[n] = RecordCall("ToolCompleted", i)
             /\ \E m \in 1..(n - 1) : \E v : todo'[m] = Complete(s, "succeeded", v)
    BY <1>1, <1>2, <1>4, <2>4 DEF PastAt
  <2>5. CASE /\ todo'[n] = RecordCall("ToolFailed", i)
             /\ \E m \in 1..(n - 1) : \E v : todo'[m] = Complete(s, "failed", v)
    BY <1>1, <1>2, <1>4, <2>5 DEF PastAt
  <2> QED
    BY <1>3, <2>1, <2>2, <2>3, <2>4, <2>5 DEF s
<1>6. Backed'
  <2>1. \A n \in Records' : BackedEvent(n, todo[n].event)'
    BY <1>5 DEF BackedEvent, Closes
  <2> QED
    BY <2>1 DEF Backed
<1>7. WritesPast'
  BY <1>5 DEF WritesPast, Past
<1>8. KeptWrites'
  <2> SUFFICES ASSUME NEW n \in 1..Len(todo'), todo'[n].op = "keep"
               PROVE  \E m \in 1..(n - 1) : /\ todo'[m].op = "record"
                                            /\ todo'[m].event = Event("ToolCompleted", todo'[n].slot, round')
    BY DEF KeptWrites
  <2>1. /\ todo'[n] = Keep(i)
        /\ \E m \in 1..(n - 1) : todo'[m] = RecordCall("ToolCompleted", i)
    BY <1>2 DEF Plain
  <2> QED
    BY <1>2, <1>3, <2>1
<1> QED
  BY <1>6, <1>7, <1>8 DEF HeadLogged

LEMMA PlainLists ==
  ASSUME \/ todo' = <<>>
         \/ \E a : todo' = <<a>> /\ Plain(a)
         \/ \E a, b : todo' = <<a, b>> /\ Plain(a) /\ Plain(b)
         \/ \E a, b, c : todo' = <<a, b, c>> /\ Plain(a) /\ Plain(b) /\ Plain(c)
  PROVE  PlainWrites'
<1>1. CASE todo' = <<>>
  BY <1>1 DEF PlainWrites
<1>2. ASSUME NEW a, todo' = <<a>>, Plain(a) PROVE PlainWrites'
  <2>1. \A n \in 1..Len(todo') : todo'[n] = a
    BY <1>2
  <2> QED
    BY <1>2, <2>1 DEF PlainWrites, Plain
<1>3. ASSUME NEW a, NEW b, todo' = <<a, b>>, Plain(a), Plain(b) PROVE PlainWrites'
  <2>1. \A n \in 1..Len(todo') : todo'[n] = a \/ todo'[n] = b
    BY <1>3
  <2> QED
    BY <1>3, <2>1 DEF PlainWrites, Plain
<1>4. ASSUME NEW a, NEW b, NEW c, todo' = <<a, b, c>>, Plain(a), Plain(b), Plain(c) PROVE PlainWrites'
  <2>1. \A n \in 1..Len(todo') : todo'[n] = a \/ todo'[n] = b \/ todo'[n] = c
    BY <1>4
  <2> QED
    BY <1>4, <2>1 DEF PlainWrites, Plain
<1> QED
  BY <1>1, <1>2, <1>3, <1>4

\* Every write but those about calls and empty turns is plain.
LEMMA PlainKinds ==
  /\ \A s, r : \A k \in EventKind \ (CallEvent \cup {"ModelTurnEmpty"}) :
       Plain([op |-> "record", event |-> Event(k, s, r)])
  /\ \A k \in EventKind \ (CallEvent \cup {"ModelTurnEmpty"}) : Plain(Record(k))
  /\ \A s : Plain(Begin(s)) /\ \A status, v : Plain(Complete(s, status, v))
  /\ \A class : Plain(Return(class))
BY DEF Plain, Record, Event, Begin, Complete, Return

LEMMA RaisePlain ==
  ASSUME NEW class \in Stop, Raise(class)
  PROVE  PlainWrites'
<1>1. class \in EventKind \ (CallEvent \cup {"ModelTurnEmpty"})
  BY DEF Stop, EventKind, CallEvent, Terminal
<1> QED
  BY <1>1, PlainKinds, PlainLists DEF Raise

LEMMA CloseFailedPlain ==
  ASSUME NEW s, NEW class, CloseFailed(s, class)
  PROVE  PlainWrites'
BY PlainKinds, PlainLists DEF CloseFailed, Then

LEMMA RequestsPlain ==
  ASSUME \/ CreateTask \/ Plan \/ SelectModel \/ StartRound \/ Connect \/ AwaitChunk \/ ChunkArrives
         \/ StreamFails \/ CallTurn \/ TextTurn \/ Answer
  PROVE  PlainWrites'
<1> DEFINE Kinds == EventKind \ (CallEvent \cup {"ModelTurnEmpty"})
<1>1. {"SessionStarted", "UserMessageAccepted", "PlanningStarted", "PlanUpdated", "ModelStarted",
       "TextDelta", "Completed"} \subseteq Kinds
  BY DEF EventKind, CallEvent, Terminal
<1>2. \A k \in Kinds : Plain(Record(k)) /\ \A s, r : Plain([op |-> "record", event |-> Event(k, s, r)])
  BY PlainKinds
<1> HIDE DEF Kinds
<1>3. CASE CreateTask
  BY <1>1, <1>2, <1>3, PlainLists DEF CreateTask, Then
<1>4. CASE Plan
  BY <1>1, <1>2, <1>4, PlainKinds, PlainLists DEF Plan, Then
<1>5. CASE SelectModel \/ Connect \/ StreamFails
  BY <1>5, PlainKinds, PlainLists, CloseFailedPlain DEF SelectModel, Connect, StreamFails, Then
<1>6. CASE StartRound
  <2>1. \/ \E class \in Stop : Raise(class)
        \/ todo' = <<[op |-> "record", event |-> Event("ModelStarted", NoSlot, round + 1)], Begin(StreamSlot)>>
    BY <1>6 DEF StartRound, Then, Stop
  <2> QED
    BY <1>1, <1>2, <2>1, PlainKinds, PlainLists, RaisePlain
<1>7. CASE AwaitChunk \/ ChunkArrives
  <2>1. \/ \E class \in Stop : Raise(class)
        \/ todo' = <<>> \/ todo' = <<Record("TextDelta")>>
    BY <1>7 DEF AwaitChunk, ChunkArrives, Then, Stop
  <2> QED
    BY <1>1, <1>2, <2>1, PlainLists, RaisePlain
<1>8. CASE CallTurn \/ TextTurn
  BY <1>8, PlainKinds, PlainLists DEF CallTurn, TextTurn, Then
<1>9. CASE Answer
  <2>1. \/ \E class \in Stop : Raise(class)
        \/ todo' = <<>> \/ todo' = <<Record("Completed")>>
    BY <1>9 DEF Answer, Then, Stop
  <2> QED
    BY <1>1, <1>2, <2>1, PlainLists, RaisePlain
<1> QED
  BY <1>3, <1>4, <1>5, <1>6, <1>7, <1>8, <1>9

LEMMA EndingsPlain ==
  ASSUME Prepared \/ Collected \/ Publish \/ ServeCancelled \/ BatchEnds \/ Finish
  PROVE  PlainWrites'
<1>1. "Completed" \in EventKind \ (CallEvent \cup {"ModelTurnEmpty"})
  BY DEF EventKind, CallEvent, Terminal
<1>2. \/ \E class \in Stop : Raise(class)
      \/ todo' = <<>> \/ todo' = <<Record("Completed")>>
  BY DEF Prepared, Collected, Publish, ServeCancelled, BatchEnds, Finish, Then, Stop
<1> QED
  BY <1>1, <1>2, PlainKinds, PlainLists, RaisePlain

\* An empty turn closes its request before it says so.
LEMMA EmptyTurnOutcome ==
  ASSUME WorkInv, EmptyTurn, stage' = "append"
  PROVE  WritesPast' /\ Backed' /\ KeptWrites' /\ HeadLogged'
<1> DEFINE a == Complete(StreamSlot, "failed", "empty")
           b == Record("ModelTurnEmpty")
           c == IF turn.empty + 1 > MaxEmptyTurnRetries THEN Return("Failed") ELSE Begin(StreamSlot)
<1>1. todo' = <<a, b, c>>
  BY DEF EmptyTurn, Then
<1>2. /\ a.op = "complete" /\ a.slot = StreamSlot /\ a.status = "failed"
      /\ b.op = "record" /\ b.event.kind = "ModelTurnEmpty"
      /\ c.op \in {"return", "begin"}
  BY DEF Complete, Record, Event, Return, Begin
<1> HIDE DEF a, b, c
<1>3. 1..Len(todo') = {1, 2, 3} /\ todo'[1] = a /\ todo'[2] = b /\ todo'[3] = c
  BY <1>1
<1>4. Records' = {2} /\ todo'[2].event.kind = "ModelTurnEmpty"
  BY <1>2, <1>3 DEF Records
<1>5. BackedEvent(2, todo[2].event)'
  <2>1. \E m \in 1..(2 - 1) : todo'[m].op = "complete" /\ todo'[m].slot = StreamSlot /\ todo'[m].status = "failed"
    BY <1>2, <1>3
  <2> QED
    BY <1>4, <2>1 DEF BackedEvent, Closes
<1>6. WritesPast'
  BY <1>4 DEF WritesPast, Past, PastAt, CallEvent
<1> QED
  BY <1>2, <1>3, <1>4, <1>5, <1>6 DEF Backed, KeptWrites, HeadLogged

\* The next call of the batch has not been spoken of.
LEMMA NotYetLogged ==
  ASSUME WorkInv, OutcomeInv, At("prepare"), NEW k \in CallEvent
  PROVE  ~LoggedIn(log, k, CallSlot(batch.next), round)
<1> SUFFICES ASSUME NEW n \in 1..Len(log), log[n] = Event(k, CallSlot(batch.next), round)
             PROVE  FALSE
  BY DEF LoggedIn
<1>1. log[n].kind = k /\ log[n].slot[2] = batch.next /\ log[n].round = round
  BY DEF Event, CallSlot
<1>2. Past(log[n])
  BY DEF OutcomeInv, CallsPast, At
<1>3. batch.next \in Nat
  BY DEF WorkInv, Typed, RunTyped, BatchTyped, Batch
<1> QED
  BY <1>1, <1>2, <1>3 DEF Past, PastAt


LEMMA PrepareOutcome ==
  ASSUME WorkInv, OutcomeInv, PrepareCall, stage' = "append", UNCHANGED log
  PROVE  /\ WritesPast' /\ Backed' /\ KeptWrites' /\ HeadLogged'
         /\ pc' \notin {"stopping", "ended"} => batch'.next >= batch.next
<1> DEFINE i == batch.next
           s == CallSlot(i)
           a == RecordCall("ToolScheduled", i)
           b == Begin(s)
           c == RecordCall("ToolStarted", i)
           d == RecordCall("ToolFailed", i)
<1>1. At("prepare") /\ UNCHANGED round
  BY DEF PrepareCall
<1>2. i \in Nat /\ round \in Nat
  BY BoundsAssumption DEF WorkInv, Typed, TypeOK, RunTyped, BatchTyped, Batch
<1>3. \/ Raise("Failed")
      \/ pc' = "prepare" /\ batch'.next = i + 1 /\ (todo' = <<d>> \/ todo' = <<a, b, c>>)
  <2>1. \/ Raise("Failed")
        \/ /\ i <= Len(batch.calls) /\ Then("prepare", <<d>>)
           /\ batch' = [batch EXCEPT !.next = i + 1, !.done = @ \cup {i}]
        \/ /\ i <= Len(batch.calls) /\ Then("prepare", <<a, b, c>>)
           /\ batch' = [batch EXCEPT !.next = i + 1, !.open = @ \cup {i}]
    BY DEF PrepareCall, Opened
  <2> QED
    BY <2>1, CallMovesOn DEF Then, WorkInv
<1>4. /\ a.op = "record" /\ a.event.slot = s /\ a.event.round = round /\ a.event.kind = "ToolScheduled"
      /\ c.op = "record" /\ c.event.slot = s /\ c.event.round = round /\ c.event.kind = "ToolStarted"
      /\ d.op = "record" /\ d.event.slot = s /\ d.event.round = round /\ d.event.kind = "ToolFailed"
      /\ b.op = "begin" /\ b.slot = s /\ s[2] = i
  BY DEF RecordCall, Event, Begin, CallSlot
<1>5. ~LoggedIn(log', "ToolScheduled", s, round) /\ ~LoggedIn(log', "ToolFailed", s, round)
  BY <1>1, NotYetLogged DEF CallEvent
<1> HIDE DEF a, b, c, d, i, s
<1>6. ASSUME pc' = "prepare", batch'.next = i + 1, NEW e, e.slot = s, e.round = round
      PROVE  PastAt(e, pc', round', batch'.next)
  BY <1>1, <1>2, <1>4, <1>6 DEF PastAt, AfterCalls
<1>7. CASE todo' = <<d>> /\ pc' = "prepare" /\ batch'.next = i + 1
  <2>1. Len(todo') = 1 /\ 1..Len(todo') = {1} /\ todo'[1] = d
    BY <1>7
  <2>2. Records' = {1}
    BY <1>4, <2>1 DEF Records
  <2>3. BackedEvent(1, todo[1].event)'
    BY <1>4, <1>5, <2>1 DEF BackedEvent
  <2>4. WritesPast'
    BY <1>4, <1>6, <1>7, <2>1, <2>2 DEF WritesPast, Past
  <2> QED
    BY <1>2, <1>4, <1>7, <2>1, <2>2, <2>3, <2>4 DEF Backed, KeptWrites, HeadLogged, i
<1>8. CASE todo' = <<a, b, c>> /\ pc' = "prepare" /\ batch'.next = i + 1
  <2>1. 1..Len(todo') = {1, 2, 3} /\ todo'[1] = a /\ todo'[2] = b /\ todo'[3] = c
    BY <1>8
  <2>2. Records' = {1, 3}
    BY <1>4, <2>1 DEF Records
  <2>3. BackedEvent(1, todo[1].event)'
    BY <1>4, <1>5, <2>1 DEF BackedEvent
  <2>4. BackedEvent(3, todo[3].event)'
    <3>1. \E m \in 1..(3 - 1) : todo'[m].op = "begin" /\ todo'[m].slot = s
      BY <1>4, <2>1
    <3> QED
      BY <1>4, <2>1, <3>1 DEF BackedEvent, Begins
  <2>5. WritesPast'
    BY <1>4, <1>6, <1>8, <2>1, <2>2 DEF WritesPast, Past
  <2> QED
    BY <1>2, <1>4, <1>8, <2>1, <2>2, <2>3, <2>4, <2>5 DEF Backed, KeptWrites, HeadLogged, i
<1>9. CASE Raise("Failed")
  <2>1. PlainWrites' /\ pc' \in {"stopping", "ended"}
    BY <1>9, RaisePlain DEF Stop, Raise
  <2> QED
    BY <2>1, PlainOutcome
<1> QED
  BY <1>3, <1>7, <1>8, <1>9

\* The calls that are open have been taken up.
LEMMA OpenCalls ==
  ASSUME Typed, NEW i \in batch.open, batch'.next = batch.next
  PROVE  i < batch'.next /\ i \in Nat
<1>1. PICK M : batch \in Batch(M)
  BY DEF Typed, RunTyped, BatchTyped
<1>2. batch.next \in Nat \ {0} /\ i \in 1..(batch.next - 1)
  BY <1>1 DEF Batch, Typed, RunTyped
<1> QED
  BY <1>2

LEMMA ToolReturnsOutcome ==
  ASSUME WorkInv, ToolReturns, stage' = "append"
  PROVE  WritesPast' /\ Backed' /\ KeptWrites' /\ HeadLogged' /\ batch'.next = batch.next
<1>1. PICK i \in Running :
        \/ Raise("Cancelled") /\ UNCHANGED batch
        \/ /\ batch' = TakenOut(i)
           /\ \/ Then("collect", <<Complete(CallSlot(i), "succeeded", "ok"),
                                   RecordCall("ToolCompleted", i), Keep(i)>>)
              \/ Then("collect", <<Complete(CallSlot(i), "succeeded", "ok"),
                                   RecordCall("ToolCompleted", i), RecordCall("EvidenceAdded", i), Keep(i)>>)
              \/ Then("collect", CallFailed(i))
  BY DEF ToolReturns
<1>2. i \in batch.open /\ UNCHANGED round /\ round \in Nat
  BY BoundsAssumption DEF Running, OpenEngineCalls, ToolReturns, WorkInv, Typed, TypeOK
<1>3. CASE Raise("Cancelled") /\ UNCHANGED batch
  BY <1>3, RaisePlain, PlainOutcome DEF Stop
<1> DEFINE a == Complete(CallSlot(i), "succeeded", "ok")
           f == Complete(CallSlot(i), "failed", "error")
           b == RecordCall("ToolCompleted", i)
           e == RecordCall("EvidenceAdded", i)
           g == RecordCall("ToolFailed", i)
           k == Keep(i)
<1>4. Plain(a) /\ Plain(f)
  BY PlainKinds
<1>5. /\ \E v : a = Complete(CallSlot(i), "succeeded", v)
      /\ \E v : f = Complete(CallSlot(i), "failed", v)
  OBVIOUS
<1> HIDE DEF a, f, b, e, g, k
<1>6. CASE batch' = TakenOut(i) /\ pc' = "collect" /\
           (todo' = <<a, b, k>> \/ todo' = <<a, b, e, k>> \/ todo' = <<f, g>>)
  <2>1. batch'.next = batch.next
    BY <1>2, <1>6, TakenOutTyped DEF WorkInv
  <2>2. i < batch'.next /\ pc' \in AfterCalls
    BY <1>2, <1>6, <2>1, OpenCalls DEF WorkInv, AfterCalls
  <2>3. CASE todo' = <<a, b, k>>
    <3>1. /\ 1..Len(todo') = {1, 2, 3} /\ todo'[1] = a /\ todo'[2] = b /\ todo'[3] = k
          /\ 1 \in 1..(2 - 1) /\ 2 \in 1..(3 - 1)
      BY <2>3
    <3> QED
      BY <1>2, <1>4, <1>5, <2>1, <2>2, <3>1, ClosingOutcome DEF b, k
  <2>4. CASE todo' = <<a, b, e, k>>
    <3>1. /\ 1..Len(todo') = {1, 2, 3, 4} /\ todo'[1] = a /\ todo'[2] = b /\ todo'[3] = e /\ todo'[4] = k
          /\ 1 \in 1..(2 - 1) /\ 2 \in 1..(4 - 1)
      BY <2>4
    <3> QED
      BY <1>2, <1>4, <1>5, <2>1, <2>2, <3>1, ClosingOutcome DEF b, e, k
  <2>5. CASE todo' = <<f, g>>
    <3>1. 1..Len(todo') = {1, 2} /\ todo'[1] = f /\ todo'[2] = g /\ 1 \in 1..(2 - 1)
      BY <2>5
    <3> QED
      BY <1>2, <1>4, <1>5, <2>1, <2>2, <3>1, ClosingOutcome DEF g
  <2> QED
    BY <1>6, <2>3, <2>4, <2>5
<1> QED
  BY <1>1, <1>3, <1>6 DEF Then, CallFailed, a, b, e, f, g, k

LEMMA SearchEvidenceOutcome ==
  ASSUME WorkInv, SearchEvidence, stage' = "append"
  PROVE  WritesPast' /\ Backed' /\ KeptWrites' /\ HeadLogged' /\ batch'.next = batch.next
<1>1. PICK i \in batch.open :
        /\ batch' = Served(i, FALSE)
        /\ Then("serve", <<Complete(CallSlot(i), "succeeded", "ok"), RecordCall("ToolCompleted", i)>>)
  BY DEF SearchEvidence
<1>2. UNCHANGED round /\ round \in Nat
  BY BoundsAssumption DEF SearchEvidence, WorkInv, Typed, TypeOK
<1>3. batch'.next = batch.next
  <2>1. PICK M : batch \in Batch(M)
    BY DEF WorkInv, Typed, RunTyped, BatchTyped
  <2> QED
    BY <1>1, <2>1 DEF Batch, Served, TakenOut
<1> DEFINE a == Complete(CallSlot(i), "succeeded", "ok")
           b == RecordCall("ToolCompleted", i)
<1>4. Plain(a) /\ \E v : a = Complete(CallSlot(i), "succeeded", v)
  BY PlainKinds
<1>5. pc' = "serve" /\ todo' = <<a, b>>
  BY <1>1 DEF Then
<1> HIDE DEF a, b
<1>6. 1..Len(todo') = {1, 2} /\ todo'[1] = a /\ todo'[2] = b /\ 1 \in 1..(2 - 1)
  BY <1>5
<1>7. i < batch'.next /\ pc' \in AfterCalls
  BY <1>3, <1>5, OpenCalls DEF WorkInv, AfterCalls
<1> QED
  BY <1>2, <1>3, <1>4, <1>6, <1>7, ClosingOutcome DEF b

LEMMA RefuseOutcome ==
  ASSUME WorkInv, stage' = "append", UNCHANGED round, NEW i \in batch.open, NEW d,
         \/ Refuse(i, d, <<>>) \/ Refuse(i, d, <<Record("VerificationFinding")>>)
         \/ \E findings \in {<<>>, <<Record("VerificationFinding")>>} :
              Refuse(i, d, <<Complete(VerifySlot, "succeeded", "refused")>> \o findings)
  PROVE  WritesPast' /\ Backed' /\ KeptWrites' /\ HeadLogged' /\ batch'.next = batch.next
<1>1. batch' = Served(i, Exhausts(d)) /\ pc' = "serve"
  BY DEF Refuse, Then
<1>2. round \in Nat
  BY BoundsAssumption DEF WorkInv, Typed, TypeOK
<1>3. batch'.next = batch.next
  <2>1. PICK M : batch \in Batch(M)
    BY DEF WorkInv, Typed, RunTyped, BatchTyped
  <2> QED
    BY <1>1, <2>1 DEF Batch, Served, TakenOut
<1> DEFINE a == Complete(CallSlot(i), "failed", "refused")
           b == RecordCall("ToolFailed", i)
           v == Complete(VerifySlot, "succeeded", "refused")
           f == Record("VerificationFinding")
<1>4. Plain(a) /\ Plain(v) /\ Plain(f) /\ \E x : a = Complete(CallSlot(i), "failed", x)
  <2>1. "VerificationFinding" \in EventKind \ (CallEvent \cup {"ModelTurnEmpty"})
    BY DEF EventKind, CallEvent
  <2> QED
    BY <2>1, PlainKinds
<1>5. \/ todo' = <<>> \o <<a, b>> \/ todo' = <<f>> \o <<a, b>>
      \/ todo' = (<<v>> \o <<>>) \o <<a, b>> \/ todo' = (<<v>> \o <<f>>) \o <<a, b>>
  BY DEF Refuse, Then
<1> HIDE DEF a, b, v, f
<1>6. /\ <<>> \o <<a, b>> = <<a, b>> /\ <<f>> \o <<a, b>> = <<f, a, b>>
      /\ (<<v>> \o <<>>) \o <<a, b>> = <<v, a, b>> /\ (<<v>> \o <<f>>) \o <<a, b>> = <<v, f, a, b>>
  BY Refusals
<1>7. i < batch'.next /\ pc' \in AfterCalls
  BY <1>1, <1>3, OpenCalls DEF WorkInv, AfterCalls
<1>8. CASE todo' = <<a, b>>
  <2>1. 1..Len(todo') = {1, 2} /\ todo'[1] = a /\ todo'[2] = b /\ 1 \in 1..(2 - 1)
    BY <1>8
  <2> QED
    BY <1>2, <1>3, <1>4, <1>7, <2>1, ClosingOutcome DEF b
<1>9. CASE todo' = <<f, a, b>> \/ todo' = <<v, a, b>>
  <2>1. /\ 1..Len(todo') = {1, 2, 3} /\ (todo'[1] = f \/ todo'[1] = v) /\ todo'[2] = a /\ todo'[3] = b
        /\ 2 \in 1..(3 - 1)
    BY <1>9
  <2> QED
    BY <1>2, <1>3, <1>4, <1>7, <2>1, ClosingOutcome DEF b
<1>10. CASE todo' = <<v, f, a, b>>
  <2>1. /\ 1..Len(todo') = {1, 2, 3, 4} /\ todo'[1] = v /\ todo'[2] = f /\ todo'[3] = a /\ todo'[4] = b
        /\ 3 \in 1..(4 - 1)
    BY <1>10
  <2> QED
    BY <1>2, <1>3, <1>4, <1>7, <2>1, ClosingOutcome DEF b
<1> QED
  BY <1>5, <1>6, <1>8, <1>9, <1>10

LEMMA ReportOutcome ==
  ASSUME WorkInv, SubmitReport \/ VerifierAnswers, stage' = "append"
  PROVE  WritesPast' /\ Backed' /\ KeptWrites' /\ HeadLogged' /\ batch'.next = batch.next
<1>1. UNCHANGED round /\ round \in Nat
  BY BoundsAssumption DEF SubmitReport, VerifierAnswers, WorkInv, Typed, TypeOK
<1>2. PICK M : batch \in Batch(M)
  BY DEF WorkInv, Typed, RunTyped, BatchTyped
<1>3. CASE SubmitReport
  <2>1. PICK i \in batch.open, d \in Draft :
          \/ Refuse(i, d, <<>>)
          \/ Refuse(i, d, <<Record("VerificationFinding")>>)
          \/ /\ batch' = [batch EXCEPT !.draft = d]
             /\ todo' = <<Record("VerificationStarted"), Begin(VerifySlot)>>
    BY <1>3 DEF SubmitReport, Then
  <2>2. "VerificationStarted" \in EventKind \ (CallEvent \cup {"ModelTurnEmpty"})
    BY DEF EventKind, CallEvent
  <2>3. CASE /\ batch' = [batch EXCEPT !.draft = d]
             /\ todo' = <<Record("VerificationStarted"), Begin(VerifySlot)>>
    <3>1. PlainWrites'
      BY <2>2, <2>3, PlainKinds, PlainLists
    <3>2. batch'.next = batch.next
      BY <1>2, <2>3 DEF Batch
    <3> QED
      BY <3>1, <3>2, PlainOutcome
  <2>4. CASE Refuse(i, d, <<>>) \/ Refuse(i, d, <<Record("VerificationFinding")>>)
    BY <1>1, <2>4, RefuseOutcome
  <2> QED
    BY <2>1, <2>3, <2>4
<1>4. CASE VerifierAnswers
  <2>1. PICK i \in batch.open :
          \/ /\ Then("publish", <<Complete(VerifySlot, "succeeded", "passed"),
                                  Complete(CallSlot(i), "succeeded", "published"),
                                  RecordCall("ToolCompleted", i)>>)
             /\ UNCHANGED batch
          \/ \E findings \in {<<>>, <<Record("VerificationFinding")>>} :
               Refuse(i, batch.draft, <<Complete(VerifySlot, "succeeded", "refused")>> \o findings)
          \/ CloseFailed(VerifySlot, "Failed") /\ UNCHANGED batch
    BY <1>4 DEF VerifierAnswers
  <2>2. CASE \E findings \in {<<>>, <<Record("VerificationFinding")>>} :
               Refuse(i, batch.draft, <<Complete(VerifySlot, "succeeded", "refused")>> \o findings)
    BY <1>1, <2>2, RefuseOutcome
  <2>3. CASE CloseFailed(VerifySlot, "Failed") /\ UNCHANGED batch
    BY <2>3, CloseFailedPlain, PlainOutcome
  <2>4. CASE /\ Then("publish", <<Complete(VerifySlot, "succeeded", "passed"),
                                  Complete(CallSlot(i), "succeeded", "published"),
                                  RecordCall("ToolCompleted", i)>>)
             /\ UNCHANGED batch
    <3> DEFINE v == Complete(VerifySlot, "succeeded", "passed")
               a == Complete(CallSlot(i), "succeeded", "published")
               b == RecordCall("ToolCompleted", i)
    <3>1. Plain(v) /\ Plain(a) /\ \E x : a = Complete(CallSlot(i), "succeeded", x)
      BY PlainKinds
    <3>2. pc' = "publish" /\ todo' = <<v, a, b>> /\ batch'.next = batch.next
      BY <2>4 DEF Then
    <3> HIDE DEF v, a, b
    <3>3. 1..Len(todo') = {1, 2, 3} /\ todo'[1] = v /\ todo'[2] = a /\ todo'[3] = b /\ 2 \in 1..(3 - 1)
      BY <3>2
    <3>4. i < batch'.next /\ pc' \in AfterCalls
      BY <3>2, OpenCalls DEF WorkInv, AfterCalls
    <3> QED
      BY <1>1, <3>1, <3>2, <3>3, <3>4, ClosingOutcome DEF b
  <2> QED
    BY <2>1, <2>2, <2>3, <2>4
<1> QED
  BY <1>3, <1>4

\* What has been said about calls stays in the past.
LEMMA PastStays ==
  ASSUME WorkInv, Typed', OutcomeInv, UNCHANGED log, WritesPast',
         pc' \notin {"stopping", "ended"} =>
           /\ pc \notin {"stopping", "ended"}
           /\ \/ UNCHANGED round /\ (pc \in AfterCalls => pc' \in AfterCalls /\ batch'.next >= batch.next)
              \/ round' = round + 1
  PROVE  CallsPast'
<1> SUFFICES ASSUME pc' \notin {"stopping", "ended"}, NEW n \in 1..Len(log)
             PROVE  PastAt(log[n], pc', round', batch'.next)
  BY DEF CallsPast, WritesPast, Past
<1>1. PastAt(log[n], pc, round, batch.next) /\ log[n] \in EventRow
  BY LogRows DEF OutcomeInv, CallsPast, Past, WorkInv
<1>2. log[n].round \in Nat /\ (log[n].kind \in CallEvent => log[n].slot[2] \in Nat)
  BY <1>1, BoundsAssumption DEF EventRow, Slot
<1>3. round \in Nat /\ batch.next \in Nat /\ batch'.next \in Nat
  BY BoundsAssumption DEF WorkInv, Typed, TypeOK, RunTyped, BatchTyped, Batch
<1> QED
  BY <1>1, <1>2, <1>3 DEF PastAt

\* Where a decision leads, as far as what has been said about calls is concerned.
MovesOn ==
  pc' \notin {"stopping", "ended"} =>
    /\ pc \notin {"stopping", "ended"}
    /\ \/ UNCHANGED round /\ (pc \in AfterCalls => pc' \in AfterCalls /\ batch'.next >= batch.next)
       \/ round' = round + 1

LEMMA RequestsMove ==
  ASSUME WorkInv,
         \/ CreateTask \/ Plan \/ SelectModel \/ StartRound \/ Connect \/ AwaitChunk \/ ChunkArrives
         \/ StreamFails \/ EmptyTurn \/ CallTurn \/ TextTurn \/ Answer
  PROVE  MovesOn
<1>1. CASE CreateTask \/ Plan \/ SelectModel \/ Connect \/ StreamFails
  BY <1>1 DEF CreateTask, Plan, SelectModel, Connect, StreamFails, CloseFailed, Then, At, MovesOn, AfterCalls
<1>2. CASE StartRound
  BY <1>2 DEF StartRound, Then, Raise, At, MovesOn
<1>3. CASE AwaitChunk \/ ChunkArrives
  BY <1>3 DEF AwaitChunk, ChunkArrives, Then, Raise, At, MovesOn, AfterCalls
<1>4. CASE EmptyTurn \/ CallTurn \/ TextTurn \/ Answer
  BY <1>4 DEF EmptyTurn, CallTurn, TextTurn, Answer, Then, Raise, At, MovesOn, AfterCalls
<1> QED
  BY <1>1, <1>2, <1>3, <1>4

LEMMA EndingsMove ==
  ASSUME WorkInv, Prepared \/ Collected \/ Publish \/ ServeCancelled \/ BatchEnds \/ Finish
  PROVE  MovesOn
<1>1. batch.next \in Nat
  BY DEF WorkInv, Typed, RunTyped, BatchTyped, Batch
<1>2. CASE Collected
  <2>1. PICK M : batch \in Batch(M)
    BY DEF WorkInv, Typed, RunTyped, BatchTyped
  <2>2. batch'.next = batch.next
    BY <1>2, <2>1 DEF Collected, Batch
  <2> QED
    BY <1>1, <1>2, <2>2 DEF Collected, Then, At, MovesOn, AfterCalls
<1>3. CASE Prepared \/ Publish \/ ServeCancelled \/ BatchEnds \/ Finish
  BY <1>1, <1>3 DEF Prepared, Publish, ServeCancelled, BatchEnds, Finish, Then, Raise, At, MovesOn, AfterCalls
<1> QED
  BY <1>2, <1>3

LEMMA CallsMove ==
  ASSUME WorkInv, PrepareCall \/ ToolReturns \/ SearchEvidence \/ SubmitReport \/ VerifierAnswers,
         pc' \notin {"stopping", "ended"} => batch'.next >= batch.next
  PROVE  MovesOn
<1>1. CASE PrepareCall
  BY <1>1 DEF PrepareCall, Then, Raise, At, MovesOn, AfterCalls
<1>2. CASE ToolReturns
  BY <1>2 DEF ToolReturns, Then, Raise, At, MovesOn, AfterCalls
<1>3. CASE SearchEvidence \/ SubmitReport
  BY <1>3 DEF SearchEvidence, SubmitReport, Refuse, Then, At, MovesOn, AfterCalls
<1>4. CASE VerifierAnswers
  BY <1>4 DEF VerifierAnswers, Refuse, CloseFailed, Then, At, MovesOn, AfterCalls
<1> QED
  BY <1>1, <1>2, <1>3, <1>4

LEMMA DecideOutcome ==
  ASSUME WorkInv, Typed', OutcomeInv, Decide
  PROVE  CallsPast' /\ Backed' /\ KeptWrites' /\ HeadLogged'
<1>1. UNCHANGED log /\ stage' = "append" /\ batch.next \in Nat
  <2>1. todo = <<>> /\ stage = "append"
    BY DecideAt DEF WorkInv, Typed, TypeOK
  <2> QED
    BY <2>1, Decisions DEF Elsewhere, WorkInv, Typed, RunTyped, BatchTyped, Batch
<1>2. WritesPast' /\ Backed' /\ KeptWrites' /\ HeadLogged' /\ MovesOn
  <2>1. CASE \/ CreateTask \/ Plan \/ SelectModel \/ StartRound \/ Connect \/ AwaitChunk \/ ChunkArrives
             \/ StreamFails \/ CallTurn \/ TextTurn \/ Answer
    BY <1>1, <2>1, RequestsPlain, PlainOutcome, RequestsMove
  <2>2. CASE EmptyTurn
    BY <1>1, <2>2, EmptyTurnOutcome, RequestsMove
  <2>3. CASE Prepared \/ Collected \/ Publish \/ ServeCancelled \/ BatchEnds \/ Finish
    BY <1>1, <2>3, EndingsPlain, PlainOutcome, EndingsMove
  <2>4. CASE PrepareCall
    BY <1>1, <2>4, PrepareOutcome, CallsMove
  <2>5. CASE ToolReturns \/ SearchEvidence \/ SubmitReport \/ VerifierAnswers
    BY <1>1, <2>5, ToolReturnsOutcome, SearchEvidenceOutcome, ReportOutcome, CallsMove
  <2> QED
    BY <2>1, <2>2, <2>3, <2>4, <2>5 DEF Decide
<1> QED
  BY <1>1, <1>2, PastStays DEF MovesOn

LEMMA ClientOutcome ==
  ASSUME OutcomeInv, Recv \/ Cancel \/ Close \/ Ended \/ UNCHANGED vars
  PROVE  CallsPast' /\ Backed' /\ KeptWrites' /\ HeadLogged'
<1>1. UNCHANGED <<log, checkpoint, effects, pc, todo, stage, seq, round, batch>>
  BY DEF Recv, Cancel, Close, Ended, vars, durable, memory
<1>2. CallsPast'
  BY <1>1 DEF OutcomeInv, CallsPast, Records, Past
<1>3. Backed'
  BY <1>1 DEF OutcomeInv, Backed, Records, BackedEvent, Begins, Closes
<1>4. KeptWrites' /\ HeadLogged'
  BY <1>1 DEF OutcomeInv, Kept, KeptWrites, HeadLogged
<1> QED
  BY <1>2, <1>3, <1>4

LEMMA NextOutcome ==
  ASSUME WorkInv, WorkInv', DInv, OutcomeInv, [Next]_vars
  PROVE  OutcomeInv'
<1>1. LoggedIsStored'
  BY LoggedStays
<1>2. \A t \in completed' \cup checkpoint'.tools : AcceptedIn(log', checkpoint'.acceptedSeq, t)
  BY ToolsStay
<1>3. CallsPast' /\ Backed' /\ KeptWrites' /\ HeadLogged'
  BY PerformOutcome, DecideOutcome, ClientOutcome DEF Next, Runtime, WorkInv
<1> QED
  BY <1>1, <1>2, <1>3 DEF OutcomeInv, Kept

LEMMA OutcomeStored == OutcomeInv => OutcomeFirst
<1> SUFFICES ASSUME OutcomeInv PROVE OutcomeFirst
  OBVIOUS
<1>1. \A s, r, S : StoredAs(s, r, S) <=> StoredIn(effects, s, r, S)
  BY DEF StoredAs, StoredIn
<1>2. \A k, s, r : Logged(k, s, r) <=> LoggedIn(log, k, s, r)
  BY DEF Logged, LoggedIn
<1>3. \A t \in checkpoint.tools : AcceptedIn(log, checkpoint.acceptedSeq, t)
  BY DEF OutcomeInv, Kept
<1> QED
  BY <1>1, <1>2, <1>3 DEF OutcomeInv, LoggedIsStored, AnyStatus, AcceptedIn, OutcomeFirst

-----------------------------------------------------------------------------
(***************************************************************************)
(* How a task ends.  What a decision leaves to do is one of a few lists:   *)
(* an ordinary one, which neither ends the task nor leads to its end, a    *)
(* list that returns an error last, or the record of the terminal event.   *)
(***************************************************************************)
OrdinaryWrite(w) == w.op # "return" /\ (w.op = "record" => w.event.kind \notin Terminal)
OrdinaryWrites   == \A n \in 1..Len(todo) : OrdinaryWrite(todo[n])

ReturnsLast ==
  \A n \in 1..Len(todo) : todo[n].op = "return" =>
    n = Len(todo) /\ todo[n].class \in Stop /\ \A m \in 1..Len(todo) : todo[m].op # "begin"

Shapes ==
  /\ pc = "stopping" => result \in Stop /\ (todo = <<>> \/ todo = <<Record(result)>>)
  /\ pc = "finish" => todo = <<>> \/ todo = <<Record("Completed")>>
  /\ pc = "ended" => todo = <<>>
  /\ pc \notin {"stopping", "ended"} => result = "running"
  /\ pc \notin {"stopping", "finish"} => \A n \in Records : todo[n].event.kind \notin Terminal
  /\ ReturnsLast

LEMMA InitShapes == Init => Shapes
<1> SUFFICES ASSUME Init PROVE Shapes
  OBVIOUS
<1>1. pc = "create" /\ todo = <<>> /\ Len(todo) = 0 /\ result = "running"
  BY DEF Init
<1> QED
  BY <1>1 DEF Shapes, ReturnsLast, Records

LEMMA OrdinaryLists ==
  ASSUME \/ todo' = <<>>
         \/ \E a : todo' = <<a>> /\ OrdinaryWrite(a)
         \/ \E a, b : todo' = <<a, b>> /\ OrdinaryWrite(a) /\ OrdinaryWrite(b)
         \/ \E a, b, c : todo' = <<a, b, c>> /\ OrdinaryWrite(a) /\ OrdinaryWrite(b) /\ OrdinaryWrite(c)
         \/ \E a, b, c, d : /\ todo' = <<a, b, c, d>> /\ OrdinaryWrite(a) /\ OrdinaryWrite(b)
                            /\ OrdinaryWrite(c) /\ OrdinaryWrite(d)
  PROVE  OrdinaryWrites'
<1>1. CASE todo' = <<>>
  BY <1>1 DEF OrdinaryWrites
<1>2. ASSUME NEW a, todo' = <<a>>, OrdinaryWrite(a) PROVE OrdinaryWrites'
  <2>1. \A n \in 1..Len(todo') : todo'[n] = a
    BY <1>2
  <2> QED
    BY <1>2, <2>1 DEF OrdinaryWrites, OrdinaryWrite
<1>3. ASSUME NEW a, NEW b, todo' = <<a, b>>, OrdinaryWrite(a), OrdinaryWrite(b) PROVE OrdinaryWrites'
  <2>1. \A n \in 1..Len(todo') : todo'[n] = a \/ todo'[n] = b
    BY <1>3
  <2> QED
    BY <1>3, <2>1 DEF OrdinaryWrites, OrdinaryWrite
<1>4. ASSUME NEW a, NEW b, NEW c, todo' = <<a, b, c>>, OrdinaryWrite(a), OrdinaryWrite(b), OrdinaryWrite(c)
      PROVE  OrdinaryWrites'
  <2>1. \A n \in 1..Len(todo') : todo'[n] = a \/ todo'[n] = b \/ todo'[n] = c
    BY <1>4
  <2> QED
    BY <1>4, <2>1 DEF OrdinaryWrites, OrdinaryWrite
<1>5. ASSUME NEW a, NEW b, NEW c, NEW d, todo' = <<a, b, c, d>>,
             OrdinaryWrite(a), OrdinaryWrite(b), OrdinaryWrite(c), OrdinaryWrite(d)
      PROVE  OrdinaryWrites'
  <2>1. \A n \in 1..Len(todo') : todo'[n] = a \/ todo'[n] = b \/ todo'[n] = c \/ todo'[n] = d
    BY <1>5
  <2> QED
    BY <1>5, <2>1 DEF OrdinaryWrites, OrdinaryWrite
<1> QED
  BY <1>1, <1>2, <1>3, <1>4, <1>5

LEMMA OrdinaryKinds ==
  /\ \A k \in EventKind \ Terminal :
       /\ OrdinaryWrite(Record(k)) /\ \A i : OrdinaryWrite(RecordCall(k, i))
       /\ \A s, r : OrdinaryWrite([op |-> "record", event |-> Event(k, s, r)])
  /\ \A s : OrdinaryWrite(Begin(s)) /\ \A status, v : OrdinaryWrite(Complete(s, status, v))
  /\ \A i : OrdinaryWrite(Keep(i))
BY DEF OrdinaryWrite, Record, RecordCall, Event, Begin, Complete, Keep

\* The ways a decision goes on.
Ordinary   == pc' \notin {"finish", "stopping", "ended"} /\ UNCHANGED result /\ OrdinaryWrites'
Stops      ==
  \E class \in Stop :
    /\ Raise(class)
    /\ class # "Suspended"
    /\ class = "Failed" => At("round") \/ At("answer") \/ At("prepare") \/ At("serve")
ClosesLast ==
  \E s \in Slot, class \in Stop :
    /\ CloseFailed(s, class) /\ UNCHANGED result
    /\ \/ At("select") /\ s = SelectSlot
       \/ (At("connect") \/ At("chunk")) /\ s = StreamSlot
       \/ At("verify") /\ s = VerifySlot /\ class = "Failed"
Completes  == pc' = "finish" /\ todo' = <<Record("Completed")>> /\ phase' = "Completed" /\ UNCHANGED result
GivesUp    == EmptyTurn /\ turn.empty + 1 > MaxEmptyTurnRetries
Leaves     == CreateTask /\ pc' = "ended" /\ todo' = <<>> /\ result' = "rejected"

LEMMA RequestWays ==
  ASSUME CreateTask \/ Plan \/ SelectModel \/ StartRound \/ Connect \/ AwaitChunk \/ ChunkArrives \/ StreamFails
  PROVE  Ordinary \/ Stops \/ ClosesLast \/ Leaves
<1> DEFINE Kinds == EventKind \ Terminal
<1>1. {"SessionStarted", "UserMessageAccepted", "PlanningStarted", "PlanUpdated", "ModelStarted",
       "TextDelta"} \subseteq Kinds
  BY DEF EventKind, Terminal
<1>2. \A k \in Kinds :
        OrdinaryWrite(Record(k)) /\ \A s, r : OrdinaryWrite([op |-> "record", event |-> Event(k, s, r)])
  BY OrdinaryKinds
<1> HIDE DEF Kinds
<1>3. CASE CreateTask
  BY <1>1, <1>2, <1>3, OrdinaryLists DEF CreateTask, Then, Ordinary, Leaves
<1>4. CASE Plan
  BY <1>1, <1>2, <1>4, OrdinaryKinds, OrdinaryLists DEF Plan, Then, Ordinary
<1>5. CASE SelectModel \/ Connect \/ StreamFails
  BY <1>5, OrdinaryKinds, OrdinaryLists, Failures, FixedSlots
     DEF SelectModel, Connect, StreamFails, Then, Ordinary, ClosesLast
<1>6. CASE StartRound
  <2>1. \/ Stops
        \/ /\ pc' = "connect" /\ UNCHANGED result
           /\ todo' = <<[op |-> "record", event |-> Event("ModelStarted", NoSlot, round + 1)], Begin(StreamSlot)>>
    BY <1>6 DEF StartRound, Then, Stop, Stops
  <2> QED
    BY <1>1, <1>2, <2>1, OrdinaryKinds, OrdinaryLists DEF Ordinary
<1>7. CASE AwaitChunk \/ ChunkArrives
  <2>1. \/ Stops
        \/ /\ pc' \in {"stream", "chunk"} /\ UNCHANGED result
           /\ todo' = <<>> \/ todo' = <<Record("TextDelta")>>
    BY <1>7 DEF AwaitChunk, ChunkArrives, Then, Stop, Stops
  <2> QED
    BY <1>1, <1>2, <2>1, OrdinaryLists DEF Ordinary
<1> QED
  BY <1>3, <1>4, <1>5, <1>6, <1>7

LEMMA TurnWays ==
  ASSUME EmptyTurn \/ CallTurn \/ TextTurn \/ Answer
  PROVE  Ordinary \/ Stops \/ GivesUp \/ (Completes /\ Answer /\ ~VerifyReports)
<1>1. CASE EmptyTurn
  <2>1. "ModelTurnEmpty" \in EventKind \ Terminal
    BY DEF EventKind, Terminal
  <2>2. CASE ~(turn.empty + 1 > MaxEmptyTurnRetries)
    <3>1. /\ todo' = <<Complete(StreamSlot, "failed", "empty"), Record("ModelTurnEmpty"), Begin(StreamSlot)>>
          /\ pc' = "connect" /\ UNCHANGED result
      BY <1>1, <2>2 DEF EmptyTurn, Then
    <3> QED
      BY <2>1, <3>1, OrdinaryKinds, OrdinaryLists DEF Ordinary
  <2> QED
    BY <1>1, <2>2 DEF GivesUp
<1>2. CASE CallTurn \/ TextTurn
  BY <1>2, OrdinaryKinds, OrdinaryLists DEF CallTurn, TextTurn, Then, Ordinary
<1>3. CASE Answer
  BY <1>3, OrdinaryLists DEF Answer, Then, Ordinary, Stops, Stop, Completes, ProseIsReport
<1> QED
  BY <1>1, <1>2, <1>3

LEMMA CallWays ==
  ASSUME PrepareCall \/ Prepared \/ ToolReturns \/ Collected \/ SearchEvidence
  PROVE  Ordinary \/ Stops
<1> DEFINE Kinds == EventKind \ Terminal
<1>1. {"ToolScheduled", "ToolStarted", "ToolFailed", "ToolCompleted", "EvidenceAdded"} \subseteq Kinds
  BY DEF EventKind, CallEvent, Terminal
<1>2. \A k \in Kinds : \A i : OrdinaryWrite(RecordCall(k, i))
  BY OrdinaryKinds
<1> HIDE DEF Kinds
<1>3. CASE PrepareCall
  <2>1. \/ Stops
        \/ /\ pc' = "prepare" /\ UNCHANGED result
           /\ \E i : \/ todo' = <<RecordCall("ToolFailed", i)>>
                     \/ todo' = <<RecordCall("ToolScheduled", i), Begin(CallSlot(i)),
                                  RecordCall("ToolStarted", i)>>
    BY <1>3 DEF PrepareCall, Then, Opened, Stops, Stop
  <2> QED
    BY <1>1, <1>2, <2>1, OrdinaryKinds, OrdinaryLists DEF Ordinary
<1>4. CASE ToolReturns
  <2>1. PICK i :
          \/ Stops
          \/ /\ pc' = "collect" /\ UNCHANGED result
             /\ \/ todo' = <<Complete(CallSlot(i), "succeeded", "ok"), RecordCall("ToolCompleted", i), Keep(i)>>
                \/ todo' = <<Complete(CallSlot(i), "succeeded", "ok"), RecordCall("ToolCompleted", i),
                             RecordCall("EvidenceAdded", i), Keep(i)>>
                \/ todo' = <<Complete(CallSlot(i), "failed", "error"), RecordCall("ToolFailed", i)>>
    BY <1>4 DEF ToolReturns, Then, CallFailed, Stops, Stop
  <2> DEFINE a == Complete(CallSlot(i), "succeeded", "ok")
             f == Complete(CallSlot(i), "failed", "error")
             b == RecordCall("ToolCompleted", i)
             e == RecordCall("EvidenceAdded", i)
             g == RecordCall("ToolFailed", i)
             k == Keep(i)
  <2>2. /\ OrdinaryWrite(a) /\ OrdinaryWrite(f) /\ OrdinaryWrite(b)
        /\ OrdinaryWrite(e) /\ OrdinaryWrite(g) /\ OrdinaryWrite(k)
    BY <1>1, <1>2, OrdinaryKinds
  <2>3. \/ Stops
        \/ /\ pc' = "collect" /\ UNCHANGED result
           /\ todo' = <<a, b, k>> \/ todo' = <<a, b, e, k>> \/ todo' = <<f, g>>
    BY <2>1
  <2> HIDE DEF a, f, b, e, g, k
  <2> QED
    BY <2>2, <2>3, OrdinaryLists DEF Ordinary
<1>5. CASE SearchEvidence
  <2>1. PICK i : /\ pc' = "serve" /\ UNCHANGED result
                 /\ todo' = <<Complete(CallSlot(i), "succeeded", "ok"), RecordCall("ToolCompleted", i)>>
    BY <1>5 DEF SearchEvidence, Then
  <2> QED
    BY <1>1, <1>2, <2>1, OrdinaryKinds, OrdinaryLists DEF Ordinary
<1>6. CASE Prepared \/ Collected
  BY <1>6, OrdinaryLists DEF Prepared, Collected, Then, Ordinary
<1> QED
  BY <1>3, <1>4, <1>5, <1>6

LEMMA RefusalWays ==
  ASSUME UNCHANGED result, NEW i, NEW d,
         \/ Refuse(i, d, <<>>) \/ Refuse(i, d, <<Record("VerificationFinding")>>)
         \/ \E findings \in {<<>>, <<Record("VerificationFinding")>>} :
              Refuse(i, d, <<Complete(VerifySlot, "succeeded", "refused")>> \o findings)
  PROVE  Ordinary
<1> DEFINE a == Complete(CallSlot(i), "failed", "refused")
           b == RecordCall("ToolFailed", i)
           v == Complete(VerifySlot, "succeeded", "refused")
           f == Record("VerificationFinding")
<1>1. OrdinaryWrite(a) /\ OrdinaryWrite(b) /\ OrdinaryWrite(v) /\ OrdinaryWrite(f)
  <2>1. {"ToolFailed", "VerificationFinding"} \subseteq EventKind \ Terminal
    BY DEF EventKind, CallEvent, Terminal
  <2> QED
    BY <2>1, OrdinaryKinds
<1>2. pc' = "serve"
      /\ \/ todo' = <<>> \o <<a, b>> \/ todo' = <<f>> \o <<a, b>>
         \/ todo' = (<<v>> \o <<>>) \o <<a, b>> \/ todo' = (<<v>> \o <<f>>) \o <<a, b>>
  BY DEF Refuse, Then
<1> HIDE DEF a, b, v, f
<1>3. /\ <<>> \o <<a, b>> = <<a, b>> /\ <<f>> \o <<a, b>> = <<f, a, b>>
      /\ (<<v>> \o <<>>) \o <<a, b>> = <<v, a, b>> /\ (<<v>> \o <<f>>) \o <<a, b>> = <<v, f, a, b>>
  BY Refusals
<1>4. OrdinaryWrites'
  BY <1>1, <1>2, <1>3, OrdinaryLists
<1> QED
  BY <1>2, <1>4 DEF Ordinary

LEMMA ReportWays ==
  ASSUME SubmitReport \/ VerifierAnswers
  PROVE  Ordinary \/ ClosesLast
<1>1. UNCHANGED result
  BY DEF SubmitReport, VerifierAnswers
<1>2. {"ToolCompleted", "VerificationStarted"} \subseteq EventKind \ Terminal
  BY DEF EventKind, CallEvent, Terminal
<1>3. CASE SubmitReport
  <2>1. PICK i, d :
          \/ Refuse(i, d, <<>>)
          \/ Refuse(i, d, <<Record("VerificationFinding")>>)
          \/ pc' = "verify" /\ todo' = <<Record("VerificationStarted"), Begin(VerifySlot)>>
    BY <1>3 DEF SubmitReport, Then
  <2> QED
    BY <1>1, <1>2, <2>1, RefusalWays, OrdinaryKinds, OrdinaryLists DEF Ordinary
<1>4. CASE VerifierAnswers
  <2>1. PICK i :
          \/ pc' = "publish" /\ todo' = <<Complete(VerifySlot, "succeeded", "passed"),
                                          Complete(CallSlot(i), "succeeded", "published"),
                                          RecordCall("ToolCompleted", i)>>
          \/ \E findings \in {<<>>, <<Record("VerificationFinding")>>} :
               Refuse(i, batch.draft, <<Complete(VerifySlot, "succeeded", "refused")>> \o findings)
          \/ CloseFailed(VerifySlot, "Failed")
    BY <1>4 DEF VerifierAnswers, Then
  <2>2. CASE pc' = "publish" /\ todo' = <<Complete(VerifySlot, "succeeded", "passed"),
                                          Complete(CallSlot(i), "succeeded", "published"),
                                          RecordCall("ToolCompleted", i)>>
    BY <1>1, <1>2, <2>2, OrdinaryKinds, OrdinaryLists DEF Ordinary
  <2>3. CASE \E findings \in {<<>>, <<Record("VerificationFinding")>>} :
               Refuse(i, batch.draft, <<Complete(VerifySlot, "succeeded", "refused")>> \o findings)
    BY <1>1, <2>3, RefusalWays
  <2>4. CASE CloseFailed(VerifySlot, "Failed")
    <3>1. At("verify") /\ VerifySlot \in Slot /\ "Failed" \in Stop
      BY <1>4, FixedSlots DEF VerifierAnswers, Stop
    <3> QED
      BY <1>1, <2>4, <3>1 DEF ClosesLast
  <2> QED
    BY <2>1, <2>2, <2>3, <2>4
<1> QED
  BY <1>3, <1>4

LEMMA DecisionWays ==
  ASSUME Decide
  PROVE  \/ /\ Ordinary \/ Stops \/ ClosesLast \/ GivesUp \/ Leaves
            /\ pc \notin {"finish", "stopping", "ended"}
         \/ Completes /\ (At("publish") \/ (At("answer") /\ ~VerifyReports))
         \/ Finish
<1>1. pc \notin {"finish", "stopping", "ended"} \/ Finish
  BY DEF Decide, CreateTask, Plan, SelectModel, StartRound, Connect, AwaitChunk, ChunkArrives, StreamFails,
         EmptyTurn, CallTurn, TextTurn, Answer, PrepareCall, Prepared, ToolReturns, Collected, SearchEvidence,
         SubmitReport, VerifierAnswers, Publish, ServeCancelled, BatchEnds, At
<1>2. CASE Publish
  BY <1>2 DEF Publish, Then, Completes
<1>3. CASE ServeCancelled \/ BatchEnds
  BY <1>1, <1>3, OrdinaryLists DEF ServeCancelled, BatchEnds, Then, Ordinary, Stops, Stop, Finish, At
<1>4. CASE Answer
  BY <1>1, <1>4, TurnWays DEF Answer, GivesUp, EmptyTurn, Finish, At
<1>5. CASE ~Publish /\ ~ServeCancelled /\ ~BatchEnds /\ ~Answer
  BY <1>1, <1>5, RequestWays, TurnWays, CallWays, ReportWays DEF Decide
<1> QED
  BY <1>2, <1>3, <1>4, <1>5

LEMMA RaisedShapes ==
  ASSUME NEW class \in Stop, Raise(class), Shapes, UNCHANGED round
  PROVE  Shapes'
<1>1. CASE pc = "stopping"
  BY <1>1 DEF Raise, Shapes, ReturnsLast, Records
<1>2. CASE pc # "stopping"
  <2>1. pc' = "stopping" /\ todo' = <<Record(class)>> /\ result' = class
    BY <1>2 DEF Raise
  <2>2. Record(class)' = Record(class) /\ Record(class).op = "record"
    BY DEF Record, Event
  <2>3. \A n \in 1..Len(todo') : todo'[n] = Record(class)
    BY <2>1
  <2>4. result' \in Stop /\ todo' = <<Record(result)>>'
    BY <2>1, <2>2 DEF Record
  <2> QED
    BY <2>1, <2>2, <2>3, <2>4 DEF Shapes, ReturnsLast
<1> QED
  BY <1>1, <1>2

\* How a write leaves the course of the task.
LEMMA PerformEnds ==
  ASSUME WorkInv, Perform
  PROVE  /\ todo # <<>> /\ UNCHANGED <<round, batch>>
         /\ \/ \E class \in Stop : Raise(class)
            \/ Advance
            \/ UNCHANGED <<pc, todo, phase, result, faults>> /\ stage' # "append"
<1>1. todo # <<>> /\ UNCHANGED <<round, batch>>
  BY PerformShape
<1>2. "Failed" \in Stop /\ "Cancelled" \in Stop /\ (Fault \/ Refused => Raise("Failed"))
  BY DEF Stop, Fault, Refused
<1>3. CASE AppendEvent \/ PutCheckpoint
  BY <1>1, <1>2, <1>3 DEF AppendEvent, AfterAppend, PutCheckpoint
<1>4. CASE Send \/ BeginEffect \/ CompleteEffect \/ KeepCompleted
  BY <1>1, <1>2, <1>4 DEF Send, BeginEffect, CompleteEffect, KeepCompleted
<1>5. CASE ReturnError
  <2>1. Head(todo).class \in Stop
    BY <1>1, <1>5, TailWrites, WriteFields DEF ReturnError, Doing, WorkInv
  <2> QED
    BY <1>1, <1>5, <2>1 DEF ReturnError
<1> QED
  BY <1>3, <1>4, <1>5 DEF Perform

LEMMA PerformShapes ==
  ASSUME WorkInv, Shapes, Perform
  PROVE  Shapes'
<1>1. todo # <<>> /\ UNCHANGED <<round, batch>>
  BY PerformEnds
<1>2. CASE Advance
  <2>1. /\ Len(todo) \in Nat \ {0} /\ Len(todo') = Len(todo) - 1 /\ UNCHANGED <<pc, result>>
        /\ \A n \in 1..Len(todo') : todo'[n] = todo[n + 1] /\ n + 1 \in 1..Len(todo)
        /\ todo' = Tail(todo) /\ todo' \in Seq(Write)
    BY <1>1, <1>2, TailWrites DEF WorkInv, Advance
  <2>2. ReturnsLast'
    <3> SUFFICES ASSUME NEW n \in 1..Len(todo'), todo'[n].op = "return"
                 PROVE  n = Len(todo') /\ todo'[n].class \in Stop /\ \A m \in 1..Len(todo') : todo'[m].op # "begin"
      BY DEF ReturnsLast
    <3> DEFINE k == n + 1
    <3>1. todo[k].op = "return" /\ k \in 1..Len(todo) /\ todo'[n] = todo[k] /\ k - 1 = n
      BY <2>1
    <3> HIDE DEF k
    <3>2. \A j \in 1..Len(todo) : todo[j].op = "return" =>
            j = Len(todo) /\ todo[j].class \in Stop /\ \A m \in 1..Len(todo) : todo[m].op # "begin"
      BY DEF Shapes, ReturnsLast
    <3>3. k = Len(todo) /\ todo[k].class \in Stop /\ \A m \in 1..Len(todo) : todo[m].op # "begin"
      BY <3>1, <3>2
    <3>4. n = Len(todo') /\ todo'[n].class \in Stop
      BY <2>1, <3>1, <3>3
    <3>5. ASSUME NEW m \in 1..Len(todo') PROVE todo'[m].op # "begin"
      <4>1. todo'[m] = todo[m + 1] /\ m + 1 \in 1..Len(todo)
        BY <2>1
      <4> QED
        BY <3>3, <4>1
    <3> QED
      BY <3>4, <3>5
  <2>3. \A k : todo = <<Record(k)>> => todo' = <<>>
    BY <2>1
  <2>4. pc \notin {"stopping", "finish"} => \A n \in Records' : todo'[n].event.kind \notin Terminal
    BY <2>1 DEF Shapes, Records
  <2>5. pc \in {"stopping", "finish", "ended"} => todo' = <<>> /\ (pc = "stopping" => result \in Stop)
    BY <1>1, <2>3 DEF Shapes
  <2>6. pc \notin {"stopping", "ended"} => result = "running"
    BY DEF Shapes
  <2> QED
    BY <2>1, <2>2, <2>4, <2>5, <2>6 DEF Shapes
<1>3. CASE UNCHANGED <<pc, todo, phase, result, faults>>
  <2>1. Record(result)' = Record(result) /\ Record("Completed")' = Record("Completed")
    BY <1>1, <1>3 DEF Record, Event
  <2> QED
    BY <1>1, <1>3, <2>1 DEF Shapes, ReturnsLast, Records, Record, Event
<1> QED
  BY <1>1, <1>2, <1>3, PerformEnds, RaisedShapes

LEMMA DecideShapes ==
  ASSUME WorkInv, Shapes, Decide
  PROVE  Shapes'
<1>1. CASE Ordinary /\ pc \notin {"finish", "stopping", "ended"}
  BY <1>1 DEF Ordinary, OrdinaryWrites, OrdinaryWrite, Shapes, ReturnsLast, Records
<1>2. ASSUME NEW class \in Stop, Raise(class) PROVE Shapes'
  <2>1. UNCHANGED round
    BY <1>2 DEF Raise, Decide, CreateTask, Plan, SelectModel, StartRound, Connect, AwaitChunk, ChunkArrives,
                StreamFails, EmptyTurn, CallTurn, TextTurn, Answer, PrepareCall, Prepared, ToolReturns,
                Collected, SearchEvidence, SubmitReport, VerifierAnswers, Publish, ServeCancelled, BatchEnds,
                Finish, Then
  <2> QED
    BY <1>2, <2>1, RaisedShapes
<1>3. CASE ClosesLast /\ pc \notin {"finish", "stopping", "ended"}
  <2>1. PICK s \in Slot, class \in Stop :
          todo' = <<Complete(s, "failed", "error"), Return(class)>> /\ UNCHANGED <<pc, result>>
    BY <1>3 DEF ClosesLast, CloseFailed, Then
  <2>2. /\ Complete(s, "failed", "error").op = "complete"
        /\ Return(class).op = "return" /\ Return(class).class = class
    BY DEF Complete, Return
  <2>3. /\ 1..Len(todo') = {1, 2} /\ Len(todo') = 2
        /\ todo'[1] = Complete(s, "failed", "error") /\ todo'[2] = Return(class)
    BY <2>1
  <2> QED
    BY <1>3, <2>1, <2>2, <2>3 DEF Shapes, ReturnsLast, Records
<1>4. CASE GivesUp /\ pc \notin {"finish", "stopping", "ended"}
  <2> DEFINE a == Complete(StreamSlot, "failed", "empty")
             b == Record("ModelTurnEmpty")
             c == Return("Failed")
  <2>1. todo' = <<a, b, c>> /\ pc' = "connect" /\ UNCHANGED result
    BY <1>4 DEF GivesUp, EmptyTurn, Then
  <2>2. /\ a.op = "complete" /\ b.op = "record" /\ b.event.kind \notin Terminal
        /\ c.op = "return" /\ c.class \in Stop
    BY DEF Complete, Record, Event, Return, Terminal, Stop
  <2> HIDE DEF a, b, c
  <2>3. 1..Len(todo') = {1, 2, 3} /\ todo'[1] = a /\ todo'[2] = b /\ todo'[3] = c /\ Len(todo') = 3
    BY <2>1
  <2> QED
    BY <1>4, <2>1, <2>2, <2>3 DEF Shapes, ReturnsLast, Records
<1>5. CASE Leaves \/ Finish
  <2>1. pc' = "ended" /\ todo' = <<>>
    BY <1>5 DEF Leaves, Finish, Then
  <2> QED
    BY <2>1 DEF Shapes, ReturnsLast, Records
<1>6. CASE Completes /\ (At("publish") \/ At("answer"))
  <2>1. UNCHANGED round
    BY <1>6 DEF Completes, Decide, CreateTask, Plan, SelectModel, StartRound, Connect, AwaitChunk, ChunkArrives,
                StreamFails, EmptyTurn, CallTurn, TextTurn, Answer, PrepareCall, Prepared, ToolReturns,
                Collected, SearchEvidence, SubmitReport, VerifierAnswers, Publish, ServeCancelled, BatchEnds,
                Finish, Then, At
  <2>2. Record("Completed")' = Record("Completed") /\ Record("Completed").op = "record"
    BY <2>1 DEF Record, Event
  <2>3. \A n \in 1..Len(todo') : todo'[n] = Record("Completed")
    BY <1>6 DEF Completes
  <2>4. result' = "running"
    BY <1>6 DEF Completes, At, Shapes
  <2> QED
    BY <1>6, <2>2, <2>3, <2>4 DEF Completes, Shapes, ReturnsLast, Record, Event
<1> QED
  BY <1>1, <1>2, <1>3, <1>4, <1>5, <1>6, DecisionWays DEF Stops

\* What the client's steps leave alone.
LEMMA ClientLeaves ==
  ASSUME Recv \/ Cancel \/ Close \/ Ended \/ UNCHANGED vars
  PROVE  /\ UNCHANGED <<log, checkpoint, effects, pc, todo, stage, seq, phase, round, turn, ledger, batch,
                        ids, completed, result, faults>>
         /\ open' => open
BY DEF Recv, Cancel, Close, Ended, vars, durable, memory, stream

LEMMA NextShapes ==
  ASSUME WorkInv, Shapes, [Next]_vars
  PROVE  Shapes'
<1>1. CASE Recv \/ Cancel \/ Close \/ Ended \/ UNCHANGED vars
  <2>1. UNCHANGED <<pc, todo, result, round>>
    BY <1>1, ClientLeaves
  <2> QED
    BY <2>1 DEF Shapes, ReturnsLast, Records, Record, Event
<1> QED
  BY <1>1, PerformShapes, DecideShapes DEF Next, Runtime

-----------------------------------------------------------------------------
(***************************************************************************)
(* The stored outcome.  The terminal event is the only write left of a     *)
(* task that ends, and its checkpoint is put under the terminal phase; a   *)
(* task that was completed is stopped once more only by a client that has  *)
(* dropped its end.                                                        *)
(***************************************************************************)
Stored(k) ==
  Len(log) >= 1 /\ log[Len(log)].kind = k /\ checkpoint.phase = k /\ checkpoint.acceptedSeq = Len(log)
Outcome == IF pc = "finish" \/ result = "ok" THEN "Completed" ELSE result

EndStored ==
  faults = 0 =>
    /\ pc \in {"finish", "stopping"} =>
         /\ phase = Outcome
         /\ todo = <<>> => Stored(Outcome)
         /\ stage = "send" => checkpoint.phase = phase
    /\ pc = "ended" => result = "rejected" \/ Stored(Outcome)

NoneAfter ==
  faults = 0 /\ open =>
    /\ \A n \in 1..(Len(log) - 1) : log[n].kind \notin Terminal
    /\ Len(log) >= 1 /\ log[Len(log)].kind \in Terminal =>
         pc = "ended" \/ (pc \in {"finish", "stopping"} /\ (todo = <<>> \/ stage # "append"))

Numbered == WorkInv /\ DInv /\ OutcomeInv /\ Fresh /\ InStep /\ Shapes

LEMMA InitEnds == Init => EndStored /\ NoneAfter
<1> SUFFICES ASSUME Init PROVE EndStored /\ NoneAfter
  OBVIOUS
<1>1. pc = "create" /\ log = <<>> /\ Len(log) = 0
  BY DEF Init
<1> QED
  BY <1>1 DEF EndStored, NoneAfter

\* As long as the store works, a write goes well, or a client that has dropped
\* its end stops the task, or the task returns its error.
LEMMA FaultlessWrites ==
  ASSUME Numbered, Perform, faults' = 0
  PROVE  /\ faults = 0
         /\ \/ Advance
            \/ /\ UNCHANGED <<pc, todo, phase, result>>
               /\ \/ AppendEvent /\ stage = "append" /\ stage' = "checkpoint"
                  \/ PutCheckpoint /\ stage' = "send" /\ checkpoint'.phase = phase
            \/ Send /\ stage = "send" /\ ~open /\ Raise("Cancelled")
            \/ ReturnError
<1>1. faults \in Nat /\ ~Fault
  BY DEF Numbered, InStep, Fault
<1>2. faults = 0
  BY <1>1 DEF Perform, AppendEvent, PutCheckpoint, Send, BeginEffect, CompleteEffect, KeepCompleted,
              ReturnError, Advance, Refused
<1>3. seq \in Nat /\ seq = Len(log)
  BY <1>2 DEF Numbered, InStep, DInv, NumbersAreNatural
<1>4. CASE AppendEvent
  BY <1>1, <1>2, <1>3, <1>4 DEF AppendEvent, NextInLog, AfterAppend
<1>5. CASE PutCheckpoint
  <2>1. /\ checkpoint' = [phase |-> phase, acceptedSeq |-> seq, round |-> round, tools |-> completed]
        /\ stage' = "send" /\ UNCHANGED <<pc, todo, phase, result>>
    BY <1>1, <1>5 DEF PutCheckpoint
  <2> QED
    BY <1>2, <1>5, <2>1
<1>6. CASE Send
  BY <1>2, <1>6 DEF Send
<1>7. CASE BeginEffect
  <2>1. Key(Head(todo).slot)[1] = seq /\ Doing("begin")
    BY <1>7 DEF Key, BeginEffect
  <2>2. Key(Head(todo).slot) \notin DOMAIN effects
    BY <1>3, <2>1 DEF Numbered, Fresh
  <2> QED
    BY <1>1, <1>2, <1>7, <2>2 DEF BeginEffect
<1>8. CASE CompleteEffect \/ KeepCompleted \/ ReturnError
  BY <1>1, <1>2, <1>8 DEF CompleteEffect, KeepCompleted
<1> QED
  BY <1>4, <1>5, <1>6, <1>7, <1>8 DEF Perform

\* The write left of a task that ends is the record of its outcome.
LEMMA LastWrite ==
  ASSUME Shapes, pc \in {"finish", "stopping"}, todo # <<>>, EndStored, faults = 0
  PROVE  /\ todo = <<Record(Outcome)>> /\ Head(todo) = Record(Outcome) /\ Tail(todo) = <<>>
         /\ Head(todo).op = "record" /\ Head(todo).event.kind = Outcome /\ phase = Outcome
<1>1. todo = <<Record(Outcome)>>
  BY DEF Shapes, Outcome, Stop
<1>2. Record(Outcome).op = "record" /\ Record(Outcome).event.kind = Outcome
  BY DEF Record, Event
<1>3. Head(todo) = Record(Outcome) /\ Tail(todo) = <<>>
  BY <1>1
<1> QED
  BY <1>1, <1>2, <1>3 DEF EndStored

LEMMA SendEnds ==
  ASSUME Numbered, EndStored, faults = 0, pc \in {"finish", "stopping"}, Send
  PROVE  Stored(Outcome) /\ UNCHANGED <<log, checkpoint>>
<1>1. todo # <<>> /\ stage = "send" /\ UNCHANGED <<log, checkpoint>>
  BY DEF Send, Doing, durable
<1>2. Head(todo).event.kind = Outcome /\ phase = Outcome
  BY <1>1, LastWrite DEF Numbered
<1>3. seq \in 1..Len(log) /\ seq = Len(log) /\ log[seq] = Head(todo).event /\ checkpoint.acceptedSeq = seq
  BY <1>1 DEF Numbered, OutcomeInv, HeadLogged, DInv, StagesEstablish
<1>4. checkpoint.phase = Outcome
  BY <1>1, <1>2 DEF EndStored
<1> QED
  BY <1>1, <1>2, <1>3, <1>4 DEF Stored

LEMMA RaisedEnds ==
  ASSUME NEW class \in Stop, Raise(class), pc # "stopping"
  PROVE  EndStored' /\ pc' = "stopping"
<1>1. pc' = "stopping" /\ todo' = <<Record(class)>> /\ phase' = class /\ result' = class /\ stage' = "append"
  BY DEF Raise
<1>2. todo' # <<>> /\ Outcome' = class
  BY <1>1 DEF Outcome, Stop
<1> QED
  BY <1>1, <1>2 DEF EndStored

LEMMA PerformEndStored ==
  ASSUME Numbered, EndStored, Perform
  PROVE  EndStored'
<1> SUFFICES ASSUME faults' = 0 PROVE EndStored'
  BY DEF EndStored
<1>1. todo # <<>> /\ faults = 0
  BY PerformEnds, FaultlessWrites DEF Numbered
<1>2. pc # "ended"
  BY <1>1 DEF Numbered, Shapes
<1>3. CASE Advance
  <2>1. UNCHANGED <<pc, phase, result>> /\ todo' = Tail(todo) /\ stage' = "append" /\ Outcome' = Outcome
    BY <1>3 DEF Advance, Outcome
  <2>2. CASE pc \in {"finish", "stopping"}
    <3>1. Send
      <4>1. AppendEvent \/ PutCheckpoint \/ Send
        BY <1>1, <2>2, LastWrite DEF Numbered, Perform, BeginEffect, CompleteEffect, KeepCompleted,
                                     ReturnError, Doing
      <4> QED
        BY <1>3, <4>1, AdvanceOrRaise DEF AppendEvent, PutCheckpoint, Advance, AfterAppend
    <3>2. Stored(Outcome)' /\ phase = Outcome
      BY <1>1, <2>1, <2>2, <3>1, SendEnds DEF Stored, EndStored
    <3> QED
      BY <1>2, <2>1, <2>2, <3>2 DEF EndStored
  <2> QED
    BY <1>2, <2>1, <2>2 DEF EndStored
<1>4. CASE /\ UNCHANGED <<pc, todo, phase, result>>
           /\ \/ AppendEvent /\ stage = "append" /\ stage' = "checkpoint"
              \/ PutCheckpoint /\ stage' = "send" /\ checkpoint'.phase = phase
  <2>1. Outcome' = Outcome
    BY <1>4 DEF Outcome
  <2> QED
    BY <1>1, <1>2, <1>4, <2>1 DEF EndStored
<1>5. CASE Send /\ stage = "send" /\ ~open /\ Raise("Cancelled")
  <2>1. CASE pc # "stopping"
    BY <1>5, <2>1, RaisedEnds DEF Stop
  <2>2. CASE pc = "stopping"
    <3>1. pc' = "ended" /\ UNCHANGED result /\ result # "ok"
      BY <1>5, <2>2 DEF Raise, Numbered, Shapes, Stop
    <3>2. Outcome' = Outcome
      BY <2>2, <3>1 DEF Outcome
    <3>3. Stored(Outcome)'
      BY <1>1, <1>5, <2>2, <3>2, SendEnds DEF Stored
    <3> QED
      BY <3>1, <3>3 DEF EndStored
  <2> QED
    BY <2>1, <2>2
<1>6. CASE ReturnError
  <2>1. pc \notin {"finish", "stopping"}
    BY <1>1, <1>6, LastWrite DEF Numbered, ReturnError, Doing
  <2>2. Head(todo).class \in Stop /\ Raise(Head(todo).class)
    BY <1>1, <1>6, TailWrites, WriteFields DEF ReturnError, Doing, Numbered, WorkInv
  <2> QED
    BY <2>1, <2>2, RaisedEnds
<1> QED
  BY <1>3, <1>4, <1>5, <1>6, FaultlessWrites

LEMMA DecideEndStored ==
  ASSUME Numbered, EndStored, Decide
  PROVE  EndStored'
<1>1. todo = <<>> /\ stage = "append" /\ stage' = "append" /\ UNCHANGED <<log, checkpoint, faults>>
  <2>1. todo = <<>> /\ stage = "append"
    BY DecideAt DEF Numbered, WorkInv, Typed, TypeOK
  <2> QED
    BY <2>1, Decisions DEF Elsewhere, Decide
<1>2. CASE Ordinary
  BY <1>2 DEF Ordinary, EndStored
<1>3. CASE ClosesLast /\ pc \notin {"finish", "stopping", "ended"}
  BY <1>3 DEF ClosesLast, CloseFailed, Then, EndStored
<1>4. CASE GivesUp
  BY <1>4 DEF GivesUp, EmptyTurn, Then, EndStored
<1>5. CASE Leaves
  BY <1>5 DEF Leaves, EndStored
<1>6. CASE Stops /\ pc \notin {"finish", "stopping", "ended"}
  BY <1>6, RaisedEnds DEF Stops
<1>7. CASE Completes
  <2>1. todo' # <<>> /\ Outcome' = "Completed"
    BY <1>7 DEF Completes, Outcome
  <2> QED
    BY <1>1, <1>7, <2>1 DEF Completes, EndStored
<1>8. CASE Finish
  <2>1. pc' = "ended" /\ pc \in {"finish", "stopping"} /\ result' = IF pc = "finish" THEN "ok" ELSE result
    BY <1>8 DEF Finish, Then, At
  <2>2. Outcome' = Outcome
    BY <2>1 DEF Outcome
  <2> QED
    BY <1>1, <2>1, <2>2 DEF EndStored, Stored
<1> QED
  BY <1>2, <1>3, <1>4, <1>5, <1>6, <1>7, <1>8, DecisionWays

LEMMA PerformNoneAfter ==
  ASSUME Numbered, EndStored, NoneAfter, Perform
  PROVE  NoneAfter'
<1> SUFFICES ASSUME faults' = 0, open' PROVE NoneAfter'
  BY DEF NoneAfter
<1>1. todo # <<>> /\ faults = 0 /\ pc # "ended"
  BY PerformEnds, FaultlessWrites DEF Numbered, Shapes
<1>2. open
  BY DEF Perform, AppendEvent, PutCheckpoint, Send, BeginEffect, CompleteEffect, KeepCompleted,
         ReturnError, stream
<1>3. /\ \A n \in 1..(Len(log) - 1) : log[n].kind \notin Terminal
      /\ Len(log) >= 1 /\ log[Len(log)].kind \in Terminal => pc \in {"finish", "stopping"} /\ stage # "append"
  BY <1>1, <1>2 DEF NoneAfter
<1>4. Len(log) \in Nat
  BY LogRows DEF Numbered, WorkInv
<1>5. CASE Advance
  <2>1. UNCHANGED pc /\ todo' = Tail(todo)
    BY <1>5 DEF Advance
  <2>2. pc \in {"finish", "stopping"} => todo' = <<>>
    BY <1>1, <2>1, LastWrite DEF Numbered
  <2>3. UNCHANGED log
    BY <1>5, PerformShape, AdvanceOrRaise DEF Numbered, Advance
  <2> QED
    BY <1>3, <2>1, <2>2, <2>3 DEF NoneAfter
<1>6. CASE PutCheckpoint /\ UNCHANGED <<pc, todo, phase, result>> /\ stage' = "send"
  <2>1. UNCHANGED log
    BY <1>6 DEF PutCheckpoint
  <2> QED
    BY <1>3, <1>6, <2>1 DEF NoneAfter
<1>7. CASE AppendEvent /\ UNCHANGED <<pc, todo, phase, result>> /\ stage = "append" /\ stage' = "checkpoint"
  <2> DEFINE e == Head(todo).event
  <2>1. 1 \in Records /\ todo[1].event = e
    BY <1>1, <1>7, HeadRecord DEF AppendEvent, Doing, Numbered, WorkInv
  <2>2. e.kind \in Terminal => pc \in {"finish", "stopping"}
    BY <2>1 DEF Numbered, Shapes
  <2>3. UNCHANGED log \/ log' = Append(log, e)
    BY <1>7 DEF AppendEvent
  <2> HIDE DEF e
  <2>4. \A n \in 1..Len(log) : log[n].kind \notin Terminal
    BY <1>3, <1>4, <1>7
  <2>5. CASE UNCHANGED log
    BY <1>3, <1>7, <2>5 DEF NoneAfter
  <2>6. CASE log' = Append(log, e)
    <3>1. /\ Len(log') = Len(log) + 1 /\ log'[Len(log) + 1] = e
          /\ \A n \in 1..Len(log) : log'[n] = log[n]
      BY <2>6, AppendedRows DEF Numbered, WorkInv
    <3>2. \A n \in 1..(Len(log') - 1) : log'[n].kind \notin Terminal
      BY <1>4, <2>4, <3>1
    <3> QED
      BY <1>7, <2>2, <3>1, <3>2 DEF NoneAfter
  <2> QED
    BY <2>3, <2>5, <2>6
<1>8. CASE ReturnError
  <2>1. pc \notin {"finish", "stopping"} /\ UNCHANGED log
    BY <1>1, <1>8, LastWrite DEF Numbered, ReturnError, Doing, durable
  <2> QED
    BY <1>3, <2>1 DEF NoneAfter
<1> QED
  BY <1>2, <1>5, <1>6, <1>7, <1>8, FaultlessWrites

LEMMA DecideNoneAfter ==
  ASSUME Numbered, NoneAfter, Decide
  PROVE  NoneAfter'
<1>1. UNCHANGED <<log, faults, open>> /\ stage = "append"
  <2>1. todo = <<>> /\ stage = "append"
    BY DecideAt DEF Numbered, WorkInv, Typed, TypeOK
  <2> QED
    BY <2>1 DEF Decide, durable, stream
<1>2. pc # "ended" /\ (pc \in {"finish", "stopping"} => pc' = "ended")
  BY DecisionWays DEF Finish, Then, At
<1> QED
  BY <1>1, <1>2 DEF NoneAfter

LEMMA NextEnds ==
  ASSUME Numbered, EndStored, NoneAfter, [Next]_vars
  PROVE  EndStored' /\ NoneAfter'
<1>1. CASE Recv \/ Cancel \/ Close \/ Ended \/ UNCHANGED vars
  <2>1. /\ UNCHANGED <<log, checkpoint, pc, todo, stage, phase, result, faults>>
        /\ open' => open
    BY <1>1, ClientLeaves
  <2>2. EndStored'
    BY <2>1 DEF EndStored, Outcome, Stored
  <2>3. NoneAfter'
    BY <2>1 DEF NoneAfter
  <2> QED
    BY <2>2, <2>3
<1> QED
  BY <1>1, PerformEndStored, DecideEndStored, PerformNoneAfter, DecideNoneAfter DEF Next, Runtime

LEMMA EndsStored == EndStored /\ NoneAfter => OutcomeIsStored
<1> SUFFICES ASSUME EndStored, NoneAfter PROVE OutcomeIsStored
  OBVIOUS
<1>1. ASSUME faults = 0, pc = "ended", result # "rejected"
      PROVE  Stored(IF result = "ok" THEN "Completed" ELSE result)
  BY <1>1 DEF EndStored, Outcome
<1> QED
  BY <1>1 DEF NoneAfter, Stored, OutcomeIsStored

LEMMA NextNumbered ==
  ASSUME Numbered, [Next]_vars
  PROVE  Numbered'
BY NextWork, NextDInv, NextOutcome, NextFresh, NextShapes DEF Numbered

LEMMA InitNumbered == Init => Numbered
BY InitWork, InitDInv, InitOutcome, InitFresh, InitShapes DEF Numbered

-----------------------------------------------------------------------------
(***************************************************************************)
(* What a publication rests on.  A pending effect has no value yet, so     *)
(* that closing it takes away none; the verdict and the publication are    *)
(* stored before the terminal event is recorded (Granted), both for the    *)
(* first call that is still open.                                          *)
(***************************************************************************)
PendingNone == \A k \in DOMAIN effects : effects[k].status = "pending" => effects[k].value = "none"

ValueIn(table, s, r, v) ==
  \E k \in DOMAIN table : table[k].slot = s /\ table[k].round = r /\ table[k].value = v
PassedIn(table) ==
  \E r, s : s[1] = "submit_report" /\ ValueIn(table, VerifySlot, r, "passed") /\ ValueIn(table, s, r, "published")
Granted(s, v) ==
  ValueIn(effects, s, round, v) \/ \E n \in 1..Len(todo) : todo[n] = Complete(s, "succeeded", v)

Published ==
  /\ pc = "verify" => \E i \in batch.open : IsServed(i) /\ batch.calls[i] = "submit_report"
  /\ pc = "publish" => \E i \in batch.open : /\ IsServed(i) /\ batch.calls[i] = "submit_report"
                                             /\ Granted(VerifySlot, "passed")
                                             /\ Granted(CallSlot(i), "published")
  /\ pc = "finish" => \/ batch.open = {}
                      \/ \E i \in batch.open : IsServed(i) /\ ValueIn(effects, CallSlot(i), round, "published")
  /\ VerifyReports /\ (pc = "finish" \/ \E n \in 1..Len(log) : log[n].kind = "Completed") => PassedIn(effects)

LEMMA InitPublished == Init => PendingNone /\ Published
<1> SUFFICES ASSUME Init PROVE PendingNone /\ Published
  OBVIOUS
<1>1. pc = "create" /\ log = <<>> /\ Len(log) = 0 /\ DOMAIN effects = {}
  BY DEF Init
<1> QED
  BY <1>1 DEF PendingNone, Published

\* How the effect table changes.
OpenedRow(key, row) ==
  /\ key \notin DOMAIN effects
  /\ row.slot = Head(todo).slot /\ row.round = round /\ row.status = "pending" /\ row.value = "none"
  /\ effects' = [l \in DOMAIN effects \cup {key} |-> IF l = key THEN row ELSE effects[l]]
ClosedIn(key, row) ==
  /\ Head(todo).slot \in DOMAIN ids /\ key = ids[Head(todo).slot] /\ key \in DOMAIN effects
  /\ effects[key].status = "pending" /\ effects[key].slot = Head(todo).slot /\ effects[key].round = round
  /\ row.slot = Head(todo).slot /\ row.round = round
  /\ row.status = Head(todo).status /\ row.status \in {"succeeded", "failed"} /\ row.value = Head(todo).value
  /\ effects' = [effects EXCEPT ![key] = row]

LEMMA EffectSteps ==
  ASSUME WorkInv, [Next]_vars
  PROVE  \/ UNCHANGED effects
         \/ BeginEffect /\ \E row : OpenedRow(Key(Head(todo).slot), row)
         \/ CompleteEffect /\ \E row : ClosedIn(ids[Head(todo).slot], row)
<1>1. CASE BeginEffect
  <2> DEFINE row == [slot |-> Head(todo).slot, round |-> round, status |-> "pending", value |-> "none"]
             key == Key(Head(todo).slot)
  <2>1. \/ /\ key \notin DOMAIN effects
           /\ effects' = [l \in DOMAIN effects \cup {key} |-> IF l = key THEN row ELSE effects[l]]
        \/ UNCHANGED effects
    BY <1>1 DEF BeginEffect
  <2>2. row.slot = Head(todo).slot /\ row.round = round /\ row.status = "pending" /\ row.value = "none"
    OBVIOUS
  <2> HIDE DEF row, key
  <2>3. OpenedRow(key, row) \/ UNCHANGED effects
    BY <2>1, <2>2 DEF OpenedRow
  <2> QED
    BY <1>1, <2>3 DEF key
<1>2. CASE CompleteEffect
  <2> DEFINE w == Head(todo)
             key == ids[w.slot]
             row == [effects[key] EXCEPT !.status = w.status, !.value = w.value]
  <2>1. effects' = [effects EXCEPT ![key] = row] \/ UNCHANGED effects
    BY <1>2 DEF CompleteEffect
  <2>2. w.slot \in DOMAIN ids /\ key \in DOMAIN effects /\ effects[key] \in EffectRow
    <3>1. Typed'
      BY <1>2, CompleteEffectTyped DEF WorkInv
    <3> QED
      BY <1>2, <3>1, CompleteWork DEF WorkInv, Typed, TypeOK
  <2>3. effects[key].slot = w.slot /\ effects[key].round = round /\ effects[key].status = "pending"
    BY <2>2 DEF WorkInv, Held
  <2>4. row.slot = w.slot /\ row.round = round /\ row.status = w.status /\ row.value = w.value
    BY <2>2, <2>3 DEF EffectRow
  <2>5. w.status \in {"succeeded", "failed"}
    BY <1>2, TailWrites, WriteFields DEF WorkInv, CompleteEffect, Doing
  <2> HIDE DEF w, key, row
  <2>6. ClosedIn(key, row) \/ UNCHANGED effects
    BY <2>1, <2>2, <2>3, <2>4, <2>5 DEF ClosedIn, w, key
  <2> QED
    BY <1>2, <2>6 DEF w, key
<1>3. CASE ~BeginEffect /\ ~CompleteEffect
  BY <1>3 DEF Next, Runtime, Perform, AppendEvent, PutCheckpoint, Send, KeepCompleted, ReturnError,
              Decide, Recv, Cancel, Close, Ended, vars, durable
<1> QED
  BY <1>1, <1>2, <1>3

LEMMA PendingStays ==
  ASSUME WorkInv, PendingNone, [Next]_vars
  PROVE  PendingNone'
<1>1. CASE UNCHANGED effects
  BY <1>1 DEF PendingNone
<1>2. ASSUME NEW key, NEW row, OpenedRow(key, row) PROVE PendingNone'
  BY <1>2 DEF OpenedRow, PendingNone
<1>3. ASSUME NEW key, NEW row, ClosedIn(key, row) PROVE PendingNone'
  BY <1>3 DEF ClosedIn, PendingNone
<1> QED
  BY <1>1, <1>2, <1>3, EffectSteps

\* A stored value stays.
LEMMA ValueStays ==
  ASSUME WorkInv, PendingNone, [Next]_vars, NEW s, NEW r, NEW v, v # "none", ValueIn(effects, s, r, v)
  PROVE  ValueIn(effects', s, r, v)
<1>1. PICK k \in DOMAIN effects : effects[k].slot = s /\ effects[k].round = r /\ effects[k].value = v
  BY DEF ValueIn
<1>2. effects[k].status # "pending"
  BY <1>1 DEF PendingNone
<1>3. k \in DOMAIN effects' /\ effects'[k] = effects[k]
  <2>1. ASSUME NEW key, NEW row, OpenedRow(key, row) PROVE k \in DOMAIN effects' /\ effects'[k] = effects[k]
    BY <2>1 DEF OpenedRow
  <2>2. ASSUME NEW key, NEW row, ClosedIn(key, row) PROVE k \in DOMAIN effects' /\ effects'[k] = effects[k]
    BY <1>2, <2>2 DEF ClosedIn
  <2> QED
    BY <2>1, <2>2, EffectSteps
<1> QED
  BY <1>1, <1>3 DEF ValueIn

LEMMA PassedStays ==
  ASSUME WorkInv, PendingNone, [Next]_vars, PassedIn(effects)
  PROVE  PassedIn(effects')
<1>1. PICK r, s : /\ s[1] = "submit_report" /\ ValueIn(effects, VerifySlot, r, "passed")
                  /\ ValueIn(effects, s, r, "published")
  BY DEF PassedIn
<1>2. ValueIn(effects', VerifySlot, r, "passed") /\ ValueIn(effects', s, r, "published")
  BY <1>1, ValueStays
<1> QED
  BY <1>1, <1>2 DEF PassedIn

LEMMA GrantedStays ==
  ASSUME WorkInv, PendingNone, Perform, UNCHANGED pc, pc # "stopping",
         NEW s, NEW v, v # "none", Granted(s, v)
  PROVE  ValueIn(effects', s, round', v) \/ \E n \in 1..Len(todo') : todo'[n] = Complete(s, "succeeded", v)
<1>1. todo # <<>> /\ UNCHANGED round
  BY PerformEnds
<1>2. CASE ValueIn(effects, s, round, v)
  BY <1>1, <1>2, ValueStays DEF Next, Runtime
<1>3. ASSUME NEW n \in 1..Len(todo), todo[n] = Complete(s, "succeeded", v)
      PROVE  ValueIn(effects', s, round', v) \/ \E m \in 1..Len(todo') : todo'[m] = Complete(s, "succeeded", v)
  <2>1. CASE UNCHANGED todo
    BY <1>3, <2>1
  <2>2. CASE Advance
    <3>1. /\ Len(todo) \in Nat \ {0} /\ Head(todo) = todo[1] /\ Len(todo') = Len(todo) - 1
          /\ \A m \in 1..Len(todo') : todo'[m] = todo[m + 1]
      BY <1>1, <2>2, TailWrites DEF WorkInv, Advance
    <3>2. CASE n = 1
      <4>1. Head(todo) = Complete(s, "succeeded", v)
        BY <1>3, <3>1, <3>2
      <4>2. Head(todo).op = "complete" /\ Head(todo).slot = s /\ Head(todo).value = v
        BY <4>1 DEF Complete
      <4>3. CompleteEffect
        BY <4>2 DEF Perform, AppendEvent, PutCheckpoint, Send, BeginEffect, KeepCompleted, ReturnError, Doing
      <4>4. effects' = [effects EXCEPT ![ids[s]].status = Head(todo).status, ![ids[s]].value = v]
        BY <2>2, <4>2, <4>3, AdvanceOrRaise DEF CompleteEffect
      <4>5. ids[s] \in DOMAIN effects /\ effects[ids[s]] \in EffectRow /\ effects[ids[s]].slot = s
            /\ effects[ids[s]].round = round
        <5>1. Typed'
          BY <4>3, CompleteEffectTyped DEF WorkInv
        <5> QED
          BY <4>2, <4>3, <5>1, CompleteWork DEF WorkInv, Typed, TypeOK, Held
      <4>6. ids[s] \in DOMAIN effects' /\ effects'[ids[s]].slot = s /\ effects'[ids[s]].round = round
            /\ effects'[ids[s]].value = v
        BY <4>4, <4>5 DEF EffectRow
      <4> QED
        BY <1>1, <4>6 DEF ValueIn
    <3>3. CASE n # 1
      <4>1. n - 1 \in 1..Len(todo') /\ todo'[n - 1] = todo[n]
        BY <3>1, <3>3
      <4> QED
        BY <1>3, <4>1
    <3> QED
      BY <3>2, <3>3
  <2>3. ASSUME NEW class, Raise(class) PROVE FALSE
    BY <1>1, <2>3 DEF Raise
  <2> QED
    BY <2>1, <2>2, <2>3, PerformEnds
<1> QED
  BY <1>2, <1>3 DEF Granted

LEMMA PerformPublished ==
  ASSUME Numbered, PendingNone, Published, Perform
  PROVE  Published'
<1>1. todo # <<>> /\ UNCHANGED <<round, batch>> /\ pc' \in {pc, "stopping", "ended"}
  BY PerformEnds DEF Numbered, Advance, Raise
<1>2. \A i : CallSlot(i)' = CallSlot(i)
  BY <1>1 DEF CallSlot
<1>3. \A i : IsServed(i)' <=> IsServed(i)
  BY <1>1 DEF IsServed
<1>4. pc' = "verify" => \E i \in batch'.open : IsServed(i)' /\ batch'.calls[i] = "submit_report"
  BY <1>1, <1>3 DEF Published
<1>5. pc' = "publish" => \E i \in batch'.open : /\ IsServed(i)' /\ batch'.calls[i] = "submit_report"
                                                /\ Granted(VerifySlot, "passed")'
                                                /\ Granted(CallSlot(i), "published")'
  <2> SUFFICES ASSUME pc' = "publish"
               PROVE  \E i \in batch.open : /\ IsServed(i)' /\ batch.calls[i] = "submit_report"
                                            /\ Granted(VerifySlot, "passed")'
                                            /\ Granted(CallSlot(i), "published")'
    BY <1>1
  <2>1. pc = "publish"
    BY <1>1
  <2>2. PICK i \in batch.open : /\ IsServed(i) /\ batch.calls[i] = "submit_report"
                                /\ Granted(VerifySlot, "passed") /\ Granted(CallSlot(i), "published")
    BY <2>1 DEF Published
  <2>3. Granted(VerifySlot, "passed")'
    BY <2>1, <2>2, GrantedStays DEF Granted, Numbered, VerifySlot
  <2>4. \/ ValueIn(effects', CallSlot(i), round', "published")
        \/ \E n \in 1..Len(todo') : todo'[n] = Complete(CallSlot(i), "succeeded", "published")
    BY <2>1, <2>2, GrantedStays DEF Numbered
  <2>5. Granted(CallSlot(i), "published")'
    BY <1>2, <2>4 DEF Granted, Complete
  <2> QED
    BY <1>3, <2>2, <2>3, <2>5
<1>6. pc' = "finish" => \/ batch'.open = {}
                        \/ \E i \in batch'.open : /\ IsServed(i)'
                                                   /\ ValueIn(effects, CallSlot(i), round, "published")'
  <2> SUFFICES ASSUME pc' = "finish", NEW i \in batch.open, IsServed(i),
                      ValueIn(effects, CallSlot(i), round, "published")
               PROVE  ValueIn(effects', CallSlot(i), round, "published")
    BY <1>1, <1>2, <1>3 DEF Published
  <2> QED
    BY ValueStays DEF Numbered, Next, Runtime
<1>7. ASSUME VerifyReports, pc' = "finish" \/ \E n \in 1..Len(log') : log'[n].kind = "Completed"
      PROVE  PassedIn(effects')
  <2>1. PassedIn(effects) => PassedIn(effects')
    BY PassedStays DEF Numbered, Next, Runtime
  <2>2. CASE pc = "finish" \/ UNCHANGED log
    BY <1>1, <1>7, <2>1, <2>2 DEF Published
  <2>3. CASE pc # "finish" /\ log' = Append(log, Head(todo).event) /\ Head(todo).op = "record"
    <3>1. 1 \in Records /\ todo[1] = Head(todo)
      BY <1>1, <2>3, HeadRecord DEF Numbered, WorkInv
    <3>2. Head(todo).event.kind # "Completed"
      <4>1. CASE pc = "stopping"
        <5>1. Head(todo) = Record(result) /\ result \in Stop
          BY <1>1, <4>1 DEF Numbered, Shapes
        <5> QED
          BY <5>1 DEF Record, Event, Stop
      <4>2. CASE pc # "stopping"
        BY <2>3, <3>1, <4>2 DEF Numbered, Shapes, Terminal
      <4> QED
        BY <4>1, <4>2
    <3>3. /\ Len(log) \in Nat /\ Len(log') = Len(log) + 1 /\ log'[Len(log) + 1] = Head(todo).event
          /\ \A n \in 1..Len(log) : log'[n] = log[n]
      BY <2>3, AppendedRows DEF Numbered, WorkInv
    <3>4. \E n \in 1..Len(log) : log[n].kind = "Completed"
      BY <1>1, <1>7, <2>3, <3>2, <3>3
    <3> QED
      BY <1>7, <2>1, <3>4 DEF Published
  <2> QED
    BY <2>2, <2>3, LogSteps DEF Next, Runtime
<1> QED
  BY <1>4, <1>5, <1>6, <1>7 DEF Published

\* Which decisions lead to the verification and to the publication.
LEMMA LeadsToReport ==
  ASSUME Decide, pc' \in {"verify", "publish"}
  PROVE  SubmitReport \/ VerifierAnswers
<1>1. ~(\/ CreateTask \/ Plan \/ StartRound \/ AwaitChunk \/ ChunkArrives
        \/ EmptyTurn \/ CallTurn \/ TextTurn \/ Answer)
  BY DEF CreateTask, Plan, StartRound, AwaitChunk, ChunkArrives, EmptyTurn, CallTurn, TextTurn, Answer, Then, Raise
<1>2. ~(SelectModel \/ Connect \/ StreamFails)
  BY DEF SelectModel, Connect, StreamFails, CloseFailed, Then, At
<1>3. ~(PrepareCall \/ Prepared \/ ToolReturns \/ Collected \/ SearchEvidence)
  BY DEF PrepareCall, Prepared, ToolReturns, Collected, SearchEvidence, Then, Raise
<1>4. ~(Publish \/ ServeCancelled \/ BatchEnds \/ Finish)
  BY DEF Publish, ServeCancelled, BatchEnds, Finish, Then, Raise
<1> QED
  BY <1>1, <1>2, <1>3, <1>4 DEF Decide

LEMMA ReportPublished ==
  ASSUME Numbered, Published, SubmitReport \/ VerifierAnswers
  PROVE  /\ pc' = "verify" => \E i \in batch'.open : IsServed(i)' /\ batch'.calls[i] = "submit_report"
         /\ pc' = "publish" => \E i \in batch'.open : /\ IsServed(i)' /\ batch'.calls[i] = "submit_report"
                                                      /\ Granted(VerifySlot, "passed")'
                                                      /\ Granted(CallSlot(i), "published")'
<1>1. PICK M : batch \in Batch(M)
  BY DEF Numbered, WorkInv, Typed, RunTyped, BatchTyped
<1>2. CASE SubmitReport
  <2>1. PICK i \in batch.open, d \in Draft :
          /\ IsServed(i) /\ batch.calls[i] = "submit_report"
          /\ pc' = "serve" \/ (pc' = "verify" /\ batch' = [batch EXCEPT !.draft = d])
    BY <1>2 DEF SubmitReport, Refuse, Then
  <2>2. pc' = "verify" => batch'.open = batch.open /\ batch'.calls = batch.calls
    BY <1>1, <2>1 DEF Batch
  <2> QED
    BY <2>1, <2>2 DEF IsServed
<1>3. CASE VerifierAnswers
  <2>1. PICK j \in batch.open : IsServed(j) /\ batch.calls[j] = "submit_report"
    BY <1>3 DEF VerifierAnswers, At, Published
  <2>2. PICK i \in batch.open :
          /\ IsServed(i)
          /\ \/ /\ pc' = "publish" /\ UNCHANGED batch
                /\ todo' = <<Complete(VerifySlot, "succeeded", "passed"),
                             Complete(CallSlot(i), "succeeded", "published"), RecordCall("ToolCompleted", i)>>
             \/ pc' = "serve"
             \/ pc' = "verify" /\ UNCHANGED batch
    BY <1>3 DEF VerifierAnswers, Refuse, CloseFailed, Then, At
  <2>3. i = j
    <3>1. i \in Nat /\ j \in Nat
      BY <1>1 DEF Batch
    <3> QED
      BY <2>1, <2>2, <3>1 DEF IsServed
  <2>4. CASE pc' = "verify" /\ UNCHANGED batch
    BY <2>1, <2>4 DEF IsServed
  <2>5. CASE /\ pc' = "publish" /\ UNCHANGED batch
             /\ todo' = <<Complete(VerifySlot, "succeeded", "passed"),
                          Complete(CallSlot(i), "succeeded", "published"), RecordCall("ToolCompleted", i)>>
    <3>1. /\ 1 \in 1..Len(todo') /\ todo'[1] = Complete(VerifySlot, "succeeded", "passed")
          /\ 2 \in 1..Len(todo') /\ todo'[2] = Complete(CallSlot(i), "succeeded", "published")
      BY <2>5
    <3>2. CallSlot(i)' = CallSlot(i)
      BY <2>5 DEF CallSlot
    <3>3. Granted(VerifySlot, "passed")' /\ Granted(CallSlot(i), "published")'
      BY <3>1, <3>2 DEF Granted, Complete, VerifySlot
    <3> QED
      BY <2>1, <2>3, <2>5, <3>3 DEF IsServed
  <2> QED
    BY <2>2, <2>4, <2>5
<1> QED
  BY <1>2, <1>3

LEMMA DecidePublished ==
  ASSUME Numbered, Published, Decide
  PROVE  Published'
<1>1. todo = <<>> /\ Len(todo) = 0 /\ UNCHANGED <<log, effects>>
  BY DecideAt DEF Decide, durable
<1>2. CASE pc' = "finish"
  <2>1. Completes /\ (At("publish") \/ (At("answer") /\ ~VerifyReports))
    BY <1>2, DecisionWays DEF Ordinary, Stops, Raise, ClosesLast, CloseFailed, GivesUp, EmptyTurn, Leaves,
                              Finish, Then
  <2>2. CASE At("publish")
    <3>1. UNCHANGED <<round, batch>>
      BY <2>2 DEF Decide, CreateTask, Plan, SelectModel, StartRound, Connect, AwaitChunk, ChunkArrives,
                  StreamFails, EmptyTurn, CallTurn, TextTurn, Answer, PrepareCall, Prepared, ToolReturns,
                  Collected,
                  SearchEvidence, SubmitReport, VerifierAnswers, Publish, ServeCancelled, BatchEnds, Finish, At
    <3>2. PICK i \in batch.open : /\ IsServed(i) /\ batch.calls[i] = "submit_report"
                                  /\ ValueIn(effects, VerifySlot, round, "passed")
                                  /\ ValueIn(effects, CallSlot(i), round, "published")
      BY <1>1, <2>2 DEF Published, At, Granted
    <3>3. PassedIn(effects')
      BY <1>1, <3>2 DEF PassedIn, CallSlot
    <3>4. IsServed(i)' /\ ValueIn(effects, CallSlot(i), round, "published")'
      BY <1>1, <3>1, <3>2 DEF IsServed, ValueIn, CallSlot
    <3> QED
      BY <1>2, <3>1, <3>3, <3>4 DEF Published
  <2>3. CASE At("answer") /\ ~VerifyReports
    <3>1. batch.open = {} /\ UNCHANGED batch
      BY <2>3 DEF Numbered, WorkInv, BatchOpen, Decide, CreateTask, Plan, SelectModel, StartRound, Connect,
                  AwaitChunk, ChunkArrives, StreamFails, EmptyTurn, CallTurn, TextTurn, Answer, PrepareCall,
                  Prepared, ToolReturns, Collected, SearchEvidence, SubmitReport, VerifierAnswers, Publish,
                  ServeCancelled, BatchEnds, Finish, At
    <3> QED
      BY <1>2, <2>3, <3>1 DEF Published
  <2> QED
    BY <2>1, <2>2, <2>3
<1>3. CASE pc' # "finish"
  <2>1. VerifyReports /\ (\E n \in 1..Len(log') : log'[n].kind = "Completed") => PassedIn(effects')
    BY <1>1 DEF Published
  <2> QED
    BY <1>3, <2>1, LeadsToReport, ReportPublished DEF Published
<1> QED
  BY <1>2, <1>3

LEMMA NextPublished ==
  ASSUME Numbered, PendingNone, Published, [Next]_vars
  PROVE  PendingNone' /\ Published'
<1>1. PendingNone'
  BY PendingStays DEF Numbered
<1>2. CASE Recv \/ Cancel \/ Close \/ Ended \/ UNCHANGED vars
  <2>1. UNCHANGED <<log, effects, pc, todo, round, batch>>
    BY <1>2, ClientLeaves
  <2> QED
    BY <1>1, <2>1 DEF Published, IsServed, Granted, ValueIn, PassedIn, CallSlot, Complete
<1> QED
  BY <1>1, <1>2, PerformPublished, DecidePublished DEF Next, Runtime

LEMMA PublishedVerified == Published => PublishedOnlyVerified
<1> SUFFICES ASSUME Published, VerifyReports, \E n \in 1..Len(log) : log[n].kind = "Completed"
             PROVE  \E k, m \in DOMAIN effects : /\ effects[k].slot = VerifySlot /\ effects[k].value = "passed"
                                                 /\ effects[m].value = "published"
                                                 /\ effects[m].slot[1] = "submit_report"
                                                 /\ effects[m].round = effects[k].round
  BY DEF PublishedOnlyVerified
<1>1. PassedIn(effects)
  BY DEF Published
<1> QED
  BY <1>1 DEF PassedIn, ValueIn

\* How a task ended is stored, whatever the client does meanwhile, as long as the
\* store works; and a task is never completed without a report that passed the
\* verifier and was closed as published in the same round.
THEOREM TaskOutcomesAreSound == Spec => []OutcomesAreSound
<1>1. Spec => []Numbered
  BY InitNumbered, NextNumbered, PTL DEF Spec
<1>2. Spec => [](EndStored /\ NoneAfter)
  BY InitEnds, NextEnds, <1>1, PTL DEF Spec
<1>3. Spec => [](PendingNone /\ Published)
  BY InitPublished, NextPublished, <1>1, PTL DEF Spec
<1>4. EndStored /\ NoneAfter /\ PendingNone /\ Published => OutcomesAreSound
  BY EndsStored, PublishedVerified DEF OutcomesAreSound
<1> QED
  BY <1>2, <1>3, <1>4, PTL

-----------------------------------------------------------------------------
(***************************************************************************)
(* What a task leaves open.  As long as the store works the pending        *)
(* effects are those the runtime holds: a begun effect takes the place of  *)
(* no other (Anew).  An error is returned once its own effect is closed,   *)
(* and a suspension only from where nothing else is open.                  *)
(***************************************************************************)
Anew == Opening \cap (DOMAIN ids \ Closing) = {}

NoBegins == \A n \in 1..Len(todo) : todo[n].op # "begin"

LEMMA NoBeginsAnew ==
  ASSUME NoBegins'
  PROVE  Anew'
BY DEF NoBegins, Anew, Opening

LEMMA InitAnew == Init => Anew
<1> SUFFICES ASSUME Init PROVE Anew
  OBVIOUS
<1>1. DOMAIN ids = {}
  BY DEF Init
<1> QED
  BY <1>1 DEF Anew

\* The members of short lists.
LEMMA Lists ==
  ASSUME NEW S,
         \/ todo' = <<>>
         \/ \E a \in S : todo' = <<a>>
         \/ \E a, b \in S : todo' = <<a, b>>
         \/ \E a, b, c \in S : todo' = <<a, b, c>>
         \/ \E a, b, c, d \in S : todo' = <<a, b, c, d>>
  PROVE  \A n \in 1..Len(todo') : todo'[n] \in S
<1>1. CASE todo' = <<>>
  BY <1>1
<1>2. ASSUME NEW a \in S, todo' = <<a>> PROVE \A n \in 1..Len(todo') : todo'[n] \in S
  BY <1>2
<1>3. ASSUME NEW a \in S, NEW b \in S, todo' = <<a, b>> PROVE \A n \in 1..Len(todo') : todo'[n] \in S
  <2>1. \A n \in 1..Len(todo') : todo'[n] = a \/ todo'[n] = b
    BY <1>3
  <2> QED
    BY <2>1
<1>4. ASSUME NEW a \in S, NEW b \in S, NEW c \in S, todo' = <<a, b, c>>
      PROVE  \A n \in 1..Len(todo') : todo'[n] \in S
  <2>1. \A n \in 1..Len(todo') : todo'[n] = a \/ todo'[n] = b \/ todo'[n] = c
    BY <1>4
  <2> QED
    BY <2>1
<1>5. ASSUME NEW a \in S, NEW b \in S, NEW c \in S, NEW d \in S, todo' = <<a, b, c, d>>
      PROVE  \A n \in 1..Len(todo') : todo'[n] \in S
  <2>1. \A n \in 1..Len(todo') : todo'[n] = a \/ todo'[n] = b \/ todo'[n] = c \/ todo'[n] = d
    BY <1>5
  <2> QED
    BY <2>1
<1> QED
  BY <1>1, <1>2, <1>3, <1>4, <1>5

\* The decisions of the runtime that begin an effect.
LEMMA OpeningAnew ==
  ASSUME WorkInv, Typed', UNCHANGED ids, Plan \/ StartRound \/ EmptyTurn \/ PrepareCall
  PROVE  Anew'
<1>1. CASE Plan
  <2>1. At("plan") /\ "plan" \in Place \ {"stopping", "ended"}
    BY <1>1 DEF Plan, Place
  <2>2. DOMAIN ids = {}
    BY <2>1, AtNeeded
  <2> QED
    BY <2>2 DEF Anew
<1>2. CASE StartRound
  <2>1. At("round") /\ "round" \in Place \ {"stopping", "ended"}
    BY <1>2 DEF StartRound, Place
  <2>2. DOMAIN ids = {}
    BY <2>1, AtNeeded
  <2> QED
    BY <2>2 DEF Anew
<1>3. CASE EmptyTurn
  <2>1. At("chunk") /\ "chunk" \in Place \ {"stopping", "ended"}
    BY <1>3 DEF EmptyTurn, Place
  <2>2. DOMAIN ids = {StreamSlot}
    BY <2>1, AtNeeded
  <2>3. \E b, c : todo' = <<Complete(StreamSlot, "failed", "empty"), b, c>>
    BY <1>3 DEF EmptyTurn, Then
  <2>4. 1 \in 1..Len(todo') /\ todo'[1] = Complete(StreamSlot, "failed", "empty")
    BY <2>3
  <2>5. StreamSlot \in Closing'
    BY <2>4 DEF Closing, Complete
  <2> QED
    BY <2>2, <2>5 DEF Anew
<1>4. CASE PrepareCall
  <2> DEFINE i == batch.next
             s == <<batch.calls[i], i>>
  <2>1. At("prepare") /\ "prepare" \in Place \ {"stopping", "ended"}
    BY <1>4 DEF PrepareCall, Place
  <2>2. DOMAIN ids = {<<batch.calls[j], j>> : j \in batch.open}
    BY <2>1, AtNeeded
  <2>3. s \notin DOMAIN ids
    <3>1. i \in Nat /\ \A j \in batch.open : j \in 1..(i - 1)
      BY DEF WorkInv, Typed, RunTyped, BatchTyped, Batch
    <3>2. \A j \in batch.open : j # i
      BY <3>1
    <3> QED
      BY <2>2, <3>2
  <2>4. \/ Raise("Failed")
        \/ todo' = <<RecordCall("ToolFailed", i)>>
        \/ todo' = <<RecordCall("ToolScheduled", i), Begin(s), RecordCall("ToolStarted", i)>>
    BY <1>4 DEF PrepareCall, Then, Opened, CallSlot
  <2>5. \A k : RecordCall(k, i).op = "record" /\ Record(k).op = "record"
    BY DEF RecordCall, Record
  <2>6. Begin(s).op = "begin" /\ Begin(s).slot = s
    BY DEF Begin
  <2> HIDE DEF i, s
  <2>7. CASE Raise("Failed") \/ todo' = <<RecordCall("ToolFailed", i)>>
    <3>1. NoBegins'
      BY <2>5, <2>7 DEF NoBegins, Raise
    <3> QED
      BY <3>1, NoBeginsAnew
  <2>8. CASE todo' = <<RecordCall("ToolScheduled", i), Begin(s), RecordCall("ToolStarted", i)>>
    <3>1. /\ 1..Len(todo') = {1, 2, 3} /\ todo'[1] = RecordCall("ToolScheduled", i) /\ todo'[2] = Begin(s)
          /\ todo'[3] = RecordCall("ToolStarted", i)
      BY <2>8
    <3>2. \A x \in Opening' : x = s
      BY <2>5, <2>6, <3>1 DEF Opening
    <3> QED
      BY <2>3, <3>2 DEF Anew
  <2> QED
    BY <2>4, <2>7, <2>8
<1> QED
  BY <1>1, <1>2, <1>3, <1>4

\* The writes that begin nothing.
LEMMA NoBeginKinds ==
  /\ \A k : Record(k).op # "begin" /\ \A i : RecordCall(k, i).op # "begin"
  /\ \A s, status, v : Complete(s, status, v).op # "begin"
  /\ \A i : Keep(i).op # "begin"
  /\ \A class : Return(class).op # "begin"
BY DEF Record, RecordCall, Complete, Keep, Return

LEMMA RefusalBegins ==
  ASSUME NEW i, NEW d,
         \/ Refuse(i, d, <<>>) \/ Refuse(i, d, <<Record("VerificationFinding")>>)
         \/ \E findings \in {<<>>, <<Record("VerificationFinding")>>} :
              Refuse(i, d, <<Complete(VerifySlot, "succeeded", "refused")>> \o findings)
  PROVE  NoBegins'
<1> DEFINE a == Complete(CallSlot(i), "failed", "refused")
           b == RecordCall("ToolFailed", i)
           v == Complete(VerifySlot, "succeeded", "refused")
           f == Record("VerificationFinding")
           S == {a, b, v, f}
<1>1. \A w \in S : w.op # "begin"
  BY NoBeginKinds
<1>2. \/ todo' = <<>> \o <<a, b>> \/ todo' = <<f>> \o <<a, b>>
      \/ todo' = (<<v>> \o <<>>) \o <<a, b>> \/ todo' = (<<v>> \o <<f>>) \o <<a, b>>
  BY DEF Refuse, Then
<1>3. a \in S /\ b \in S /\ v \in S /\ f \in S
  OBVIOUS
<1> HIDE DEF a, b, v, f, S
<1>4. /\ <<>> \o <<a, b>> = <<a, b>> /\ <<f>> \o <<a, b>> = <<f, a, b>>
      /\ (<<v>> \o <<>>) \o <<a, b>> = <<v, a, b>> /\ (<<v>> \o <<f>>) \o <<a, b>> = <<v, f, a, b>>
  BY Refusals
<1>5. \A n \in 1..Len(todo') : todo'[n] \in S
  BY <1>2, <1>3, <1>4, Lists
<1> QED
  BY <1>1, <1>5 DEF NoBegins

LEMMA CloseFailedBegins ==
  ASSUME NEW s, NEW class, CloseFailed(s, class)
  PROVE  NoBegins'
<1>1. todo' = <<Complete(s, "failed", "error"), Return(class)>>
  BY DEF CloseFailed, Then
<1> QED
  BY <1>1, NoBeginKinds DEF NoBegins

LEMMA RequestBegins ==
  ASSUME \/ CreateTask \/ SelectModel \/ Connect \/ AwaitChunk \/ ChunkArrives \/ StreamFails
         \/ CallTurn \/ TextTurn \/ Answer \/ Prepared \/ Collected \/ Publish \/ ServeCancelled
         \/ BatchEnds \/ Finish
  PROVE  NoBegins'
<1>1. CASE CreateTask
  <2>1. todo' = <<>> \/ todo' = <<Record("SessionStarted"), Record("UserMessageAccepted")>>
    BY <1>1 DEF CreateTask, Then
  <2> QED
    BY <2>1, NoBeginKinds DEF NoBegins
<1>2. CASE SelectModel \/ Connect \/ StreamFails \/ CallTurn \/ TextTurn
  <2>1. \/ \E s, class : CloseFailed(s, class)
        \/ todo' = <<>> \/ \E s, status, v : todo' = <<Complete(s, status, v)>>
    BY <1>2 DEF SelectModel, Connect, StreamFails, CallTurn, TextTurn, Then
  <2> QED
    BY <2>1, CloseFailedBegins, NoBeginKinds DEF NoBegins
<1>3. CASE \/ AwaitChunk \/ ChunkArrives \/ Answer \/ Prepared \/ Collected \/ Publish \/ ServeCancelled
           \/ BatchEnds \/ Finish
  <2>1. todo' = <<>> \/ \E k : todo' = <<Record(k)>>
    BY <1>3 DEF AwaitChunk, ChunkArrives, Answer, Prepared, Collected, Publish, ServeCancelled, BatchEnds,
                Finish, Then, Raise
  <2> QED
    BY <2>1, NoBeginKinds DEF NoBegins
<1> QED
  BY <1>1, <1>2, <1>3

LEMMA CallBegins ==
  ASSUME ToolReturns \/ SearchEvidence \/ VerifierAnswers
  PROVE  NoBegins'
<1>1. CASE ToolReturns
  <2>1. PICK i :
          \/ Raise("Cancelled")
          \/ todo' = <<Complete(CallSlot(i), "succeeded", "ok"), RecordCall("ToolCompleted", i), Keep(i)>>
          \/ todo' = <<Complete(CallSlot(i), "succeeded", "ok"), RecordCall("ToolCompleted", i),
                       RecordCall("EvidenceAdded", i), Keep(i)>>
          \/ todo' = <<Complete(CallSlot(i), "failed", "error"), RecordCall("ToolFailed", i)>>
    BY <1>1 DEF ToolReturns, Then, CallFailed
  <2> DEFINE a == Complete(CallSlot(i), "succeeded", "ok")
             f == Complete(CallSlot(i), "failed", "error")
             b == RecordCall("ToolCompleted", i)
             e == RecordCall("EvidenceAdded", i)
             g == RecordCall("ToolFailed", i)
             k == Keep(i)
             S == {a, f, b, e, g, k}
  <2>2. \A w \in S : w.op # "begin"
    BY NoBeginKinds
  <2>3. a \in S /\ f \in S /\ b \in S /\ e \in S /\ g \in S /\ k \in S
    OBVIOUS
  <2>4. Raise("Cancelled") \/ todo' = <<a, b, k>> \/ todo' = <<a, b, e, k>> \/ todo' = <<f, g>>
    BY <2>1
  <2> HIDE DEF a, f, b, e, g, k, S
  <2>5. CASE Raise("Cancelled")
    BY <2>5, NoBeginKinds DEF Raise, NoBegins
  <2>6. CASE todo' = <<a, b, k>> \/ todo' = <<a, b, e, k>> \/ todo' = <<f, g>>
    <3>1. \A n \in 1..Len(todo') : todo'[n] \in S
      BY <2>3, <2>6, Lists
    <3> QED
      BY <2>2, <3>1 DEF NoBegins
  <2> QED
    BY <2>4, <2>5, <2>6
<1>2. CASE SearchEvidence
  <2>1. PICK i : todo' = <<Complete(CallSlot(i), "succeeded", "ok"), RecordCall("ToolCompleted", i)>>
    BY <1>2 DEF SearchEvidence, Then
  <2> QED
    BY <2>1, NoBeginKinds DEF NoBegins
<1>3. CASE VerifierAnswers
  <2>1. PICK i :
          \/ todo' = <<Complete(VerifySlot, "succeeded", "passed"),
                       Complete(CallSlot(i), "succeeded", "published"), RecordCall("ToolCompleted", i)>>
          \/ \E findings \in {<<>>, <<Record("VerificationFinding")>>} :
               Refuse(i, batch.draft, <<Complete(VerifySlot, "succeeded", "refused")>> \o findings)
          \/ CloseFailed(VerifySlot, "Failed")
    BY <1>3 DEF VerifierAnswers, Then
  <2>2. CASE todo' = <<Complete(VerifySlot, "succeeded", "passed"),
                       Complete(CallSlot(i), "succeeded", "published"), RecordCall("ToolCompleted", i)>>
    BY <2>2, NoBeginKinds DEF NoBegins
  <2> QED
    BY <2>1, <2>2, RefusalBegins, CloseFailedBegins
<1> QED
  BY <1>1, <1>2, <1>3

LEMMA SubmitAnew ==
  ASSUME WorkInv, UNCHANGED ids, SubmitReport
  PROVE  Anew'
<1>1. At("serve") /\ "serve" \in Place \ {"stopping", "ended"}
  BY DEF SubmitReport, Place
<1>2. DOMAIN ids = {<<batch.calls[i], i>> : i \in batch.open}
  BY <1>1, AtNeeded
<1>3. VerifySlot \notin DOMAIN ids
  BY <1>2, OpenSlots DEF WorkInv
<1>4. PICK i, d : \/ Refuse(i, d, <<>>) \/ Refuse(i, d, <<Record("VerificationFinding")>>)
                  \/ todo' = <<Record("VerificationStarted"), Begin(VerifySlot)>>
  BY DEF SubmitReport, Then
<1>5. CASE todo' = <<Record("VerificationStarted"), Begin(VerifySlot)>>
  <2>1. 1..Len(todo') = {1, 2} /\ todo'[1] = Record("VerificationStarted") /\ todo'[2] = Begin(VerifySlot)
    BY <1>5
  <2>2. \A x \in Opening' : x = VerifySlot
    BY <2>1 DEF Opening, Record, Begin
  <2> QED
    BY <1>3, <2>2 DEF Anew
<1> QED
  BY <1>4, <1>5, RefusalBegins, NoBeginsAnew

LEMMA PerformAnew ==
  ASSUME WorkInv, Anew, Perform
  PROVE  Anew'
<1>1. todo # <<>> /\ UNCHANGED <<round, batch>>
  BY PerformEnds
<1>2. CASE Advance
  <2>1. /\ Head(todo).op # "complete" => Closing' = Closing
        /\ Head(todo).op = "complete" => Closing' = Closing \ {Head(todo).slot} /\ Head(todo).slot \in Closing
        /\ Head(todo).op # "begin" => Opening' = Opening
    BY <1>1, <1>2, ProgramTail DEF WorkInv, Advance
  <2>2. CASE BeginEffect
    <3>1. /\ Len(todo) \in Nat \ {0} /\ Head(todo) = todo[1] /\ Head(todo).op = "begin"
          /\ \A n \in 1..Len(todo') : todo'[n] = todo[n + 1] /\ n + 1 \in 1..Len(todo)
      BY <1>1, <1>2, <2>2, TailWrites DEF WorkInv, Advance, BeginEffect, Doing
    <3>2. \A n \in 1..Len(todo') : todo'[n].op # "begin"
      BY <3>1 DEF WorkInv, Program
    <3> QED
      BY <3>2, NoBeginsAnew DEF NoBegins
  <2>3. CASE CompleteEffect
    <3>1. ids' = [s \in DOMAIN ids \ {Head(todo).slot} |-> ids[s]] /\ Head(todo).op = "complete"
      BY <2>3 DEF CompleteEffect, Doing
    <3>2. DOMAIN ids' = DOMAIN ids \ {Head(todo).slot}
      BY <3>1
    <3> QED
      BY <2>1, <3>1, <3>2 DEF Anew
  <2>4. CASE ~BeginEffect /\ ~CompleteEffect
    <3>1. UNCHANGED ids /\ Head(todo).op \notin {"begin", "complete"}
      BY <2>4 DEF Perform, AppendEvent, PutCheckpoint, Send, KeepCompleted, ReturnError, Doing
    <3> QED
      BY <2>1, <3>1 DEF Anew
  <2> QED
    BY <2>2, <2>3, <2>4
<1>3. ASSUME NEW class, Raise(class) PROVE Anew'
  <2>1. NoBegins'
    BY <1>3, NoBeginKinds DEF Raise, NoBegins
  <2> QED
    BY <2>1, NoBeginsAnew
<1>4. CASE UNCHANGED todo /\ stage' # "append"
  <2>1. AppendEvent \/ PutCheckpoint
    BY <1>4, PerformShape, AdvanceOrRaise DEF Advance, Raise
  <2>2. UNCHANGED ids
    BY <2>1 DEF AppendEvent, PutCheckpoint
  <2> QED
    BY <1>4, <2>2 DEF Anew, Opening, Closing
<1> QED
  BY <1>2, <1>3, <1>4, PerformEnds

LEMMA NextAnew ==
  ASSUME WorkInv, WorkInv', Anew, [Next]_vars
  PROVE  Anew'
<1>1. CASE Decide
  BY <1>1, OpeningAnew, RequestBegins, CallBegins, SubmitAnew, NoBeginsAnew DEF Decide, WorkInv
<1>2. CASE Recv \/ Cancel \/ Close \/ Ended \/ UNCHANGED vars
  <2>1. UNCHANGED <<todo, ids>>
    BY <1>2, ClientLeaves
  <2> QED
    BY <2>1 DEF Anew, Opening, Closing
<1> QED
  BY <1>1, <1>2, PerformAnew DEF Next, Runtime

SettledBy(class, S) ==
  (class = "Suspended" => S = {}) /\ (class = "Failed" => \A s \in S : s[1] \in Registered)
OpenHeld == \A k \in Open : \E s \in DOMAIN ids : ids[s] = k
Settled ==
  faults = 0 =>
    /\ OpenHeld
    /\ pc \in {"stopping", "ended"} => SettledBy(result, DOMAIN ids)
    /\ \A n \in 1..Len(todo) : todo[n].op = "return" => SettledBy(todo[n].class, DOMAIN ids \ Closing)
    /\ result = "ok" => \A s \in DOMAIN ids :
         /\ s[1] \in RuntimeTool
         /\ \E m \in DOMAIN effects : effects[m].value = "published" /\ effects[m].slot[2] < s[2]

LEMMA InitSettled == Init => Settled
<1> SUFFICES ASSUME Init PROVE Settled
  OBVIOUS
<1>1. DOMAIN effects = {} /\ pc = "create" /\ todo = <<>> /\ Len(todo) = 0 /\ result = "running"
  BY DEF Init
<1> QED
  BY <1>1 DEF Settled, OpenHeld, Open

LEMMA PerformHeld ==
  ASSUME Numbered, Anew, OpenHeld, Perform, faults' = 0
  PROVE  OpenHeld'
<1>1. WorkInv /\ Typed /\ ~Fault
  BY DEF Numbered, WorkInv, InStep, Fault
<1>2. CASE BeginEffect
  <2> DEFINE slot == Head(todo).slot
             key  == Key(slot)
             row  == [slot |-> slot, round |-> round, status |-> "pending", value |-> "none"]
  <2>1. todo # <<>> /\ Head(todo).op = "begin" /\ key[1] = seq /\ Doing("begin")
    BY <1>2 DEF BeginEffect, Doing, Key
  <2>2. key \notin DOMAIN effects
    BY <1>1, <2>1 DEF Numbered, Fresh, Typed, TypeOK
  <2>3. /\ effects' = [k \in DOMAIN effects \cup {key} |-> IF k = key THEN row ELSE effects[k]]
        /\ ids' = [s \in DOMAIN ids \cup {slot} |-> IF s = slot THEN key ELSE ids[s]]
        /\ Advance
    BY <1>1, <1>2, <2>2 DEF BeginEffect
  <2> HIDE DEF row, key
  <2>4. slot \notin DOMAIN ids
    <3>1. Opening = Opening' \cup {slot} /\ Closing = {}
      BY <1>1, <2>1, <2>3, ProgramTail, PerformEnds DEF WorkInv, Advance
    <3> QED
      BY <3>1 DEF Anew
  <2> SUFFICES ASSUME NEW k \in Open' PROVE \E s \in DOMAIN ids' : ids'[s] = k
    BY DEF OpenHeld
  <2>5. CASE k = key
    BY <2>3, <2>5
  <2>6. CASE k # key
    <3>1. k \in Open
      BY <2>3, <2>6 DEF Open
    <3>2. PICK s \in DOMAIN ids : ids[s] = k
      BY <3>1 DEF OpenHeld
    <3>3. s # slot /\ s \in DOMAIN ids' /\ ids'[s] = ids[s]
      BY <2>3, <2>4, <3>2
    <3> QED
      BY <3>2, <3>3
  <2> QED
    BY <2>5, <2>6
<1>3. CASE CompleteEffect
  <2> DEFINE w   == Head(todo)
             key == ids[w.slot]
  <2>1. /\ w.op = "complete" /\ todo # <<>>
        /\ ids' = [s \in DOMAIN ids \ {w.slot} |-> ids[s]]
        /\ effects' = [effects EXCEPT ![key].status = w.status, ![key].value = w.value]
    BY <1>1, <1>3 DEF CompleteEffect, Doing
  <2>2. w.slot \in DOMAIN ids /\ key \in DOMAIN effects
    BY <1>1, <1>3, CompleteWork, NextTyped DEF Next, Runtime
  <2>3. w.status # "pending"
    BY <1>1, <2>1, TailWrites, WriteFields
  <2>4. effects[key] \in EffectRow
    BY <1>1, <2>2 DEF Typed, TypeOK
  <2>5. DOMAIN effects' = DOMAIN effects /\ effects'[key].status = w.status
    BY <2>1, <2>2, <2>4 DEF EffectRow
  <2>6. \A k \in DOMAIN effects : k # key => effects'[k] = effects[k]
    BY <2>1
  <2> SUFFICES ASSUME NEW k \in Open' PROVE \E s \in DOMAIN ids' : ids'[s] = k
    BY DEF OpenHeld
  <2>7. k # key /\ k \in Open
    BY <2>3, <2>5, <2>6 DEF Open
  <2>8. PICK s \in DOMAIN ids : ids[s] = k
    BY <2>7 DEF OpenHeld
  <2>9. s # w.slot
    BY <2>7, <2>8
  <2>10. s \in DOMAIN ids' /\ ids'[s] = k
    BY <2>1, <2>8, <2>9
  <2> QED
    BY <2>10
<1>4. CASE ~BeginEffect /\ ~CompleteEffect
  <2>1. UNCHANGED <<effects, ids>>
    BY <1>4 DEF Perform, AppendEvent, PutCheckpoint, Send, KeepCompleted, ReturnError, durable
  <2> QED
    BY <2>1 DEF OpenHeld, Open
<1> QED
  BY <1>2, <1>3, <1>4

\* Which effects a write leaves to be settled.
LEMMA PerformCloses ==
  ASSUME WorkInv, Perform
  PROVE  /\ todo # <<>>
         /\ Head(todo).op \notin {"begin", "complete"} => UNCHANGED ids
         /\ Advance /\ Head(todo).op # "begin" => DOMAIN ids' \ Closing' = DOMAIN ids \ Closing
<1>1. todo # <<>> /\ UNCHANGED round
  BY PerformEnds
<1>2. Head(todo).op \notin {"begin", "complete"} => UNCHANGED ids
  BY DEF Perform, AppendEvent, PutCheckpoint, Send, BeginEffect, CompleteEffect, KeepCompleted,
         ReturnError, Doing
<1>3. ASSUME Advance, Head(todo).op # "begin" PROVE DOMAIN ids' \ Closing' = DOMAIN ids \ Closing
  <2>1. /\ Head(todo).op # "complete" => Closing' = Closing
        /\ Head(todo).op = "complete" => Head(todo).slot \in Closing /\ Closing' = Closing \ {Head(todo).slot}
    BY <1>1, <1>3, ProgramTail DEF WorkInv, Advance
  <2>2. CASE Head(todo).op = "complete"
    <3>1. CompleteEffect
      BY <2>2 DEF Perform, AppendEvent, PutCheckpoint, Send, BeginEffect, KeepCompleted, ReturnError, Doing
    <3>2. ids' = [s \in DOMAIN ids \ {Head(todo).slot} |-> ids[s]]
      BY <3>1 DEF CompleteEffect
    <3>3. DOMAIN ids' = DOMAIN ids \ {Head(todo).slot}
      BY <3>2
    <3> QED
      BY <2>1, <2>2, <3>3
  <2> QED
    BY <1>2, <1>3, <2>1, <2>2
<1> QED
  BY <1>1, <1>2, <1>3

LEMMA RaisedSettled ==
  ASSUME NEW class, Raise(class), pc # "stopping", SettledBy(class, DOMAIN ids'), OpenHeld', class # "ok"
  PROVE  Settled'
<1>1. pc' = "stopping" /\ todo' = <<Record(class)>> /\ result' = class
  BY DEF Raise
<1>2. \A n \in 1..Len(todo') : todo'[n].op = "record"
  BY <1>1 DEF Record
<1> QED
  BY <1>1, <1>2 DEF Settled

LEMMA PerformSettled ==
  ASSUME Numbered, Anew, Settled, Perform
  PROVE  Settled'
<1> SUFFICES ASSUME faults' = 0 PROVE Settled'
  BY DEF Settled
<1>1. /\ faults = 0 /\ todo # <<>> /\ WorkInv /\ Typed
      /\ OpenHeld'
      /\ Head(todo).op \notin {"begin", "complete"} => UNCHANGED ids
      /\ Advance /\ Head(todo).op # "begin" => DOMAIN ids' \ Closing' = DOMAIN ids \ Closing
  BY FaultlessWrites, PerformCloses, PerformHeld DEF Settled, Numbered, WorkInv
<1>2. /\ Len(todo) \in Nat \ {0} /\ Head(todo) = todo[1] /\ Len(Tail(todo)) = Len(todo) - 1
      /\ \A n \in 1..Len(Tail(todo)) : Tail(todo)[n] = todo[n + 1]
  BY <1>1, TailWrites
<1>3. /\ pc # "ended" /\ result # "ok"
      /\ pc = "stopping" => Head(todo).op = "record"
  BY <1>1 DEF Numbered, Shapes, Record, Stop
<1>4. CASE Advance
  <2>1. pc' = pc /\ result' = result /\ todo' = Tail(todo)
    BY <1>4 DEF Advance
  <2>2. pc' \in {"stopping", "ended"} => SettledBy(result', DOMAIN ids')
    BY <1>1, <1>3, <2>1 DEF Settled
  <2>3. ASSUME NEW n \in 1..Len(todo'), todo'[n].op = "return"
        PROVE  SettledBy(todo'[n].class, DOMAIN ids' \ Closing')
    <3>1. n + 1 \in 1..Len(todo) /\ todo'[n] = todo[n + 1] /\ 1 \in 1..Len(todo)
      BY <1>2, <2>1, <2>3
    <3>2. Head(todo).op # "begin"
      BY <1>2, <2>3, <3>1 DEF Numbered, Shapes, ReturnsLast
    <3> QED
      BY <1>1, <1>4, <2>3, <3>1, <3>2 DEF Settled
  <2> QED
    BY <1>1, <1>3, <2>1, <2>2, <2>3 DEF Settled
<1>5. CASE /\ UNCHANGED <<pc, todo, phase, result>>
           /\ AppendEvent \/ PutCheckpoint
  <2>1. UNCHANGED ids
    BY <1>5 DEF AppendEvent, PutCheckpoint
  <2>2. Closing' = Closing
    BY <1>5 DEF Closing
  <2> QED
    BY <1>1, <1>3, <1>5, <2>1, <2>2 DEF Settled
<1>6. CASE Send /\ Raise("Cancelled")
  <2>1. UNCHANGED ids
    BY <1>6 DEF Send
  <2>2. CASE pc = "stopping"
    <3>1. pc' = "ended" /\ todo' = <<>> /\ UNCHANGED result
      BY <1>6, <2>2 DEF Raise
    <3> QED
      BY <1>1, <1>3, <2>1, <2>2, <3>1 DEF Settled
  <2> QED
    BY <1>1, <1>6, <2>2, RaisedSettled DEF SettledBy
<1>7. CASE ReturnError
  <2>1. Head(todo).op = "return" /\ Raise(Head(todo).class)
    BY <1>7 DEF ReturnError, Doing
  <2>2. 1 \in 1..Len(todo) /\ Len(todo) = 1 /\ Head(todo).class \in Stop
    <3>1. 1 \in 1..Len(todo) /\ todo[1].op = "return"
      BY <1>2, <2>1
    <3>2. ReturnsLast
      BY DEF Numbered, Shapes
    <3>3. 1 = Len(todo) /\ todo[1].class \in Stop
      BY <3>1, <3>2 DEF ReturnsLast
    <3> QED
      BY <1>2, <3>1, <3>3
  <2>3. Closing = {}
    BY <1>2, <2>1, <2>2 DEF Closing
  <2>4. SettledBy(Head(todo).class, DOMAIN ids')
    BY <1>1, <1>2, <2>1, <2>2, <2>3 DEF Settled
  <2> QED
    BY <1>1, <1>3, <2>1, <2>2, <2>4, RaisedSettled DEF Stop
<1> QED
  BY <1>4, <1>5, <1>6, <1>7, FaultlessWrites

\* A decision that returns an error closes what it leads from, and the task
\* that ends with a publication leaves only the calls behind it.
LEMMA DecideSettled ==
  ASSUME Numbered, Published, Settled, Decide
  PROVE  Settled'
<1> SUFFICES ASSUME faults' = 0 PROVE Settled'
  BY DEF Settled
<1>1. /\ WorkInv /\ Typed /\ Shapes /\ todo = <<>> /\ faults = 0 /\ UNCHANGED <<ids, effects>>
      /\ \A s \in DOMAIN ids : ids'[s] = ids[s]
  BY DecideAt DEF Decide, durable, Numbered, WorkInv
<1>2. OpenHeld' /\ DOMAIN ids' = DOMAIN ids
  BY <1>1 DEF Settled, OpenHeld, Open
<1>3. pc \notin {"stopping", "ended"} => result = "running"
  BY <1>1 DEF Shapes
<1>4. CASE Ordinary /\ pc \notin {"finish", "stopping", "ended"}
  <2>1. result' # "ok" /\ \A n \in 1..Len(todo') : todo'[n].op # "return"
    BY <1>3, <1>4 DEF Ordinary, OrdinaryWrites, OrdinaryWrite
  <2> QED
    BY <1>2, <1>4, <2>1 DEF Settled, Ordinary
<1>5. CASE Stops /\ pc \notin {"finish", "stopping", "ended"}
  <2>1. PICK class \in Stop :
          /\ Raise(class)
          /\ class # "Suspended"
          /\ class = "Failed" => At("round") \/ At("answer") \/ At("prepare") \/ At("serve")
    BY <1>5 DEF Stops
  <2>2. ASSUME class = "Failed" PROVE \A s \in DOMAIN ids : s[1] \in Registered
    <3>1. CASE At("round") \/ At("answer")
      <4>1. "round" \in Place \ {"stopping", "ended"} /\ "answer" \in Place \ {"stopping", "ended"}
        BY DEF Place
      <4> QED
        BY <1>1, <3>1, <4>1, AtNeeded
    <3>2. CASE At("prepare") \/ At("serve")
      <4>1. "prepare" \in Place \ {"stopping", "ended"} /\ "serve" \in Place \ {"stopping", "ended"}
        BY DEF Place
      <4>2. DOMAIN ids = {<<batch.calls[i], i>> : i \in batch.open}
        BY <1>1, <3>2, <4>1, AtNeeded
      <4> QED
        BY <1>1, <4>2 DEF WorkInv, BatchOpen
    <3> QED
      BY <2>1, <2>2, <3>1, <3>2
  <2> QED
    BY <1>2, <1>5, <2>1, <2>2, RaisedSettled DEF Stop, SettledBy
<1>6. CASE ClosesLast /\ pc \notin {"finish", "stopping", "ended"}
  <2>1. PICK s \in Slot, class \in Stop :
          /\ CloseFailed(s, class) /\ UNCHANGED result
          /\ \/ At("select") /\ s = SelectSlot
             \/ (At("connect") \/ At("chunk")) /\ s = StreamSlot
             \/ At("verify") /\ s = VerifySlot /\ class = "Failed"
    BY <1>6 DEF ClosesLast
  <2>2. pc' = pc /\ todo' = <<Complete(s, "failed", "error"), Return(class)>>
    BY <2>1 DEF CloseFailed, Then
  <2>3. SettledBy(class, DOMAIN ids \ {s})
    <3>1. CASE At("select") \/ At("connect") \/ At("chunk")
      <4>1. {"select", "connect", "chunk"} \subseteq Place \ {"stopping", "ended"}
        BY DEF Place
      <4>2. DOMAIN ids = {s}
        BY <1>1, <2>1, <3>1, <4>1, AtNeeded DEF At
      <4> QED
        BY <4>2 DEF SettledBy
    <3>2. CASE At("verify") /\ s = VerifySlot /\ class = "Failed"
      <4>1. "verify" \in Place \ {"stopping", "ended"}
        BY DEF Place
      <4>2. DOMAIN ids = {VerifySlot} \cup {<<batch.calls[i], i>> : i \in batch.open}
        BY <1>1, <3>2, <4>1, AtNeeded
      <4>3. \A i \in batch.open : batch.calls[i] \in Registered
        BY <1>1 DEF WorkInv, BatchOpen
      <4> QED
        BY <3>2, <4>2, <4>3 DEF SettledBy
    <3> QED
      BY <2>1, <3>1, <3>2
  <2>4. /\ 1..Len(todo') = {1, 2} /\ todo'[1].op = "complete" /\ todo'[1].slot = s
        /\ todo'[2].op = "return" /\ todo'[2].class = class
    BY <2>2 DEF Complete, Return
  <2>5. Closing' = {s}
    <3>1. \A x \in Closing' : x = s
      BY <2>4 DEF Closing
    <3>2. s \in Closing'
      BY <2>4 DEF Closing
    <3> QED
      BY <3>1, <3>2
  <2>6. \A n \in 1..Len(todo') : todo'[n].op = "return" => SettledBy(todo'[n].class, DOMAIN ids' \ Closing')
    BY <1>2, <2>3, <2>4, <2>5
  <2> QED
    BY <1>2, <1>3, <1>6, <2>1, <2>2, <2>6 DEF Settled
<1>7. CASE GivesUp
  <2>1. /\ At("chunk") /\ pc' = "connect" /\ UNCHANGED result
        /\ todo' = <<Complete(StreamSlot, "failed", "empty"), Record("ModelTurnEmpty"), Return("Failed")>>
    BY <1>7 DEF GivesUp, EmptyTurn, Then
  <2>2. "chunk" \in Place \ {"stopping", "ended"}
    BY DEF Place
  <2>3. DOMAIN ids = {StreamSlot} /\ result = "running"
    BY <1>1, <1>3, <2>1, <2>2, AtNeeded DEF At
  <2>4. 1 \in 1..Len(todo') /\ todo'[1].op = "complete" /\ todo'[1].slot = StreamSlot
    BY <2>1 DEF Complete
  <2>5. DOMAIN ids' \ Closing' = {}
    BY <1>2, <2>3, <2>4 DEF Closing
  <2>6. \A n \in 1..Len(todo') : todo'[n].op = "return" => SettledBy(todo'[n].class, DOMAIN ids' \ Closing')
    BY <2>5 DEF SettledBy
  <2> QED
    BY <1>2, <2>1, <2>3, <2>6 DEF Settled
<1>8. CASE Leaves
  <2>1. pc' = "ended" /\ todo' = <<>> /\ result' = "rejected"
    BY <1>8 DEF Leaves
  <2>2. SettledBy(result', DOMAIN ids')
    BY <2>1 DEF SettledBy
  <2> QED
    BY <1>2, <2>1, <2>2 DEF Settled
<1>9. CASE Completes /\ (At("publish") \/ At("answer"))
  <2>1. pc' = "finish" /\ todo' = <<Record("Completed")>> /\ result' = "running"
    BY <1>3, <1>9 DEF Completes, At
  <2>2. \A n \in 1..Len(todo') : todo'[n].op = "record"
    BY <2>1 DEF Record
  <2> QED
    BY <1>2, <2>1, <2>2 DEF Settled
<1>10. CASE Finish
  <2>1. /\ At("finish") \/ At("stopping")
        /\ result' = IF pc = "finish" THEN "ok" ELSE result
        /\ pc' = "ended" /\ todo' = <<>>
    BY <1>10 DEF Finish, Then
  <2>2. CASE At("stopping")
    <3>1. result' = result /\ result # "ok" /\ SettledBy(result, DOMAIN ids)
      BY <1>1, <2>1, <2>2 DEF At, Settled, Shapes, Stop
    <3> QED
      BY <1>2, <2>1, <3>1 DEF Settled
  <2>3. CASE At("finish")
    <3>1. result' = "ok" /\ SettledBy("ok", DOMAIN ids')
      BY <2>1, <2>3 DEF At, SettledBy
    <3>2. "finish" \in Place \ {"stopping", "ended"}
      BY DEF Place
    <3>3. DOMAIN ids = NeededAt("finish", batch.calls, batch.open)
      BY <1>1, <2>3, <3>2, AtNeeded
    <3>4. ASSUME NEW s \in DOMAIN ids
          PROVE  /\ s[1] \in RuntimeTool
                 /\ \E m \in DOMAIN effects : effects[m].value = "published" /\ effects[m].slot[2] < s[2]
      <4>1. PICK i \in batch.open, j \in batch.open : j < i /\ s = <<batch.calls[i], i>>
        BY <3>3, <3>4 DEF NeededAt
      <4>2. s[1] \in RuntimeTool
        BY <1>1, <2>3, <4>1 DEF WorkInv, BatchOpen, At
      <4>3. PICK p \in batch.open : IsServed(p) /\ ValueIn(effects, CallSlot(p), round, "published")
        BY <2>3, <4>1 DEF Published, At
      <4>4. PICK m \in DOMAIN effects : effects[m].slot = CallSlot(p) /\ effects[m].value = "published"
        BY <4>3 DEF ValueIn
      <4>5. effects[m].slot[2] = p /\ s[2] = i
        BY <4>1, <4>4 DEF CallSlot
      <4>6. p <= j /\ p \in Nat /\ i \in Nat /\ j \in Nat
        BY <1>1, <4>1, <4>3, OpenSlots DEF IsServed
      <4> QED
        BY <4>1, <4>2, <4>4, <4>5, <4>6
    <3> QED
      BY <1>1, <1>2, <2>1, <3>1, <3>4 DEF Settled
  <2> QED
    BY <2>1, <2>2, <2>3
<1> QED
  BY <1>4, <1>5, <1>6, <1>7, <1>8, <1>9, <1>10, DecisionWays

LEMMA NextSettled ==
  ASSUME Numbered, Anew, Published, Settled, [Next]_vars
  PROVE  Settled'
<1>1. CASE Recv \/ Cancel \/ Close \/ Ended \/ UNCHANGED vars
  <2>1. UNCHANGED <<effects, pc, todo, ids, result, faults>>
    BY <1>1, ClientLeaves
  <2>2. Closing' = Closing /\ OpenHeld' = OpenHeld
    BY <2>1 DEF Closing, OpenHeld, Open
  <2> QED
    BY <2>1, <2>2 DEF Settled
<1> QED
  BY <1>1, PerformSettled, DecideSettled DEF Next, Runtime

LEMMA SettledEffects == WorkInv /\ Settled => EffectsSettled
<1> SUFFICES ASSUME WorkInv, Settled, pc = "ended", faults = 0
             PROVE  /\ result = "Suspended" => Open = {}
                    /\ result = "Failed" =>
                         \A k \in Open : effects[k].round = round /\ effects[k].slot[1] \in Registered
                    /\ result = "ok" => \A k \in Open :
                         /\ effects[k].round = round /\ effects[k].slot[1] \in RuntimeTool
                         /\ \E m \in DOMAIN effects : /\ effects[m].value = "published"
                                                      /\ effects[m].slot[2] < effects[k].slot[2]
  BY DEF EffectsSettled
<1>1. /\ \A k \in Open : \E s \in DOMAIN ids : ids[s] = k
      /\ SettledBy(result, DOMAIN ids)
  BY DEF Settled, OpenHeld
<1>2. \A s \in DOMAIN ids : effects[ids[s]].slot = s /\ effects[ids[s]].round = round
  BY DEF WorkInv, Held
<1>3. result = "Suspended" => Open = {}
  BY <1>1 DEF SettledBy
<1>4. result = "Failed" => \A k \in Open : effects[k].round = round /\ effects[k].slot[1] \in Registered
  BY <1>1, <1>2 DEF SettledBy
<1>5. ASSUME result = "ok", NEW k \in Open
      PROVE  /\ effects[k].round = round /\ effects[k].slot[1] \in RuntimeTool
             /\ \E m \in DOMAIN effects : /\ effects[m].value = "published"
                                          /\ effects[m].slot[2] < effects[k].slot[2]
  BY <1>1, <1>2, <1>5 DEF Settled
<1> QED
  BY <1>3, <1>4, <1>5

\* Work outside the task is under way only while its intent is stored and pending,
\* what the log and the checkpoint say of it is stored first, and a task that ended
\* by itself leaves open only what its outcome leaves open: nothing when it is
\* suspended, calls of its last batch when it fails, and calls behind the published
\* submission when it completes.
THEOREM TaskEffectsInOrder == Spec => []EffectsInOrder
<1> DEFINE I == Numbered /\ PendingNone /\ Published /\ Anew /\ Settled
<1>1. Init => I
  BY InitNumbered, InitPublished, InitAnew, InitSettled
<1>2. I /\ [Next]_vars => I'
  BY NextNumbered, NextPublished, NextAnew, NextSettled DEF Numbered
<1>3. I => EffectsInOrder
  BY WorkIntentFirst, OutcomeStored, SettledEffects DEF EffectsInOrder, Numbered
<1> QED
  BY <1>1, <1>2, <1>3, PTL DEF Spec

-----------------------------------------------------------------------------
(***************************************************************************)
(* The finalization budget.  Once it is spent the task is about to stop,   *)
(* has published, or serves the rest of a batch that remembers it.         *)
(***************************************************************************)
LedgerTyped ==
  /\ ledger.attempts \in Nat /\ ledger.seen \in [Draft \cup Prose -> Nat]
  /\ DOMAIN ledger = {"attempts", "seen"}

Spent ==
  \/ pc \in {"publish", "finish", "stopping", "ended"}
  \/ pc \in {"serve", "verify"} /\ batch.exhausted
NotSpent == LedgerTyped /\ (VerifyReports /\ Exhausted => Spent)

LEMMA InitNotSpent == Init => NotSpent
<1> SUFFICES ASSUME Init PROVE NotSpent
  OBVIOUS
<1>1. ledger = [attempts |-> 0, seen |-> [d \in Draft \cup Prose |-> 0]]
  BY DEF Init
<1>2. ~Exhausted
  <2>1. ledger.attempts = 0 /\ MaxFinalizationAttempts \in Nat \ {0}
    BY <1>1, BoundsAssumption DEF BoundsAssumption
  <2>2. \A d \in DOMAIN ledger.seen : ledger.seen[d] = 0
    BY <1>1
  <2> QED
    BY <2>1, <2>2 DEF Exhausted
<1>3. LedgerTyped
  BY <1>1 DEF LedgerTyped
<1> QED
  BY <1>2, <1>3 DEF NotSpent

\* A rejection spends the budget only when record_rejection says so.
LEMMA Rejected ==
  ASSUME LedgerTyped, NEW d, Reject(d)
  PROVE  LedgerTyped' /\ (~Exhausts(d) /\ ~Exhausted => ~Exhausted')
<1> DEFINE seen == ledger.seen
<1>1. ledger' = [attempts |-> ledger.attempts + 1, seen |-> [seen EXCEPT ![d] = @ + 1]]
  BY DEF Reject
<1>2. /\ ledger'.attempts = ledger.attempts + 1 /\ ledger'.seen = [seen EXCEPT ![d] = @ + 1]
      /\ DOMAIN ledger' = {"attempts", "seen"}
  BY <1>1
<1>3. seen \in [Draft \cup Prose -> Nat] /\ ledger.attempts \in Nat
  BY DEF LedgerTyped
<1>4. /\ DOMAIN ledger'.seen = Draft \cup Prose
      /\ \A e \in Draft \cup Prose : ledger'.seen[e] = IF e = d THEN seen[e] + 1 ELSE seen[e]
  BY <1>2, <1>3
<1>5. LedgerTyped'
  <2>1. ledger'.seen \in [Draft \cup Prose -> Nat]
    <3> DEFINE D == Draft \cup Prose
    <3> HIDE DEF D, seen
    <3>1. seen \in [D -> Nat] /\ ledger'.seen = [seen EXCEPT ![d] = @ + 1]
      BY <1>2, <1>3 DEF D
    <3>2. [seen EXCEPT ![d] = @ + 1] \in [D -> Nat]
      <4>1. CASE d \in D
        <5>1. seen[d] + 1 \in Nat
          BY <3>1, <4>1
        <5> QED
          BY <3>1, <5>1
      <4>2. CASE d \notin D
        <5>1. [seen EXCEPT ![d] = @ + 1] = seen
          BY <3>1, <4>2
        <5> QED
          BY <3>1, <5>1
      <4> QED
        BY <4>1, <4>2
    <3> QED
      BY <3>1, <3>2 DEF D
  <2> QED
    BY <1>2, <1>3, <2>1 DEF LedgerTyped
<1>6. ASSUME ~Exhausts(d), ~Exhausted PROVE ~Exhausted'
  <2>1. ~(ledger'.attempts >= MaxFinalizationAttempts)
    BY <1>2, <1>6 DEF Exhausts
  <2>2. ASSUME NEW e \in DOMAIN ledger'.seen PROVE ~(ledger'.seen[e] > 2)
    BY <1>3, <1>4, <1>6 DEF Exhausts, Exhausted
  <2> QED
    BY <2>1, <2>2 DEF Exhausted
<1> QED
  BY <1>5, <1>6

\* A refusal is remembered by the batch when it spends the budget.
LEMMA RefusedSpent ==
  ASSUME Typed, NotSpent, pc \in {"serve", "verify"}, NEW i, NEW d, NEW writes, Refuse(i, d, writes)
  PROVE  NotSpent'
<1>1. pc' = "serve" /\ Reject(d) /\ batch' = Served(i, Exhausts(d))
  BY DEF Refuse, Then
<1>2. batch'.exhausted <=> batch.exhausted \/ Exhausts(d)
  BY <1>1 DEF Served, TakenOut, Typed, RunTyped, BatchTyped, Batch
<1>3. LedgerTyped' /\ (~Exhausts(d) /\ ~Exhausted => ~Exhausted')
  BY <1>1, Rejected DEF NotSpent
<1> QED
  BY <1>1, <1>2, <1>3 DEF NotSpent, Spent

LEMMA SameSpent ==
  ASSUME NotSpent, UNCHANGED ledger, Exhausted => Spent', VerifyReports
  PROVE  NotSpent'
BY DEF NotSpent, LedgerTyped, Exhausted

LEMMA DecideSpent ==
  ASSUME Typed, NotSpent, Decide, VerifyReports
  PROVE  NotSpent'
<1>1. CASE SubmitReport
  <2>1. pc = "serve"
    BY <1>1 DEF SubmitReport, At
  <2>2. \/ \E i, d, writes : Refuse(i, d, writes)
        \/ UNCHANGED ledger /\ pc' = "verify" /\ \E d : batch' = [batch EXCEPT !.draft = d]
    BY <1>1 DEF SubmitReport, Then
  <2>3. CASE UNCHANGED ledger /\ pc' = "verify" /\ \E d : batch' = [batch EXCEPT !.draft = d]
    <3>1. batch'.exhausted = batch.exhausted
      BY <2>3 DEF Typed, RunTyped, BatchTyped, Batch
    <3> QED
      BY <2>1, <2>3, <3>1, SameSpent DEF NotSpent, Spent
  <2> QED
    BY <2>1, <2>2, <2>3, RefusedSpent
<1>2. CASE VerifierAnswers
  <2>1. pc = "verify"
    BY <1>2 DEF VerifierAnswers, At
  <2>2. \/ \E i, d, writes : Refuse(i, d, writes)
        \/ UNCHANGED ledger /\ pc' = "publish"
        \/ UNCHANGED <<ledger, batch, pc>>
    BY <1>2 DEF VerifierAnswers, Then, CloseFailed
  <2> QED
    BY <2>1, <2>2, RefusedSpent, SameSpent DEF NotSpent, Spent
<1>3. CASE SearchEvidence
  <2>1. pc = "serve" /\ UNCHANGED <<pc, ledger>> /\ \E i : batch' = Served(i, FALSE)
    BY <1>3 DEF SearchEvidence, Then, At
  <2>2. batch'.exhausted = batch.exhausted
    BY <2>1 DEF Served, TakenOut, Typed, RunTyped, BatchTyped, Batch
  <2> QED
    BY <2>1, <2>2, SameSpent DEF NotSpent, Spent
<1>4. CASE Answer
  <2>1. pc = "answer" /\ ~Exhausted
    BY <1>4 DEF Answer, At, NotSpent, Spent
  <2>2. PICK p \in Prose : Reject(p) /\ (pc' = "stopping" \/ ~Exhausts(p))
    BY <1>4, <2>1 DEF Answer, ProseIsReport, Raise
  <2> QED
    BY <2>1, <2>2, Rejected DEF NotSpent, Spent
<1>5. CASE ServeCancelled \/ BatchEnds \/ Publish \/ Finish
  <2>1. UNCHANGED ledger /\ (pc' \in {"finish", "stopping", "ended"} \/ (pc = "serve" /\ ~batch.exhausted))
    BY <1>5 DEF ServeCancelled, BatchEnds, Publish, Finish, Then, Raise, At
  <2> QED
    BY <2>1, SameSpent DEF NotSpent, Spent
<1>6. CASE \/ CreateTask \/ Plan \/ SelectModel \/ StartRound \/ Connect
           \/ AwaitChunk \/ ChunkArrives \/ StreamFails \/ EmptyTurn \/ CallTurn \/ TextTurn
           \/ PrepareCall \/ Prepared \/ ToolReturns \/ Collected
  <2>1. /\ UNCHANGED ledger
        /\ pc \in {"create", "plan", "select", "round", "connect", "stream", "chunk", "prepare", "collect"}
    BY <1>6 DEF CreateTask, Plan, SelectModel, StartRound, Connect, AwaitChunk, ChunkArrives, StreamFails,
                EmptyTurn, CallTurn, TextTurn, PrepareCall, Prepared, ToolReturns, Collected, At
  <2> QED
    BY <2>1, SameSpent DEF NotSpent, Spent
<1> QED
  BY <1>1, <1>2, <1>3, <1>4, <1>5, <1>6 DEF Decide

LEMMA NextNotSpent ==
  ASSUME WorkInv, NotSpent, [Next]_vars, VerifyReports
  PROVE  NotSpent'
<1>1. CASE Perform
  <2>1. UNCHANGED <<ledger, batch>>
    BY <1>1, PerformEnds DEF Perform, AppendEvent, PutCheckpoint, Send, BeginEffect, CompleteEffect,
                             KeepCompleted, ReturnError
  <2>2. UNCHANGED pc \/ pc' \in {"stopping", "ended"}
    BY <1>1, PerformEnds DEF Advance, Raise
  <2> QED
    BY <2>1, <2>2, SameSpent DEF NotSpent, Spent
<1>2. CASE Recv \/ Cancel \/ Close \/ Ended \/ UNCHANGED vars
  <2>1. UNCHANGED <<pc, ledger, batch>>
    BY <1>2, ClientLeaves
  <2> QED
    BY <2>1, SameSpent DEF NotSpent, Spent
<1> QED
  BY <1>1, <1>2, DecideSpent DEF Next, Runtime, WorkInv

\* Only the head of the loop asks for another round.
LEMMA RoundAsked ==
  ASSUME WorkInv, [Next]_vars, pc # "round"
  PROVE  round' = round
<1>1. CASE Decide
  BY <1>1 DEF Decide, CreateTask, Plan, SelectModel, StartRound, Connect, AwaitChunk, ChunkArrives, StreamFails,
              EmptyTurn, CallTurn, TextTurn, Answer, PrepareCall, Prepared, ToolReturns, Collected,
              SearchEvidence, SubmitReport, VerifierAnswers, Publish, ServeCancelled, BatchEnds, Finish, At
<1>2. CASE Recv \/ Cancel \/ Close \/ Ended \/ UNCHANGED vars
  BY <1>2, ClientLeaves
<1> QED
  BY <1>1, <1>2, PerformEnds DEF Next, Runtime

\* Once the finalization budget is spent or a draft came a third time, no
\* further round is asked of the model, whatever the rest of the batch does.
THEOREM TaskNoRoundAfterExhaustion == Spec => NoRoundAfterExhaustion
<1> DEFINE I == WorkInv /\ (VerifyReports => NotSpent)
<1>1. Init => I
  BY InitWork, InitNotSpent
<1>2. I /\ [Next]_vars => I'
  BY NextWork, NextNotSpent
<1>3. I /\ [Next]_vars => [VerifyReports /\ Exhausted => round' = round]_vars
  <2> SUFFICES ASSUME I, [Next]_vars, VerifyReports, Exhausted PROVE round' = round
    OBVIOUS
  <2>1. pc # "round"
    BY DEF NotSpent, Spent
  <2> QED
    BY <2>1, RoundAsked
<1> QED
  BY <1>1, <1>2, <1>3, PTL DEF Spec, NoRoundAfterExhaustion

-----------------------------------------------------------------------------
(***************************************************************************)
(* Every call of a batch is answered once.                                 *)
(***************************************************************************)
\* A set of small numbers that is not empty has a largest, and a smallest.
LEMMA SmallestOf ==
  ASSUME NEW T \in SUBSET Nat, T # {}
  PROVE  \E x \in T : \A y \in T : x <= y
<1>1. PICK x \in T : \A y \in T : ~(<<y, x>> \in OpToRel(<, Nat))
  BY NatLessThanWellFounded, WFMin
<1>2. ASSUME NEW y \in T PROVE x <= y
  <2>1. x \in Nat /\ y \in Nat /\ ~(y < x)
    BY <1>1 DEF OpToRel
  <2> QED
    BY <2>1
<1> QED
  BY <1>2

LEMMA LargestOf ==
  ASSUME NEW k \in Nat, NEW S \in SUBSET (1..k), S # {}
  PROVE  \E x \in S : \A y \in S : y <= x
<1> DEFINE T == {k - i : i \in S}
<1>1. T \in SUBSET Nat /\ T # {}
  <2>1. \A i \in S : k - i \in Nat
    OBVIOUS
  <2>2. T \in SUBSET Nat
    BY <2>1
  <2>3. PICK i \in S : TRUE
    OBVIOUS
  <2>4. k - i \in T
    BY <2>3
  <2> QED
    BY <2>2, <2>4
<1>2. PICK x \in S : \A y \in S : k - x <= k - y
  <2>1. PICK z \in T : \A y \in T : z <= y
    BY <1>1, SmallestOf
  <2> QED
    BY <2>1
<1> QED
  BY <1>2

Increasing(s, n) == \A i, j \in 1..n : i < j => s[i] < s[j]
HasOrder(S) == \E s \in [1..Cardinality(S) -> S] : Increasing(s, Cardinality(S))

\* A finite set of numbers can be listed in increasing order: a smallest one
\* that could not would be, without its largest member, a smaller one.
LEMMA Orderable ==
  ASSUME NEW k \in Nat, NEW S \in SUBSET (1..k)
  PROVE  HasOrder(S)
<1> DEFINE Bad == {n \in Nat : \E T \in SUBSET (1..k) : Cardinality(T) = n /\ ~HasOrder(T)}
<1>1. \A T \in SUBSET (1..k) : IsFiniteSet(T) /\ Cardinality(T) \in Nat
  <2>1. IsFiniteSet(1..k)
    BY FS_Interval
  <2> QED
    BY <2>1, FS_Subset, FS_CardinalityType
<1>2. ASSUME Bad # {} PROVE FALSE
  <2>1. PICK n \in Bad : \A m \in Bad : n <= m
    BY <1>2, SmallestOf
  <2>2. PICK T \in SUBSET (1..k) : Cardinality(T) = n /\ ~HasOrder(T)
    BY <2>1
  <2>3. T # {}
    <3> SUFFICES ASSUME T = {} PROVE HasOrder(T)
      BY <2>2
    <3>1. Cardinality(T) = 0
      BY FS_EmptySet
    <3> DEFINE none == [i \in 1..0 |-> 0]
    <3>2. none \in [1..Cardinality(T) -> T] /\ Increasing(none, Cardinality(T))
      BY <3>1 DEF Increasing
    <3> QED
      BY <3>2 DEF HasOrder
  <2>4. PICK x \in T : \A y \in T : y <= x
    BY <2>3, LargestOf
  <2> DEFINE U == T \ {x}
  <2>5. U \in SUBSET (1..k) /\ Cardinality(U) = n - 1 /\ n \in Nat /\ n - 1 \in Nat
    <3>1. IsFiniteSet(T) /\ Cardinality(T) \in Nat /\ Cardinality(T) = n
      BY <1>1, <2>2
    <3>2. Cardinality(U) = n - 1
      BY <3>1, <2>4, FS_RemoveElement
    <3>3. Cardinality(U) \in Nat
      BY <1>1
    <3> QED
      BY <3>1, <3>2, <3>3
  <2>6. HasOrder(U)
    <3> SUFFICES ASSUME ~HasOrder(U) PROVE FALSE
      OBVIOUS
    <3>1. n - 1 \in Bad
      BY <2>5
    <3>2. n <= n - 1
      BY <2>1, <3>1
    <3> QED
      BY <2>5, <3>2
  <2>7. PICK s \in [1..(n - 1) -> U] : Increasing(s, n - 1)
    BY <2>5, <2>6 DEF HasOrder
  <2> DEFINE t == [i \in 1..n |-> IF i = n THEN x ELSE s[i]]
  <2>8. t \in [1..n -> T]
    <3>1. \A i \in 1..n : i = n \/ i \in 1..(n - 1)
      BY <2>5
    <3> QED
      BY <2>4, <2>7, <3>1
  <2>9. ASSUME NEW i \in 1..n, NEW j \in 1..n, i < j PROVE t[i] < t[j]
    <3>1. i \in 1..(n - 1) /\ t[i] = s[i] /\ s[i] \in U
      BY <2>5, <2>7, <2>9
    <3>2. CASE j = n
      <4>1. s[i] \in T /\ s[i] # x /\ s[i] <= x
        BY <2>4, <3>1
      <4>2. s[i] \in Int /\ x \in Int
        <5>1. \A y \in T : y \in Int
          BY <2>2
        <5> QED
          BY <2>4, <4>1, <5>1
      <4>3. t[j] = x
        BY <3>2
      <4> HIDE DEF t
      <4>4. s[i] < x
        BY <4>1, <4>2
      <4> QED
        BY <3>1, <4>3, <4>4
    <3>3. CASE j # n
      <4>1. j \in 1..(n - 1) /\ t[j] = s[j]
        BY <2>5, <3>3
      <4> QED
        BY <2>7, <2>9, <3>1, <4>1 DEF Increasing
    <3> QED
      BY <3>2, <3>3
  <2>10. Increasing(t, n)
    <3> HIDE DEF t
    <3> QED
      BY <2>9 DEF Increasing
  <2> QED
    BY <2>2, <2>8, <2>10 DEF HasOrder
<1> QED
  BY <1>1, <1>2

\* Sorted lists each member of a set once, in increasing order.
LEMMA SortedLists ==
  ASSUME NEW k \in Nat, NEW S \in SUBSET (1..k)
  PROVE  /\ Sorted(S) \in Seq(S)
         /\ Increasing(Sorted(S), Len(Sorted(S)))
         /\ \A i \in S : \E m \in 1..Len(Sorted(S)) : Sorted(S)[m] = i
<1> DEFINE n == Cardinality(S)
           s == Sorted(S)
<1>1. IsFiniteSet(S) /\ n \in Nat
  <2>1. IsFiniteSet(1..k)
    BY FS_Interval
  <2> QED
    BY <2>1, FS_Subset, FS_CardinalityType
<1>2. s \in [1..n -> S] /\ Increasing(s, n)
  BY Orderable DEF HasOrder, Sorted, Increasing
<1> HIDE DEF s
<1>3. s \in Seq(S) /\ Len(s) = n
  <2>1. s \in Seq(S)
    BY <1>1, <1>2, SeqDef
  <2>2. Len(s) \in Nat /\ DOMAIN s = 1..Len(s) /\ DOMAIN s = 1..n
    BY <1>2, <2>1, LenProperties
  <2>3. \A a, b \in Nat : 1..a = 1..b => a <= b
    <3> SUFFICES ASSUME NEW a \in Nat, NEW b \in Nat, 1..a = 1..b, a > b PROVE FALSE
      OBVIOUS
    <3>1. a \in 1..a
      OBVIOUS
    <3> QED
      BY <3>1
  <2> QED
    BY <1>1, <2>1, <2>2, <2>3
<1>4. s \in Injection(1..n, S)
  <2>1. ASSUME NEW i \in 1..n, NEW j \in 1..n, s[i] = s[j] PROVE i = j
    <3>1. s[i] \in Int /\ s[j] \in Int
      <4>1. s[i] \in S /\ s[j] \in S
        BY <1>2
      <4>2. \A y \in S : y \in Int
        OBVIOUS
      <4> QED
        BY <4>1, <4>2
    <3>2. ~(i < j) /\ ~(j < i)
      BY <1>2, <2>1, <3>1 DEF Increasing
    <3> QED
      BY <1>1, <3>2
  <2> QED
    BY <1>2, <2>1 DEF Injection, IsInjective
<1>5. Cardinality(1..n) = n
  BY <1>1, FS_Interval
<1>6. s \in Surjection(1..n, S)
  BY <1>1, <1>4, <1>5, FS_Injection
<1>7. \A i \in S : \E m \in 1..n : s[m] = i
  BY <1>6 DEF Surjection
<1> QED
  BY <1>2, <1>3, <1>7 DEF s

-----------------------------------------------------------------------------
\* While a batch is executed, its calls so far are open or done, and not both.
Batching == {"prepare", "collect", "serve", "verify"}
CallsKept ==
  pc \in Batching =>
    /\ batch.open \cup batch.done = 1..(batch.next - 1) /\ batch.open \cap batch.done = {}
    /\ pc # "prepare" => batch.next = Len(batch.calls) + 1
    /\ pc \in {"prepare", "collect"} => \A i \in batch.done : ~ByRuntime(i)

\* A list has each member of a set once, those of the runtime's own tools last.
ListsOnce(l, S) ==
  /\ l \in Seq(S)
  /\ \A i \in S : \E m \in 1..Len(l) : \A n \in 1..Len(l) : l[n] = i <=> n = m
InCallOrder(l) ==
  \A m, n \in 1..Len(l) : m < n => l[m] < l[n] \/ (ByRuntime(l[n]) /\ ~ByRuntime(l[m]))

\* The messages are those of the calls done; the runtime's own calls that are
\* still open come behind all of them.
MessagesKept ==
  pc \in {"serve", "verify"} =>
    /\ ListsOnce(batch.messages, batch.done) /\ InCallOrder(batch.messages)
    /\ \A i \in batch.open, m \in 1..Len(batch.messages) :
         ByRuntime(batch.messages[m]) => batch.messages[m] < i

AnswersKept == CallsKept /\ MessagesKept

LEMMA InitAnswersKept == Init => AnswersKept
BY DEF Init, AnswersKept, CallsKept, MessagesKept, Batching

\* The batch is what it was, and the place.
LEMMA SameAnswers ==
  ASSUME AnswersKept, UNCHANGED batch, pc' = pc \/ pc' \notin Batching
  PROVE  AnswersKept'
<1>1. CASE pc' \notin Batching
  BY <1>1 DEF AnswersKept, CallsKept, MessagesKept, Batching
<1>2. CASE pc' = pc
  <2>1. CallsKept'
    BY <1>2 DEF AnswersKept, CallsKept, Batching, ByRuntime
  <2>2. MessagesKept'
    <3>1. /\ ListsOnce(batch.messages, batch.done)' <=> ListsOnce(batch.messages, batch.done)
          /\ InCallOrder(batch.messages)' <=> InCallOrder(batch.messages)
      BY DEF ListsOnce, InCallOrder, ByRuntime
    <3>2. \A i : ByRuntime(i)' <=> ByRuntime(i)
      BY DEF ByRuntime
    <3> QED
      BY <1>2, <3>1, <3>2 DEF AnswersKept, MessagesKept
  <2> QED
    BY <2>1, <2>2 DEF AnswersKept
<1> QED
  BY <1>1, <1>2

\* What the fields of the batch become.
LEMMA BatchFields ==
  ASSUME Typed
  PROVE  /\ \A n, d : LET new == [batch EXCEPT !.next = n, !.done = d] IN
              /\ new.calls = batch.calls /\ new.next = n /\ new.open = batch.open
              /\ new.done = d /\ new.messages = batch.messages
         /\ \A n, o : LET new == [batch EXCEPT !.next = n, !.open = o] IN
              /\ new.calls = batch.calls /\ new.next = n /\ new.open = o
              /\ new.done = batch.done /\ new.messages = batch.messages
         /\ \A i : /\ TakenOut(i).calls = batch.calls /\ TakenOut(i).next = batch.next
                   /\ TakenOut(i).open = batch.open \ {i} /\ TakenOut(i).done = batch.done \cup {i}
                   /\ TakenOut(i).messages = batch.messages
         /\ \A m : LET new == [batch EXCEPT !.messages = m] IN
              /\ new.calls = batch.calls /\ new.next = batch.next /\ new.open = batch.open
              /\ new.done = batch.done /\ new.messages = m
         /\ \A d : LET new == [batch EXCEPT !.draft = d] IN
              /\ new.calls = batch.calls /\ new.next = batch.next /\ new.open = batch.open
              /\ new.done = batch.done /\ new.messages = batch.messages
         /\ \A i, x : /\ Served(i, x).calls = batch.calls /\ Served(i, x).next = batch.next
                      /\ Served(i, x).open = batch.open \ {i} /\ Served(i, x).done = batch.done \cup {i}
                      /\ Served(i, x).messages = Append(batch.messages, i)
<1>1. PICK M : batch \in Batch(M)
  BY DEF Typed, RunTyped, BatchTyped
<1>2. \A i : /\ TakenOut(i).calls = batch.calls /\ TakenOut(i).next = batch.next
             /\ TakenOut(i).open = batch.open \ {i} /\ TakenOut(i).done = batch.done \cup {i}
             /\ TakenOut(i).messages = batch.messages
  BY <1>1 DEF TakenOut, Batch
<1>3. \A i : \E M2 : TakenOut(i) \in [calls : Seq(Tool), next : Nat \ {0}, open : M2, done : M2, messages : M2,
                                     exhausted : BOOLEAN, draft : Draft \cup {NoSlot}]
  <2> SUFFICES ASSUME NEW i PROVE \E M2 : TakenOut(i) \in
          [calls : Seq(Tool), next : Nat \ {0}, open : M2, done : M2, messages : M2,
           exhausted : BOOLEAN, draft : Draft \cup {NoSlot}]
    OBVIOUS
  <2> DEFINE M2 == {batch.open \ {i}, batch.done \cup {i}, batch.messages}
  <2>1. TakenOut(i) \in [calls : Seq(Tool), next : Nat \ {0}, open : M2, done : M2, messages : M2,
                         exhausted : BOOLEAN, draft : Draft \cup {NoSlot}]
    BY <1>1 DEF TakenOut, Batch
  <2> QED
    BY <2>1
<1>4. \A i, x : /\ Served(i, x).calls = batch.calls /\ Served(i, x).next = batch.next
                /\ Served(i, x).open = batch.open \ {i} /\ Served(i, x).done = batch.done \cup {i}
                /\ Served(i, x).messages = Append(batch.messages, i)
  BY <1>2, <1>3 DEF Served
<1> QED
  BY <1>1, <1>2, <1>4 DEF Batch

\* A list in increasing order has nothing twice.
LEMMA SortedOnce ==
  ASSUME NEW k \in Nat, NEW S \in SUBSET (1..k), \A i \in S : ~ByRuntime(i)
  PROVE  ListsOnce(Sorted(S), S) /\ InCallOrder(Sorted(S))
<1> DEFINE s == Sorted(S)
<1>1. s \in Seq(S) /\ Increasing(s, Len(s)) /\ \A i \in S : \E m \in 1..Len(s) : s[m] = i
  BY SortedLists
<1> HIDE DEF s
<1>2. Len(s) \in Nat /\ \A m \in 1..Len(s) : s[m] \in S
  BY <1>1, LenProperties, ElementOfSeq
<1>3. \A m \in 1..Len(s) : s[m] \in Int
  <2>1. \A y \in S : y \in Int
    OBVIOUS
  <2> QED
    BY <1>2, <2>1
<1>4. ASSUME NEW m \in 1..Len(s), NEW n \in 1..Len(s), s[n] = s[m] PROVE n = m
  <2>1. ~(m < n) /\ ~(n < m)
    BY <1>1, <1>3, <1>4 DEF Increasing
  <2> QED
    BY <1>2, <2>1
<1>5. ListsOnce(s, S)
  BY <1>1, <1>4 DEF ListsOnce
<1>6. InCallOrder(s)
  BY <1>1, <1>2 DEF InCallOrder, Increasing
<1> QED
  BY <1>5, <1>6 DEF s

\* A call of the runtime's own comes last.
LEMMA AppendedOnce ==
  ASSUME NEW S \in SUBSET Nat, NEW l, ListsOnce(l, S), InCallOrder(l),
         NEW i \in Nat, i \notin S, ByRuntime(i),
         \A m \in 1..Len(l) : ByRuntime(l[m]) => l[m] < i
  PROVE  /\ ListsOnce(Append(l, i), S \cup {i}) /\ InCallOrder(Append(l, i))
         /\ Len(l) \in Nat /\ Len(Append(l, i)) = Len(l) + 1 /\ Append(l, i)[Len(l) + 1] = i
         /\ \A m \in 1..Len(l) : Append(l, i)[m] = l[m] /\ l[m] \in S
<1> DEFINE t == Append(l, i)
<1>1. l \in Seq(S) /\ Len(l) \in Nat /\ \A m \in 1..Len(l) : l[m] \in S
  BY LenProperties, ElementOfSeq DEF ListsOnce
<1>2. t \in Seq(S \cup {i}) /\ Len(t) = Len(l) + 1 /\ t[Len(l) + 1] = i /\ \A m \in 1..Len(l) : t[m] = l[m]
  <2>1. l \in Seq(S \cup {i}) /\ i \in S \cup {i}
    BY <1>1
  <2> QED
    BY <2>1, AppendProperties
<1> HIDE DEF t
<1>3. \A m \in 1..Len(t) : m = Len(l) + 1 \/ m \in 1..Len(l)
  BY <1>1, <1>2
<1>4. ASSUME NEW j \in S \cup {i} PROVE \E m \in 1..Len(t) : \A n \in 1..Len(t) : t[n] = j <=> n = m
  <2>1. CASE j = i
    <3>1. Len(l) + 1 \in 1..Len(t)
      BY <1>1, <1>2
    <3>2. \A n \in 1..Len(t) : t[n] = i <=> n = Len(l) + 1
      BY <1>1, <1>2, <1>3
    <3> QED
      BY <2>1, <3>1, <3>2
  <2>2. CASE j # i
    <3>1. PICK m \in 1..Len(l) : \A n \in 1..Len(l) : l[n] = j <=> n = m
      BY <2>2 DEF ListsOnce
    <3>2. m \in 1..Len(t) /\ m # Len(l) + 1
      BY <1>1, <1>2, <3>1
    <3>3. \A n \in 1..Len(t) : t[n] = j <=> n = m
      BY <1>1, <1>2, <1>3, <2>2, <3>1, <3>2
    <3> QED
      BY <3>2, <3>3
  <2> QED
    BY <2>1, <2>2
<1>5. ListsOnce(t, S \cup {i})
  BY <1>2, <1>4 DEF ListsOnce
<1>6. InCallOrder(t)
  <2> SUFFICES ASSUME NEW m \in 1..Len(t), NEW n \in 1..Len(t), m < n
               PROVE  t[m] < t[n] \/ (ByRuntime(t[n]) /\ ~ByRuntime(t[m]))
    BY DEF InCallOrder
  <2>1. m \in 1..Len(l)
    BY <1>1, <1>2
  <2>2. CASE n \in 1..Len(l)
    BY <1>2, <2>1, <2>2 DEF InCallOrder
  <2>3. CASE n = Len(l) + 1
    BY <1>2, <2>1, <2>3
  <2> QED
    BY <1>3, <2>2, <2>3
<1> QED
  BY <1>1, <1>2, <1>5, <1>6 DEF t

-----------------------------------------------------------------------------
\* The lists of writes a decision leaves, as far as outcomes are concerned.
OutcomeKind == {"ToolCompleted", "ToolFailed"}
IsOutcome(e, s, r) == e.kind \in OutcomeKind /\ e.slot = s /\ e.round = r
Silent(w) == w.op = "record" => w.event.kind \notin OutcomeKind
NoneIn(l) == \A n \in 1..Len(l) : Silent(l[n])
OnlyIn(l, s, r) ==
  \E n \in 1..Len(l) : /\ l[n].op = "record" /\ IsOutcome(l[n].event, s, r)
                       /\ \A m \in 1..Len(l) : m # n => Silent(l[m])

LEMMA OnlyLists ==
  ASSUME NEW s, NEW r, NEW x, x.op = "record", IsOutcome(x.event, s, r),
         NEW a, NEW b, NEW c, Silent(a), Silent(b), Silent(c)
  PROVE  /\ OnlyIn(<<x>>, s, r) /\ OnlyIn(<<a, x>>, s, r) /\ OnlyIn(<<a, x, b>>, s, r)
         /\ OnlyIn(<<a, b, x>>, s, r) /\ OnlyIn(<<a, x, b, c>>, s, r) /\ OnlyIn(<<a, b, c, x>>, s, r)
<1> DEFINE l1 == <<x>>
           l2 == <<a, x>>
           l3 == <<a, x, b>>
           l4 == <<a, b, x>>
           l5 == <<a, x, b, c>>
           l6 == <<a, b, c, x>>
<1>1. /\ 1..Len(l1) = {1} /\ l1[1] = x
      /\ 1..Len(l2) = {1, 2} /\ l2[1] = a /\ l2[2] = x
      /\ 1..Len(l3) = {1, 2, 3} /\ l3[1] = a /\ l3[2] = x /\ l3[3] = b
      /\ 1..Len(l4) = {1, 2, 3} /\ l4[1] = a /\ l4[2] = b /\ l4[3] = x
  OBVIOUS
<1>2. /\ 1..Len(l5) = {1, 2, 3, 4} /\ l5[1] = a /\ l5[2] = x /\ l5[3] = b /\ l5[4] = c
      /\ 1..Len(l6) = {1, 2, 3, 4} /\ l6[1] = a /\ l6[2] = b /\ l6[3] = c /\ l6[4] = x
  OBVIOUS
<1> HIDE DEF l1, l2, l3, l4, l5, l6
<1>3. OnlyIn(l1, s, r) /\ OnlyIn(l2, s, r)
  BY <1>1 DEF OnlyIn
<1>5. OnlyIn(l3, s, r)
  BY <1>1 DEF OnlyIn
<1>6. OnlyIn(l4, s, r)
  BY <1>1 DEF OnlyIn
<1>4. OnlyIn(l5, s, r) /\ OnlyIn(l6, s, r)
  BY <1>2 DEF OnlyIn
<1> QED
  BY <1>3, <1>4, <1>5, <1>6 DEF l1, l2, l3, l4, l5, l6

LEMMA OutcomeKinds ==
  ASSUME NEW i
  PROVE  /\ \A k \in OutcomeKind : /\ RecordCall(k, i).op = "record"
                                  /\ IsOutcome(RecordCall(k, i).event, CallSlot(i), round)
         /\ \A k : k \notin OutcomeKind => Silent(Record(k)) /\ Silent(RecordCall(k, i))
         /\ \A s, status, v : Silent(Complete(s, status, v))
         /\ \A s : Silent(Begin(s)) /\ Silent(Keep(i)) /\ \A class : Silent(Return(class))
BY DEF RecordCall, Record, Event, IsOutcome, Silent, Complete, Begin, Keep, Return

\* What a decision does to the calls of the batch: it ends or begins it, leaves
\* them, or answers one of them.
Answering ==
  \/ pc' \notin Batching
  \/ CallTurn
  \/ /\ pc \in Batching /\ batch'.calls = batch.calls
     /\ \/ batch'.done = batch.done /\ NoneIn(todo')
        \/ \E i \in 1..Len(batch.calls) :
             i \notin batch.done /\ batch'.done = batch.done \cup {i} /\ OnlyIn(todo', CallSlot(i), round)
LEMMA OutsideAnswers ==
  ASSUME \/ CreateTask \/ Plan \/ SelectModel \/ StartRound \/ Connect \/ AwaitChunk \/ ChunkArrives
         \/ StreamFails \/ EmptyTurn \/ TextTurn \/ Answer \/ Publish \/ ServeCancelled \/ BatchEnds
         \/ Finish
  PROVE  pc' \notin Batching
<1>1. CASE \/ CreateTask \/ Plan \/ SelectModel \/ StartRound \/ Connect \/ AwaitChunk \/ ChunkArrives
          \/ StreamFails
  BY <1>1 DEF CreateTask, Plan, SelectModel, StartRound, Connect, AwaitChunk, ChunkArrives, StreamFails,
              Then, Raise, CloseFailed, At, Batching
<1>2. CASE EmptyTurn \/ TextTurn \/ Answer \/ Publish \/ ServeCancelled \/ BatchEnds \/ Finish
  BY <1>2 DEF EmptyTurn, TextTurn, Answer, Publish, ServeCancelled, BatchEnds, Finish,
              Then, Raise, CloseFailed, At, Batching
<1> QED
  BY <1>1, <1>2

\* A new batch has no answers.
LEMMA CallTurnAnswers ==
  ASSUME CallTurn
  PROVE  AnswersKept'
<1>1. PICK c : batch' = [EmptyBatch EXCEPT !.calls = c]
  BY DEF CallTurn
<1>2. pc' = "prepare" /\ batch'.next = 1 /\ batch'.open = {} /\ batch'.done = {}
  BY <1>1 DEF CallTurn, Then, EmptyBatch
<1> QED
  BY <1>2 DEF AnswersKept, CallsKept, MessagesKept, Batching

\* While calls are taken up nothing is served yet.
LEMMA EarlyAnswers ==
  ASSUME pc' \in {"prepare", "collect"}, batch'.calls = batch.calls,
         batch'.open \cup batch'.done = 1..(batch'.next - 1), batch'.open \cap batch'.done = {},
         pc' = "collect" => batch'.next = Len(batch.calls) + 1,
         \A i \in batch'.done : ~ByRuntime(i)
  PROVE  AnswersKept'
<1>1. \A i : ByRuntime(i)' <=> ByRuntime(i)
  BY DEF ByRuntime
<1>2. CallsKept'
  BY <1>1 DEF CallsKept, Batching
<1>3. MessagesKept'
  BY DEF MessagesKept
<1> QED
  BY <1>2, <1>3 DEF AnswersKept

\* The numbers of the calls.
LEMMA CallNumbers ==
  ASSUME Typed
  PROVE  /\ Len(batch.calls) \in Nat /\ batch.next \in Nat \ {0} /\ batch.next <= Len(batch.calls) + 1
         /\ batch.open \subseteq 1..Len(batch.calls) /\ batch.done \subseteq 1..Len(batch.calls)
         /\ batch.open \subseteq Nat /\ batch.done \subseteq Nat
<1>1. PICK M : batch \in Batch(M)
  BY DEF Typed, RunTyped, BatchTyped
<1>2. /\ Len(batch.calls) \in Nat /\ batch.next \in Nat \ {0}
      /\ batch.open \subseteq Nat /\ batch.done \subseteq Nat
  BY <1>1, LenProperties DEF Batch
<1> QED
  BY <1>2 DEF Typed, TypeOK, RunTyped

LEMMA PrepareAnswers ==
  ASSUME WorkInv, AnswersKept, PrepareCall
  PROVE  AnswersKept' /\ Answering
<1> DEFINE i == batch.next
<1>1. Typed /\ pc = "prepare" /\ i <= Len(batch.calls)
  BY DEF WorkInv, PrepareCall, At
<1>2. Len(batch.calls) \in Nat /\ i \in Nat \ {0} /\ i \in 1..Len(batch.calls)
  BY <1>1, CallNumbers
<1>3. /\ batch.open \cup batch.done = 1..(i - 1) /\ batch.open \cap batch.done = {}
      /\ \A j \in batch.done : ~ByRuntime(j)
  BY <1>1 DEF AnswersKept, CallsKept, Batching
<1>4. i \notin batch.done /\ i \notin batch.open /\ (1..(i - 1)) \cup {i} = 1..i
  <2>1. i \notin 1..(i - 1) /\ (1..(i - 1)) \cup {i} = 1..i
    BY <1>2
  <2> QED
    BY <1>3, <2>1
<1>5. CASE pc' = "stopping"
  <2>1. pc' \notin Batching
    BY <1>5 DEF Batching
  <2> QED
    BY <2>1 DEF AnswersKept, CallsKept, MessagesKept, Answering, Batching
<1>6. CASE /\ batch' = [batch EXCEPT !.next = i + 1, !.done = batch.done \cup {i}]
           /\ pc' = "prepare" /\ todo' = <<RecordCall("ToolFailed", i)>>
           /\ batch.calls[i] \in {"unregistered", "malformed"}
  <2>1. /\ batch'.calls = batch.calls /\ batch'.next = i + 1 /\ batch'.open = batch.open
        /\ batch'.done = batch.done \cup {i}
    BY <1>1, <1>6, BatchFields
  <2>2. ~ByRuntime(i)
    BY <1>6 DEF ByRuntime, RuntimeTool
  <2>3. (i + 1) - 1 = i
    BY <1>2
  <2>4. AnswersKept'
    BY <1>3, <1>4, <1>6, <2>1, <2>2, <2>3, EarlyAnswers
  <2>5. OnlyIn(todo', CallSlot(i), round)
    <3>1. OnlyIn(<<RecordCall("ToolFailed", i)>>, CallSlot(i), round)
      BY OutcomeKinds, OnlyLists DEF OutcomeKind
    <3> QED
      BY <1>6, <3>1
  <2> QED
    BY <1>1, <1>2, <1>4, <2>1, <2>4, <2>5 DEF Answering, Batching
<1>7. CASE /\ batch' = [batch EXCEPT !.next = i + 1, !.open = batch.open \cup {i}]
           /\ pc' = "prepare" /\ todo' = Opened(i)
  <2>1. /\ batch'.calls = batch.calls /\ batch'.next = i + 1 /\ batch'.open = batch.open \cup {i}
        /\ batch'.done = batch.done
    BY <1>1, <1>7, BatchFields
  <2>3. (i + 1) - 1 = i
    BY <1>2
  <2>4. AnswersKept'
    BY <1>3, <1>4, <1>7, <2>1, <2>3, EarlyAnswers
  <2>5. NoneIn(todo')
    <3>1. /\ Silent(RecordCall("ToolScheduled", i)) /\ Silent(Begin(CallSlot(i)))
          /\ Silent(RecordCall("ToolStarted", i))
      BY OutcomeKinds DEF OutcomeKind
    <3>2. 1..Len(Opened(i)) = {1, 2, 3}
      BY DEF Opened
    <3> QED
      BY <1>7, <3>1, <3>2 DEF Opened, NoneIn
  <2> QED
    BY <1>1, <2>1, <2>4, <2>5 DEF Answering, Batching
<1> QED
  <2>1. \/ Raise("Failed")
        \/ /\ batch' = [batch EXCEPT !.next = i + 1, !.done = batch.done \cup {i}]
           /\ pc' = "prepare" /\ todo' = <<RecordCall("ToolFailed", i)>>
           /\ batch.calls[i] \in {"unregistered", "malformed"}
        \/ /\ batch' = [batch EXCEPT !.next = i + 1, !.open = batch.open \cup {i}]
           /\ pc' = "prepare" /\ todo' = Opened(i)
    BY DEF PrepareCall, Then
  <2>2. Raise("Failed") => pc' = "stopping"
    BY <1>1 DEF Raise
  <2> QED
    BY <1>5, <1>6, <1>7, <2>1, <2>2

LEMMA PreparedAnswers ==
  ASSUME WorkInv, AnswersKept, Prepared
  PROVE  AnswersKept' /\ Answering
<1>1. /\ Typed /\ pc = "prepare" /\ pc' = "collect" /\ UNCHANGED batch /\ todo' = <<>>
      /\ batch.next > Len(batch.calls)
  BY DEF WorkInv, Prepared, At, Then
<1>2. batch.next = Len(batch.calls) + 1
  BY <1>1, CallNumbers
<1>3. /\ batch.open \cup batch.done = 1..(batch.next - 1) /\ batch.open \cap batch.done = {}
      /\ \A j \in batch.done : ~ByRuntime(j)
  BY <1>1 DEF AnswersKept, CallsKept, Batching
<1>4. AnswersKept'
  BY <1>1, <1>2, <1>3, EarlyAnswers
<1>5. NoneIn(todo')
  BY <1>1 DEF NoneIn
<1> QED
  BY <1>1, <1>4, <1>5 DEF Answering, Batching

LEMMA ToolReturnsAnswers ==
  ASSUME WorkInv, AnswersKept, ToolReturns
  PROVE  AnswersKept' /\ Answering
<1>1. PICK i \in Running :
        \/ Raise("Cancelled")
        \/ /\ batch' = TakenOut(i) /\ pc' = "collect"
           /\ \/ todo' = <<Complete(CallSlot(i), "succeeded", "ok"), RecordCall("ToolCompleted", i), Keep(i)>>
              \/ todo' = <<Complete(CallSlot(i), "succeeded", "ok"), RecordCall("ToolCompleted", i),
                           RecordCall("EvidenceAdded", i), Keep(i)>>
              \/ todo' = <<Complete(CallSlot(i), "failed", "error"), RecordCall("ToolFailed", i)>>
  BY DEF ToolReturns, Then, CallFailed
<1>2. Typed /\ pc = "collect" /\ i \in batch.open /\ ~ByRuntime(i)
  BY DEF WorkInv, ToolReturns, At, Running, OpenEngineCalls, EngineTool, ByRuntime, RuntimeTool
<1>3. /\ batch.open \cup batch.done = 1..(batch.next - 1) /\ batch.open \cap batch.done = {}
      /\ batch.next = Len(batch.calls) + 1
      /\ \A j \in batch.done : ~ByRuntime(j)
  BY <1>2 DEF AnswersKept, CallsKept, Batching
<1>4. CASE Raise("Cancelled")
  <2>1. pc' = "stopping"
    BY <1>2, <1>4 DEF Raise
  <2> QED
    BY <2>1 DEF AnswersKept, CallsKept, MessagesKept, Answering, Batching
<1>5. CASE batch' = TakenOut(i) /\ pc' = "collect" /\ ~Raise("Cancelled")
  <2>1. /\ batch'.calls = batch.calls /\ batch'.next = batch.next /\ batch'.open = batch.open \ {i}
        /\ batch'.done = batch.done \cup {i}
    BY <1>2, <1>5, BatchFields
  <2>2. AnswersKept'
    <3>1. /\ batch'.open \cup batch'.done = 1..(batch.next - 1) /\ batch'.open \cap batch'.done = {}
          /\ \A j \in batch'.done : ~ByRuntime(j)
      BY <1>2, <1>3, <2>1
    <3> QED
      BY <1>3, <1>5, <2>1, <3>1, EarlyAnswers
  <2> DEFINE a == Complete(CallSlot(i), "succeeded", "ok")
             f == Complete(CallSlot(i), "failed", "error")
             b == RecordCall("ToolCompleted", i)
             e == RecordCall("EvidenceAdded", i)
             g == RecordCall("ToolFailed", i)
             k == Keep(i)
             s == CallSlot(i)
  <2>3. /\ Silent(a) /\ Silent(f) /\ Silent(e) /\ Silent(k)
        /\ b.op = "record" /\ IsOutcome(b.event, s, round)
        /\ g.op = "record" /\ IsOutcome(g.event, s, round)
    BY OutcomeKinds DEF OutcomeKind
  <2>4. todo' = <<a, b, k>> \/ todo' = <<a, b, e, k>> \/ todo' = <<f, g>>
    BY <1>1, <1>5
  <2>5. OnlyIn(todo', s, round)
    <3> HIDE DEF a, b, e, f, g, k, s
    <3>1. OnlyIn(<<a, b, k>>, s, round) /\ OnlyIn(<<a, b, e, k>>, s, round)
      BY <2>3, OnlyLists
    <3>2. OnlyIn(<<f, g>>, s, round)
      BY <2>3, OnlyLists
    <3> QED
      BY <2>4, <3>1, <3>2
  <2>6. i \in 1..Len(batch.calls) /\ i \notin batch.done
    BY <1>2, <1>3, CallNumbers
  <2> QED
    BY <1>2, <2>1, <2>2, <2>5, <2>6 DEF Answering, Batching
<1> QED
  BY <1>1, <1>4, <1>5

LEMMA CollectedAnswers ==
  ASSUME WorkInv, AnswersKept, Collected
  PROVE  AnswersKept' /\ Answering
<1> DEFINE s == Sorted(batch.done)
<1>1. /\ Typed /\ pc = "collect" /\ pc' = "serve" /\ todo' = <<>> /\ OpenEngineCalls = {}
      /\ batch' = [batch EXCEPT !.messages = s]
  BY DEF WorkInv, Collected, At, Then
<1>2. /\ batch.open \cup batch.done = 1..(batch.next - 1) /\ batch.open \cap batch.done = {}
      /\ batch.next = Len(batch.calls) + 1
      /\ \A j \in batch.done : ~ByRuntime(j)
  BY <1>1 DEF AnswersKept, CallsKept, Batching
<1>3. ListsOnce(s, batch.done) /\ InCallOrder(s)
  BY <1>1, <1>2, CallNumbers, SortedOnce
<1> HIDE DEF s
<1>4. /\ batch'.calls = batch.calls /\ batch'.next = batch.next /\ batch'.open = batch.open
      /\ batch'.done = batch.done /\ batch'.messages = s
  BY <1>1, BatchFields
<1>5. \A m \in 1..Len(s) : ~ByRuntime(s[m])
  <2>1. \A m \in 1..Len(s) : s[m] \in batch.done
    BY <1>3, ElementOfSeq DEF ListsOnce
  <2> QED
    BY <1>2, <2>1
<1>6. \A j : ByRuntime(j)' <=> ByRuntime(j)
  BY <1>4 DEF ByRuntime
<1>7. CallsKept'
  BY <1>1, <1>2, <1>4 DEF CallsKept
<1>8. MessagesKept'
  <2>1. ListsOnce(batch.messages, batch.done)'
    BY <1>3, <1>4 DEF ListsOnce
  <2>2. InCallOrder(batch.messages)'
    BY <1>3, <1>4, <1>6 DEF InCallOrder
  <2>3. (\A m \in 1..Len(batch.messages) : ~ByRuntime(batch.messages[m]))'
    BY <1>4, <1>5 DEF ByRuntime
  <2> QED
    BY <2>1, <2>2, <2>3 DEF MessagesKept
<1>9. NoneIn(todo')
  BY <1>1 DEF NoneIn
<1> QED
  BY <1>1, <1>4, <1>7, <1>8, <1>9 DEF AnswersKept, Answering, Batching

\* The next call of the runtime's own is answered behind all others.
LEMMA ServedAnswers ==
  ASSUME WorkInv, AnswersKept, pc \in {"serve", "verify"}, NEW i \in batch.open, IsServed(i), NEW x,
         batch' = Served(i, x), pc' = "serve"
  PROVE  /\ AnswersKept' /\ batch'.calls = batch.calls /\ batch'.done = batch.done \cup {i}
         /\ i \in 1..Len(batch.calls) /\ i \notin batch.done
<1>1. /\ batch'.calls = batch.calls /\ batch'.next = batch.next /\ batch'.open = batch.open \ {i}
      /\ batch'.done = batch.done \cup {i} /\ batch'.messages = Append(batch.messages, i)
  BY BatchFields DEF WorkInv
<1>2. /\ batch.open \cup batch.done = 1..(batch.next - 1) /\ batch.open \cap batch.done = {}
      /\ batch.next = Len(batch.calls) + 1
  BY DEF AnswersKept, CallsKept, Batching
<1>3. i \in 1..Len(batch.calls) /\ i \in Nat /\ i \notin batch.done /\ ByRuntime(i)
  BY <1>2, CallNumbers DEF WorkInv, BatchOpen, ByRuntime
<1>4. CallsKept'
  <2>1. batch'.open \cup batch'.done = 1..(batch.next - 1) /\ batch'.open \cap batch'.done = {}
    BY <1>1, <1>2
  <2> QED
    BY <1>1, <1>2, <2>1 DEF CallsKept
<1>5. MessagesKept'
  <2> DEFINE l == batch.messages
             t == Append(l, i)
  <2>1. /\ ListsOnce(l, batch.done) /\ InCallOrder(l)
        /\ \A j \in batch.open, m \in 1..Len(l) : ByRuntime(l[m]) => l[m] < j
    BY DEF AnswersKept, MessagesKept
  <2> HIDE DEF l
  <2>2. batch.done \in SUBSET Nat
    BY CallNumbers DEF WorkInv
  <2>3. /\ ListsOnce(t, batch.done \cup {i}) /\ InCallOrder(t)
        /\ Len(l) \in Nat /\ Len(t) = Len(l) + 1 /\ t[Len(l) + 1] = i
        /\ \A m \in 1..Len(l) : t[m] = l[m] /\ l[m] \in batch.done
    BY <1>3, <2>1, <2>2, AppendedOnce
  <2>4. batch'.messages = t
    BY <1>1 DEF l
  <2> HIDE DEF t
  <2>5. ASSUME NEW j \in batch.open \ {i}, NEW m \in 1..Len(t), ByRuntime(t[m])
        PROVE  t[m] < j
    <3>1. CASE m = Len(l) + 1
      <4>1. i <= j /\ i # j /\ j \in Nat
        BY <2>5, CallNumbers DEF IsServed, WorkInv
      <4> QED
        BY <1>3, <2>3, <3>1, <4>1
    <3>2. CASE m # Len(l) + 1
      <4>1. m \in 1..Len(l)
        BY <2>3, <3>2
      <4> QED
        BY <2>1, <2>3, <2>5, <4>1
    <3> QED
      BY <3>1, <3>2
  <2>6. \A j : ByRuntime(j)' <=> ByRuntime(j)
    BY <1>1 DEF ByRuntime
  <2>7. ListsOnce(batch.messages, batch.done)'
    <3>1. batch'.done = batch.done \cup {i} /\ ListsOnce(t, batch.done \cup {i})
      BY <1>1, <2>3
    <3> QED
      BY <2>4, <3>1 DEF ListsOnce
  <2>8. InCallOrder(batch.messages)'
    BY <1>1, <2>3, <2>4 DEF InCallOrder, ByRuntime
  <2>9. (\A j \in batch.open, m \in 1..Len(batch.messages) :
           ByRuntime(batch.messages[m]) => batch.messages[m] < j)'
    BY <1>1, <2>4, <2>5 DEF ByRuntime
  <2> QED
    BY <2>7, <2>8, <2>9 DEF MessagesKept
<1> QED
  BY <1>1, <1>3, <1>4, <1>5 DEF AnswersKept

LEMMA SearchAnswers ==
  ASSUME WorkInv, AnswersKept, SearchEvidence
  PROVE  AnswersKept' /\ Answering
<1>1. PICK i \in batch.open :
        /\ IsServed(i) /\ batch' = Served(i, FALSE) /\ pc' = "serve"
        /\ todo' = <<Complete(CallSlot(i), "succeeded", "ok"), RecordCall("ToolCompleted", i)>>
  BY DEF SearchEvidence, Then
<1>2. pc = "serve"
  BY DEF SearchEvidence, At
<1>3. /\ AnswersKept' /\ batch'.calls = batch.calls /\ batch'.done = batch.done \cup {i}
      /\ i \in 1..Len(batch.calls) /\ i \notin batch.done
  BY <1>1, <1>2, ServedAnswers
<1>4. OnlyIn(todo', CallSlot(i), round)
  <2>1. /\ Silent(Complete(CallSlot(i), "succeeded", "ok")) /\ RecordCall("ToolCompleted", i).op = "record"
        /\ IsOutcome(RecordCall("ToolCompleted", i).event, CallSlot(i), round)
    BY OutcomeKinds DEF OutcomeKind
  <2> QED
    BY <1>1, <2>1, OnlyLists
<1> QED
  BY <1>2, <1>3, <1>4 DEF Answering, Batching

LEMMA RefuseAnswers ==
  ASSUME WorkInv, AnswersKept, pc \in {"serve", "verify"}, NEW i \in batch.open, IsServed(i), NEW d,
         \/ Refuse(i, d, <<>>) \/ Refuse(i, d, <<Record("VerificationFinding")>>)
         \/ \E findings \in {<<>>, <<Record("VerificationFinding")>>} :
              Refuse(i, d, <<Complete(VerifySlot, "succeeded", "refused")>> \o findings)
  PROVE  AnswersKept' /\ Answering
<1> DEFINE a == Complete(CallSlot(i), "failed", "refused")
           b == RecordCall("ToolFailed", i)
           v == Complete(VerifySlot, "succeeded", "refused")
           f == Record("VerificationFinding")
           s == CallSlot(i)
<1>1. batch' = Served(i, Exhausts(d)) /\ pc' = "serve"
      /\ \/ todo' = <<>> \o <<a, b>> \/ todo' = <<f>> \o <<a, b>>
         \/ todo' = (<<v>> \o <<>>) \o <<a, b>> \/ todo' = (<<v>> \o <<f>>) \o <<a, b>>
  BY DEF Refuse, Then
<1>2. Silent(a) /\ Silent(v) /\ Silent(f) /\ b.op = "record" /\ IsOutcome(b.event, s, round)
  BY OutcomeKinds DEF OutcomeKind
<1> HIDE DEF a, b, v, f, s
<1>3. /\ <<>> \o <<a, b>> = <<a, b>> /\ <<f>> \o <<a, b>> = <<f, a, b>>
      /\ (<<v>> \o <<>>) \o <<a, b>> = <<v, a, b>> /\ (<<v>> \o <<f>>) \o <<a, b>> = <<v, f, a, b>>
  BY Refusals
<1>4. OnlyIn(<<a, b>>, s, round)
  BY <1>2, OnlyLists
<1>5. OnlyIn(<<f, a, b>>, s, round) /\ OnlyIn(<<v, a, b>>, s, round)
  BY <1>2, OnlyLists
<1>6. OnlyIn(<<v, f, a, b>>, s, round)
  BY <1>2, OnlyLists
<1>7. OnlyIn(todo', s, round)
  BY <1>1, <1>3, <1>4, <1>5, <1>6
<1>8. /\ AnswersKept' /\ batch'.calls = batch.calls /\ batch'.done = batch.done \cup {i}
      /\ i \in 1..Len(batch.calls) /\ i \notin batch.done
  BY <1>1, ServedAnswers
<1> QED
  BY <1>7, <1>8 DEF Answering, Batching, s

\* A draft that goes to the verifier answers nothing yet.
LEMMA SubmitAnswers ==
  ASSUME WorkInv, AnswersKept, SubmitReport
  PROVE  AnswersKept' /\ Answering
<1>1. pc = "serve"
  BY DEF SubmitReport, At
<1>2. PICK i, d :
        /\ i \in batch.open /\ IsServed(i)
        /\ \/ Refuse(i, d, <<>>) \/ Refuse(i, d, <<Record("VerificationFinding")>>)
           \/ /\ batch' = [batch EXCEPT !.draft = d] /\ pc' = "verify"
              /\ todo' = <<Record("VerificationStarted"), Begin(VerifySlot)>>
  BY DEF SubmitReport, Then
<1>3. CASE /\ batch' = [batch EXCEPT !.draft = d] /\ pc' = "verify"
           /\ todo' = <<Record("VerificationStarted"), Begin(VerifySlot)>>
  <2>1. /\ batch'.calls = batch.calls /\ batch'.next = batch.next /\ batch'.open = batch.open
        /\ batch'.done = batch.done /\ batch'.messages = batch.messages
    BY <1>3, BatchFields DEF WorkInv
  <2>2. CallsKept'
    BY <1>1, <1>3, <2>1 DEF AnswersKept, CallsKept, Batching
  <2>3. MessagesKept'
    <3>1. /\ ListsOnce(batch.messages, batch.done) /\ InCallOrder(batch.messages)
          /\ \A j \in batch.open, m \in 1..Len(batch.messages) :
               ByRuntime(batch.messages[m]) => batch.messages[m] < j
      BY <1>1 DEF AnswersKept, MessagesKept
    <3>2. ListsOnce(batch.messages, batch.done)' /\ InCallOrder(batch.messages)'
      BY <2>1, <3>1 DEF ListsOnce, InCallOrder, ByRuntime
    <3>3. (\A j \in batch.open, m \in 1..Len(batch.messages) :
             ByRuntime(batch.messages[m]) => batch.messages[m] < j)'
      BY <2>1, <3>1 DEF ByRuntime
    <3> QED
      BY <3>2, <3>3 DEF MessagesKept
  <2>4. NoneIn(todo')
    <3>1. Silent(Record("VerificationStarted")) /\ Silent(Begin(VerifySlot))
      BY OutcomeKinds DEF OutcomeKind
    <3> QED
      BY <1>3, <3>1 DEF NoneIn
  <2> QED
    BY <1>1, <2>1, <2>2, <2>3, <2>4 DEF AnswersKept, Answering, Batching
<1> QED
  BY <1>1, <1>2, <1>3, RefuseAnswers

LEMMA VerifierAnswersAnswers ==
  ASSUME WorkInv, AnswersKept, VerifierAnswers
  PROVE  AnswersKept' /\ Answering
<1>1. pc = "verify"
  BY DEF VerifierAnswers, At
<1>2. PICK i \in batch.open :
        /\ IsServed(i)
        /\ \/ pc' = "publish"
           \/ \E findings \in {<<>>, <<Record("VerificationFinding")>>} :
                Refuse(i, batch.draft, <<Complete(VerifySlot, "succeeded", "refused")>> \o findings)
           \/ CloseFailed(VerifySlot, "Failed") /\ UNCHANGED batch
  BY DEF VerifierAnswers, Then
<1>3. CASE pc' = "publish"
  BY <1>3 DEF AnswersKept, CallsKept, MessagesKept, Answering, Batching
<1>4. CASE CloseFailed(VerifySlot, "Failed") /\ UNCHANGED batch
  <2>1. pc' = pc /\ todo' = <<Complete(VerifySlot, "failed", "error"), Return("Failed")>>
    BY <1>4 DEF CloseFailed, Then
  <2>2. NoneIn(todo')
    <3>1. Silent(Complete(VerifySlot, "failed", "error")) /\ Silent(Return("Failed"))
      BY OutcomeKinds
    <3> QED
      BY <2>1, <3>1 DEF NoneIn
  <2>3. AnswersKept'
    BY <1>4, <2>1, SameAnswers
  <2> QED
    BY <1>1, <1>4, <2>2, <2>3 DEF Answering, Batching
<1> QED
  BY <1>1, <1>2, <1>3, <1>4, RefuseAnswers

LEMMA DecideAnswers ==
  ASSUME WorkInv, AnswersKept, Decide
  PROVE  AnswersKept' /\ Answering
<1>1. CASE pc' \notin Batching
  BY <1>1 DEF AnswersKept, CallsKept, MessagesKept, Answering, Batching
<1>2. CASE CallTurn
  BY <1>2, CallTurnAnswers DEF Answering
<1> QED
  BY <1>1, <1>2, OutsideAnswers, PrepareAnswers, PreparedAnswers, ToolReturnsAnswers, CollectedAnswers,
     SearchAnswers, SubmitAnswers, VerifierAnswersAnswers DEF Decide

-----------------------------------------------------------------------------
\* The outcomes of a call in the log, and those still to be appended to it.
OutcomesIn(l, s, r) == {n \in 1..Len(l) : IsOutcome(l[n], s, r)}
OwedIn(w, st, s, r) ==
  {n \in 1..Len(w) : w[n].op = "record" /\ IsOutcome(w[n].event, s, r) /\ (n > 1 \/ st = "append")}

Unanswered(l, w, st, s, r) == OutcomesIn(l, s, r) = {} /\ OwedIn(w, st, s, r) = {}
AnsweredOnce(l, w, st, s, r) ==
  \/ (\E n : OutcomesIn(l, s, r) = {n}) /\ OwedIn(w, st, s, r) = {}
  \/ OutcomesIn(l, s, r) = {} /\ \E n : OwedIn(w, st, s, r) = {n}

\* Of a call that is done one outcome is in the log, or on its way to it.
LogKept ==
  pc \in Batching => \A i \in 1..Len(batch.calls) :
    IF i \in batch.done THEN AnsweredOnce(log, todo, stage, CallSlot(i), round)
                        ELSE Unanswered(log, todo, stage, CallSlot(i), round)

\* A write that is done takes its place in the list with it.
LEMMA TailOwed ==
  ASSUME Typed, todo # <<>>, Head(todo).op # "record" \/ stage # "append", NEW s, NEW r,
         NEW w, w = Tail(todo)
  PROVE  /\ OwedIn(todo, stage, s, r) = {} => OwedIn(w, "append", s, r) = {}
         /\ \A n : OwedIn(todo, stage, s, r) = {n} => OwedIn(w, "append", s, r) = {n - 1}
<1>1. /\ Len(todo) \in Nat \ {0} /\ Head(todo) = todo[1] /\ Len(w) = Len(todo) - 1
      /\ \A n \in 1..Len(w) : w[n] = todo[n + 1]
  BY TailWrites
<1>2. ASSUME NEW n \in OwedIn(todo, stage, s, r)
      PROVE  n \in 2..Len(todo) /\ n - 1 \in OwedIn(w, "append", s, r) /\ n \in Nat
  <2>1. n \in 1..Len(todo) /\ n # 1 /\ todo[n].op = "record" /\ IsOutcome(todo[n].event, s, r)
    BY <1>1, <1>2 DEF OwedIn
  <2>2. n - 1 \in 1..Len(w) /\ (n - 1) + 1 = n
    BY <1>1, <2>1
  <2>3. w[n - 1] = todo[n]
    BY <1>1, <2>2
  <2> QED
    BY <1>1, <2>1, <2>2, <2>3 DEF OwedIn
<1>3. ASSUME NEW n \in OwedIn(w, "append", s, r)
      PROVE  n + 1 \in OwedIn(todo, stage, s, r) /\ n \in Nat
  <2>1. n \in 1..Len(w) /\ w[n].op = "record" /\ IsOutcome(w[n].event, s, r)
    BY <1>3 DEF OwedIn
  <2>2. n + 1 \in 1..Len(todo) /\ n + 1 > 1 /\ n \in Nat
    BY <1>1, <2>1
  <2> QED
    BY <1>1, <2>1, <2>2 DEF OwedIn
<1>4. OwedIn(todo, stage, s, r) = {} => OwedIn(w, "append", s, r) = {}
  BY <1>3
<1>5. ASSUME NEW n, OwedIn(todo, stage, s, r) = {n} PROVE OwedIn(w, "append", s, r) = {n - 1}
  <2>1. n - 1 \in OwedIn(w, "append", s, r) /\ n \in Nat
    BY <1>2, <1>5
  <2>2. ASSUME NEW m \in OwedIn(w, "append", s, r) PROVE m = n - 1
    <3>1. m + 1 = n /\ m \in Nat
      BY <1>3, <1>5, <2>2
    <3> QED
      BY <2>1, <3>1
  <2> QED
    BY <2>1, <2>2
<1> QED
  BY <1>4, <1>5

\* An event that is appended moves from the writes into the log.
LEMMA AppendOwed ==
  ASSUME Typed, todo # <<>>, Head(todo).op = "record", stage = "append", log' = Append(log, Head(todo).event),
         NEW st, st # "append", NEW s, NEW r
  PROVE  /\ Unanswered(log, todo, stage, s, r) => Unanswered(log', todo, st, s, r)
         /\ AnsweredOnce(log, todo, stage, s, r) => AnsweredOnce(log', todo, st, s, r)
<1> DEFINE e == Head(todo).event
           k == Len(log)
<1>1. Len(todo) \in Nat \ {0} /\ todo[1] = Head(todo)
  BY TailWrites
<1>2. /\ k \in Nat /\ Len(log') = k + 1 /\ log'[k + 1] = e
      /\ \A n \in 1..k : log'[n] = log[n]
  BY AppendedRows
<1>3. 1 \in 1..Len(todo) /\ todo[1].op = "record" /\ todo[1].event = e
  BY <1>1
<1> HIDE DEF e, k
<1>4. \A n \in 1..Len(log') : n = k + 1 \/ n \in 1..k
  BY <1>2
<1>5. k + 1 \in 1..Len(log') /\ k + 1 \notin 1..k /\ \A n \in 1..k : n \in 1..Len(log')
  BY <1>2
<1>6. OwedIn(todo, st, s, r) = OwedIn(todo, stage, s, r) \ {1}
  <2>1. \A n \in 1..Len(todo) : n > 1 <=> n # 1
    BY <1>1
  <2> QED
    BY <2>1 DEF OwedIn
<1>7. CASE IsOutcome(e, s, r)
  <2>1. 1 \in OwedIn(todo, stage, s, r)
    BY <1>3, <1>7 DEF OwedIn
  <2>2. ~Unanswered(log, todo, stage, s, r)
    BY <2>1 DEF Unanswered
  <2>3. ASSUME AnsweredOnce(log, todo, stage, s, r) PROVE AnsweredOnce(log', todo, st, s, r)
    <3>1. OutcomesIn(log, s, r) = {} /\ OwedIn(todo, stage, s, r) = {1}
      BY <2>1, <2>3 DEF AnsweredOnce
    <3>2. OwedIn(todo, st, s, r) = {}
      BY <1>6, <3>1
    <3>3. OutcomesIn(log', s, r) = {k + 1}
      <4>1. \A n \in 1..k : ~IsOutcome(log'[n], s, r)
        BY <1>2, <3>1 DEF OutcomesIn, k
      <4>2. IsOutcome(log'[k + 1], s, r)
        BY <1>2, <1>7
      <4> QED
        BY <1>4, <1>5, <4>1, <4>2 DEF OutcomesIn
    <3> QED
      BY <3>2, <3>3 DEF AnsweredOnce
  <2> QED
    BY <2>2, <2>3
<1>8. CASE ~IsOutcome(e, s, r)
  <2>1. OwedIn(todo, st, s, r) = OwedIn(todo, stage, s, r)
    <3>1. 1 \notin OwedIn(todo, stage, s, r)
      BY <1>3, <1>8 DEF OwedIn
    <3> QED
      BY <1>6, <3>1
  <2>2. OutcomesIn(log', s, r) = OutcomesIn(log, s, r)
    <3>1. \A n \in 1..Len(log') : IsOutcome(log'[n], s, r) => n \in OutcomesIn(log, s, r)
      BY <1>2, <1>4, <1>8 DEF OutcomesIn, k
    <3>2. \A n \in OutcomesIn(log, s, r) : n \in 1..Len(log') /\ IsOutcome(log'[n], s, r)
      BY <1>2, <1>5 DEF OutcomesIn, k
    <3> QED
      BY <3>1, <3>2 DEF OutcomesIn
  <2> QED
    BY <2>1, <2>2 DEF Unanswered, AnsweredOnce
<1> QED
  BY <1>7, <1>8

LEMMA PerformLog ==
  ASSUME WorkInv, LogKept, Perform
  PROVE  LogKept'
<1>1. CASE pc' \notin Batching
  BY <1>1 DEF LogKept
<1> SUFFICES ASSUME pc' \in Batching PROVE LogKept'
  BY <1>1
<1>2. todo # <<>> /\ UNCHANGED <<round, batch>>
  BY PerformShape
<1>3. ~\E class : Raise(class)
  BY DEF Raise, Batching
<1>4. UNCHANGED pc
  BY <1>3, PerformEnds DEF Advance
<1>5. \A i : CallSlot(i)' = CallSlot(i)
  BY <1>2 DEF CallSlot
<1>6. ASSUME NEW s
      PROVE  /\ Unanswered(log, todo, stage, s, round) => Unanswered(log', todo', stage', s, round)
             /\ AnsweredOnce(log, todo, stage, s, round) => AnsweredOnce(log', todo', stage', s, round)
  <2>1. CASE Advance /\ UNCHANGED log /\ (Head(todo).op # "record" \/ stage # "append")
    <3>1. todo' = Tail(todo) /\ stage' = "append"
      BY <2>1 DEF Advance
    <3>2. /\ OwedIn(todo, stage, s, round) = {} => OwedIn(todo', "append", s, round) = {}
          /\ \A n : OwedIn(todo, stage, s, round) = {n} => OwedIn(todo', "append", s, round) = {n - 1}
      BY <1>2, <2>1, <3>1, TailOwed DEF WorkInv
    <3> QED
      BY <2>1, <3>1, <3>2 DEF Unanswered, AnsweredOnce
  <2>2. CASE AppendEvent /\ UNCHANGED todo /\ stage' # "append"
    <3>1. Head(todo).op = "record" /\ stage = "append"
      BY <2>2 DEF AppendEvent, Doing
    <3>2. log' = Append(log, Head(todo).event)
      BY <1>3, <2>2 DEF AppendEvent, Fault, Refused
    <3> QED
      BY <1>2, <2>2, <3>1, <3>2, AppendOwed DEF WorkInv
  <2>3. CASE PutCheckpoint /\ UNCHANGED todo /\ stage' # "append"
    <3>1. stage # "append" /\ UNCHANGED log
      BY <2>3 DEF PutCheckpoint
    <3>2. OwedIn(todo, stage', s, round) = OwedIn(todo, stage, s, round)
      BY <2>3, <3>1 DEF OwedIn
    <3> QED
      BY <2>3, <3>1, <3>2 DEF Unanswered, AnsweredOnce
  <2> QED
    <3>1. Advance => UNCHANGED log /\ (Head(todo).op # "record" \/ stage # "append")
      <4>1. CASE Send
        BY <4>1 DEF Send, durable
      <4>2. CASE AppendEvent
        BY <1>3, <4>2 DEF AppendEvent, AfterAppend, Advance, Fault, Refused
      <4>3. CASE PutCheckpoint
        BY <4>3 DEF PutCheckpoint
      <4>4. CASE BeginEffect \/ CompleteEffect \/ KeepCompleted \/ ReturnError
        BY <4>4 DEF BeginEffect, CompleteEffect, KeepCompleted, ReturnError, Doing, durable
      <4> QED
        BY <4>1, <4>2, <4>3, <4>4 DEF Perform
    <3> QED
      BY <1>3, <2>1, <2>2, <2>3, <3>1, PerformShape
<1>7. pc \in Batching
  BY <1>4
<1> QED
  BY <1>2, <1>5, <1>6, <1>7 DEF LogKept

\* What a list of writes owes, when it comes with an answer or with none.
LEMMA OwedByList ==
  ASSUME NEW w, NEW s, NEW r
  PROVE  /\ NoneIn(w) => OwedIn(w, "append", s, r) = {}
         /\ OnlyIn(w, s, r) => \E n : OwedIn(w, "append", s, r) = {n}
         /\ \A t : OnlyIn(w, t, r) /\ t # s => OwedIn(w, "append", s, r) = {}
<1>1. NoneIn(w) => OwedIn(w, "append", s, r) = {}
  BY DEF NoneIn, Silent, OwedIn, IsOutcome
<1>2. ASSUME OnlyIn(w, s, r) PROVE \E n : OwedIn(w, "append", s, r) = {n}
  <2>1. PICK n \in 1..Len(w) : /\ w[n].op = "record" /\ IsOutcome(w[n].event, s, r)
                               /\ \A m \in 1..Len(w) : m # n => Silent(w[m])
    BY <1>2 DEF OnlyIn
  <2>2. n \in OwedIn(w, "append", s, r)
    BY <2>1 DEF OwedIn
  <2>3. \A m \in OwedIn(w, "append", s, r) : m = n
    BY <2>1 DEF OwedIn, Silent, IsOutcome
  <2> QED
    BY <2>2, <2>3
<1>3. ASSUME NEW t, OnlyIn(w, t, r), t # s PROVE OwedIn(w, "append", s, r) = {}
  <2>1. PICK n \in 1..Len(w) : /\ w[n].op = "record" /\ IsOutcome(w[n].event, t, r)
                               /\ \A m \in 1..Len(w) : m # n => Silent(w[m])
    BY <1>3 DEF OnlyIn
  <2> QED
    BY <1>3, <2>1 DEF OwedIn, Silent, IsOutcome
<1> QED
  BY <1>1, <1>2, <1>3

LEMMA CallTurnLog ==
  ASSUME WorkInv, OutcomeInv, CallTurn, UNCHANGED <<log, round>>, stage' = "append"
  PROVE  LogKept'
<1>1. PICK c : batch' = [EmptyBatch EXCEPT !.calls = c]
  BY DEF CallTurn
<1>2. /\ pc = "chunk" /\ todo' = <<Complete(StreamSlot, "succeeded", "ok")>> /\ batch'.done = {}
  BY <1>1 DEF CallTurn, Then, At, EmptyBatch
<1>3. \A s : OutcomesIn(log, s, round) = {}
  <2>1. \A n \in 1..Len(log) : log[n].kind \in OutcomeKind => log[n].round # round
    BY <1>2 DEF OutcomeInv, CallsPast, Past, PastAt, AfterCalls, OutcomeKind, CallEvent
  <2> QED
    BY <2>1 DEF OutcomesIn, IsOutcome
<1>4. NoneIn(todo')
  <2>1. Silent(Complete(StreamSlot, "succeeded", "ok"))
    BY OutcomeKinds
  <2> QED
    BY <1>2, <2>1 DEF NoneIn
<1>5. \A s : OwedIn(todo', "append", s, round) = {}
  BY <1>4, OwedByList
<1> QED
  BY <1>2, <1>3, <1>5 DEF LogKept, Unanswered

LEMMA DecideLog ==
  ASSUME WorkInv, OutcomeInv, AnswersKept, LogKept, Decide
  PROVE  LogKept'
<1>1. todo = <<>> /\ Answering /\ UNCHANGED log /\ stage' = "append"
  <2>1. todo = <<>> /\ stage = "append"
    BY DecideAt DEF WorkInv, Typed, TypeOK
  <2> QED
    BY <2>1, DecideAnswers, Decisions DEF Elsewhere
<1>2. CASE pc' \notin Batching
  BY <1>2 DEF LogKept
<1>3. CASE CallTurn
  BY <1>1, <1>3, CallTurnLog DEF CallTurn
<1>4. CASE pc \in Batching /\ batch'.calls = batch.calls /\ ~CallTurn
  <2>1. UNCHANGED round
    <3>1. pc # "round"
      BY <1>4 DEF Batching
    <3> QED
      BY <3>1, RoundAsked DEF Next, Runtime
  <2>2. \A i : CallSlot(i)' = CallSlot(i)
    BY <1>4 DEF CallSlot
  <2>3. \A s, r : OwedIn(todo, stage, s, r) = {}
    BY <1>1 DEF OwedIn
  <2>4. ASSUME NEW i \in 1..Len(batch.calls)
        PROVE  /\ i \in batch.done => \E n : OutcomesIn(log, CallSlot(i), round) = {n}
               /\ i \notin batch.done => OutcomesIn(log, CallSlot(i), round) = {}
    <3>1. IF i \in batch.done THEN AnsweredOnce(log, todo, stage, CallSlot(i), round)
                              ELSE Unanswered(log, todo, stage, CallSlot(i), round)
      BY <1>4 DEF LogKept
    <3>2. ~\E n : OwedIn(todo, stage, CallSlot(i), round) = {n}
      BY <2>3
    <3> QED
      BY <3>1, <3>2 DEF AnsweredOnce, Unanswered
  <2>5. CASE batch'.done = batch.done /\ NoneIn(todo')
    <3>1. \A s : OwedIn(todo', "append", s, round) = {}
      BY <2>5, OwedByList
    <3> QED
      BY <1>1, <1>4, <2>1, <2>2, <2>4, <2>5, <3>1 DEF LogKept, AnsweredOnce, Unanswered
  <2>6. ASSUME NEW j \in 1..Len(batch.calls), j \notin batch.done, batch'.done = batch.done \cup {j},
               OnlyIn(todo', CallSlot(j), round)
        PROVE  LogKept'
    <3>1. \E n : OwedIn(todo', "append", CallSlot(j), round) = {n}
      BY <2>6, OwedByList
    <3>2. \A i : i # j => OwedIn(todo', "append", CallSlot(i), round) = {}
      <4>1. \A i : i # j => CallSlot(i) # CallSlot(j)
        BY DEF CallSlot
      <4> QED
        BY <2>6, <4>1, OwedByList
    <3>3. OutcomesIn(log, CallSlot(j), round) = {}
      BY <2>4, <2>6
    <3>4. ASSUME NEW i \in 1..Len(batch.calls)
          PROVE  IF i \in batch'.done THEN AnsweredOnce(log, todo', "append", CallSlot(i), round)
                                      ELSE Unanswered(log, todo', "append", CallSlot(i), round)
      <4>1. CASE i = j
        BY <2>6, <3>1, <3>3, <4>1 DEF AnsweredOnce
      <4>2. CASE i # j
        BY <2>4, <2>6, <3>2, <4>2 DEF AnsweredOnce, Unanswered
      <4> QED
        BY <4>1, <4>2
    <3> QED
      BY <1>1, <1>4, <2>1, <2>2, <3>4 DEF LogKept
  <2> QED
    BY <1>1, <1>2, <1>4, <2>5, <2>6 DEF Answering
<1> QED
  BY <1>1, <1>2, <1>3, <1>4 DEF Answering

LEMMA NextAnswered ==
  ASSUME Numbered, AnswersKept, LogKept, [Next]_vars
  PROVE  AnswersKept' /\ LogKept'
<1>1. CASE Perform
  <2>1. UNCHANGED batch /\ (pc' = pc \/ pc' \notin Batching)
    BY <1>1, PerformEnds DEF Numbered, Advance, Raise, Batching
  <2> QED
    BY <1>1, <2>1, SameAnswers, PerformLog DEF Numbered
<1>2. CASE Recv \/ Cancel \/ Close \/ Ended \/ UNCHANGED vars
  <2>1. UNCHANGED <<log, pc, todo, stage, round, batch>>
    BY <1>2, ClientLeaves
  <2>2. LogKept'
    BY <2>1 DEF LogKept, CallSlot
  <2> QED
    BY <2>1, <2>2, SameAnswers
<1>3. CASE Decide
  BY <1>3, DecideAnswers, DecideLog DEF Numbered
<1> QED
  BY <1>1, <1>2, <1>3 DEF Next, Runtime

\* The last answer completes the batch.
LEMMA AllAnswered == Typed /\ AnswersKept /\ LogKept => EveryCallAnswered
<1> SUFFICES ASSUME Typed, AnswersKept, LogKept, At("serve"), batch.open = {}
             PROVE  /\ \A m, n \in 1..Len(batch.messages) :
                         m < n => \/ batch.messages[m] < batch.messages[n]
                                  \/ ByRuntime(batch.messages[n]) /\ ~ByRuntime(batch.messages[m])
                    /\ \A i \in 1..Len(batch.calls) :
                         /\ Cardinality({m \in 1..Len(batch.messages) : batch.messages[m] = i}) = 1
                         /\ Cardinality({n \in 1..Len(log) : /\ log[n].kind \in {"ToolCompleted", "ToolFailed"}
                                                            /\ log[n].slot = CallSlot(i)
                                                            /\ log[n].round = round}) = 1
  BY DEF EveryCallAnswered
<1>1. pc = "serve" /\ todo = <<>>
  BY DEF At
<1>2. batch.done = 1..Len(batch.calls)
  <2>1. batch.open \cup batch.done = 1..(batch.next - 1) /\ batch.next = Len(batch.calls) + 1
    BY <1>1 DEF AnswersKept, CallsKept, Batching
  <2>2. (Len(batch.calls) + 1) - 1 = Len(batch.calls)
    BY CallNumbers
  <2> QED
    BY <2>1, <2>2
<1>3. ListsOnce(batch.messages, batch.done) /\ InCallOrder(batch.messages)
  BY <1>1 DEF AnswersKept, MessagesKept
<1>4. ASSUME NEW i \in 1..Len(batch.calls)
      PROVE  Cardinality({m \in 1..Len(batch.messages) : batch.messages[m] = i}) = 1
  <2>1. PICK m \in 1..Len(batch.messages) : \A n \in 1..Len(batch.messages) : batch.messages[n] = i <=> n = m
    BY <1>2, <1>3 DEF ListsOnce
  <2>2. {n \in 1..Len(batch.messages) : batch.messages[n] = i} = {m}
    BY <2>1
  <2> QED
    BY <2>2, FS_Singleton
<1>5. ASSUME NEW i \in 1..Len(batch.calls)
      PROVE  Cardinality({n \in 1..Len(log) : /\ log[n].kind \in {"ToolCompleted", "ToolFailed"}
                                              /\ log[n].slot = CallSlot(i)
                                              /\ log[n].round = round}) = 1
  <2>1. AnsweredOnce(log, todo, stage, CallSlot(i), round)
    BY <1>1, <1>2 DEF LogKept, Batching
  <2>2. OwedIn(todo, stage, CallSlot(i), round) = {}
    BY <1>1 DEF OwedIn
  <2>3. PICK n : OutcomesIn(log, CallSlot(i), round) = {n}
    BY <2>1, <2>2 DEF AnsweredOnce
  <2>4. OutcomesIn(log, CallSlot(i), round) =
          {k \in 1..Len(log) : /\ log[k].kind \in {"ToolCompleted", "ToolFailed"}
                               /\ log[k].slot = CallSlot(i)
                               /\ log[k].round = round}
    BY DEF OutcomesIn, IsOutcome, OutcomeKind
  <2> QED
    BY <2>3, <2>4, FS_Singleton
<1> QED
  BY <1>3, <1>4, <1>5 DEF InCallOrder

\* When the last call of a batch is served, every call the model made has one
\* message and one outcome in the log, refused and rejected ones included, and
\* the messages are in call order, those of the runtime's own tools last: no
\* cancellation, failure or retry in between drops an answer or gives it twice.
THEOREM TaskEveryCallAnswered == Spec => []EveryCallAnswered
<1> DEFINE I == Numbered /\ AnswersKept /\ LogKept
<1>1. Init => I
  <2>1. Init => LogKept
    BY DEF Init, LogKept, Batching
  <2> QED
    BY <2>1, InitNumbered, InitAnswersKept
<1>2. I /\ [Next]_vars => I'
  BY NextNumbered, NextAnswered
<1>3. I => EveryCallAnswered
  BY AllAnswered DEF Numbered, WorkInv
<1> QED
  BY <1>1, <1>2, <1>3, PTL DEF Spec
=============================================================================
