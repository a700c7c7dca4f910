---------------------------- MODULE EngineWorker ----------------------------
(***************************************************************************)
(* engine/src/main.rs: the worker process.  One loop reads frames and      *)
(* answers the control requests itself; every other request becomes a      *)
(* task, under one of the permits.  Below, storage/src/db.rs: the thread   *)
(* that executes the jobs of all tasks in the order they were sent.        *)
(*                                                                         *)
(* Requests are named by their position among the frames read, and so are  *)
(* request identities: a frame has a new one or that of an earlier frame.  *)
(* Cancellation identities may be used again too.  Payloads are left out;  *)
(* a dispatch sends at most one job to the storage thread.                 *)
(***************************************************************************)
EXTENDS Naturals, Sequences, SequencesExt, FiniteSets

CONSTANTS CancelIds,    \* cancellation identities
          Permits,      \* requests served at a time
          Window,       \* capacity of the ReplayWindow
          MaxFrames     \* bound: frames of one session

NoId == "none"              \* a request without a cancellation identity

ASSUME WorkerAssumption ==
  /\ Permits \in Nat \ {0} /\ Window \in Nat \ {0} /\ MaxFrames \in Nat
  /\ NoId \notin CancelIds

VARIABLES loop,       \* the reading loop, and the request that waits for a permit
          order,      \* ReplayWindow.order
          observed,   \* ReplayWindow.seen
          active,     \* cancellations: the request whose token an identity has
          request,    \* the requests that became tasks, by position
          answer,     \* the answers written, by position
          jobs,       \* the channel of the storage thread
          executed    \* jobs whose closure has run

workerVars == <<loop, order, observed, active, request, answer, jobs, executed>>

Positions == 1..MaxFrames
RequestIds == 1..(loop.at + 1)
NoToken == 0
Empty == 0                  \* the empty request identity
Unread == [step |-> "unread", cid |-> NoId, cancelled |-> FALSE, outcome |-> "none",
           shared |-> FALSE]

WorkerInit ==
  /\ loop = [state |-> "reading", at |-> 0, cid |-> NoId]
  /\ order = <<>> /\ observed = {}
  /\ active = [c \in CancelIds |-> NoToken]
  /\ request = [n \in Positions |-> Unread]
  /\ answer = [n \in Positions |-> "none"]
  /\ jobs = <<>> /\ executed = {}

-----------------------------------------------------------------------------
\* ReplayWindow::insert.

\* Mutant: the oldest identity is dropped from the queue only.
OnlyDequeued(id) ==
  LET longer == Append(order, id) IN
    /\ order' = IF Len(longer) > Window THEN Tail(longer) ELSE longer
    /\ observed' = observed \cup {id}
Remember(id) ==
  LET longer == Append(order, id)
      full == Len(longer) > Window
  IN  /\ order' = IF full THEN Tail(longer) ELSE longer
      /\ observed' = (observed \cup {id}) \ IF full THEN {Head(longer)} ELSE {}

Answers(n, outcome) == answer' = [answer EXCEPT ![n] = outcome]
Unchanged == UNCHANGED <<jobs, executed>>

\* A frame is read.
ReadsNext == loop.state = "reading" /\ loop.at < MaxFrames
Reads(state, cid) == loop' = [state |-> state, at |-> loop.at + 1, cid |-> cid]

\* An empty identity, or one observed lately.
RefuseFrame(id) ==
  /\ ReadsNext /\ id \in observed \cup {Empty}
  /\ Reads("reading", NoId)
  /\ Answers(loop.at + 1, "refused")
  /\ UNCHANGED <<order, observed, active, request>> /\ Unchanged

\* system.shutdown leaves the loop, as the end of the input does; whatever
\* still runs is dropped with the runtime.
Shutdown(id) ==
  /\ ReadsNext /\ id \notin observed
  /\ Remember(id)
  /\ Reads("stopped", NoId)
  /\ Answers(loop.at + 1, "accepted")
  /\ request' = [n \in Positions |->
       IF request[n].step \in {"unread", "answered"} THEN request[n]
       ELSE [request[n] EXCEPT !.step = "dropped"]]
  /\ UNCHANGED active /\ Unchanged

\* system.cancel.
Cancelled(c) ==
  [n \in Positions |-> IF n = active[c] THEN [request[n] EXCEPT !.cancelled = TRUE] ELSE request[n]]
CancelRequest(id, c) ==
  /\ ReadsNext /\ id \notin observed
  /\ Remember(id)
  /\ Reads("reading", NoId)
  /\ Answers(loop.at + 1, IF active[c] = NoToken THEN "not_cancelled" ELSE "cancelled_it")
  /\ request' = Cancelled(c)
  /\ active' = [active EXCEPT ![c] = NoToken]
  /\ Unchanged

\* Any other request waits for a permit, and the loop with it.
ReadRequest(id, c) ==
  /\ ReadsNext /\ id \notin observed
  /\ Remember(id)
  /\ Reads("permit", c)
  /\ UNCHANGED <<active, request, answer>> /\ Unchanged

\* Permits are held from here until the answer is written.
Held == {n \in Positions : request[n].step \in {"dispatch", "stored", "decided", "writing"}}
HasPermit == Cardinality(Held) < Permits

\* Another request with the same cancellation identity is still unanswered.
Overlaps(c) == \E n \in Held : request[n].cid = c /\ request[n].step # "writing"

\* duplicate_cancellation_id, or the token is registered and a task spawned.
Spawn ==
  /\ loop.state = "permit" /\ HasPermit
  /\ loop' = [loop EXCEPT !.state = "reading", !.cid = NoId]
  /\ LET n == loop.at c == loop.cid IN
       IF c # NoId /\ active[c] # NoToken
       THEN Answers(n, "duplicate_cancellation") /\ UNCHANGED <<active, request>>
       ELSE /\ request' = [request EXCEPT ![n] =
                 [Unread EXCEPT !.step = "dispatch", !.cid = c,
                                !.shared = c # NoId /\ Overlaps(c)]]
            /\ active' = IF c = NoId THEN active ELSE [active EXCEPT ![c] = n]
            /\ UNCHANGED answer
  /\ UNCHANGED <<order, observed>> /\ Unchanged

-----------------------------------------------------------------------------
\* A task.

Decides(n, outcome) ==
  request' = [request EXCEPT ![n].step = "decided", ![n].outcome = outcome]

\* The dispatch ends by itself, or sends a job to the storage thread.
Dispatch(n) ==
  /\ request[n].step = "dispatch"
  /\ \/ Decides(n, "served") /\ UNCHANGED jobs
     \/ request' = [request EXCEPT ![n].step = "stored"] /\ jobs' = Append(jobs, n)
  /\ UNCHANGED <<loop, order, observed, active, answer, executed>>

\* The token or the deadline drops the dispatch.  A job it has sent stays.
Interrupt(n) ==
  /\ request[n].step \in {"dispatch", "stored"}
  /\ \/ request[n].cancelled /\ Decides(n, "cancelled")
     \/ Decides(n, "deadline_exceeded")
  /\ UNCHANGED <<loop, order, observed, active, answer, jobs, executed>>

\* Mutant: the entry is left behind.
LeftBehind(n) == active
Forgets(n) == IF request[n].cid = NoId THEN active ELSE [active EXCEPT ![request[n].cid] = NoToken]

\* The entry of its cancellation identity is removed, whosever it is.
ForgetToken(n) ==
  /\ request[n].step = "decided"
  /\ active' = Forgets(n)
  /\ request' = [request EXCEPT ![n].step = "writing"]
  /\ UNCHANGED <<loop, order, observed, answer, jobs, executed>>

WriteAnswer(n) ==
  /\ request[n].step = "writing"
  /\ Answers(n, request[n].outcome)
  /\ request' = [request EXCEPT ![n].step = "answered"]
  /\ UNCHANGED <<loop, order, observed, active, jobs, executed>>

-----------------------------------------------------------------------------
\* The storage thread: a job is executed even if nobody awaits it any more,
\* and all that was sent before the channel is closed.
\* Mutant: the result is not sent back.
NotWoken(n) == request
Wakes(n) ==
  IF request[n].step # "stored" THEN request
  ELSE [request EXCEPT ![n].step = "decided", ![n].outcome = "served"]
ExecuteJob ==
  /\ jobs # <<>>
  /\ jobs' = Tail(jobs)
  /\ executed' = executed \cup {Head(jobs)}
  /\ request' = Wakes(Head(jobs))
  /\ UNCHANGED <<loop, order, observed, active, answer>>

ServeTask(n) == Dispatch(n) \/ ForgetToken(n) \/ WriteAnswer(n)

WorkerNext ==
  \/ \E id \in RequestIds \cup {Empty} : RefuseFrame(id)
  \/ \E id \in RequestIds :
       \/ Shutdown(id)
       \/ \E c \in CancelIds : CancelRequest(id, c)
       \/ \E c \in CancelIds \cup {NoId} : ReadRequest(id, c)
  \/ Spawn
  \/ \E n \in Positions : ServeTask(n) \/ Interrupt(n)
  \/ ExecuteJob

\* The executor polls tasks and the loop, and the storage thread runs.
WorkerFairness ==
  /\ WF_workerVars(Spawn) /\ WF_workerVars(ExecuteJob)
  /\ \A n \in Positions : WF_workerVars(ServeTask(n))

WorkerSpec == WorkerInit /\ [][WorkerNext]_workerVars /\ WorkerFairness

-----------------------------------------------------------------------------
\* Every part has its type, and the queue and the set of the ReplayWindow hold
\* the same identities, each once, at most as many as its capacity.
WorkerTypeOK ==
  /\ loop \in [state : {"reading", "permit", "stopped"}, at : 0..MaxFrames,
               cid : CancelIds \cup {NoId}]
  /\ order \in Seq(Positions) /\ Len(order) <= Window
  /\ observed = ToSet(order) /\ Cardinality(observed) = Len(order)
  /\ active \in [CancelIds -> 0..MaxFrames]
  /\ request \in [Positions ->
       [step : {"unread", "dispatch", "stored", "decided", "writing", "answered", "dropped"},
        cid : CancelIds \cup {NoId}, cancelled : BOOLEAN, shared : BOOLEAN,
        outcome : {"none", "served", "cancelled", "deadline_exceeded"}]]
  /\ jobs \in Seq(Positions) /\ executed \subseteq Positions

\* No more requests are served at a time than there are permits, whatever is
\* cancelled, refused or late (run).
PermitsRespected == Cardinality(Held) <= Permits

\* The table of cancellation tokens is that of the requests being served (run).
\* A registered token is that of a request not yet decided or about to remove
\* it: no identity stays blocked as "already active".  And as long as its
\* identity was not used again before the earlier request was answered, a
\* request being served can be cancelled, or has been.
TokensAreLive ==
  loop.state # "stopped" =>
    /\ \A c \in CancelIds : active[c] # NoToken =>
         /\ request[active[c]].step \in {"dispatch", "stored", "decided"}
         /\ request[active[c]].cid = c
         /\ ~request[active[c]].cancelled
    /\ \A n \in Positions :
         /\ request[n].step \in {"dispatch", "stored"}
         /\ request[n].cid # NoId /\ ~request[n].shared
         => active[request[n].cid] = n \/ request[n].cancelled

\* Every request read is answered, unless the worker stops, and every job sent
\* is executed even if its request was cancelled, timed out or dropped by a
\* shutdown (run, db.rs).  What was read is never unread again, so that a request
\* that is for ever neither unread nor answered is the only violation.
RequestsAnswered ==
  \A n \in Positions :
    /\ []<>(request[n].step = "unread" \/ answer[n] # "none" \/ loop.state = "stopped")
    /\ request[n].step = "stored" ~> n \in executed
=============================================================================
