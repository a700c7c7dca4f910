--------------------------- MODULE BackgroundJobs ---------------------------
(***************************************************************************)
(* The long-running jobs of the Engine: a request starts one and returns,  *)
(* others poll or cancel it.  All of them keep two things in memory, under *)
(* locks of their own: what is shown of a job and the token that cancels   *)
(* it.  `service` says which of them a behaviour is of:                    *)
(*                                                                         *)
(*   scan      scan.rs: one job, both things under one lock                *)
(*   sync      disclosure_sync.rs, global_sync.rs: one job                 *)
(*   keyed     event_analysis.rs, relation_extraction.rs: one job for the  *)
(*             same key; a finished one is reused                          *)
(*   backtest  backtest.rs: one job, and a row in the store                *)
(*   quant     quant_research.rs: up to Limit jobs, each with a row        *)
(*                                                                         *)
(* What a job computes, its progress and its texts are left out.           *)
(***************************************************************************)
EXTENDS Naturals, FiniteSets

CONSTANTS Jobs,         \* the jobs that are started, in the order of their numbers
          Limit,        \* jobs of quant at a time (2)
          MaxRestarts   \* bound: restarts of the Engine

ASSUME JobsAssumption == Jobs \subseteq Nat \ {0} /\ IsFiniteSet(Jobs) /\ Limit \in Nat

VARIABLES service,
          start,       \* how far the request that starts a job is
          task,        \* the spawned task of a job, and how it ended
          shown,       \* what a slot shows: a job and its status
          token,       \* the job whose token is registered for a slot
          stop,        \* jobs whose token is cancelled
          cancelling,  \* the slot a cancel request has seen running
          row,         \* the status in the store
          newest,      \* the row written last
          crossed,     \* jobs whose start overlapped another start or an end
          restarts

jobVars == <<service, start, task, shown, token, stop, cancelling, row, newest,
             crossed, restarts>>

Services == {"scan", "sync", "keyed", "backtest", "quant"}
Slots == Jobs
None == 0

\* Every job of quant has a slot of its own, otherwise they share one.
Slot(j) == IF service = "quant" THEN j ELSE CHOOSE s \in Slots : TRUE
Stores == service \in {"backtest", "quant"}

Outcome == {"completed", "failed", "cancelled"}
Starting == {"looked", "cleared", "vacated", "claimed", "persisted"}

Shown(j, status) == [shown EXCEPT ![Slot(j)] = [job |-> j, status |-> status]]
NothingShown == [job |-> None, status |-> "none"]

JobsInit ==
  /\ service \in Services
  /\ start = [j \in Jobs |-> "unborn"]
  /\ task = [j \in Jobs |-> [pc |-> "none", outcome |-> "none"]]
  /\ shown = [s \in Slots |-> NothingShown]
  /\ token = [s \in Slots |-> None]
  /\ stop = {} /\ cancelling = None
  /\ row = [j \in Jobs |-> "none"] /\ newest = None
  /\ crossed = {} /\ restarts = 0

-----------------------------------------------------------------------------
\* Starting.

\* Mutant: a job under way does not keep another from starting.
NeverBusy(j) == FALSE
Busy(j) ==
  CASE service = "quant" -> Cardinality({s \in Slots : shown[s].status = "running"}) >= Limit
    [] service = "keyed" -> shown[Slot(j)].status \in {"running", "completed"}
    [] OTHER             -> shown[Slot(j)].status = "running"

\* Others between their look and their last step, when j looks: starts, tasks
\* that have written their status but not withdrawn their token, and tasks that
\* are not shown because of an earlier crossing.
Rivals(j) ==
  {i \in Jobs \ {j} :
     \/ start[i] \in Starting
     \/ Slot(i) = Slot(j) /\ (task[i].pc = "ending" \/ (task[i].pc = "working" /\ i \in crossed))}
Crossing(j) == crossed' = IF Rivals(j) = {} THEN crossed ELSE crossed \cup {j} \cup Rivals(j)

Goes(j, step) == start' = [start EXCEPT ![j] = step]

Works(j) == task' = [task EXCEPT ![j].pc = "working"]

\* Mutant: the token of a new job is not registered.
Unregistered(j) == token
Registered(j) == [token EXCEPT ![Slot(j)] = j]

First(j) == start[j] = "unborn" /\ \A i \in Jobs : i < j => start[i] # "unborn"

Refuse(j) ==
  /\ First(j) /\ Busy(j) /\ Goes(j, "refused")
  /\ UNCHANGED <<service, task, shown, token, stop, cancelling, row, newest, crossed, restarts>>

\* A scan looks, claims the slot and registers its token under one lock.
StartScan(j) ==
  /\ service = "scan" /\ First(j) /\ ~Busy(j) /\ Goes(j, "spawned")
  /\ shown' = Shown(j, "running") /\ token' = Registered(j) /\ Works(j)
  /\ UNCHANGED <<service, stop, cancelling, row, newest, crossed, restarts>>

\* A synchronisation and a backtest look and claim under the lock of `shown`.
Claim(j) ==
  /\ service \in {"sync", "backtest"} /\ First(j) /\ ~Busy(j) /\ Goes(j, "claimed")
  /\ shown' = Shown(j, "running") /\ Crossing(j)
  /\ UNCHANGED <<service, task, token, stop, cancelling, row, newest, restarts>>

\* The others look under a lock, and insert under another.
Look(j) ==
  /\ service \in {"keyed", "quant"} /\ First(j) /\ ~Busy(j) /\ Goes(j, "looked")
  /\ Crossing(j)
  /\ UNCHANGED <<service, task, shown, token, stop, cancelling, row, newest, restarts>>

\* Leftovers of a failed or cancelled job of the key are removed.
ClearShown(j) ==
  /\ service = "keyed" /\ start[j] = "looked" /\ Goes(j, "cleared")
  /\ shown' = [shown EXCEPT ![Slot(j)] = NothingShown]
  /\ UNCHANGED <<service, task, token, stop, cancelling, row, newest, crossed, restarts>>

ClearToken(j) ==
  /\ start[j] = "cleared" /\ Goes(j, "vacated")
  /\ token' = [token EXCEPT ![Slot(j)] = None]
  /\ UNCHANGED <<service, task, shown, stop, cancelling, row, newest, crossed, restarts>>

Insert(j) ==
  /\ start[j] = IF service = "quant" THEN "looked" ELSE "vacated"
  /\ service \in {"keyed", "quant"} /\ Goes(j, "claimed")
  /\ shown' = Shown(j, "running")
  /\ token' = IF service = "quant" THEN Registered(j) ELSE token
  /\ UNCHANGED <<service, task, stop, cancelling, row, newest, crossed, restarts>>

WritesRow(j, status) == row' = [row EXCEPT ![j] = status] /\ newest' = j

Persist(j) ==
  /\ Stores /\ start[j] = "claimed" /\ Goes(j, "persisted") /\ WritesRow(j, "running")
  /\ UNCHANGED <<service, task, shown, token, stop, cancelling, crossed, restarts>>

\* The store fails, or the request is dropped while it waits for the store: the
\* slot goes on showing a running job that nobody will spawn.
Abandon(j) ==
  /\ Stores /\ start[j] = "claimed" /\ Goes(j, "abandoned")
  /\ WritesRow(j, "running") \/ UNCHANGED <<row, newest>>
  /\ UNCHANGED <<service, task, shown, token, stop, cancelling, crossed, restarts>>

SpawnJob(j) ==
  /\ start[j] = IF Stores THEN "persisted" ELSE "claimed"
  /\ Goes(j, "spawned") /\ Works(j)
  /\ token' = IF service = "quant" THEN token ELSE Registered(j)
  /\ UNCHANGED <<service, shown, stop, cancelling, row, newest, crossed, restarts>>

-----------------------------------------------------------------------------
\* The task.  Between its last look at the token and its end it may be stopped
\* in vain; a scan ends alike either way.
Outcomes(j) ==
  {"completed"} \cup (IF service = "quant" /\ j \in stop THEN {} ELSE {"failed"})
    \cup (IF service # "scan" /\ j \in stop THEN {"cancelled"} ELSE {})

\* What the slot shows, whosever it is, gets the status; an entry that was
\* removed is not written.
\* Mutant: a cancelled job goes on being shown as running.
OnlyOutcomes(j, o) ==
  IF o = "cancelled" THEN shown ELSE [shown EXCEPT ![Slot(j)].status = o]
Settled(j, o) ==
  IF shown[Slot(j)] = NothingShown THEN shown ELSE [shown EXCEPT ![Slot(j)].status = o]

\* A scan withdraws its token under the same lock.
End(j, o) ==
  /\ task[j].pc = "working" /\ o \in Outcomes(j)
  /\ shown' = Settled(j, o)
  /\ task' = [task EXCEPT ![j] = [pc |-> IF service = "scan" THEN "ended" ELSE "ending",
                                  outcome |-> o]]
  /\ token' = IF service = "scan" THEN [token EXCEPT ![Slot(j)] = None] ELSE token
  /\ UNCHANGED <<service, start, stop, cancelling, row, newest, crossed, restarts>>

\* The others withdraw the token of the slot, whosever it is by then.
Withdraw(j) ==
  /\ task[j].pc = "ending"
  /\ token' = [token EXCEPT ![Slot(j)] = None]
  /\ task' = [task EXCEPT ![j].pc = IF Stores THEN "saving" ELSE "ended"]
  /\ UNCHANGED <<service, start, shown, stop, cancelling, row, newest, crossed, restarts>>

\* A failure to save is logged.
SaveOutcome(j) ==
  /\ task[j].pc = "saving"
  /\ WritesRow(j, task[j].outcome) \/ UNCHANGED <<row, newest>>
  /\ task' = [task EXCEPT ![j].pc = "ended"]
  /\ UNCHANGED <<service, start, shown, token, stop, cancelling, crossed, restarts>>

-----------------------------------------------------------------------------
\* Cancelling: sync and keyed look at what is shown first.
CancelLook(s) ==
  /\ service \in {"sync", "keyed"} /\ cancelling = None
  /\ shown[s].status = "running" /\ cancelling' = s
  /\ UNCHANGED <<service, start, task, shown, token, stop, row, newest, crossed, restarts>>

\* Without a token the request answers that nothing was cancelled.
CancelToken(s) ==
  /\ IF service \in {"sync", "keyed"} THEN cancelling = s
     ELSE cancelling = None /\ token[s] \notin stop \cup {None}
  /\ cancelling' = None
  /\ stop' = stop \cup ({token[s]} \ {None})
  /\ UNCHANGED <<service, start, task, shown, token, row, newest, crossed, restarts>>

-----------------------------------------------------------------------------
\* The process ends; the next one restores what is stored, quant all rows and
\* backtest the newest, and a job that was running is suspended.
Restored(j) == row[j] # "none" /\ (service = "quant" \/ newest = j)
AfterRestart(status) == IF status = "running" THEN "suspended" ELSE status

Restart ==
  /\ restarts < MaxRestarts /\ restarts' = restarts + 1
  /\ start' = [j \in Jobs |-> IF start[j] \in Starting THEN "abandoned" ELSE start[j]]
  /\ task' = [j \in Jobs |-> [pc |-> "none", outcome |-> "none"]]
  /\ row' = [j \in Jobs |-> IF Restored(j) THEN AfterRestart(row[j]) ELSE row[j]]
  /\ shown' = [s \in Slots |->
       IF \E j \in Jobs : Restored(j) /\ Slot(j) = s
       THEN LET j == CHOOSE j \in Jobs : Restored(j) /\ Slot(j) = s
            IN [job |-> j, status |-> AfterRestart(row[j])]
       ELSE NothingShown]
  /\ token' = [s \in Slots |-> None] /\ cancelling' = None
  /\ UNCHANGED <<service, stop, newest, crossed>>

StartStep(j) ==
  \/ ClearShown(j) \/ ClearToken(j) \/ Insert(j) \/ Persist(j) \/ Abandon(j) \/ SpawnJob(j)

JobStep(j) ==
  \/ \E o \in Outcome : End(j, o)
  \/ Withdraw(j) \/ SaveOutcome(j)

JobsNext ==
  \/ \E j \in Jobs : \/ Refuse(j) \/ StartScan(j) \/ Claim(j) \/ Look(j)
                     \/ StartStep(j) \/ JobStep(j)
  \/ \E s \in Slots : CancelLook(s) \/ CancelToken(s)
  \/ Restart

\* The executor polls requests and tasks; every upstream call has a time limit.
JobsFairness == \A j \in Jobs : WF_jobVars(StartStep(j)) /\ WF_jobVars(JobStep(j))

JobsSpec == JobsInit /\ [][JobsNext]_jobVars /\ JobsFairness

-----------------------------------------------------------------------------
Starts == {"unborn", "refused", "abandoned", "spawned"} \cup Starting
Task == [pc : {"none", "working", "ending", "saving", "ended"}, outcome : {"none"} \cup Outcome]
Status == {"none", "running", "suspended"} \cup Outcome
Entry == [job : Jobs \cup {None}, status : Status]

\* Every part has its type, and only a spawned job has a task.
JobsTypeOK ==
  /\ service \in Services
  /\ start \in [Jobs -> Starts] /\ task \in [Jobs -> Task]
  /\ shown \in [Slots -> Entry]
  /\ token \in [Slots -> Jobs \cup {None}] /\ cancelling \in Slots \cup {None}
  /\ stop \subseteq Jobs /\ crossed \subseteq Jobs /\ newest \in Jobs \cup {None}
  /\ row \in [Jobs -> Status]
  /\ \A j \in Jobs : task[j].pc # "none" => start[j] = "spawned"

Working == {j \in Jobs : task[j].pc = "working"}

\* A slot has one worker, and quant has Limit of them; and a job at work is the
\* one that is shown, as running, with its token there to be cancelled (start,
\* cancel).  Starts that overlap another start or the end of an earlier job are
\* excepted where the code excludes neither: two workers of a keyed slot, and
\* the leftovers of the earlier job, to which the new one may lose its own.
WorkersAccounted ==
  /\ \A i, j \in Working : i # j /\ Slot(i) = Slot(j) =>
       service = "keyed" /\ {i, j} \subseteq crossed
  /\ service = "quant" => Cardinality(Working \ crossed) <= Limit
  /\ \A j \in Working \ crossed :
       /\ shown[Slot(j)] = [job |-> j, status |-> "running"]
       /\ token[Slot(j)] = j

\* What is shown as running ends, cancelled or not (finish, fail,
\* finish_cancelled, stop_if_cancelled, restore), unless its start failed after
\* it had been shown.
JobsEnd ==
  \A j \in Jobs : \A s \in Slots :
    []<>(shown[s] # [job |-> j, status |-> "running"] \/ start[j] = "abandoned")
=============================================================================
