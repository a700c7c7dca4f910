------------------------------ MODULE MCEngine ------------------------------
(***************************************************************************)
(* The parts of the Engine and of the Agent host that keep state of their  *)
(* own beside the task and its store, for model checking.  They share no   *)
(* variable (a turn's saves, a job's rows and what the news keep are calls *)
(* the store serves, each in one step), so a behaviour is one of one of    *)
(* them, the others at rest.                                               *)
(***************************************************************************)
EXTENDS EngineWorker, SessionTurn, BackgroundJobs, ModelStream, DataRoot, NewsIngest

CONSTANT Focus    \* the parts that run

VARIABLE focus

workerAlone == <<turnVars, jobVars, streamVars, rootVars, newsVars, focus>>
turnAlone   == <<workerVars, jobVars, streamVars, rootVars, newsVars, focus>>
jobsAlone   == <<workerVars, turnVars, streamVars, rootVars, newsVars, focus>>
streamAlone == <<workerVars, turnVars, jobVars, rootVars, newsVars, focus>>
rootAlone   == <<workerVars, turnVars, jobVars, streamVars, newsVars, focus>>
newsAlone   == <<workerVars, turnVars, jobVars, streamVars, rootVars, focus>>

engineVars == <<workerAlone, workerVars>>

\* Private reasoning, markers cut off at the end or doubled at the beginning.
SomeReplies ==
  {<<>>, <<"a">>, Open \o <<"p">> \o Close \o <<"a">>,
   <<"<">> \o Open \o <<"p", "<">> \o Close \o <<"a", "<", "t">>,
   <<"a">> \o Open \o <<"p", "<", "/">>}

\* A document, published anew with another content.
SomeFeeds == {<<<<"d", 1>>, <<"d", 2>>>>}
SomeBounds == {[begun |-> 2, trouble |-> 1, seconds |-> 0],
               [begun |-> 1, trouble |-> 2, seconds |-> 0],
               [begun |-> 2, trouble |-> 0, seconds |-> 1]}

EngineInit ==
  /\ WorkerInit /\ TurnInit /\ JobsInit /\ StreamInit /\ RootInit /\ NewsInit
  /\ focus \in Focus
  /\ focus # "jobs" => service = "scan"
  /\ focus # "news" => left = CHOOSE b \in Bounds : TRUE

EngineNext ==
  \/ focus = "worker" /\ WorkerNext /\ UNCHANGED workerAlone
  \/ focus = "turn"   /\ TurnNext   /\ UNCHANGED turnAlone
  \/ focus = "jobs"   /\ JobsNext   /\ UNCHANGED jobsAlone
  \/ focus = "stream" /\ StreamNext /\ UNCHANGED streamAlone
  \/ focus = "root"   /\ RootNext   /\ UNCHANGED rootAlone
  \/ focus = "news"   /\ NewsNext   /\ UNCHANGED newsAlone

\* Nothing that is fair is enabled in a part at rest.
EngineFairness == WorkerFairness /\ TurnFairness /\ JobsFairness /\ NewsFairness

EngineSpec == EngineInit /\ [][EngineNext]_engineVars /\ EngineFairness

-----------------------------------------------------------------------------
\* The state of every part is well-formed, and no more requests are served
\* than there are permits (engine/src/main.rs).
EngineTypeOK ==
  /\ WorkerTypeOK /\ PermitsRespected
  /\ TurnTypeOK /\ JobsTypeOK /\ StreamTypeOK /\ RootTypeOK /\ NewsTypeOK /\ focus \in Focus

\* Nothing that was begun hangs: requests are answered, turns, jobs and fetches
\* end, after a cancellation, a failed save, a restart or a failing source too.
ActivitiesEnd == RequestsAnswered /\ TurnEnds /\ JobsEnd /\ FetchesEnd
=============================================================================
