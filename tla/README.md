# Verification of the A-share terminal's Agent, Engine and market data

TLA+ models of `astock-terminal` (Rust), their TLC configurations and their
TLAPS proofs. The program is a desktop and command-line research terminal: an
Agent runs a language model in a loop of tool calls, an Engine serves the tools
(market data, disclosures, backtests, a relation graph, reports) and keeps
everything in one SQLite database. What a unit test reaches least is what
several parties do to one state: the durable protocol between the Agent, the
Engine's store and a client that may cancel, drop the stream or stop reading;
the Engine's worker with its table of running requests; background jobs; shared
fetches, circuits and connections of the market data path; news read on from a
stored position; reviewed relations published and retracted in several jobs;
disclosures that arrive in any order from an index and a mirror. The
models are about that, and about two long sequential algorithms whose rules
meet in many combinations, the backtest and the analysis after Chan theory.

## Inventory

| Component | State | Operations | Interacts with | Hard part |
|---|---|---|---|---|
| Agent event store (`engine/src/event_store.rs`) | tables `agent_tasks_v2`, `agent_events_v2`, `agent_effects_v2`, `agent_conversations_v2` | create task, append event, put checkpoint, begin and complete effect; save, rename, delete, branch a conversation; paged reads | every Agent host, through Engine requests; one storage thread | retried, late and conflicting requests; a branch of a moving conversation |
| Agent task runtime (`agent-runtime/src/runtime.rs`, `finalize.rs`) | `RunState`: number, phase, round, completed tools, finalization ledger; the loop's locals | `start`, `execute_loop`, `execute_tools`, `finalize_report`, `record` | store, provider, tools, verifier, client (bounded channel, cancellation token) | crash between writes, cancellation and dropped stream anywhere, out-of-order tools, four retry budgets |
| Session turns (`runtime.rs`, `session.rs`) | `RuntimeSession`, the saved session row | `start_session_turn` relays the events of a task and saves the session | task stream, conversation rows, client | the row against the event log; a relay that stops half-way |
| MiniMax adapter (`agent-runtime/src/minimax.rs`, `minimax/src/*`) | open connection, buffered and committed chunks, filter of private reasoning | connect, reconnect, restart a round before its commit | provider service, runtime | a restart after text was shown; markers cut anywhere |
| Engine worker (`engine/src/main.rs`) | running requests, cancellation tokens, permits, replay window | read a frame, spawn, cancel, answer, shut down | stdio peers, storage thread | stale tokens, cancellation behind a full worker |
| Storage actor (`storage/src/db.rs`) | SQLite connection, job queue | `run` a closure on the storage thread | all services | jobs of requests that were dropped |
| Background jobs (`engine/src/scan.rs`, `event_analysis.rs`, `quant_research.rs`, `lib.rs`; `disclosure_sync.rs`, `global_sync.rs`) | status map, token, saved rows | start, cancel, end, persist, restore | worker, store | check and insert under different locks |
| Data root (`engine/src/data_root.rs`) | pointer file, roots on disk | migrate, roll back, open at start | file system, running Engine | a kill between two writes; two requests |
| Relation review and publication (`relation-extraction/src/lib.rs`) | candidates, publications | review, publish, retract | relation graph, storage thread | several jobs per request |
| Relation graph (`graph/src/bitemporal.rs`) | revisions in business and knowledge time, current projection | record a revision, snapshot as of, replay | publication, Engine | times read before they are written |
| Market data hub (`market-data/src/hub.rs`, `breaker.rs`, `cache.rs`) | breaker per provider, cache, single-flight table, gates | fetch with failover and enrichment | providers | a half-open breaker nobody closes, a dropped leader |
| TDX pool (`tdx/src/pool.rs`, `conn.rs`) | slots, connections, blacklist | take a slot, request, reconnect, heartbeat | TDX servers | locks held over reconnects; a request dropped between write and read |
| News ingestion (`market-data/src/providers/news_ingest.rs`, `finance_news.rs`, `storage/src/news_archive.rs`) | cursor, snapshot and disabled flag of a source; documents and their revisions; per ingestor a circuit and the last page | read a source on from its cursor, archive, switch a source, replay a time | providers, storage thread, user | the cursor against the archive, two ingestors over one store |
| Formal disclosures (`engine/src/disclosure_sync.rs`, `disclosure/src/lib.rs`, `source-verification`) | disclosures with links and version, entrances, archived originals; the job's place and snapshot | read the statutory index and the mirror, archive an original, ingest a row | providers, storage thread, user | corrections before originals, a second entrance, an original that is gone, a stop or a kill between fetch and write |
| Backtest and trading rules (`backtest/src/engine.rs`, `exit.rs`, `trading-rules`) | portfolio, orders waiting, open position's exits | walk bars, execute orders, decide exits | strategies | T+1, limits, lots and fees, three execution times, staged and trailing exits |
| Chan theory (`chanlun/src/daily.rs`) | none between requests; its answer | analyse a series of daily bars | quotes, front ends | a series that is longer at the next request must not take back what was drawn |
| Plan, intent, clarification (`plan.rs`, `intent.rs`, `clarify.rs`) | versioned plan | `Plan::apply` | session | stale versions, dependencies |
| Fault policy (`fault.rs`) | attempt budget | `classify`, `plan` | runtime, provider adapter | reset times in the past, budgets at zero |
| Report, catalog, renderer (`report.rs`, `catalog.rs`, `render.rs`) | evidence catalog | validate, render, search | runtime | pure |
| Gateway (`agent-runtime/src/engine.rs`) | none | one Engine request per store or tool call | Engine | no deadline on a request |
| Storage maintenance (`storage/src/maintenance.rs`, `memcache.rs`) | retention, caches | evict, prune | storage actor | limits |
| Front ends (`astock`, `desktop`, `ui`) | view state | start, cancel, list | Engine, Agent | the clients of the models |

The remaining crates (numerical analysis, text classification, scrapers,
security predicates, protocol types, evaluation) are sequential or pure;
`PROJECT.json` lists each with its reason.

What makes the modelled components correct:

* store: the log of a task is 1..n without gaps; the checkpoint never runs ahead
  of it or backwards; an idempotency key has one effect and an effect one
  outcome; nothing acknowledged is ever lost or replaced;
* task: what the client saw is durable; no side effect without a stored intent;
  no event that claims more than the effect table holds; only verified reports
  are published; each call is answered once; the outcome is stored once and in
  the checkpoint; every budget ends the task;
* session turn: the saved row is a state the log had; what the client saw is in
  the row; a branch starts from a state its origin was in; the turn ends;
* worker: a token in the table belongs to a request that is still served and can
  still be cancelled, and nobody else removes it; every frame is answered;
* background jobs: no more workers than the limit, but for the races the code
  has, and what is running can be cancelled; every job ends;
* model round: what the runtime is given is one reply, whole, once, without the
  private part, whatever connection it came over;
* data root: the pointer names a complete root at every moment;
* hub: one leader per fetch; those that queue behind a failure do not repeat it;
  every caller is answered;
* pool: a request has one slot; an answer goes to the request it is for, but for
  dropped requests; requests end; a slot without a connection gets one again;
* news: what a page showed is archived before the cursor it came with is stored;
  the revisions of a document replace one another in one line; what was known at
  a time is what a replay of it shows; a source the user disabled is left alone;
  requests end;
* disclosures: only the statutory index verifies; a verification, a link or a
  cancellation is never taken back; links form no cycle; a job that says it is
  complete has left nothing unverified;
* backtest: the log of trades explains the book, and nothing bought is sold the
  same day; a buy is the largest lot that fits; a stop closes the position; the
  trailing stop hangs from the highest close;
* Chan theory: tops and bottoms alternate, strokes join them, zones do not share
  strokes, signals lie at the ends of strokes; a longer series takes nothing back
  that does not rest on the seeds of |MACD|;
* relation graph: a snapshot shows on replay what it first showed, and nothing
  later changes the past; while some publication supports the relation, its row
  has the business period of one, and once none does it is not shown any longer.

`PROJECT.json` lists the hazards with the line each one bites at and the
properties that cover it.

## Modules

```
                       DurableTask               what a stored task promises
                        ^       ^
              implements|       |implements
                   EventStore   AgentTask        a task against its store
                        ^         ^   ^
                        |         |   AgentTaskProofs
                        |         MCAgentTask
   RelationGraph        |    Disclosure
        ^               |      ^
        +------- MCEventStore -+                 what is in the database
                        ^
                  DatabaseProofs

   CircuitBreaker <- MarketHub   TdxPool   Chanlun   Backtest
                        ^           ^         ^         ^
                        +-----------+- MCMarket --------+   from market data to results

   EngineWorker ModelStream SessionTurn  NewsIngest  BackgroundJobs  DataRoot
     ^            ^           ^             ^            ^           ^
     +------------+-----------+- MCEngine --+------------+-----------+

   FoldProofs  <- BacktestProofs, ChanlunProofs     recursive folds
   MCMarket, BacktestProofs, ChanlunProofs <- MarketProofs
   MCEngine, ModelStreamProofs             <- EngineProofs
```

An arrow is drawn from a module to what it uses.

`MCEventStore`, `MCMarket` and `MCEngine` are collections: their parts share no
variable, so a behaviour is one of one part (variable `focus`), the others at
rest. Where one part uses another, the user has the other's answers as free
inputs: the hub lets the pool answer, fail or take its time; a turn and a job
take a store call as one step. Under `focus = "tasks"`, `DatabaseSpec` is
`EventStore`'s `Spec`.

Operators commented `Mutant:` are plausible bugs of the definition below them.
They take no part in the specification.

### DurableTask

The abstract journal of one task: an append-only log, an accepted number that
moves forward within it, and effects opened once and closed once. Both concrete
modules are shown to implement it, the store request by request and the Agent
over a whole run, so that a reader of the database may rely on one contract
whoever wrote it.

### EventStore

`tasks`, `events` and `effects` are the three tables, as functions from their
primary keys. Each operation is one SQLite transaction executed on the single
storage thread, so each is one action: `CreateTask` (`INSERT OR IGNORE`),
`AppendEvent` (`sequence_gap`, `sequence_conflict`, identical replay),
`PutCheckpoint` (range check against row and log), `BeginEffect` (lookup by
identity or key, replay, conflict), `CompleteEffect` (first outcome wins, same
outcome again succeeds). Requests may come from any host, in any order, late or
twice, so `Next` offers every request at any time; `acked` is a history variable
that remembers which were answered with success. A refused request changes
nothing and is a stutter. `UNIQUE(event_id)` and the foreign keys (`PRAGMA
foreign_keys=ON`, `storage/src/db.rs:1388`) are guards. The lookup by identity
or key may match two rows; SQLite returns one of them, chosen freely here.
Hashing of keys is taken to be injective. Size limits and identity syntax are
left out.

### AgentTask

One task from `AgentRuntime::start` to its end. Between two decisions the
runtime performs a fixed sequence of awaited writes; the variable `todo` holds
what is left of it and every write is a step of its own. A recorded event takes
three steps, as in `record`: append, checkpoint, send (`stage`). So the client,
a cancellation, a store failure or the end of the process can fall between any
two of them. The end of the process needs no action: nothing restarts a task, so
what must hold after a crash is what holds of `log`, `checkpoint` and `effects`
in every state.

| Code | Actions |
|---|---|
| `record` | `AppendEvent`, `PutCheckpoint`, `Send` |
| `begin_effect`, `complete_effect` | `BeginEffect`, `CompleteEffect` |
| `execute_task` | `CreateTask`, `Raise`, `Finish` |
| `execute_loop` | `Plan`, `SelectModel`, `StartRound`, `Connect`, `AwaitChunk`, `ChunkArrives`, `StreamFails`, `EmptyTurn`, `CallTurn`, `TextTurn`, `Answer`, `BatchEnds` |
| `execute_tools` | `PrepareCall`, `Prepared`, `ToolReturns`, `Collected`, `SearchEvidence`, `ServeCancelled` |
| `finalize_report`, `verify_canonical_report` | `SubmitReport`, `VerifierAnswers` |
| `complete_run` | `Publish`, `Answer` |
| `TaskStream::recv`, `cancel`, `drop` | `Recv`, `Cancel`, `Close` |

Everything outside the task answers freely: provider (text, calls, errors,
timeouts, limits), tools, contract check, verifier, and the store, whose calls
may fail `MaxStoreFaults` times with or without having been carried out. The
store's own rule for numbers (`NextInLog`) and keys is kept, because the runtime
must never run into it. Tool names stand for their kind: a retrieval, the
calculation, the two tools of the runtime, an unregistered name, a call with
arguments that do not parse. Message texts, token budgets, evidence identifiers
and the model's context are left out; a report draft is a model value and its
fingerprint is itself.

### RelationGraph

Candidates that support one relation between two companies are reviewed,
published and retracted. `candidate` and `publications` are the tables of
`relation-extraction`, `revisions` is `graph_edge_revisions` (a revision's id is
the hash of its content, so it is its content), `projection` the row of
`graph_edges`, with the business period of the edge that was written last. What
`all_edges` answers at a time is `Shown`: the row while its period lasts. A
request is a sequence of jobs of the storage thread, each an
action: `PublishCandidate`, `RecordRevision`, `ProjectEdge`, `CheckPublished`,
`InsertPublication`; `RetractCandidate`, `WithdrawPublication`, `LookUpEdge`,
`FindPrevious`, `RevokeRelation`, `EndEdge`. A retraction goes on behind
`LookUpEdge` only if the relation is shown at that moment. The time a request writes is read before its job is
queued, so it is any time between. `DropCall` drops a request between two jobs.
`Selected` is `graph_as_of` with `revision_rank`; `TakeSnapshot` issues a
snapshot, `Record` is the transaction of `record_revision_at` with its answer
for a stored content, its supersession and its checks.

### Disclosure

The job of `disclosure_sync.rs` with the tables it fills. `listing` is what the
statutory index (columns of pages) and the mirror answer during a job; the next
job may meet another. `ReadIndex` reads a page, `FetchOriginal` archives the
document of a row or fails to, `IngestOfficial` writes the row (the token is not
looked at between the two); `ReadMirror` and `IngestMirror` follow. `StopSync`
cancels the token, which `FinishCancelled` finds at the next request or row;
`KillSync` ends the process. `IngestEntry` is the transaction of `ingest`: the
prior version (`Priors`, the one last seen among those of the same base title
and a common security), the row inserted or updated (`Upserted`, with `KeptLink`
and `KeptVersion` for the columns `ON CONFLICT` leaves alone or coalesces), the
mark on a cancelled one (`Marked`), the entrance (`WithEntrance`). `PrimaryVerified`
is what `hydrate_item` shows. A version is the url of its document; attachments,
events, texts and the health of providers are left out.

### AgentTask's neighbours: SessionTurn and ModelStream

`SessionTurn` is the relay of `start_session_turn` between a task (reduced to
its journal: append, checkpoint, send) and its client, with both bounded
channels. `RelayReceives`, `SaveSession` / `SaveFails`, `PassOn`,
`ForwardCancel` and `JoinTask` are the relay; `CancelTurn`, `DropTurn`,
`ClientReceives` the client; `RenameConversation`, `DeleteConversation`,
`AskBranch` and `ServeBranch` are the store's operations on the same row by
other requests, `SaveSession` among them (`save_conversation`).
`ServeBranch` compares the session as it was loaded with the row, the task and
the checkpoint, as `branch_conversation` does.

`ModelStream` is one streamed round: establishing a connection with retries
(`Connect`, `ConnectFails`), chunks that are held back until something visible
or a tool call commits them (`Receive`, `Commits`), a restart before the commit
(`Restarts`), the ends of a stream (`LinkFails`, `LinkCloses`, `LinkSilent`),
and the filter of private reasoning (`Pushed`, `Flushed`) over text cut
anywhere. The markers are abbreviated to three symbols that begin alike. The
reference for the filter is `Public`, on the whole text.

### EngineWorker

One loop reads frames: `ReadRequest`, `CancelRequest`, `Shutdown`,
`RefuseFrame`, each with the replay window (`Remember`). `Spawn` waits for a
permit; a task is `Dispatch` (inline or a job of the storage thread),
`Interrupt` (cancellation, deadline), `ForgetToken` and `WriteAnswer`.
`ExecuteJob` is the storage thread, which executes jobs in order, those whose
request is gone too. The executor's select between a reply, a cancellation and
a deadline is free.

### BackgroundJobs

`service` chooses one of the five job services, which differ in what they lock
together (the table in the module). A start is `StartScan`, or `Claim`, `Look`,
`ClearShown`, `ClearToken`, `Insert`, `Persist`, `SpawnJob`; the task is `End`,
`Withdraw`, `SaveOutcome`; a cancel request is `CancelLook`, `CancelToken`;
`Restart` restores what rows say was running as suspended. `crossed` remembers
the starts that overlapped another start or the end of an earlier job.

### DataRoot

`Prepare`, `Backup`, `Finalize` copy the open root; `ReadyToActivate`,
`CreateTemporary`, `WriteTemporary`, `Activate` replace the pointer file through
a temporary file that all requests of a process share; `Rollback` and `Verified`
point back; `Cancel` stops a request that is not yet activating. `Write` changes
the data of the open root meanwhile, `Kill` ends the process anywhere and
`Resolve` starts the next one.

### CircuitBreaker, MarketHub

`CircuitBreaker` is `breaker.rs`: closed, open, half-open with one probe, as
operators on one circuit. `MarketHub` has the single-flight table (`flight`), the
cache, the circuits and the two gates of one permit. A fetch is a shared future:
it moves (`Progress`) only while some request that awaits it is polled
(`Driven`). Kinds of keys stand for the requests of `hub.rs`: base klines,
enriched klines that join or start a base fetch, quotes with their supplement,
fund flows, market breadth with its last good value. `Call`, `Return` and `Drop`
are the callers; `Removes` the removal of the entry by its leader.

### TdxPool

A slot is a lock (queue of waiters) and a connection (queue of unread answers).
`TakeLock`, `TryServer`, `WritePacket`, `ReadAnswer`, `RequestFails`,
`BlockServer` are `pool_request` and the heartbeat; `DropRequest` drops a
request at any await; `ServerFails`, `ServerReturns`, `CooldownEnds` are the
world.

### NewsIngest

One source whose items are `feed`, so that a cursor is a position in it. What a
source answers depends on its kind (`style`). NewsNow and the announcements
ignore the cursor and answer their newest items, the first of which is the next
cursor (`NewestPages`); a configured source answers rows behind the cursor and a
cursor of its own, which may lie behind rows that were cut off (`RowsPages`).
Either may leave out any item, and a page may be an old one. `skipped` are the
positions between the old cursor and the new one that were not on the page. A
request is `BeginFetch`, `ReadSetting` and `ApplySetting`
(`sync_disabled`), `Check`, `LoadCursor`, `TakePermit`, then `SourceAnswers` or
`SourceFails` with `MarkFailure` and `Fallback`; a page is archived by
`ArchiveItem` per item (`Upsert` is the transaction of `news_archive_upsert`),
`SaveCursor`, `SaveSnapshot`. The two ingestors of `finance_news.rs` share the
store: `archive` does all of it, `research` only looks. `SwitchSource`,
`StoreSwitch`, `SwitchResearch` are the user's switch, in memory and store of
one ingestor after the other; `ReplayAsOf` is `news_archive_as_of`; `DropFetch`,
`RestartNews`, `CooldownOver` and `NewsTick` the world.

### Backtest

`run` walks `series`: `NextBar` makes what is held sellable; `ExecuteOrder` is
`execute_one` (`Buy`, `Sell`, `Reject`), on the orders of the bar before at the
open, or at the close, or on the same bar's, as `policy.execution` says.
`DecideFreely`, `StopOut`, `ScaleOut`, `TrailOut` are `ExitManaged::on_bar`,
which lets the wrapped strategy emit any of `OrderLists` or puts an exit in its
place. Prices are whole units: `LimitUp`, `LimitDown`, `FillPrice`, `RoundLot`
and `Fee` compute what the code does, rounded down where the code has floating
point. `RoundTrips` matches sales with lots as `round_trips` does and is used to
state what the log must explain.

### Chanlun

`analyze_chanlun_daily` has no state, so the state is the series (`bars`) and
what the analysis last made of it (`chart`); `SeriesGrows` is a request after
some more days, and analyses everything anew, as `engine/src/analysis.rs` does.
The loops of the code are folds (`FoldAt`): `MergedKlines` (`MergeBar`, `Absorbed`),
`Fractals` (`Turns`), `Strokes` (`WalkFractal`, with the start that moves and the end that
waits), `Zhongshus` (`Zones` with `AddZone`, `BrokenBy`), `FirstType` (`Diverges`),
`SecondType`, `ThirdType`. |MACD| is computed over the whole series too (`macd`).
`calc_daily_macd` seeds its averages with the mean of the first 12, 26 and 9 bars
or of what there is of them, so until there are 26 bars (`Seeds`) another bar may
change |MACD| of the earlier ones. The model lets it take any value of `Macds`
then, and keeps the earlier values from there on (`Seeded`): a signal of
divergence over a shorter series may vanish, and `NothingRepainted` promises it
only over a seeded one. This is more than the program does: in exact arithmetic a
late seed moves DIF and DEA alike, so |MACD| changes only up to the ninth bar, and
up to the 26th by rounding; a divergence needs fifteen. What the program takes
back below 26 bars are divergences of areas that are equal up to rounding. A
request for fewer bars (`count`) starts the series at another day, which is
another series here.

## Runs

| Run | Shows |
|---|---|
| `store` | `EventStore`: two tasks, two events, two effects, every request at any time: the store's invariants and that each task implements `DurableTask`. `RelationGraph`: two candidates of one relation, three requests, two at a time, dropped anywhere, with a snapshot at any moment: `SnapshotsReplay`, `ProjectionIsSupported`. `Disclosure`: two jobs over three indexes, stopped anywhere, with one failure or kill: `DisclosuresAreSound`, `NothingTakenBack` |
| `agent_client` | two rounds of up to two calls, reports accepted, refused or repeated; cancel and drop at any point; one store failure: `DeliveredIsDurable`, `OutcomesAreSound` (the outcome is stored, and only verified reports are published), `NoRoundAfterExhaustion`, `ImplementsDurableTask` and, under fairness, `Terminates` |
| `agent_batch` | one batch of up to three calls of six kinds, two at a time, with reports that can be decoded and that cannot: intents, effects, events, messages and checkpoint agree, and no more is open at the end than the code leaves: `EffectsInOrder`, `StoreNeverRefuses`, `EveryCallAnswered` |
| `market` | two market requests that meet in one fetch, in the queue of a gate or where a detailed series awaits a base series, dropped at any await: `OneLeader`, `QueueDegrades`. A request and the heartbeat over two servers that fail: `SlotsAreExclusive`. Under fairness both are served: `RequestsServed`. Backtests over three series under all execution times and exits: `BooksBalance`, `BuyIsLargest`, `ExitsAreSound`. Chan theory over series that grow: `ChartIsSound`, `NothingRepainted` |
| `engine` | three frames under two permits: `TokensAreLive`. A turn against renames, deletions, branches and a failed save: `SessionIsSaved`, `BranchOriginIsReal`. Two jobs of each service with a restart: `WorkersAccounted`. A model round over failing connections: `RoundIsWhole`. Two moves of the data root with a kill: `PointerIsSound`. Two requests to a news source with failures, restarts and switches: `ArchiveIsSound`, `DisabledIsRespected`. Under fairness whatever was begun ends: `ActivitiesEnd` |
| `agent_exhausted`, `agent_absorbing`, `agent_withdrawn`, `agent_exit`, `half_open`, `lingering`, `revision_links` | each refutes one statement of the documentation or of a comment (below) |

Bounds and why they suffice.

* The store's transactions compare a request with at most one other event and
  two other effects, so two of each, over two numbers and two tasks, meet every
  combination of same and different; outcomes differ in their status, so one
  result is enough; the proofs remove the bound.
* The relation graph needs two candidates for one to support the relation while
  the other is retracted, and three requests for publish, publish, retract and
  for publish, retract, republish; two overlap. One of the two candidates is
  reviewed twice, so that a later version of the same content is published. Of
  the three pairs of sources the third has one period that is over at the last
  second and one that begins only then, so publications that are not shown, and
  retractions before the period and after it, are met. The properties are proved
  without bounds.
* For a task, two rounds reach every carry-over between rounds (the ledger,
  unknown tools, the accepted number), two calls per round reach a batch in
  which one ends the task; concurrency is `agent_batch`'s, where three calls with
  two places reach a call that waits while others finish. A channel capacity of
  one (the code takes at least eight) makes every send wait at some point. One
  store failure is enough because
  the task ends at the first; the second would be the terminal record's, whose
  failure is only logged.
* Disclosures: two jobs, because a job alone meets a row at most as often as it
  is listed. Three indexes: a correction above its original; one title in two
  columns, one url for two disclosures, a mirror that lists what the index did
  not, and a page more than is read; a cancellation of either of two others. One
  failure or kill falls at any step of either job, and the other job runs over
  what it left; two were checked by hand (the store's run then has 732 553
  states). The proofs remove the bounds.
* Two callers suffice for the hub because an entry distinguishes its leader from
  everybody else; the offers are the combinations in which two keys meet. A
  cache of one entry evicts. A threshold of two lets a failure be counted
  without opening. Two servers and two slots let the one be blocked while the
  other is taken.
* Three frames are a request, its cancellation and a request that uses the
  identity again, and two permits let a third request wait. A window of one
  forgets.
* One turn over two conversations, one of which has a row already, one edit and
  one failed save: an edit is one transaction against one row, and the relay
  ends at the first failure.
* Two jobs meet in one slot; three with a limit of two were checked by hand
  (745 492 states), as were three requests over the data root (331 402 states).
* The replies of `ModelStream` have the marker whole, cut at the end, and
  doubled at the start; every way to cut them is explored.
* Chan theory: all series of five bars with three prices, where one bar may
  contain another in every way; and series of legs from one turning point to the
  next, over four levels: six legs of one or four bars, eight of which the first
  and the last two are short, and nine whose fifth and sixth are short, so that a
  zone is broken by the second stroke behind it. `Seeds` is 20 instead of 26, so
  that there are steps on either side of it: signals of all three types, two zones
  and late breaks are reached over seeded series that go on, and signals of
  divergence vanish over shorter ones, where |MACD| changes between two courses
  (`SomeMacds`). The proofs remove the bounds.
* News: the archiving ingestor with itself and with the other is two requests; a
  feed that publishes a document anew gives it two revisions, and of two items
  every page can be answered: both, one, none, in the order of either kind of
  source. A behaviour has one of three budgets: more requests, more trouble, or
  more time. Two requests do not queue for two permits; that they do not exceed
  them is proved for any numbers.
* Backtest: three series of five bars: a rise to a stage and to the trailing
  stop; a stop hit while trade is suspended and then at the lower limit; an
  entry at the upper limit and a fall. No exits, and each of the three stops,
  under each execution time. The proofs remove all of these bounds.

Every counter is a budget of the code, or named as a bound beside its CONSTANT
(`MaxSeq`, `MaxCalls`, `MaxClock`, `MaxFrames`, `MaxEdits`, `MaxRestarts`,
`MaxLate`, `MaxOutages`, `MaxKills`, `MaxStoreFaults`, `MaxSaveFaults`,
`MaxSyncs`, `MaxTroubles`, `Bounds`).

Fairness. All of it is weak, and none of it is of a failure, a cancellation or a
drop.

* `AgentTask!FairSpec`: the task, and the client's receive. The executor polls a
  ready task; provider, tool and verification waits have deadlines in the code;
  the Engine is assumed to answer store calls (the gateway has no deadline); the
  client is assumed to go on receiving, as `run`, `finish` and the front ends
  do. Without the last assumption a cancelled task need not end, because the
  send of an event has no deadline.
* `SessionTurn`: the task, the relay, and a client that goes on receiving until
  it drops the stream.
* `EngineWorker`: the loop's spawn, each task, the storage thread.
* `BackgroundJobs`: each start and each job; every upstream call has a time
  limit.
* `MarketHub`: what is ready is polled, every upstream call has a deadline; not
  that a circuit's cooldown passes.
* `NewsIngest`: each request; an attempt has a time limit. Neither that a
  cooldown passes nor that the user does anything.
* `TdxPool`: each step of a walker (tokio's locks are fair queues, which
  `waiting` keeps in order), the end of cooldowns, the restart of the heartbeat.

Deadlock is checked in all Agent runs (the end of a task is the explicit step
`Ended`) and in `market`, where a finished backtest is the explicit step
`TestOver` and a series at its end stutters. `store` and `engine` turn it off: a finite set of
requests, frames or jobs is exhausted there.

## Where code and documentation disagree

* `agent_exhausted`: a batch with two submissions is served to its end, so a
  report can be published after the budget was exhausted by the first.
* `agent_absorbing`: a stream dropped while `Completed` is sent makes the task
  record `Cancelled` behind it.
* `agent_withdrawn`: withdrawn retrieval tools are not offered but are executed
  when called.
* `agent_exit`: one failed append spends its number, and the terminal event is
  then refused as a gap.
* `half_open`: enrichment and fund flows look at their circuit twice; the first
  look takes the probe, the second refuses it, and the upstream stays off until
  the process ends.
* `lingering`: the entry of a fetch whose leader was dropped is removed by
  nobody, and serves its old result to that key until the process ends.
* `revision_links`: a correction or cancellation that is read before its original
  is stored without a link to it, and gets none when it is read again.

Seen while reading, and part of the models without a run of their own:

* Agent. A client that keeps the stream without receiving fills the channel and
  blocks the task for good, cancellation included (`runtime.rs:1690`;
  `docs/agent-runtime-hardening.md:4-5` promises that no wait is unbounded).
  `ToolBatch.messages` is documented to be in call order
  (`runtime.rs:2074`), but the runtime's own tools are always answered last,
  which `EveryCallAnswered` states as it is. A cancellation that reaches the
  verifier ends the task as failed, not cancelled
  (`docs/agent-runtime-hardening.md:79-82`). Text inside the private markers
  commits a round although nothing visible was shown (section 1 there). The
  outer idle timeout of 120 s may end a round before its inner restarts do.
* Session turns. A rename changes the row's title only, and the next save of the
  session restores the old one; the save of a running turn undoes a deletion;
  two turns of one session overwrite each other; the terminal row is not saved
  if the client drops the stream (`docs/agent-runtime.md:88-90`).
* Worker. An input or output error ends the process with queued jobs lost. An
  answer `cancelled` or `deadline_exceeded` is marked retryable although the job
  may still be executed. A loop that waits for a permit reads neither a
  cancellation nor a shutdown.
* Background jobs. A backtest or quant job whose start fails after it was shown
  stays "running" until a restart. The end of an earlier synchronisation or
  backtest withdraws the token of the next. Keyed jobs may have two workers and
  quant research more than its limit when starts overlap. A completed job whose
  last row could not be saved is suspended after a restart.
* Data root. Concurrent requests share one temporary file and may tear the
  pointer; what is written after the backup stays in the old root; files are
  copied before the database is; a kill leaves a destination no pointer names.
* Market data. TDX answers carry no identity that is compared
  (`tdx/src/conn.rs:47`), so a dropped request leaves its answer to the next one
  on its connection (`spoiled`). The heartbeat accepts any body of two bytes.
  The comments of `pool.rs` on the order of locks and on duplicate connections
  that converge do not hold. A fetch nobody polls any more keeps its permit
  (`GateAbandoned`). An answer without a provider leaves a half-open circuit.
  The supplement asks EastMoney whatever its circuit says.
* Relations. A relation of a report period is in the current graph only during
  that period (`graph/src/store.rs:217-229`), so one published from last year's
  report is never shown there, though a publication supports it. A retraction
  ends the row only of a relation that is shown: withdrawn before its period
  begins, the relation keeps its row and appears when the period does, with no
  publication and no revocation behind it (`ProjectionIsSupported` excepts it;
  `docs/command-contract.md:35` and
  `docs/supply-chain-relation-extraction.md:26` say that it vanishes with the
  last withdrawal). When one of two publications is withdrawn the row keeps the
  period of the one that was written last, be it the withdrawn one. A version that
  was withdrawn and is published again writes the row before its publication is
  refused. The last retraction replaces the first edge of the same product,
  of whatever region (`relation-extraction/src/lib.rs:814-822`); an edge of
  another region makes `record_revision_at` refuse after the publication was
  withdrawn, and the relation stays in the graph with no request that repairs
  it, as it does after a drop or a crash there. Publishing a later review with
  the same content answers with the earlier revision, superseded or not. New
  evidence for a period is outranked by an earlier revocation. A retraction
  revokes one identity only, and without a report period from the beginning of
  time. An overlapping publication may be ended by a retraction. The time of a
  record is read before its job is queued, so a snapshot of "now" may change;
  its replay is then refused.
* News. NewsNow and the announcements ignore the cursor, cut their items at the
  limit and store the newest as the cursor (`finance_news.rs:562-641`); a
  configured source cuts its rows at the limit and stores the cursor of upstream
  (`news_ingest.rs:1597-1632`). An item that was cut off, or whose channel failed,
  lies behind the cursor and is never archived unless a later page shows it
  (`skipped`). Pages of the newest items are archived newest first, and a cached
  page late, so an older content may become the current one. An item whose archive
  write failed is asked for again no more than those. A document that returns to an earlier content stays at the
  later one, since no revision is added; a page archived late becomes current
  whatever its time; two revisions of one second are both shown by `as_of`. A
  request that read the setting before a switch may apply it after, so a
  disabled source may be asked once more. After a cooldown every waiting request
  is a probe. Callers that wait for the rate limit together wait the same time,
  and retries ignore it. Both ingestors overwrite each other's counters of
  health, and the one that archives nothing starts from the other's cursor.
* Disclosures. Two disclosures with one PDF share its entrance, which stays with
  the first, so the second is never shown as verified although the job counts it
  so; `CompletedIsVerified` says as much. The outcome of `ingest` names a link
  that is not stored when the row existed. A cancellation that is read again
  marks the disclosure of its title seen last, be it a later reissue. A failed
  page is recorded as the provider's failure and cleared by the next row that is
  ingested, and nothing reads `retry_after`. A page of unusable rows ends its
  column. `sync_cninfo` passes the bare code that, by the comment at
  `cninfo_disclosure.rs:90-93`, the endpoint does not accept.
* Backtest. A profit stage is spent, and the stop raised to the entry, when the
  sale is emitted and not when it fills (`backtest/src/exit.rs` speaks of
  fills); an exit that is rejected is not repeated unless its condition still
  holds. The peak is not tracked on bars whose true range is unknown. At
  `NextClose` a strategy sees the portfolio before the bar's fills, although
  `backtest/src/strategy.rs:80-81` says after. A small sale may cost more than it
  brings, and cash go below zero. A position closed and reopened between two
  looks keeps its old stop.
* Chan theory. A signal of the third type waits for the zone to be broken, and a
  stroke later than its retracement may break it: the signal then appears with
  the date of the retracement, a stroke or more back, although `daily.rs:588`
  speaks of a retracement after the break. "Latest signal" (`describe_state`) is
  the last of the list, which is ordered by type before date. The last kline of
  five minutes in `minute.rs` is merged from what there is of it.
* Plans (not modelled). In `Plan::apply` a split that meets a duplicate
  child half-way returns an error with the step removed and some children
  inserted; a reorder with a repeated identity duplicates a step.

## Proofs

`DatabaseProofs` proves, part by part, what is in the database. Of the event
store it proves, for every set of tasks, events, effects, keys and
results and every order of requests, all the invariants of `EventStore` and
the refinement of `DurableTask`. Assumptions: `MaxSeqAssumption` (the bound on
tried numbers is a natural number, any) and `ObservedTaskAssumption`.

The inductive invariant `IInv` is the conjunction of the checked invariants and
two strengthenings. `Contiguous` says that the numbers of a task are 1..n for
some n; `LogContiguous` alone is also true of a log without a last number, for
which `MAX(seq)` means nothing. `AckedRequests` says that only terminal outcomes
and numbered checkpoints were acknowledged, without which an acknowledged
`pending` could be overwritten. There is one lemma per transaction
(`AppendEventIInv`, ...), resting on lemmas about `MAX(seq)` of an interval, the
insertion of the next number, and `KeepsStored`: a step that only adds rows,
keeps event rows and closed effects, and moves checkpoints forward keeps every
acknowledgement true. `Refinement` maps each transaction to a step of
`DurableTask` or a stutter, under `IInv`.

Of the relation graph it proves `SnapshotsReplay` and `ProjectionIsSupported` for
any candidates, evidence, reviews, queries and number of requests. Assumption:
`GraphAssumption` (the bounds and the ends of periods are numbers, and the clock
starts within its own). A snapshot of the past is kept by
`ReplayInv`: the shape of times (`GraphShape`), what the issued snapshot was
made of is stored as it was (`IssuedKept`), and it is still what would be
selected (`PastKept`). The last holds because whoever is still going to write
has read a later time, which `IsPast` says; the lemma on `Record` is `Grown`:
rows keep everything but the end of their knowledge, and that only from the
recording's time on. `ProjectionIsSupported` speaks of states between requests;
`SupportKept` adds what holds between two jobs of one (`Halfway`): a publication
under way has its row before it is counted, and a withdrawal that leaves no
support either ends the row, or found at a later moment that it was not shown,
and what was not shown then either is over for good or begins after it. `GraphTypeOK`
contains the constraints of the schema. That a new revision's number is free
needs that the numbers of an identity are 1..n for some n (`RowsNumbered`), as
there is no greatest of infinitely many; that it does not end the one it replaces
before that was recorded, that the refusal of `Refused` is checked first.

Of the disclosures it proves `DisclosuresAreSound`, `NothingTakenBack` and type
correctness for any indexes, any number of jobs, failures and kills. Assumption:
`DisclosureAssumption` (an index is a sequence of columns of pages with rows,
and the bounds are numbers). `Ingested` is what one transaction does, and
`IngestKeeps` that it does no more, whatever it finds as the prior version. No
chain of links closes because a link is set when its row is made, and to a row
made before. A version is that of an entry of the index because the one at hand
is always the row's own (`OwnVersion`). That a complete job left nothing
unverified needs to be known of every row it has passed (`PassedRows`), row by
row: `AfterRowPlaces` and `NextColumnPlaces` say where a job goes from a row or
a column, `BehindAfterRow` that it has then passed that row and no other.

`DatabaseRunsItsParts` states that every behaviour of the composed specification
is one of `EventStore`, of `RelationGraph` and of `Disclosure`, since the parts
write other tables: what is proved of a part holds of what the run checks, and
`DatabaseTypeCorrect` states `DatabaseTypeOK` of it.

`AgentTaskProofs` proves every safety property of `AgentTask`: `TypeOK`,
`DeliveredIsDurable`, `StoreNeverRefuses`, `EffectsInOrder`,
`OutcomesAreSound`, `EveryCallAnswered`, the action property
`NoRoundAfterExhaustion` and the refinement of `DurableTask`, for every budget,
every set of tools and drafts, batches of any length, every channel capacity and
any number of store failures. Assumption: `BoundsAssumption` (the budgets are numbers, at least one
draft may be submitted and one tool run, drafts are not prose).
`DeliveredIsDurable` does not need it: `Send` may
advance `sent` only because the checkpoint of the same event was put, and the
checkpoint may accept the number only because its append was carried out;
`DInv` adds exactly that, and that the log is a finite sequence.

No other property is inductive, because what justifies a write was decided
several writes before it and waits in `todo`. Each invariant therefore speaks of
the writes that are left as well as of what is stored.

* `WorkInv` is the balance of effects: what is open, without what is going to be
  closed, with what is going to be opened, is what the place needs (`Needed`: the
  stream while a chunk is awaited, every open call while tools run). A write
  moves a slot from one side to the other, a decision changes the need
  and the writes together, and `IntentFirst` is the balance with no write left.
  That a close always finds its effect pending, on which the refinement rests,
  is part of it (`Held`).
* `Fresh` and `InStep`: every begin follows a record, so no effect carries the
  number that the next key is made of; without a store failure that number is the
  length of the log. Hence `StoreNeverRefuses`.
* `OutcomeInv`: an event that announces an outcome is backed by a stored one or by
  a write in front of it (`Backed`), and a call that failed before it was
  scheduled is not scheduled later, since calls are numbered within a round and
  rounds within a task (`CallsPast`). Hence `OutcomeFirst`.
* `Shapes` and `EndStored`: the terminal event is the only write left when a task
  ends, and its checkpoint is put under the terminal phase. `NoneAfter` says
  where a terminal event may already be logged. `Published` follows the verdict
  and the publication from the writes into the table. Hence `OutcomesAreSound`.
* `Settled`: while the store works, the pending effects are those the runtime
  holds, and a decision that returns an error closes what it came from; a
  suspension comes only from a provider request, where nothing else is open. With
  `Held` it gives the last part of `EffectsInOrder`.
* `NotSpent`: a spent budget is remembered by the batch until it stops the task,
  so the head of the loop is never reached with it.
* `AnswersKept` and `LogKept`: the calls taken up are open or done; the messages
  are those of the calls done, each once, and every open call of the runtime's
  own comes behind the ones that have been answered; and of a call that is done
  one outcome is in the log or among the writes left, of any other none. `LogKept`
  needs `CallsPast` where a batch begins, so that nothing of its round has been
  answered before. That `Sorted`, a CHOOSE, lists a finite set in order rests on
  a least set that could not be so listed (`Orderable`, by the
  well-foundedness of the numbers). Hence `EveryCallAnswered`.

`BacktestProofs` proves `BooksBalance`, `ExitsAreSound` and `BuyIsLargest`, and
that the book is well-formed, for every series of bars, policy, list of orders, lot, fee and limit.
Assumption: `TestAssumption` (types; divisors are positive, and so are prices,
since `filter_valid_bars` drops other bars). That an exit closes the
position needs what `ExitCanSell` says: an exit comes alone, and everything held
is sellable when its turn comes, which is why it is executed behind `NextBar` or
before any buy of its bar (`ExitAlone`). That the trailing stop hangs from the
highest close needs `Since`: a position is watched only under a policy and from
a bar already decided. `PeakTracked` and `OneMoreClose` carry it over a bar.
That a buy is the largest valid lot needs two facts about `RoundLot`: what it
returns is the largest valid lot of at most its argument (`RoundLotIsLargest`),
and going down from it by lot steps meets every valid lot (`FittingIsValid`), so
nothing that cash covers is passed over.

`BooksBalance` speaks of folds over the whole log, so it is not inductive as it
stands, and what a fold computes has to be had without an induction theorem.
`FoldProofs` does that: a function that folds exists for every length, because of
the lengths without one none is the smallest (`FoldExists`, by `SmallestOf`).
So each of the four
folds (cash, lots, a sale, the round trips) is the last value of a sequence of
values that its step connects (`ReceivedFold`, `SumFold`, `ClosesFold`,
`MatchedFold`), and of no other (`SameSteps`). The inductive invariant
`BooksInv` says that there are such values for the log at hand, whose last ones
are the cash, an open sale of nothing, ordered round trips, and lots that add up
to what is held. It adds what T+1 rests on: the lots of earlier bars come first,
and add up to exactly what may be sold (`HeldInLots`). So a sale, which is of no
more than that, ends before the first lot of today (`Closing`, `SaleCloses`); a
buy adds a lot of today behind all of them (`BuyExplained`), and overnight every
lot becomes one of an earlier bar (`BarExplained`).

`ChanlunProofs` proves `ChartIsSound`, `NothingRepainted` and that what a chart
refers to is in it, for every series of bars, in whatever portions it comes.
There is no assumption on the constants; that the high of a bar
is not below its low is `ChartBar`, which `filter_valid_bars` sees to, and that a
seeded series keeps |MACD| is a guard of `SeriesGrows`. The chart is computed anew at every
step, so the inductive invariant, `ChartInv`, only says of which series and
|MACD| it is.
All else is about what the loops of `daily.rs` compute, one on the result of
another. A loop over a set of places can be followed place by place
(`FollowedSteps` of `FoldProofs`), and of each it is shown, as of a system of its
own, what holds behind every place.

* Merged bars: each goes beyond the one before it, both its high and its low, the
  way it says (`Monotone`); absorbing a bar takes it no step back
  (`AbsorbedBeyond`). So behind a top the bars go down until the next turn, which
  is a bottom, and lower (`OneWay`, `TurnsAlternate`).
* Strokes: `WalkSound` says that the start is the farthest of its kind since the
  last stroke ended (`Farthest`), and that an end that was found is at the place
  of the walk, for the next fractal is of the other kind and closes the stroke.
* Zones: `ZonesFit` for the pairs of strokes, `BrokenSound` for the first
  stroke that leaves one.
* Nothing repainted: of two series, one of which begins with the other, the
  values of each loop agree as far as its input does (`SameSteps`), and from
  there on it only goes on. The last merged bar is not final, but its way is
  (`Continues`), and a turn waits for the bar behind it, so no top or bottom is
  taken back (`TurnsContinue`). A stroke that is open at the end of the shorter
  series is closed by the next fractal with the same end (`StrokesContinue`); a
  zone waits for its third stroke (`ZonesContinue`); the first stroke that breaks
  a zone is the first in the longer series too (`BrokenContinues`). So far
  nothing depends on |MACD|, and with it the signals of the third type stay
  (`ThirdTypeStays`). Those of the first and the second stay where the longer
  series has the |MACD| of the shorter one (`Weighed`), since the force of a
  stroke is that of bars that are there (`SameArea`, `DivergencesStay`), which is
  once the series is seeded. Nothing is assumed of `Seeds` or `Macds`.

`EngineProofs` proves `TokensAreLive` and `PermitsRespected` of the worker,
`PointerIsSound` of the data root, `WorkersAccounted` of the job services,
`DisabledIsRespected` and `ArchiveIsSound` of the news, `SessionIsSaved` and
`BranchOriginIsReal` of the turns, and the type of each.

* The worker: for any number of frames, permits and identities. Assumption:
  `WorkerAssumption`. A token is removed by its identity whosever it is, so the
  property rests on who may hold an identity: `TokensInv` adds that requests
  beyond the reading position are unread (`Ahead`), that entries are of live
  requests (`EntriesLive`), that an unshared request being served is in the table
  unless it was cancelled (`ServedReachable`), and that nobody else of its
  identity is still to end (`Exclusive`). That queue and set of the window hold
  the same identities as long as the queue has none twice (`Distinct`), which
  joining at the end and leaving from the front preserve, is `WindowKept`. No
  more hold a permit than there are because all who hold one are numbered, hence
  finitely many, and only `Spawn` adds one (`PermitsStep`).
* The root: for any requests, roots, restarts and kills. Assumption:
  `RootsAssumption` (the original root is one, and "nothing" is neither a root
  nor a request). The pointer of today is the temporary file of yesterday, so
  `RootInv` follows every file: a whole one names a root that is there
  (`FilesLead`), and unless two requests wrote at a time the temporary name
  belongs to the one activation under way (`AloneWrites`). What a migration owes
  its caller is followed from the open root through the backup into the copy
  (`DuesKept`).
* The jobs: for any jobs and any limit. Assumption: `JobsAssumption` (job numbers
  are positive and finitely many, for `Limit` counts workers). A job comes
  to be at work alone because of what was looked up several steps before, so
  `JobsInv` says of a start already who else may start, work or end
  (`LoneStarts`, `LoneJobs`, `ScanAtOnce`), that from the claim on the slot is
  its own (`HoldersShown`, `TokensHeld`), and that a start of quant that was let
  in still finds room: without its own slot fewer than `Limit` run (`QuantRoom`).
  A start that crossed another is exempt in each, as it is in the code.
* The news: for any requests, documents and bounds. Assumption: `NewsAssumption`
  (requests are numbered and finitely many, for permits are counted; feeds are
  sequences; the limits are numbers, and the threshold of failures is at least
  one). A request reads the stored setting, applies it to its
  ingestor, and looks at the ingestor, in three steps with others in between.
  While the user has been told that the source is off the store says so
  (`OffIsStored`), and a told request that comes to look finds its ingestor
  disabled, since nobody still applies another setting (`ToldIsHeeded`); an
  earlier request that does is exempt, as the property says. The archive has an
  invariant of its own, `ArchiveInv`, over any pages a source may answer. All
  behind the cursor a request started from is archived, lost or skipped
  (`Behind`), and all behind the one its page came with is so or on the page
  (`PageIsRead`); by the time that cursor is stored every item of the page was
  gone through (`PageIsSound`, `PageArchived`), whoever else stores cursors
  meanwhile. The revisions of a document are a line because one transaction adds
  a revision, names the current one as replaced and becomes the current one
  (`ChainHolds`, `UpsertChain`), in whatever order pages arrive. What a request
  adds is dated when its page came, and a replay is of a time before every such
  page (`ReplayHolds`, `UpsertReplay`). `NewsTypeInv`
  adds what the type limits: attempts, failures, permits of each ingestor, and
  that pages and the cursor end within the feed.
* The turns: for any turns, conversations, capacity, failed saves and any other
  request on the rows. Assumption: `TurnAssumption` (the names of an earlier turn
  and of no turn are not turns; the known conversation is one; the capacity and
  the limits are numbers). What the client
  saw and what is stored are connected by the copy that the relay holds, so
  `TurnInv` follows it: it is the projection of what the relay has taken
  (`RelaysProject`), and so is each row that names the turn (`RowsProject`); of
  what was taken the row lacks only text and the one event under way, which the
  client does not have yet (`TakenIsSaved`), also when a save failed and nobody
  knows whether it was stored. A session with the report of a turn that has not
  begun would make the projection wrong at its start (`Unanswered`).
  `PrefixGrows` says what one more event does to phase and report, `PrefixKept`
  that what is recorded stays, which is why a branch's origin remains right.
  That neither channel holds more than its capacity needs that the relay, while
  it holds an event it has not passed on, receives none (`ChannelsKept`).

`EngineRunsItsParts` states that every behaviour of the composed specification is
one of each part, fairness included, so that these results hold of what the run
checks; `EngineTypeCorrect` states `EngineTypeOK` of it.

`ModelStreamProofs` proves `RoundIsWhole` and type correctness of a model round
for any replies, fragments and limits. Assumption: `StreamAssumption` (a reply is
a sequence of symbols, the limits are numbers, and at least one attempt is made
and one chunk held back). `Filtered` and `Public` are recursive, and the library's
induction theorems cannot be used, so that they do what their definitions say is
shown first: a step that asks for what measures less has a solution up to every
measure, because of the measures without one none is the smallest, solutions
agree, and so there is a fixed point (`Solution`, `PublicIs`, `FilteredIs`). Then
what the filter may rely on: a marker found stays the first one whatever comes
behind (`GoesOn`), and of a text without a marker all but `MarkerTail` can be
shown, since no marker begins in it even when more comes (`TailHeld`, over the
three symbols of a marker). So a push keeps what a text comes to (`FilterSound`,
again by a smallest counterexample). `RoundIsWhole` is not inductive, for it says
nothing of what is kept back: `FilterAgrees` says that filter and `Public` agree
whatever is still to come, with nothing to come it is the property, and
`RoundOrdered` says that nothing is passed on before the commit, nothing is
connected or forgotten behind it, and a finish reason received is still to come.

`MarketProofs` proves `OneLeader` and `QueueDegrades`, and that the hub is
well-formed, for any callers, symbols, providers and size of the cache, and
`SlotsAreExclusive` and type correctness of the pool.
Assumptions: `HubAssumption` (a chain never names the circuit of an optional
upstream; the size is a number) and `FailureThresholdAssumption`. That an entry
stays while it has a leader is inductive once a leader that was answered is
known to lead a completed fetch (`ReadyLeads`, `LeadersAlone`). That the circuit
is not open while its upstream is asked needs the queue: whoever waits is in it
once, and only its head asks (`QueuesLined`), so that nobody else can open the
circuit between the question whether it may be asked and the end of the call
(`AskedUnopened`).

The pool: for any ranking of servers, size, requests and outages. Assumption:
`PoolAssumption` (the ranking is a sequence with a server for each slot, and the
heartbeat is not a client). Everyone is once in the queue of the slot he is at and in no other
(`LinesKept`), and who holds a lock is at its head (`HeadsHold`); so what is
unread on a connection is the packet of the one who reads, unless a request was
dropped on it (`AnswersMatch`), and with that `NoMixedAnswers` is inductive. A
walk tries servers of the ranking only, from each slot no more than there are
(`PoolTypeInv`), since the best candidate is an index of the ranking
(`BestCandidate`).

`MarketRunsItsParts` and `MarketTypeCorrect` put hub, pool, backtest and charts
together as above. Of the pool the composed specification has all but the
fairness of the heartbeat, which goes on only while the pool is the part that
runs.

Every invariant and action property a passing run checks is thus a theorem.
Only model-checked is everything under fairness (`Terminates`, `RequestsServed`,
`ActivitiesEnd`), which is out of the prover's reach.

## Not modelled

Inside the modelled components: the model's context and token counting, the
content and size of messages, evidence identifiers and their resolution, the
decoding and the contract of a report (their verdicts are inputs), the spacing
of requests by the rate gate, syntax and size limits of store requests, paged
reads, titles, progress and texts of jobs, bars and their validation, packets
cut half-way, rates and health of news sources and the clustering and merge of
what they say, adjusted prices, equity curve and metrics of a backtest,
confidence and weights of a relation, entity merges (nothing in `src/` records
one). The handlers of `engine/src/lib.rs` that fetch, compute and answer keep no
state between requests beyond the jobs and tables above.

Outside them: scrapers and parsers (`news-intelligence`, `wencai`, the
providers, the documents of `source-verification`), which are input and output; numerical code
(`fundamental`, `quant`, `technical`), pure functions over
floating-point series; the front ends, which the clients of the models
stand for; generated schemas, fixtures and scripts.

The repository's own `formal/AgentLifecycle.tla` was written for an earlier
host and is not used: it resumes and restarts a task, which nothing in
`agent-runtime` does (a suspended task has ended), and it treats an event, its
checkpoint and its effect as one step, where `AgentTask` looks between them.

## Plan

What is left, in order of importance.

1. `Plan::apply` against a reference definition, `FaultPolicy` with its reset
   times, the rate gate.
2. The news centre (`engine/src/news_center.rs`) and the maintenance of the
   store.
