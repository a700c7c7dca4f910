\* Two tasks with two events and two effects: competing bodies of one event,
\* colliding effect identities and keys, conflicting outcomes
\* (an outcome is a status and a result, here the same), stale checkpoints.
SPECIFICATION DatabaseSpec
CONSTANTS
  Focus = {"tasks", "relation", "disclosures"}
  TaskId = {t1, t2}
  ObservedTask = t1
  TaskSpec = {s1}
  Phase = {"reasoning"}
  EventId = {e1, e2}
  EventBody = {b1, b2}
  EffectId = {f1, f2}
  Intent = {i1, i2}
  Key = {k1, k2}
  Result = {r1}
  MaxSeq = 2
  Candidates = {"a", "b"}
  Evidence <- SomeSources
  Queries <- SomeQueries
  Decisions = {"accepted"}
  Cadence = 1
  Parallel = 2
  MaxVersion <- SomeVersions
  MaxCalls = 3
  MaxClock = 2
  Listings <- SomeListings
  MaxPages = 2
  MaxSyncs = 2
  MaxTroubles = 1
SYMMETRY Symmetry
INVARIANTS
  TypeOK
  LogContiguous
  CheckpointWithinLog
  OneEffectPerKey
  AckedIsDurable
  DatabaseTypeOK
  SnapshotsReplay
  ProjectionIsSupported
  DisclosuresAreSound
PROPERTIES
  ImplementsDurableTask
  NothingTakenBack
CHECK_DEADLOCK FALSE
