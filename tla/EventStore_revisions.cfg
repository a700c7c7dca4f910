\* The background job over the indexes of formal disclosures.
\* The single property is stated by the documentation and violated by the code.
SPECIFICATION DatabaseSpec
CONSTANTS
  Focus = {"disclosures"}
  TaskId = {t1, t2}
  ObservedTask = t1
  TaskSpec = {s1}
  Phase = {"reasoning"}
  EventId = {e1, e2}
  EventBody = {b1, b2}
  EffectId = {f1, f2}
  Intent = {i1, i2}
  Key = {k1, k2}
  Result = {r1, r2}
  MaxSeq = 2
  Candidates = {"a", "b"}
  Evidence <- SomeSources
  Queries <- SomeQueries
  Decisions = {"accepted"}
  Cadence = 1
  Parallel = 2
  MaxVersion <- SomeVersions
  MaxCalls = 3
  MaxClock = 2
  Listings <- SomeListings
  MaxPages = 2
  MaxSyncs = 2
  MaxTroubles = 1
INVARIANT RevisionsAreLinked
CHECK_DEADLOCK FALSE
