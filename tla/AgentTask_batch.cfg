\* One batch of up to three calls of every kind, two of them running at a time,
\* with reports that match their schema and reports that do not.
\* Prose is a report here; submitted reports are verified all the same.
SPECIFICATION Spec
CONSTANTS
  MaxModelRounds = 1
  MaxFinalizationAttempts = 3
  MaxUnknownToolRejections = 1
  MaxEmptyTurnRetries = 1
  MaxParallelTools = 2
  MaxCalls = 3
  MaxChunks = 3
  MaxResearchRounds = 1
  VerifyReports = FALSE
  ChannelCapacity = 1
  Tool = {"retrieve", "run_financial_calculation", "search_evidence", "submit_report", "unregistered", "malformed"}
  Draft = {d1, d2}
  Undecodable = {d2}
  Prose = {p1}
  MaxStoreFaults = 0
  MayCancel = FALSE
  MayClose = FALSE
INVARIANTS
  EffectsInOrder
  StoreNeverRefuses
  EveryCallAnswered
