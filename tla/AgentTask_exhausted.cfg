\* Two submissions in one batch, with a budget of one.
\* The single property is stated by the documentation and violated by the code.
SPECIFICATION Spec
CONSTANTS
  MaxModelRounds = 1
  MaxFinalizationAttempts = 1
  MaxUnknownToolRejections = 1
  MaxEmptyTurnRetries = 1
  MaxParallelTools = 2
  MaxCalls = 2
  MaxChunks = 2
  MaxResearchRounds = 1
  VerifyReports = TRUE
  ChannelCapacity = 1
  Tool = {"submit_report"}
  Draft = {d1}
  Undecodable = {}
  Prose = {p1}
  MaxStoreFaults = 0
  MayCancel = FALSE
  MayClose = FALSE
INVARIANTS
  ExhaustedNeverPublishes
