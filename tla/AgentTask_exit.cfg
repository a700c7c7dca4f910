\* A single store call fails.
\* The single property is stated by the documentation and violated by the code.
SPECIFICATION Spec
CONSTANTS
  MaxModelRounds = 1
  MaxFinalizationAttempts = 2
  MaxUnknownToolRejections = 1
  MaxEmptyTurnRetries = 1
  MaxParallelTools = 2
  MaxCalls = 1
  MaxChunks = 1
  MaxResearchRounds = 1
  VerifyReports = TRUE
  ChannelCapacity = 1
  Tool = {"retrieve"}
  Draft = {d1}
  Undecodable = {}
  Prose = {p1}
  MaxStoreFaults = 1
  MayCancel = FALSE
  MayClose = FALSE
INVARIANTS
  EveryExitIsTerminal
