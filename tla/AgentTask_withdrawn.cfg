\* A model that goes on retrieving in round two, with a research budget of one.
\* The single property is stated by the documentation and violated by the code.
SPECIFICATION Spec
CONSTANTS
  MaxModelRounds = 2
  MaxFinalizationAttempts = 2
  MaxUnknownToolRejections = 1
  MaxEmptyTurnRetries = 1
  MaxParallelTools = 2
  MaxCalls = 1
  MaxChunks = 1
  MaxResearchRounds = 1
  VerifyReports = TRUE
  ChannelCapacity = 1
  Tool = {"retrieve"}
  Draft = {d1}
  Undecodable = {}
  Prose = {p1}
  MaxStoreFaults = 0
  MayCancel = FALSE
  MayClose = FALSE
INVARIANTS
  WithdrawnToolsNotExecuted
