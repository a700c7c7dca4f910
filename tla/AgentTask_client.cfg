\* Two rounds of up to two calls, served one at a time, retrievals and reports
\* that are accepted, refused or repeated; the client cancels and
\* drops the stream at any time, and one store call fails, carried out or not.
SPECIFICATION FairSpec
CONSTANTS
  MaxModelRounds = 2
  MaxFinalizationAttempts = 2
  MaxUnknownToolRejections = 1
  MaxEmptyTurnRetries = 0
  MaxParallelTools = 1
  MaxCalls = 2
  MaxChunks = 2
  MaxResearchRounds = 1
  VerifyReports = TRUE
  ChannelCapacity = 1
  Tool = {"retrieve", "submit_report"}
  Draft = {d1}
  Undecodable = {}
  Prose = {p1}
  MaxStoreFaults = 1
  MayCancel = TRUE
  MayClose = TRUE
INVARIANTS
  TypeOK
  DeliveredIsDurable
  OutcomesAreSound
PROPERTIES
  ImplementsDurableTask
  Terminates
  NoRoundAfterExhaustion
