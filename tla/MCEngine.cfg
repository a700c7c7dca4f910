CONSTANTS
  Focus = {"worker", "turn", "jobs", "stream", "root", "news"}
  CancelIds = {"k"}
  Permits = 2
  Window = 1
  MaxFrames = 3
  Turns = {"t1"}
  Conversations = {"c1", "c2"}
  Known = "c1"
  MaxEvents = 2
  MaxEdits = 1
  ChannelCapacity = 1
  MaxSaveFaults = 1
  Jobs = {1, 2}
  Limit = 1
  MaxRestarts = 1
  Replies <- SomeReplies
  MaxPrecommitRestarts = 2
  MaxAttempts = 2
  MaxBuffered = 3
  Roots = {"o", "d", "e"}
  Original = "o"
  Requests = {"m", "n"}
  Writes = {1}
  MaxKills = 1
  Feeds <- SomeFeeds
  Fetches = {1, 2}
  NewsPermits = 2
  MaxRetries = 1
  NewsThreshold = 1
  Bounds <- SomeBounds
SPECIFICATION EngineSpec
INVARIANTS EngineTypeOK TokensAreLive SessionIsSaved BranchOriginIsReal WorkersAccounted RoundIsWhole PointerIsSound ArchiveIsSound DisabledIsRespected
PROPERTIES ActivitiesEnd
CHECK_DEADLOCK FALSE
