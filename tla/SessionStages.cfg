SPECIFICATION MCSpec
CONSTANTS
  a = a
  b = b
  RawIds = {a, b}
  NoId = NoId
  Replies <- MCReplies
  Initial <- NoMessages
  Prompt <- OneMessage
  RefreshWorkspace = TRUE
  None = None
  MaxStages = 7
INVARIANTS FreshStageIsCurrent StagesRunInOrder ToolStateHolds ConversationPaired KeyAccountedFor WatchdogCoversCalls
PROPERTIES LifecycleSpec LoopEnds
CHECK_DEADLOCK FALSE
