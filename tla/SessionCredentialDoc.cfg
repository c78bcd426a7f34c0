SPECIFICATION MCSpec
CONSTANTS
  a = a
  b = b
  RawIds = {a, b}
  NoId = NoId
  Replies <- MCReplies
  Initial <- OneMessage
  Prompt <- OneMessage
  RefreshWorkspace = TRUE
  None = None
  MaxStages = 4
INVARIANTS SecondaryKept
CHECK_DEADLOCK FALSE
