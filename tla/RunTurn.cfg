SPECIFICATION FairSpec
CONSTANTS
  Stream = Stream
  NoEvent = NoEvent
  MaxData = 3
INVARIANTS NothingLeftBehind JoinedBeforeReturn StreamInOrder FailuresSurface
PROPERTIES TurnEnds
CHECK_DEADLOCK FALSE
