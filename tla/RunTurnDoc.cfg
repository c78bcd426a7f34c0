SPECIFICATION Spec
CONSTANTS
  Stream = Stream
  NoEvent = NoEvent
  MaxData = 3
INVARIANTS OriginalPropagated
CHECK_DEADLOCK FALSE
