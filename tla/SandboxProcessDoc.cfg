SPECIFICATION ProcessSpec
CONSTANT MaxOutput = 2
INVARIANT ProcessTimeoutReported
CHECK_DEADLOCK FALSE
