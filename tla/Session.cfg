SPECIFICATION FairSpec
CONSTANTS
  MaxMessages = 2
  MaxHandles = 2
  MaxSends = 2
INVARIANTS Listening HandledOnce WireHasNoGap
PROPERTIES Delivered Freed
CHECK_DEADLOCK FALSE
