\* An upload that loses a point, and the stop that follows it.
SPECIFICATION Spec
CONSTANTS
  Retries = 1
  MaxFaults = 1
  FrameBufLen = 2
  RingLines = 2
  Sizes = {2}
  MaxStrays = 1
  MaxCalls = 3
INVARIANT ReadyMeansVerified
CHECK_DEADLOCK FALSE
