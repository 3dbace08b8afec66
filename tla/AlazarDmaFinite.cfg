\* A finite acquisition of two lines ends by itself and is then stopped.
SPECIFICATION Spec
CONSTANTS
  Buffers = 2
  FrameCounts = {2}
  MaxLines = 3
  MaxSessions = 2
  MaxFaults = 0
INVARIANTS
  StopAborts
\* The bounds on sessions and lines end every behaviour.
CHECK_DEADLOCK FALSE
