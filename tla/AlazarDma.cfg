\* Two buffers, three lines, a restart with leases of the first session still
\* out, continuous and finite mode, one failing driver call.
SPECIFICATION FairSpec
CONSTANTS
  Buffers = 2
  FrameCounts = {0, 2}
  MaxLines = 3
  MaxSessions = 2
  MaxFaults = 1
INVARIANTS
  TypeOK
  EveryBufferHasOnePlace
  ConsumerReadsItsLine
  InUseStaysAllocated
PROPERTIES
  ReturnedBuffersArePosted
  StopEnds
\* The bounds on sessions and lines end every behaviour.
CHECK_DEADLOCK FALSE
