\* Two rasters of two points in each of two sessions, the third point blanked,
\* every policy, a queue of one.
SPECIFICATION FairSpec
CONSTANTS
  Points = 2
  PacketPointCount = 1
  Blank = {3}
  MaxRecords = 4
  MaxSessions = 2
  QueueCapacity = 1
  Policies = {"LatestFrame", "PreserveFrames", "StopSending"}
  MaxRasters = 3
  AssemblyTimeout = 1
  ResetTimeout = 2
  MaxInflightFrames = 1
  MaxDelay = 1
INVARIANTS
  TypeOK
  CountersAddUp
PROPERTIES
  StopEnds
  RefinesRasterStream
\* The bounds on sessions and records end every behaviour.
CHECK_DEADLOCK FALSE
