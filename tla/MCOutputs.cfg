\* Both streams, queues of two, three blocks each in parts of two, one restart;
\* three snapshots of two kinds and four acts of the user at the display.
SPECIFICATION OutputSpec
CONSTANTS
  Enabled = {"raw", "cloud"}
  Capacity = 2
  MaxBlocks = 3
  MaxSessions = 2
  PartBlocks = 2
  Plots = {"waveform", "cloud"}
  MaxSnapshots = 3
  MaxActs = 4
INVARIANTS
  OutputTypeOK
  SidecarHonest
  CompletedReplays
  SidecarsAgree
  LostOnlyWithError
PROPERTIES
  StopFinalizes
  
\* The bounds end every behaviour.
CHECK_DEADLOCK FALSE
