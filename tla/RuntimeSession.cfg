\* All parts enabled, a backlog of one, four commands (connect, upload, start
\* and one more, or a second start after a source or device failed), two faults.
SPECIFICATION FairSpec
CONSTANTS
  Enabled = {"scanner", "edfa", "storage", "udp"}
  Backlog = 1
  MaxEvents = 2
  MaxCommands = 4
  MaxFaults = 2
INVARIANTS
  TypeOK
  ConsumersOutliveProducers
PROPERTIES
  StopLeavesAllOff
  TriggerNeedsReceiver
  DeadSessionStops
  StartsAndStopsEnd
\* The bounds on commands and faults end every behaviour.
CHECK_DEADLOCK FALSE
