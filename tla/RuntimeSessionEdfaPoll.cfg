\* The EDFA is lost and recovers between two sessions; everything enabled.
SPECIFICATION Spec
CONSTANTS
  Enabled = {"scanner", "edfa", "storage", "udp"}
  Backlog = 1
  MaxEvents = 2
  MaxCommands = 4
  MaxFaults = 1
INVARIANTS
  RunningIsMonitored
\* The bounds on commands and faults end every behaviour.
CHECK_DEADLOCK FALSE
