\* One device refuses to stop; everything enabled.
SPECIFICATION Spec
CONSTANTS
  Enabled = {"scanner", "edfa", "storage", "udp"}
  Backlog = 1
  MaxEvents = 2
  MaxCommands = 4
  MaxFaults = 1
PROPERTIES
  StopFailureNotHidden
\* The bounds on commands and faults end every behaviour.
CHECK_DEADLOCK FALSE
