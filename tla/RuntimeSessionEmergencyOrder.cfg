\* An emergency stop is posted while a START waits or executes.
SPECIFICATION Spec
CONSTANTS
  Enabled = {"scanner", "edfa", "storage", "udp"}
  Backlog = 1
  MaxEvents = 2
  MaxCommands = 4
  MaxFaults = 1
PROPERTIES
  EmergencyFirst
\* The bounds on commands and faults end every behaviour.
CHECK_DEADLOCK FALSE
