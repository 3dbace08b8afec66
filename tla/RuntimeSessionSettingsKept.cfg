\* Acquisition alone, without faults: CONNECT, START, an update, STOP, START again.
SPECIFICATION Spec
CONSTANTS
  Enabled = {}
  Backlog = 1
  MaxEvents = 2
  MaxCommands = 5
  MaxFaults = 0
INVARIANTS
  AcceptedSettingsKept
\* The bounds on commands and faults end every behaviour.
CHECK_DEADLOCK FALSE
