\* Scanner: connect, upload, start and stop (or repeated, disconnected, retained),
\* two attempts per command, one fault, and lines that go astray up to one more
\* than a command has retries. Amplifier: two connections, an enable and an off,
\* and two requests or answers that are refused, lost, late or torn.
SPECIFICATION SerialSpec
CONSTANTS
  Retries = 1
  MaxFaults = 1
  FrameBufLen = 2
  RingLines = 1
  Sizes = {1}
  MaxStrays = 1
  MaxCalls = 4
  MaxOperations = 5
  MaxNoise = 2
INVARIANTS
  SerialTypeOK
  ReadyMeansLoaded
  StoppedMeansOff
  ScanningMeansPlaying
  ConfirmedMeansOff
PROPERTIES
  StopHeardIsObeyed
  CallsEnd
  DisconnectMeansOff
\* The bounds on calls and faults end every behaviour.
CHECK_DEADLOCK FALSE
