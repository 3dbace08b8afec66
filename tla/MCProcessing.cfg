\* Both workers: two rasters and a half of two lines, a queue of two, two
\* submissions in flight with CUDA, one restart.
SPECIFICATION MCSpec
CONSTANTS
  Async = TRUE
  Capacity = 2
  InFlightMax = 2
  Height = 2
  MaxBatches = 5
  MaxRevision = 3
  MaxSessions = 2
INVARIANTS
  TypeOK
  PipelineInOrder
  ExactAccounting
  CloudIsOneRaster
PROPERTIES
  StopCauseKept
  NoRasterBeforeDueUpdate
  StopTerminates
  AcceptedSettles
  RefinesPipeline
\* The bounds end every behaviour.
CHECK_DEADLOCK FALSE
