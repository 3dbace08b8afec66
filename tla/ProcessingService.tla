-------------------------- MODULE ProcessingService --------------------------
(***************************************************************************)
(* The streaming stage between the digitizer and its consumers:            *)
(* src/processing/processing_service.cpp with the raster bookkeeping of    *)
(* src/processing/processing_snapshots.cpp.                                *)
(*                                                                         *)
(* Three threads share one mutex and one condition variable:               *)
(*   - the caller (the runtime thread): configure, start,                  *)
(*     updateRuntimeConfig, requestStop, waitUntilStopped;                 *)
(*   - the producer (the acquisition thread): enqueueBatch;                *)
(*   - the worker: workerLoopSync with the FFTW backend, workerLoopAsync   *)
(*     with the CUDA pipeline (constant Async).                            *)
(* One action is one critical section of the mutex together with the       *)
(* thread-local work up to the next one.                                   *)
(*                                                                         *)
(* A DMA batch is one scan line: AcquisitionSession numbers lines from 0   *)
(* at every arm, so batch n of a session carries y = (n-1) % Height.       *)
(* Samples, latencies and the FFT are abstracted away.                     *)
(***************************************************************************)
EXTENDS Integers, Sequences

CONSTANTS
  Async,        \* TRUE: the processor supports asynchronous batches (CUDA)
  Capacity,     \* config.processing.queue_capacity
  InFlightMax,  \* asyncBatchCapacity(); 1 for the synchronous worker
  Height,       \* config.scan.y_line_count
  MaxBatches,   \* bound: batches accepted in one session
  MaxRevision,  \* bound: processing configuration revisions
  MaxSessions   \* bound: calls of start

ASSUME ConstantsAssumption ==
  /\ Async \in BOOLEAN
  /\ Capacity \in Nat \ {0}
  /\ InFlightMax \in Nat \ {0}
  /\ ~Async => InFlightMax = 1
  /\ Height \in Nat \ {0}
  /\ MaxBatches \in Nat
  /\ MaxRevision \in Nat \ {0}
  /\ MaxSessions \in Nat

VARIABLES
  running, accepting, stopRequested, workerError, stopReason,
  joinable,     \* std::thread worker is joinable
  pc,           \* where the worker is
  queue,        \* deque of QueuedBatch
  inFlight,     \* batches the worker took and has not published yet
  pending,      \* pending_runtime_config: its revision, 0 when it is empty
  updating,     \* revision moved out of pending by the worker, 0 if none
  applied,      \* revision the signal processor computes with
  newestRev,    \* settings handed out so far, numbered in order
  processed,    \* batches_processed
  discarded,    \* batches_discarded_on_stop
  lines,        \* point_cloud_work_: the record stored for each line
  completed,    \* completed_lines
  cloud,        \* point_cloud_: the last published point cloud, or NoCloud
  \* history, never read by an action
  session,      \* sessions started
  accepted,     \* batches accepted in this session
  lastOut,      \* id of the batch published last in this session
  dropped       \* accepted batches lost to a worker failure

control == <<running, accepting, stopRequested, workerError, stopReason, joinable>>
config  == <<pending, updating, applied, newestRev>>
counts  == <<processed, discarded>>
raster  == <<lines, completed, cloud>>
history == <<session, accepted, lastOut, dropped>>
vars == <<control, pc, queue, inFlight, config, counts, raster, history>>

Batch     == [id : Nat, y : Nat]
InFlight  == [id : Nat, y : Nat, rev : Nat]
LineCell  == [session : Nat, id : Nat, rev : Nat]
EmptyCell == [session |-> 0, id |-> 0, rev |-> 0]
Reasons   == {"none", "user", "overflow", "failed"}
WorkerPcs == {"none", "init", "loop", "apply", "process", "publish", "record", "exit", "done"}

BeginsRaster(b) == b.y = 0

EmptyLines == [y \in 0..Height - 1 |-> EmptyCell]
NoCloud    == EmptyLines

Init ==
  /\ running = FALSE /\ accepting = FALSE /\ stopRequested = FALSE
  /\ workerError = FALSE /\ stopReason = "none" /\ joinable = FALSE
  /\ pc = "none"
  /\ queue = <<>> /\ inFlight = <<>>
  /\ pending = 0 /\ updating = 0 /\ applied = 0 /\ newestRev = 0
  /\ processed = 0 /\ discarded = 0
  /\ lines = EmptyLines /\ completed = 0 /\ cloud = NoCloud
  /\ session = 0 /\ accepted = 0 /\ lastOut = 0 /\ dropped = 0
-----------------------------------------------------------------------------
(* The caller. start() blocks until the worker reports worker_ready, so no *)
(* other call of this thread falls between Start and WorkerReady.          *)

CallerIdle == pc # "init"

Configure ==
  /\ CallerIdle
  /\ ~running
  /\ newestRev < MaxRevision
  /\ newestRev' = newestRev + 1
  /\ applied' = newestRev + 1
  /\ lines' = EmptyLines /\ completed' = 0 /\ cloud' = NoCloud
  /\ UNCHANGED <<control, pc, queue, inFlight, pending, updating, counts, history>>

Start ==
  /\ CallerIdle
  /\ applied # 0 /\ ~running /\ ~joinable
  /\ session < MaxSessions
  /\ queue' = <<>>
  /\ processed' = 0 /\ discarded' = 0
  /\ stopRequested' = FALSE /\ stopReason' = "none" /\ workerError' = FALSE
  /\ accepting' = TRUE /\ running' = TRUE /\ joinable' = TRUE
  /\ pc' = "init"
  /\ session' = session + 1 /\ accepted' = 0 /\ lastOut' = 0 /\ dropped' = 0
  /\ UNCHANGED <<inFlight, config, raster>>

UpdateRuntimeConfig ==
  /\ CallerIdle
  /\ applied # 0 /\ running /\ accepting
  /\ newestRev < MaxRevision
  /\ newestRev' = newestRev + 1
  /\ pending' = newestRev + 1
  /\ UNCHANGED <<control, pc, queue, inFlight, updating, applied, counts, raster, history>>

\* A stop that reports the latest cause instead of the first.
StopReasonOverwritten(reason) == reason

StopReasonAfter(reason) == IF stopReason = "none" THEN reason ELSE stopReason

\* A discarding stop that forgets to count what it throws away.
DiscardedUncounted == discarded

DiscardedByStop == discarded + Len(queue)

RequestStop(mode) ==
  /\ CallerIdle
  /\ running \/ joinable
  /\ accepting' = FALSE /\ stopRequested' = TRUE
  /\ stopReason' = StopReasonAfter("user")
  /\ IF mode = "DiscardPending"
       THEN /\ discarded' = DiscardedByStop
            /\ queue' = <<>>
            /\ pending' = 0
       ELSE UNCHANGED <<discarded, queue, pending>>
  /\ UNCHANGED <<running, workerError, joinable, pc, inFlight, updating, applied,
                 newestRev, processed, raster, history>>

WaitUntilStopped ==
  /\ pc = "done" /\ joinable
  /\ joinable' = FALSE
  /\ UNCHANGED <<running, accepting, stopRequested, workerError, stopReason, pc,
                 queue, inFlight, config, counts, raster, history>>
-----------------------------------------------------------------------------
(* The producer. A call that returns Stopping changes nothing; the         *)
(* acquisition thread ends its loop on every result but Accepted.          *)

\* The capacity test with > where the code has >=.
QueueFullOffByOne == Len(queue) > Capacity

QueueFull == Len(queue) >= Capacity

NextBatch == [id |-> accepted + 1, y |-> accepted % Height]

EnqueueAccepted ==
  /\ pc # "init" /\ running /\ accepting
  /\ ~QueueFull
  /\ accepted < MaxBatches
  /\ queue' = Append(queue, NextBatch)
  /\ accepted' = accepted + 1
  /\ UNCHANGED <<control, pc, inFlight, config, counts, raster, session, lastOut, dropped>>

EnqueueOverflow ==
  /\ pc # "init" /\ running /\ accepting
  /\ QueueFull
  /\ stopRequested' = TRUE /\ stopReason' = "overflow" /\ accepting' = FALSE
  /\ UNCHANGED <<running, workerError, joinable, pc, queue, inFlight, config, counts,
                 raster, history>>
-----------------------------------------------------------------------------
(* The worker.                                                             *)

\* worker_error, stop_reason, stop_requested, accepting = false, queue.clear;
\* `lost' batches left the pipeline before the failure was noticed.
FailWorker(lost) ==
  /\ workerError' = TRUE /\ stopReason' = "failed"
  /\ stopRequested' = TRUE /\ accepting' = FALSE
  /\ queue' = <<>>
  /\ dropped' = dropped + Len(queue) + lost
  /\ UNCHANGED <<running, joinable>>

WorkerReady ==
  /\ pc = "init"
  /\ pc' = "loop"
  /\ UNCHANGED <<control, queue, inFlight, config, counts, raster, history>>

\* initializeWorkerThread fails: the worker returns and start() joins it.
WorkerInitFails ==
  /\ pc = "init"
  /\ workerError' = TRUE /\ stopReason' = "failed"
  /\ accepting' = FALSE /\ running' = FALSE /\ joinable' = FALSE
  /\ pc' = "none"
  /\ UNCHANGED <<stopRequested, queue, inFlight, config, counts, raster, history>>

\* A worker that takes the new settings with whatever batch comes next.
UpdateDueAnywhere(b) == pending # 0

\* pending_runtime_config is taken only with a batch that begins a raster.
UpdateDue(b) == pending # 0 /\ BeginsRaster(b)

SyncTake ==
  /\ ~Async /\ pc = "loop" /\ queue # <<>>
  /\ LET b == Head(queue) IN
       /\ inFlight' = <<[id |-> b.id, y |-> b.y, rev |-> 0]>>
       /\ IF UpdateDue(b)
            THEN updating' = pending /\ pending' = 0 /\ pc' = "apply"
            ELSE UNCHANGED <<updating, pending>> /\ pc' = "process"
  /\ queue' = Tail(queue)
  /\ UNCHANGED <<control, applied, newestRev, counts, raster, history>>

AsyncTakeUpdate ==
  /\ Async /\ pc = "loop" /\ queue # <<>>
  /\ inFlight = <<>> /\ UpdateDue(Head(queue))
  /\ updating' = pending /\ pending' = 0
  /\ pc' = "apply"
  /\ UNCHANGED <<control, queue, inFlight, applied, newestRev, counts, raster, history>>

ApplyUpdate ==
  /\ pc = "apply"
  /\ applied' = updating /\ updating' = 0
  /\ pc' = IF Async THEN "loop" ELSE "process"
  /\ UNCHANGED <<control, queue, inFlight, pending, newestRev, counts, raster, history>>

ApplyUpdateFails ==
  /\ pc = "apply"
  /\ updating' = 0
  /\ FailWorker(0)
  /\ pc' = "exit"
  /\ UNCHANGED <<inFlight, pending, applied, newestRev, counts, raster,
                 session, accepted, lastOut>>

SyncProcess ==
  /\ pc = "process"
  /\ inFlight' = <<[inFlight[1] EXCEPT !.rev = applied]>>
  /\ pc' = "publish"
  /\ UNCHANGED <<control, queue, config, counts, raster, history>>

\* processBatch of the synchronous worker, or the publication of a result by
\* either worker, reports an error before anything of the batch is stored.
BatchFails ==
  /\ pc \in {"process", "publish"}
  /\ FailWorker(0)
  /\ pc' = "exit"
  /\ UNCHANGED <<inFlight, config, counts, raster, session, accepted, lastOut>>

\* Submission that ignores an update waiting for the next raster.
SubmitAllowedAlways(b) == Len(inFlight) < InFlightMax

SubmitAllowed(b) == Len(inFlight) < InFlightMax /\ ~UpdateDue(b)

AsyncSubmit ==
  /\ Async /\ pc = "loop" /\ queue # <<>>
  /\ LET b == Head(queue) IN
       /\ SubmitAllowed(b)
       /\ inFlight' = Append(inFlight, [id |-> b.id, y |-> b.y, rev |-> applied])
  /\ queue' = Tail(queue)
  /\ UNCHANGED <<control, pc, config, counts, raster, history>>

AsyncSubmitFails ==
  /\ Async /\ pc = "loop" /\ queue # <<>>
  /\ SubmitAllowed(Head(queue))
  /\ FailWorker(0)
  /\ pc' = "exit"
  /\ UNCHANGED <<inFlight, config, counts, raster, session, accepted, lastOut>>

\* collectNextBatch: the oldest submission has completed.
AsyncCollect ==
  /\ Async /\ pc = "loop" /\ inFlight # <<>>
  /\ pc' = "publish"
  /\ UNCHANGED <<control, queue, inFlight, config, counts, raster, history>>

\* releaseCompletedBatchInputs or collectNextBatch reports a device error.
AsyncCollectFails ==
  /\ Async /\ pc = "loop" /\ inFlight # <<>>
  /\ FailWorker(1)
  /\ inFlight' = Tail(inFlight)
  /\ pc' = "exit"
  /\ UNCHANGED <<config, counts, raster, session, accepted, lastOut>>

Cell(b) == [session |-> session, id |-> b.id, rev |-> b.rev]

\* A line count that the first line of a raster does not restart.
LinesBeforeNoReset(b) == completed

\* publishUnlocked: the first line of a raster clears the work cloud.
LinesBefore(b) == IF BeginsRaster(b) THEN 0 ELSE completed
StoredLines(b) == [(IF BeginsRaster(b) THEN EmptyLines ELSE lines) EXCEPT ![b.y] = Cell(b)]

\* A collection that takes the submission completed last.
CompletedNewest == inFlight[Len(inFlight)]

\* submitted_order.front(): results leave in submission order.
Completed == Head(inFlight)

\* publishProcessedBatch: snapshots, counters, callbacks.
Publish ==
  /\ pc = "publish"
  /\ LET b == Completed IN
       /\ lines' = StoredLines(b)
       /\ completed' = IF LinesBefore(b) < Height THEN LinesBefore(b) + 1 ELSE Height
       /\ cloud' = IF LinesBefore(b) < Height /\ completed' = Height
                     THEN StoredLines(b) ELSE cloud
       /\ lastOut' = b.id
  /\ inFlight' = Tail(inFlight)
  /\ pc' = "record"
  /\ UNCHANGED <<control, queue, config, counts, session, accepted, dropped>>

RecordCompleted ==
  /\ pc = "record"
  /\ processed' = processed + 1
  /\ pc' = "loop"
  /\ UNCHANGED <<control, queue, inFlight, config, discarded, raster, history>>

\* An exit test that forgets the batches still queued.
DrainedIgnoringQueue == inFlight = <<>>

\* An exit test that waits for settings nothing will ask for any more.
DrainedAndUpdated == queue = <<>> /\ inFlight = <<>> /\ pending = 0

Drained == queue = <<>> /\ inFlight = <<>>

LeaveLoop ==
  /\ pc = "loop" /\ Drained /\ ~accepting
  /\ pc' = "exit"
  /\ UNCHANGED <<control, queue, inFlight, config, counts, raster, history>>

\* drainAsyncBatches collects and ignores what a failure left in flight.
WorkerExit ==
  /\ pc = "exit"
  /\ dropped' = dropped + Len(inFlight)
  /\ inFlight' = <<>>
  /\ running' = FALSE
  /\ pc' = "done"
  /\ UNCHANGED <<accepting, stopRequested, workerError, stopReason, joinable, queue,
                 config, counts, raster, session, accepted, lastOut>>
-----------------------------------------------------------------------------
Worker ==
  \/ WorkerReady \/ WorkerInitFails
  \/ SyncTake \/ AsyncTakeUpdate
  \/ ApplyUpdate \/ ApplyUpdateFails
  \/ SyncProcess \/ BatchFails
  \/ AsyncSubmit \/ AsyncSubmitFails
  \/ AsyncCollect \/ AsyncCollectFails
  \/ Publish \/ RecordCompleted
  \/ LeaveLoop \/ WorkerExit

Caller ==
  \/ Configure \/ Start \/ UpdateRuntimeConfig
  \/ \E mode \in {"DrainPending", "DiscardPending"} : RequestStop(mode)
  \/ WaitUntilStopped

Producer == EnqueueAccepted \/ EnqueueOverflow

Next == Worker \/ Caller \/ Producer

Spec == Init /\ [][Next]_vars

\* The worker thread is scheduled; callers and producers owe nothing.
FairSpec == Spec /\ WF_vars(Worker)
-----------------------------------------------------------------------------
(* Properties.                                                             *)

ControlType ==
  /\ running \in BOOLEAN /\ accepting \in BOOLEAN /\ stopRequested \in BOOLEAN
  /\ workerError \in BOOLEAN /\ stopReason \in Reasons /\ joinable \in BOOLEAN
  /\ pc \in WorkerPcs

RevisionType ==
  pending \in Nat /\ updating \in Nat /\ applied \in Nat /\ newestRev \in Nat

PipelineType ==
  /\ queue \in Seq(Batch) /\ Len(queue) <= Capacity
  /\ inFlight \in Seq(InFlight) /\ Len(inFlight) <= InFlightMax
  /\ processed \in Nat /\ discarded \in Nat
  /\ session \in Nat /\ accepted \in Nat /\ lastOut \in Nat /\ dropped \in Nat

RasterType ==
  /\ lines \in [0..Height - 1 -> LineCell] /\ completed \in 0..Height
  /\ cloud \in [0..Height - 1 -> LineCell]

TypeOK == ControlType /\ RevisionType /\ PipelineType /\ RasterType

\* Batches leave the service in the order they were accepted, none skipped
\* and none twice: until the worker fails, what is in flight followed by what
\* is queued carries on from the last batch published (enqueueBatch, the
\* worker loops, FIFO timings and submitted_order).
PipelineInOrder ==
  ~workerError =>
    /\ \A i \in 1..Len(inFlight) : inFlight[i].id = lastOut + i
    /\ \A i \in 1..Len(queue) : queue[i].id = lastOut + Len(inFlight) + i

\* Every accepted batch is accounted for: processed, discarded by a stop and
\* counted, lost to a failure, or still in the pipeline. A session that ends
\* without a worker error therefore shows processed + discarded = accepted in
\* its status (batches_processed, batches_discarded_on_stop).
ExactAccounting ==
  /\ accepted = processed + discarded + dropped + Len(queue) + Len(inFlight)
                + (IF pc = "record" THEN 1 ELSE 0)
  /\ ~running /\ ~workerError => processed + discarded = accepted

\* A published point cloud is one raster: its lines come from one session and
\* consecutive DMA batches, and one processing revision computed all of them,
\* whatever settings, stops and restarts fell in between (beginsRasterFrame,
\* publishUnlocked).
CloudIsOneRaster ==
  cloud # NoCloud =>
    \A y \in 0..Height - 1 :
      /\ cloud[y].session = cloud[0].session /\ cloud[0].session > 0
      /\ cloud[y].id = cloud[0].id + y
      /\ cloud[y].rev = cloud[0].rev

\* The first cause of a stop is what the status reports: a later stop request
\* or overflow does not overwrite it, only a worker failure does.
StopCauseKept ==
  [][stopReason # "none" /\ stopReason' # stopReason
       => stopReason' = "failed" \/ session' # session]_vars

\* No raster begins with old settings while accepted new ones wait: when the
\* worker takes the first line of a raster, the pending settings go with it.
NoRasterBeforeDueUpdate ==
  [][(Len(inFlight') > Len(inFlight) /\ BeginsRaster(inFlight'[Len(inFlight')]))
       => pending' = 0]_vars

\* A stop, whatever its cause, ends the worker: waitUntilStopped returns.
StopTerminates == stopRequested ~> pc \in {"none", "done"}

\* Every accepted batch is eventually published or its session loses batches
\* to a discarding stop or a failure.
AcceptedSettles ==
  \A n \in 1..MaxBatches :
    (accepted = n) ~> (lastOut >= n \/ discarded > 0 \/ workerError \/ accepted = 0)

\* The service implements the abstract pipeline.
Pipeline == INSTANCE BatchPipeline WITH
  Bound     <- Capacity + InFlightMax,
  open      <- accepting,
  live      <- running,
  abandoned <- discarded > 0 \/ workerError,
  accepted  <- accepted,
  delivered <- lastOut

RefinesPipeline == Pipeline!BPSpec
=============================================================================
