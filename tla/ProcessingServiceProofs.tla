------------------------ MODULE ProcessingServiceProofs ------------------------
(***************************************************************************)
(* What holds of ProcessingService for every queue capacity, every number  *)
(* of batches in flight, every raster height and every number of sessions: *)
(* types, order, accounting, that it implements BatchPipeline, and, in the *)
(* second part, that a published cloud is one raster.                      *)
(*                                                                         *)
(* The inductive invariant is CoreInv: what the worker's position says     *)
(* about the flags and the two sequences, how far the pipeline reaches,    *)
(* and where the accepted batches are.                                     *)
(***************************************************************************)
EXTENDS ProcessingService, TLAPS

\* What is true of the service at each position of its worker.
WorkerShape ==
  /\ running <=> pc \notin {"none", "done"}
  /\ pc \in {"none", "done", "exit"} => queue = <<>> /\ ~accepting
  /\ pc \in {"none", "done", "init"} => inFlight = <<>>
  /\ pc = "init" => queue = <<>>
  /\ pc \in {"process", "publish"} => inFlight # <<>>
  /\ pc = "process" => ~Async
  /\ ~Async /\ pc = "apply" => inFlight # <<>>
  /\ ~Async /\ pc \in {"loop", "record"} => inFlight = <<>>
  /\ workerError => pc \in {"none", "done", "exit"}
  /\ ~workerError /\ pc = "exit" => inFlight = <<>>

\* A service that still accepts has neither failed nor discarded anything.
OpenClean == accepting => ~workerError /\ discarded = 0

\* Until a failure, the pipeline reaches from the last batch published to the
\* last one accepted, or short of it when a stop discarded some.
Reach ==
  ~workerError =>
    /\ lastOut + Len(inFlight) + Len(queue) <= accepted
    /\ discarded = 0 => lastOut + Len(inFlight) + Len(queue) = accepted

\* Every accepted batch is somewhere; only a failure drops one.
Accounted ==
  /\ accepted = processed + discarded + dropped + Len(queue) + Len(inFlight)
                + (IF pc = "record" THEN 1 ELSE 0)
  /\ ~workerError => dropped = 0

CoreInv ==
  TypeOK /\ WorkerShape /\ OpenClean /\ Reach /\ PipelineInOrder /\ Accounted

USE ConstantsAssumption DEF ConstantsAssumption, control, config, counts, raster, history

-----------------------------------------------------------------------------
(* Types.                                                                  *)

\* Initially every variable has its type.
LEMMA InitType == Init => TypeOK
<1> SUFFICES ASSUME Init PROVE TypeOK
  OBVIOUS
<1>1. EmptyLines \in [0..Height - 1 -> LineCell]
  BY DEF EmptyLines, EmptyCell, LineCell
<1>2. ControlType
  BY DEF Init, ControlType, Reasons, WorkerPcs
<1>5. RevisionType
  BY DEF Init, RevisionType
<1>3. PipelineType
  BY DEF Init, PipelineType
<1>4. RasterType
  BY <1>1 DEF Init, RasterType, NoCloud
<1> QED
  BY <1>2, <1>3, <1>4, <1>5 DEF TypeOK

\* Flags and worker position keep their types.
LEMMA ControlTypeStep == ControlType /\ [Next]_vars => ControlType'
<1> SUFFICES ASSUME ControlType, [Next]_vars PROVE ControlType'
  OBVIOUS
<1> USE DEF ControlType, Reasons, WorkerPcs
<1>1. CASE Configure
  BY <1>1 DEF Configure
<1>2. CASE Start
  BY <1>2 DEF Start
<1>3. CASE UpdateRuntimeConfig
  BY <1>3 DEF UpdateRuntimeConfig
<1>4. ASSUME NEW mode \in {"DrainPending", "DiscardPending"}, RequestStop(mode)
      PROVE  ControlType'
  BY <1>4 DEF RequestStop, StopReasonAfter
<1>5. CASE WaitUntilStopped
  BY <1>5 DEF WaitUntilStopped
<1>6. CASE EnqueueAccepted
  BY <1>6 DEF EnqueueAccepted
<1>7. CASE EnqueueOverflow
  BY <1>7 DEF EnqueueOverflow
<1>8. CASE WorkerReady
  BY <1>8 DEF WorkerReady
<1>9. CASE WorkerInitFails
  BY <1>9 DEF WorkerInitFails
<1>10. CASE SyncTake
  BY <1>10 DEF SyncTake
<1>11. CASE AsyncTakeUpdate
  BY <1>11 DEF AsyncTakeUpdate
<1>12. CASE ApplyUpdate
  BY <1>12 DEF ApplyUpdate
<1>13. CASE ApplyUpdateFails
  BY <1>13 DEF ApplyUpdateFails, FailWorker
<1>14. CASE SyncProcess
  BY <1>14 DEF SyncProcess
<1>15. CASE BatchFails
  BY <1>15 DEF BatchFails, FailWorker
<1>16. CASE AsyncSubmit
  BY <1>16 DEF AsyncSubmit
<1>17. CASE AsyncSubmitFails
  BY <1>17 DEF AsyncSubmitFails, FailWorker
<1>18. CASE AsyncCollect
  BY <1>18 DEF AsyncCollect
<1>19. CASE AsyncCollectFails
  BY <1>19 DEF AsyncCollectFails, FailWorker
<1>20. CASE Publish
  BY <1>20 DEF Publish
<1>21. CASE RecordCompleted
  BY <1>21 DEF RecordCompleted
<1>22. CASE LeaveLoop
  BY <1>22 DEF LeaveLoop
<1>23. CASE WorkerExit
  BY <1>23 DEF WorkerExit
<1>24. CASE UNCHANGED vars
  BY <1>24 DEF vars
<1> QED
  BY <1>1, <1>2, <1>3, <1>4, <1>5, <1>6, <1>7, <1>8, <1>9, <1>10, <1>11,
     <1>12, <1>13, <1>14, <1>15, <1>16, <1>17, <1>18, <1>19, <1>20, <1>21,
     <1>22, <1>23, <1>24
     DEF Next, Worker, Caller, Producer

\* Configuration revisions stay natural numbers.
LEMMA RevisionTypeStep == RevisionType /\ [Next]_vars => RevisionType'
<1> SUFFICES ASSUME RevisionType, [Next]_vars PROVE RevisionType'
  OBVIOUS
<1> USE DEF RevisionType
<1>1. CASE Configure
  BY <1>1 DEF Configure
<1>2. CASE Start
  BY <1>2 DEF Start
<1>3. CASE UpdateRuntimeConfig
  BY <1>3 DEF UpdateRuntimeConfig
<1>4. ASSUME NEW mode \in {"DrainPending", "DiscardPending"}, RequestStop(mode)
      PROVE  RevisionType'
  BY <1>4 DEF RequestStop
<1>5. CASE WaitUntilStopped
  BY <1>5 DEF WaitUntilStopped
<1>6. CASE EnqueueAccepted
  BY <1>6 DEF EnqueueAccepted
<1>7. CASE EnqueueOverflow
  BY <1>7 DEF EnqueueOverflow
<1>8. CASE WorkerReady
  BY <1>8 DEF WorkerReady
<1>9. CASE WorkerInitFails
  BY <1>9 DEF WorkerInitFails
<1>10. CASE SyncTake
  BY <1>10 DEF SyncTake
<1>11. CASE AsyncTakeUpdate
  BY <1>11 DEF AsyncTakeUpdate
<1>12. CASE ApplyUpdate
  BY <1>12 DEF ApplyUpdate
<1>13. CASE ApplyUpdateFails
  BY <1>13 DEF ApplyUpdateFails, FailWorker
<1>14. CASE SyncProcess
  BY <1>14 DEF SyncProcess
<1>15. CASE BatchFails
  BY <1>15 DEF BatchFails, FailWorker
<1>16. CASE AsyncSubmit
  BY <1>16 DEF AsyncSubmit
<1>17. CASE AsyncSubmitFails
  BY <1>17 DEF AsyncSubmitFails, FailWorker
<1>18. CASE AsyncCollect
  BY <1>18 DEF AsyncCollect
<1>19. CASE AsyncCollectFails
  BY <1>19 DEF AsyncCollectFails, FailWorker
<1>20. CASE Publish
  BY <1>20 DEF Publish
<1>21. CASE RecordCompleted
  BY <1>21 DEF RecordCompleted
<1>22. CASE LeaveLoop
  BY <1>22 DEF LeaveLoop
<1>23. CASE WorkerExit
  BY <1>23 DEF WorkerExit
<1>24. CASE UNCHANGED vars
  BY <1>24 DEF vars
<1> QED
  BY <1>1, <1>2, <1>3, <1>4, <1>5, <1>6, <1>7, <1>8, <1>9, <1>10, <1>11,
     <1>12, <1>13, <1>14, <1>15, <1>16, <1>17, <1>18, <1>19, <1>20, <1>21,
     <1>22, <1>23, <1>24
     DEF Next, Worker, Caller, Producer

\* The two sequences keep their types and stay within their bounds.
LEMMA PipelineTypeStep ==
  RevisionType /\ PipelineType /\ WorkerShape /\ [Next]_vars
  => PipelineType'
<1> SUFFICES ASSUME RevisionType, PipelineType, WorkerShape, [Next]_vars
             PROVE  PipelineType'
  OBVIOUS
<1> USE DEF PipelineType
<1>1. CASE Configure
  BY <1>1 DEF Configure
<1>2. CASE Start
  BY <1>2 DEF Start
<1>3. CASE UpdateRuntimeConfig
  BY <1>3 DEF UpdateRuntimeConfig
<1>4. ASSUME NEW mode \in {"DrainPending", "DiscardPending"}, RequestStop(mode)
      PROVE  PipelineType'
  <2>1. CASE mode = "DiscardPending"
    BY <1>4, <2>1 DEF RequestStop, DiscardedByStop
  <2>2. CASE mode # "DiscardPending"
    BY <1>4, <2>2 DEF RequestStop
  <2> QED
    BY <2>1, <2>2
<1>5. CASE WaitUntilStopped
  BY <1>5 DEF WaitUntilStopped
<1>6. CASE EnqueueAccepted
  <2>1. NextBatch \in Batch
    BY DEF NextBatch, Batch
  <2>2. queue' \in Seq(Batch) /\ Len(queue') = Len(queue) + 1
    BY <1>6, <2>1 DEF EnqueueAccepted
  <2> QED
    BY <1>6, <2>2 DEF EnqueueAccepted, QueueFull
<1>7. CASE EnqueueOverflow
  BY <1>7 DEF EnqueueOverflow
<1>8. CASE WorkerReady
  BY <1>8 DEF WorkerReady
<1>9. CASE WorkerInitFails
  BY <1>9 DEF WorkerInitFails
<1>10. CASE SyncTake
  <2>1. Head(queue) \in Batch
    BY <1>10 DEF SyncTake
  <2>2. [id |-> Head(queue).id, y |-> Head(queue).y, rev |-> 0] \in InFlight
    BY <2>1 DEF Batch, InFlight
  <2>3. inFlight' \in Seq(InFlight) /\ Len(inFlight') = 1
    BY <1>10, <2>2 DEF SyncTake
  <2>4. queue' \in Seq(Batch) /\ Len(queue') <= Capacity
    BY <1>10 DEF SyncTake
  <2> QED
    BY <1>10, <2>3, <2>4 DEF SyncTake
<1>11. CASE AsyncTakeUpdate
  BY <1>11 DEF AsyncTakeUpdate
<1>12. CASE ApplyUpdate
  BY <1>12 DEF ApplyUpdate
<1>13. CASE ApplyUpdateFails
  BY <1>13 DEF ApplyUpdateFails, FailWorker
<1>14. CASE SyncProcess
  <2>1. inFlight[1] \in InFlight
    BY <1>14 DEF SyncProcess, WorkerShape
  <2>2. [inFlight[1] EXCEPT !.rev = applied] \in InFlight
    BY <2>1 DEF InFlight, RevisionType
  <2>3. inFlight' \in Seq(InFlight) /\ Len(inFlight') = 1
    BY <1>14, <2>2 DEF SyncProcess
  <2> QED
    BY <1>14, <2>3 DEF SyncProcess
<1>15. CASE BatchFails
  BY <1>15 DEF BatchFails, FailWorker
<1>16. CASE AsyncSubmit
  <2>1. Head(queue) \in Batch
    BY <1>16 DEF AsyncSubmit
  <2>2. [id |-> Head(queue).id, y |-> Head(queue).y, rev |-> applied] \in InFlight
    BY <2>1 DEF Batch, InFlight, RevisionType
  <2>3. inFlight' \in Seq(InFlight) /\ Len(inFlight') <= InFlightMax
    BY <1>16, <2>2 DEF AsyncSubmit, SubmitAllowed
  <2>4. queue' \in Seq(Batch) /\ Len(queue') <= Capacity
    BY <1>16 DEF AsyncSubmit
  <2> QED
    BY <1>16, <2>3, <2>4 DEF AsyncSubmit
<1>17. CASE AsyncSubmitFails
  BY <1>17 DEF AsyncSubmitFails, FailWorker
<1>18. CASE AsyncCollect
  BY <1>18 DEF AsyncCollect
<1>19. CASE AsyncCollectFails
  BY <1>19 DEF AsyncCollectFails, FailWorker
<1>20. CASE Publish
  <2>1. Head(inFlight) \in InFlight
    BY <1>20 DEF Publish, WorkerShape
  <2>2. inFlight' \in Seq(InFlight) /\ Len(inFlight') <= InFlightMax
    BY <1>20 DEF Publish, WorkerShape
  <2>3. Head(inFlight).id \in Nat
    BY <2>1 DEF InFlight
  <2> QED
    BY <1>20, <2>2, <2>3 DEF Publish, Completed
<1>21. CASE RecordCompleted
  BY <1>21 DEF RecordCompleted
<1>22. CASE LeaveLoop
  BY <1>22 DEF LeaveLoop
<1>23. CASE WorkerExit
  BY <1>23 DEF WorkerExit
<1>24. CASE UNCHANGED vars
  BY <1>24 DEF vars
<1> QED
  BY <1>1, <1>2, <1>3, <1>4, <1>5, <1>6, <1>7, <1>8, <1>9, <1>10, <1>11,
     <1>12, <1>13, <1>14, <1>15, <1>16, <1>17, <1>18, <1>19, <1>20, <1>21,
     <1>22, <1>23, <1>24
     DEF Next, Worker, Caller, Producer

\* Publishing a batch stores a well-formed raster.
LEMMA StoredLinesType ==
  ASSUME RasterType, session \in Nat, NEW b \in InFlight
  PROVE  StoredLines(b) \in [0..Height - 1 -> LineCell]
<1>1. Cell(b) \in LineCell /\ EmptyCell \in LineCell
  BY DEF InFlight, LineCell, Cell, EmptyCell
<1> QED
  BY <1>1 DEF RasterType, StoredLines, EmptyLines

\* The work raster and the published cloud keep their types.
LEMMA RasterTypeStep ==
  PipelineType /\ RasterType /\ WorkerShape /\ [Next]_vars
  => RasterType'
<1> SUFFICES ASSUME PipelineType, RasterType, WorkerShape, [Next]_vars
             PROVE  RasterType'
  OBVIOUS
<1> USE DEF RasterType
<1>1. CASE Configure
  <2>1. EmptyLines \in [0..Height - 1 -> LineCell]
    BY DEF EmptyLines, EmptyCell, LineCell
  <2> QED
    BY <1>1, <2>1 DEF Configure, NoCloud
<1>2. CASE Start
  BY <1>2 DEF Start
<1>3. CASE UpdateRuntimeConfig
  BY <1>3 DEF UpdateRuntimeConfig
<1>4. ASSUME NEW mode \in {"DrainPending", "DiscardPending"}, RequestStop(mode)
      PROVE  RasterType'
  BY <1>4 DEF RequestStop
<1>5. CASE WaitUntilStopped
  BY <1>5 DEF WaitUntilStopped
<1>6. CASE EnqueueAccepted
  BY <1>6 DEF EnqueueAccepted
<1>7. CASE EnqueueOverflow
  BY <1>7 DEF EnqueueOverflow
<1>8. CASE WorkerReady
  BY <1>8 DEF WorkerReady
<1>9. CASE WorkerInitFails
  BY <1>9 DEF WorkerInitFails
<1>10. CASE SyncTake
  BY <1>10 DEF SyncTake
<1>11. CASE AsyncTakeUpdate
  BY <1>11 DEF AsyncTakeUpdate
<1>12. CASE ApplyUpdate
  BY <1>12 DEF ApplyUpdate
<1>13. CASE ApplyUpdateFails
  BY <1>13 DEF ApplyUpdateFails, FailWorker
<1>14. CASE SyncProcess
  BY <1>14 DEF SyncProcess
<1>15. CASE BatchFails
  BY <1>15 DEF BatchFails, FailWorker
<1>16. CASE AsyncSubmit
  BY <1>16 DEF AsyncSubmit
<1>17. CASE AsyncSubmitFails
  BY <1>17 DEF AsyncSubmitFails, FailWorker
<1>18. CASE AsyncCollect
  BY <1>18 DEF AsyncCollect
<1>19. CASE AsyncCollectFails
  BY <1>19 DEF AsyncCollectFails, FailWorker
<1>20. CASE Publish
  <2>1. Completed \in InFlight
    BY <1>20 DEF Publish, Completed, WorkerShape, PipelineType
  <2>2. StoredLines(Completed) \in [0..Height - 1 -> LineCell]
    BY <2>1, StoredLinesType DEF PipelineType
  <2>3. completed' \in 0..Height
    BY <1>20 DEF Publish, LinesBefore
  <2> QED
    BY <1>20, <2>2, <2>3 DEF Publish
<1>21. CASE RecordCompleted
  BY <1>21 DEF RecordCompleted
<1>22. CASE LeaveLoop
  BY <1>22 DEF LeaveLoop
<1>23. CASE WorkerExit
  BY <1>23 DEF WorkerExit
<1>24. CASE UNCHANGED vars
  BY <1>24 DEF vars
<1> QED
  BY <1>1, <1>2, <1>3, <1>4, <1>5, <1>6, <1>7, <1>8, <1>9, <1>10, <1>11,
     <1>12, <1>13, <1>14, <1>15, <1>16, <1>17, <1>18, <1>19, <1>20, <1>21,
     <1>22, <1>23, <1>24
     DEF Next, Worker, Caller, Producer

\* The worker's position, the flags and the two sequences move together.
LEMMA WorkerShapeStep ==
  ControlType /\ PipelineType /\ WorkerShape /\ [Next]_vars
  => WorkerShape'
<1> SUFFICES ASSUME ControlType, PipelineType, WorkerShape, [Next]_vars
             PROVE  WorkerShape'
  OBVIOUS
<1> USE DEF WorkerShape, ControlType, PipelineType, CallerIdle, WorkerPcs
<1>1. CASE Configure
  BY <1>1 DEF Configure
<1>2. CASE Start
  BY <1>2 DEF Start
<1>3. CASE UpdateRuntimeConfig
  BY <1>3 DEF UpdateRuntimeConfig
<1>4. ASSUME NEW mode \in {"DrainPending", "DiscardPending"}, RequestStop(mode)
      PROVE  WorkerShape'
  BY <1>4 DEF RequestStop
<1>5. CASE WaitUntilStopped
  BY <1>5 DEF WaitUntilStopped
<1>6. CASE EnqueueAccepted
  BY <1>6 DEF EnqueueAccepted
<1>7. CASE EnqueueOverflow
  BY <1>7 DEF EnqueueOverflow
<1>8. CASE WorkerReady
  BY <1>8 DEF WorkerReady
<1>9. CASE WorkerInitFails
  BY <1>9 DEF WorkerInitFails
<1>10. CASE SyncTake
  BY <1>10 DEF SyncTake
<1>11. CASE AsyncTakeUpdate
  BY <1>11 DEF AsyncTakeUpdate
<1>12. CASE ApplyUpdate
  BY <1>12 DEF ApplyUpdate
<1>13. CASE ApplyUpdateFails
  BY <1>13 DEF ApplyUpdateFails, FailWorker
<1>14. CASE SyncProcess
  BY <1>14 DEF SyncProcess
<1>15. CASE BatchFails
  BY <1>15 DEF BatchFails, FailWorker
<1>16. CASE AsyncSubmit
  BY <1>16 DEF AsyncSubmit
<1>17. CASE AsyncSubmitFails
  BY <1>17 DEF AsyncSubmitFails, FailWorker
<1>18. CASE AsyncCollect
  BY <1>18 DEF AsyncCollect
<1>19. CASE AsyncCollectFails
  BY <1>19 DEF AsyncCollectFails, FailWorker
<1>20. CASE Publish
  BY <1>20 DEF Publish
<1>21. CASE RecordCompleted
  BY <1>21 DEF RecordCompleted
<1>22. CASE LeaveLoop
  BY <1>22 DEF LeaveLoop, Drained
<1>23. CASE WorkerExit
  BY <1>23 DEF WorkerExit
<1>24. CASE UNCHANGED vars
  BY <1>24 DEF vars
<1> QED
  BY <1>1, <1>2, <1>3, <1>4, <1>5, <1>6, <1>7, <1>8, <1>9, <1>10, <1>11,
     <1>12, <1>13, <1>14, <1>15, <1>16, <1>17, <1>18, <1>19, <1>20, <1>21,
     <1>22, <1>23, <1>24
     DEF Next, Worker, Caller, Producer

\* Taking the head of a sequence.
LEMMA HeadTail ==
  ASSUME NEW S, NEW s \in Seq(S), s # <<>>
  PROVE  /\ Len(s) \in Nat /\ Len(s) >= 1 /\ Head(s) = s[1] /\ s[1] \in S
         /\ Tail(s) \in Seq(S) /\ Len(Tail(s)) = Len(s) - 1
         /\ \A i \in 1..Len(Tail(s)) : Tail(s)[i] = s[i + 1]
  OBVIOUS

\* What a worker finds when it takes the head of the queue.
LEMMA QueueHeadMoves ==
  ASSUME PipelineType, queue # <<>>, queue' = Tail(queue)
  PROVE  /\ Head(queue) \in Batch /\ Head(queue) = queue[1]
         /\ Len(queue) \in Nat /\ Len(queue) >= 1 /\ Len(queue') = Len(queue) - 1
         /\ \A i \in 1..Len(queue') : queue'[i] = queue[i + 1]
  BY HeadTail DEF PipelineType

\* The synchronous worker has one batch in flight.
LEMMA OneInFlight ==
  ASSUME TypeOK, WorkerShape, pc = "process"
  PROVE  /\ Len(inFlight) = 1 /\ inFlight[1] \in InFlight
<1>1. ~Async /\ inFlight # <<>>
  BY DEF WorkerShape
<1>2. InFlightMax = 1
  BY <1>1
<1>3. inFlight \in Seq(InFlight)
  BY DEF TypeOK, PipelineType
<1>4. Len(inFlight) <= 1
  BY <1>2 DEF TypeOK, PipelineType
<1>5. Len(inFlight) \in Nat /\ Len(inFlight) >= 1 /\ inFlight[1] \in InFlight
  BY <1>1, <1>3, HeadTail
<1> HIDE ConstantsAssumption
<1>6. Len(inFlight) = 1
  BY <1>4, <1>5
<1> QED
  BY <1>5, <1>6

\* Only a service without a failure and without a discard accepts.
LEMMA OpenCleanStep ==
  TypeOK /\ WorkerShape /\ OpenClean /\ [Next]_vars
  => OpenClean'
<1> SUFFICES ASSUME TypeOK, WorkerShape, OpenClean, [Next]_vars PROVE OpenClean'
  OBVIOUS
<1> USE DEF TypeOK, ControlType, PipelineType, OpenClean
<1>1. CASE Configure
  BY <1>1 DEF Configure
<1>2. CASE Start
  BY <1>2 DEF Start
<1>3. CASE UpdateRuntimeConfig
  BY <1>3 DEF UpdateRuntimeConfig
<1>4. ASSUME NEW mode \in {"DrainPending", "DiscardPending"}, RequestStop(mode)
      PROVE  OpenClean'
  BY <1>4 DEF RequestStop
<1>5. CASE WaitUntilStopped
  BY <1>5 DEF WaitUntilStopped
<1>6. CASE EnqueueAccepted
  BY <1>6 DEF EnqueueAccepted
<1>7. CASE EnqueueOverflow
  BY <1>7 DEF EnqueueOverflow
<1>8. CASE WorkerReady
  BY <1>8 DEF WorkerReady
<1>9. CASE WorkerInitFails
  BY <1>9 DEF WorkerInitFails
<1>10. CASE SyncTake
  BY <1>10 DEF SyncTake
<1>11. CASE AsyncTakeUpdate
  BY <1>11 DEF AsyncTakeUpdate
<1>12. CASE ApplyUpdate
  BY <1>12 DEF ApplyUpdate
<1>13. CASE ApplyUpdateFails
  BY <1>13 DEF ApplyUpdateFails, FailWorker
<1>14. CASE SyncProcess
  BY <1>14 DEF SyncProcess
<1>15. CASE BatchFails
  BY <1>15 DEF BatchFails, FailWorker
<1>16. CASE AsyncSubmit
  BY <1>16 DEF AsyncSubmit
<1>17. CASE AsyncSubmitFails
  BY <1>17 DEF AsyncSubmitFails, FailWorker
<1>18. CASE AsyncCollect
  BY <1>18 DEF AsyncCollect
<1>19. CASE AsyncCollectFails
  BY <1>19 DEF AsyncCollectFails, FailWorker
<1>20. CASE Publish
  BY <1>20 DEF Publish
<1>21. CASE RecordCompleted
  BY <1>21 DEF RecordCompleted
<1>22. CASE LeaveLoop
  BY <1>22 DEF LeaveLoop
<1>23. CASE WorkerExit
  BY <1>23 DEF WorkerExit
<1>24. CASE UNCHANGED vars
  BY <1>24 DEF vars
<1> QED
  BY <1>1, <1>2, <1>3, <1>4, <1>5, <1>6, <1>7, <1>8, <1>9, <1>10, <1>11,
     <1>12, <1>13, <1>14, <1>15, <1>16, <1>17, <1>18, <1>19, <1>20, <1>21,
     <1>22, <1>23, <1>24
     DEF Next, Worker, Caller, Producer

\* How far the pipeline reaches.
LEMMA ReachStep ==
  TypeOK /\ WorkerShape /\ PipelineInOrder /\ Reach /\ [Next]_vars
  => Reach'
<1> SUFFICES ASSUME TypeOK, WorkerShape, PipelineInOrder, Reach, [Next]_vars
             PROVE  Reach'
  OBVIOUS
<1> USE DEF TypeOK, ControlType, PipelineType, Reach
<1>1. CASE Configure
  BY <1>1 DEF Configure
<1>2. CASE Start
  <2>1. inFlight = <<>>
    BY <1>2 DEF Start, WorkerShape
  <2> QED
    BY <1>2, <2>1 DEF Start
<1>3. CASE UpdateRuntimeConfig
  BY <1>3 DEF UpdateRuntimeConfig
<1>4. ASSUME NEW mode \in {"DrainPending", "DiscardPending"}, RequestStop(mode)
      PROVE  Reach'
  <2>1. CASE mode = "DiscardPending"
    BY <1>4, <2>1 DEF RequestStop, DiscardedByStop
  <2>2. CASE mode # "DiscardPending"
    BY <1>4, <2>2 DEF RequestStop
  <2> QED
    BY <2>1, <2>2
<1>5. CASE WaitUntilStopped
  BY <1>5 DEF WaitUntilStopped
<1>6. CASE EnqueueAccepted
  <2>1. NextBatch \in Batch
    BY DEF NextBatch, Batch
  <2>2. Len(queue') = Len(queue) + 1
    BY <1>6, <2>1 DEF EnqueueAccepted
  <2>3. UNCHANGED <<workerError, inFlight, discarded, lastOut>> /\ accepted' = accepted + 1
    BY <1>6 DEF EnqueueAccepted
  <2> QED
    BY <2>2, <2>3
<1>7. CASE EnqueueOverflow
  BY <1>7 DEF EnqueueOverflow
<1>8. CASE WorkerReady
  BY <1>8 DEF WorkerReady
<1>9. CASE WorkerInitFails
  BY <1>9 DEF WorkerInitFails
<1>10. CASE SyncTake
  <2>1. inFlight = <<>> /\ Len(inFlight') = 1
    BY <1>10 DEF SyncTake, WorkerShape
  <2>2. Len(queue') = Len(queue) - 1
    BY <1>10, QueueHeadMoves DEF SyncTake
  <2>3. UNCHANGED <<workerError, discarded, lastOut, accepted>>
    BY <1>10 DEF SyncTake
  <2>4. lastOut' + Len(inFlight') + Len(queue') = lastOut + Len(inFlight) + Len(queue)
    BY <2>1, <2>2, <2>3
  <2> QED
    BY <2>3, <2>4
<1>11. CASE AsyncTakeUpdate
  BY <1>11 DEF AsyncTakeUpdate
<1>12. CASE ApplyUpdate
  BY <1>12 DEF ApplyUpdate
<1>13. CASE ApplyUpdateFails
  BY <1>13 DEF ApplyUpdateFails, FailWorker
<1>14. CASE SyncProcess
  <2>1. Len(inFlight) = 1
    BY <1>14, OneInFlight DEF SyncProcess
  <2>2. Len(inFlight') = 1
    BY <1>14 DEF SyncProcess
  <2>3. UNCHANGED <<queue, workerError, discarded, lastOut, accepted>>
    BY <1>14 DEF SyncProcess
  <2> QED
    BY <2>1, <2>2, <2>3
<1>15. CASE BatchFails
  BY <1>15 DEF BatchFails, FailWorker
<1>16. CASE AsyncSubmit
  <2>1. Len(queue') = Len(queue) - 1
    BY <1>16, QueueHeadMoves DEF AsyncSubmit
  <2>2. Len(inFlight') = Len(inFlight) + 1
    BY <1>16 DEF AsyncSubmit
  <2>3. UNCHANGED <<workerError, discarded, lastOut, accepted>>
    BY <1>16 DEF AsyncSubmit
  <2>4. lastOut' + Len(inFlight') + Len(queue') = lastOut + Len(inFlight) + Len(queue)
    BY <2>1, <2>2, <2>3
  <2> QED
    BY <2>3, <2>4
<1>17. CASE AsyncSubmitFails
  BY <1>17 DEF AsyncSubmitFails, FailWorker
<1>18. CASE AsyncCollect
  BY <1>18 DEF AsyncCollect
<1>19. CASE AsyncCollectFails
  BY <1>19 DEF AsyncCollectFails, FailWorker
<1>20. CASE Publish
  <2>1. inFlight # <<>>
    BY <1>20 DEF Publish, WorkerShape
  <2>2. Len(inFlight') = Len(inFlight) - 1 /\ Head(inFlight) = inFlight[1] /\ Len(inFlight) >= 1
    BY <1>20, <2>1, HeadTail DEF Publish
  <2>3. ~workerError => lastOut' = lastOut + 1
    BY <1>20, <2>2 DEF Publish, Completed, PipelineInOrder
  <2>4. UNCHANGED <<queue, workerError, discarded, accepted>>
    BY <1>20 DEF Publish
  <2>5. ~workerError => lastOut' + Len(inFlight') + Len(queue') = lastOut + Len(inFlight) + Len(queue)
    BY <2>2, <2>3, <2>4
  <2> QED
    BY <2>4, <2>5
<1>21. CASE RecordCompleted
  BY <1>21 DEF RecordCompleted
<1>22. CASE LeaveLoop
  BY <1>22 DEF LeaveLoop
<1>23. CASE WorkerExit
  <2>1. ~workerError => inFlight = <<>>
    BY <1>23 DEF WorkerExit, WorkerShape
  <2> QED
    BY <1>23, <2>1 DEF WorkerExit
<1>24. CASE UNCHANGED vars
  BY <1>24 DEF vars
<1> QED
  BY <1>1, <1>2, <1>3, <1>4, <1>5, <1>6, <1>7, <1>8, <1>9, <1>10, <1>11,
     <1>12, <1>13, <1>14, <1>15, <1>16, <1>17, <1>18, <1>19, <1>20, <1>21,
     <1>22, <1>23, <1>24
     DEF Next, Worker, Caller, Producer

\* Order, action by action.
LEMMA InOrderStep ==
  TypeOK /\ WorkerShape /\ OpenClean /\ Reach /\ PipelineInOrder /\ [Next]_vars
  => PipelineInOrder'
<1> SUFFICES ASSUME TypeOK, WorkerShape, OpenClean, Reach, PipelineInOrder, [Next]_vars
             PROVE  PipelineInOrder'
  OBVIOUS
<1> USE DEF TypeOK, ControlType, PipelineType, PipelineInOrder
<1>1. CASE Configure
  BY <1>1 DEF Configure
<1>2. CASE Start
  <2>1. inFlight = <<>>
    BY <1>2 DEF Start, WorkerShape
  <2> QED
    BY <1>2, <2>1 DEF Start
<1>3. CASE UpdateRuntimeConfig
  BY <1>3 DEF UpdateRuntimeConfig
<1>4. ASSUME NEW mode \in {"DrainPending", "DiscardPending"}, RequestStop(mode)
      PROVE  PipelineInOrder'
  BY <1>4 DEF RequestStop
<1>5. CASE WaitUntilStopped
  BY <1>5 DEF WaitUntilStopped
<1>6. CASE EnqueueAccepted
  <2>1. NextBatch \in Batch /\ NextBatch.id = accepted + 1
    BY DEF NextBatch, Batch
  <2>2. queue' = Append(queue, NextBatch) /\ UNCHANGED <<workerError, inFlight, lastOut>>
    BY <1>6 DEF EnqueueAccepted
  <2>3. ~workerError => lastOut + Len(inFlight) + Len(queue) = accepted
    BY <1>6 DEF EnqueueAccepted, OpenClean, Reach
  <2>4. ASSUME ~workerError, NEW i \in 1..Len(queue')
        PROVE  queue'[i].id = lastOut + Len(inFlight) + i
    <3>1. CASE i \in 1..Len(queue)
      <4>1. queue'[i] = queue[i]
        BY <2>1, <2>2, <3>1
      <4> QED
        BY <2>4, <3>1, <4>1
    <3>2. CASE i = Len(queue) + 1
      <4>1. queue'[i].id = accepted + 1
        BY <2>1, <2>2, <3>2
      <4> QED
        BY <2>3, <2>4, <3>2, <4>1
    <3>3. Len(queue') = Len(queue) + 1
      BY <2>1, <2>2
    <3> QED
      BY <3>1, <3>2, <3>3
  <2> QED
    BY <2>2, <2>4
<1>7. CASE EnqueueOverflow
  BY <1>7 DEF EnqueueOverflow
<1>8. CASE WorkerReady
  BY <1>8 DEF WorkerReady
<1>9. CASE WorkerInitFails
  BY <1>9 DEF WorkerInitFails
<1>10. CASE SyncTake
  <2>1. inFlight = <<>> /\ Len(inFlight') = 1 /\ inFlight'[1].id = Head(queue).id
    BY <1>10 DEF SyncTake, WorkerShape
  <2>2. /\ Len(queue) >= 1 /\ Head(queue) = queue[1] /\ Len(queue') = Len(queue) - 1
        /\ \A i \in 1..Len(queue') : queue'[i] = queue[i + 1]
    BY <1>10, QueueHeadMoves DEF SyncTake
  <2>3. UNCHANGED <<workerError, lastOut>>
    BY <1>10 DEF SyncTake
  <2>4. ASSUME ~workerError PROVE Head(queue).id = lastOut + 1
    BY <2>1, <2>2, <2>4
  <2>5. ASSUME ~workerError, NEW i \in 1..Len(queue')
        PROVE  queue'[i].id = lastOut + 1 + i
    <3>1. i + 1 \in 1..Len(queue)
      BY <2>2
    <3>2. queue[i + 1].id = lastOut + Len(inFlight) + (i + 1)
      BY <2>5, <3>1
    <3>3. queue'[i] = queue[i + 1]
      BY <2>2, <2>5
    <3>4. Len(inFlight) = 0
      BY <2>1
    <3> QED
      BY <3>2, <3>3, <3>4
  <2> QED
    BY <2>1, <2>3, <2>4, <2>5
<1>11. CASE AsyncTakeUpdate
  BY <1>11 DEF AsyncTakeUpdate
<1>12. CASE ApplyUpdate
  BY <1>12 DEF ApplyUpdate
<1>13. CASE ApplyUpdateFails
  BY <1>13 DEF ApplyUpdateFails, FailWorker
<1>14. CASE SyncProcess
  <2>1. Len(inFlight) = 1 /\ inFlight[1] \in InFlight
    BY <1>14, OneInFlight DEF SyncProcess
  <2>2. Len(inFlight') = 1 /\ inFlight'[1].id = inFlight[1].id
    BY <1>14, <2>1 DEF SyncProcess, InFlight
  <2>3. UNCHANGED <<workerError, queue, lastOut>>
    BY <1>14 DEF SyncProcess
  <2> QED
    BY <2>1, <2>2, <2>3
<1>15. CASE BatchFails
  BY <1>15 DEF BatchFails, FailWorker
<1>16. CASE AsyncSubmit
  <2>1. /\ Len(queue) >= 1 /\ Head(queue) = queue[1] /\ Len(queue') = Len(queue) - 1
        /\ \A i \in 1..Len(queue') : queue'[i] = queue[i + 1]
    BY <1>16, QueueHeadMoves DEF AsyncSubmit
  <2>2. UNCHANGED <<workerError, lastOut>>
    BY <1>16 DEF AsyncSubmit
  <2>3. /\ Len(inFlight') = Len(inFlight) + 1
        /\ \A i \in 1..Len(inFlight) : inFlight'[i] = inFlight[i]
        /\ inFlight'[Len(inFlight) + 1].id = Head(queue).id
    BY <1>16 DEF AsyncSubmit
  <2>4. ASSUME ~workerError, NEW i \in 1..Len(inFlight')
        PROVE  inFlight'[i].id = lastOut + i
    <3>1. CASE i \in 1..Len(inFlight)
      BY <2>3, <2>4, <3>1
    <3>2. CASE i = Len(inFlight) + 1
      BY <2>1, <2>3, <2>4, <3>2
    <3> QED
      BY <2>3, <3>1, <3>2
  <2>5. ASSUME ~workerError, NEW i \in 1..Len(queue')
        PROVE  queue'[i].id = lastOut + Len(inFlight') + i
    <3>1. i + 1 \in 1..Len(queue)
      BY <2>1
    <3>2. queue[i + 1].id = lastOut + Len(inFlight) + (i + 1)
      BY <2>5, <3>1
    <3>3. queue'[i] = queue[i + 1]
      BY <2>1, <2>5
    <3> QED
      BY <2>3, <3>2, <3>3
  <2> QED
    BY <2>2, <2>4, <2>5
<1>17. CASE AsyncSubmitFails
  BY <1>17 DEF AsyncSubmitFails, FailWorker
<1>18. CASE AsyncCollect
  BY <1>18 DEF AsyncCollect
<1>19. CASE AsyncCollectFails
  BY <1>19 DEF AsyncCollectFails, FailWorker
<1>20. CASE Publish
  <2>1. inFlight # <<>>
    BY <1>20 DEF Publish, WorkerShape
  <2>2. /\ Len(inFlight') = Len(inFlight) - 1 /\ Head(inFlight) = inFlight[1] /\ Len(inFlight) >= 1
        /\ \A i \in 1..Len(inFlight') : inFlight'[i] = inFlight[i + 1]
    BY <1>20, <2>1, HeadTail DEF Publish
  <2>3. UNCHANGED <<workerError, queue>> /\ lastOut' = inFlight[1].id
    BY <1>20, <2>2 DEF Publish, Completed
  <2>4. ASSUME ~workerError PROVE inFlight[1].id = lastOut + 1
    BY <2>2, <2>4
  <2>5. ASSUME ~workerError, NEW i \in 1..Len(inFlight')
        PROVE  inFlight'[i].id = lastOut' + i
    <3>1. i + 1 \in 1..Len(inFlight)
      BY <2>2
    <3>2. inFlight[i + 1].id = lastOut + (i + 1)
      BY <2>5, <3>1
    <3>3. inFlight'[i] = inFlight[i + 1]
      BY <2>2, <2>5
    <3>4. lastOut' = lastOut + 1
      BY <2>3, <2>4, <2>5
    <3> QED
      BY <3>2, <3>3, <3>4
  <2>6. ASSUME ~workerError, NEW i \in 1..Len(queue)
        PROVE  queue[i].id = lastOut' + Len(inFlight') + i
    BY <2>2, <2>3, <2>4, <2>6
  <2> QED
    BY <2>3, <2>5, <2>6
<1>21. CASE RecordCompleted
  BY <1>21 DEF RecordCompleted
<1>22. CASE LeaveLoop
  BY <1>22 DEF LeaveLoop
<1>23. CASE WorkerExit
  <2>1. ~workerError => inFlight = <<>>
    BY <1>23 DEF WorkerExit, WorkerShape
  <2> QED
    BY <1>23, <2>1 DEF WorkerExit
<1>24. CASE UNCHANGED vars
  BY <1>24 DEF vars
<1> QED
  BY <1>1, <1>2, <1>3, <1>4, <1>5, <1>6, <1>7, <1>8, <1>9, <1>10, <1>11,
     <1>12, <1>13, <1>14, <1>15, <1>16, <1>17, <1>18, <1>19, <1>20, <1>21,
     <1>22, <1>23, <1>24
     DEF Next, Worker, Caller, Producer

\* Where the accepted batches are.
LEMMA AccountedStep ==
  TypeOK /\ WorkerShape /\ Accounted /\ [Next]_vars
  => Accounted'
<1> SUFFICES ASSUME TypeOK, WorkerShape, Accounted, [Next]_vars PROVE Accounted'
  OBVIOUS
<1> USE DEF TypeOK, ControlType, PipelineType, Accounted
<1>1. CASE Configure
  BY <1>1 DEF Configure
<1>2. CASE Start
  <2>1. inFlight = <<>>
    BY <1>2 DEF Start, WorkerShape
  <2> QED
    BY <1>2, <2>1 DEF Start
<1>3. CASE UpdateRuntimeConfig
  BY <1>3 DEF UpdateRuntimeConfig
<1>4. ASSUME NEW mode \in {"DrainPending", "DiscardPending"}, RequestStop(mode)
      PROVE  Accounted'
  <2>1. CASE mode = "DiscardPending"
    BY <1>4, <2>1 DEF RequestStop, DiscardedByStop
  <2>2. CASE mode # "DiscardPending"
    BY <1>4, <2>2 DEF RequestStop
  <2> QED
    BY <2>1, <2>2
<1>5. CASE WaitUntilStopped
  BY <1>5 DEF WaitUntilStopped
<1>6. CASE EnqueueAccepted
  BY <1>6 DEF EnqueueAccepted
<1>7. CASE EnqueueOverflow
  BY <1>7 DEF EnqueueOverflow
<1>8. CASE WorkerReady
  BY <1>8 DEF WorkerReady
<1>9. CASE WorkerInitFails
  BY <1>9 DEF WorkerInitFails
<1>10. CASE SyncTake
  <2>1. inFlight = <<>> /\ Len(inFlight') = 1
    BY <1>10 DEF SyncTake, WorkerShape
  <2>2. Len(queue') = Len(queue) - 1
    BY <1>10, QueueHeadMoves DEF SyncTake
  <2>3. /\ UNCHANGED <<workerError, discarded, processed, dropped, accepted>>
        /\ pc # "record" /\ pc' # "record"
    BY <1>10 DEF SyncTake
  <2> QED
    BY <2>1, <2>2, <2>3
<1>11. CASE AsyncTakeUpdate
  BY <1>11 DEF AsyncTakeUpdate
<1>12. CASE ApplyUpdate
  BY <1>12 DEF ApplyUpdate
<1>13. CASE ApplyUpdateFails
  BY <1>13 DEF ApplyUpdateFails, FailWorker
<1>14. CASE SyncProcess
  <2>1. Len(inFlight) = 1
    BY <1>14, OneInFlight DEF SyncProcess
  <2>2. Len(inFlight') = 1
    BY <1>14 DEF SyncProcess
  <2> QED
    BY <1>14, <2>1, <2>2 DEF SyncProcess
<1>15. CASE BatchFails
  BY <1>15 DEF BatchFails, FailWorker
<1>16. CASE AsyncSubmit
  BY <1>16 DEF AsyncSubmit
<1>17. CASE AsyncSubmitFails
  BY <1>17 DEF AsyncSubmitFails, FailWorker
<1>18. CASE AsyncCollect
  BY <1>18 DEF AsyncCollect
<1>19. CASE AsyncCollectFails
  BY <1>19 DEF AsyncCollectFails, FailWorker
<1>20. CASE Publish
  <2>1. inFlight # <<>>
    BY <1>20 DEF Publish, WorkerShape
  <2>2. Len(inFlight') = Len(inFlight) - 1 /\ Len(inFlight) >= 1
    BY <1>20, <2>1, HeadTail DEF Publish
  <2>3. /\ UNCHANGED <<workerError, queue, discarded, processed, dropped, accepted>>
        /\ pc = "publish" /\ pc' = "record"
    BY <1>20 DEF Publish
  <2> QED
    BY <2>2, <2>3
<1>21. CASE RecordCompleted
  BY <1>21 DEF RecordCompleted
<1>22. CASE LeaveLoop
  BY <1>22 DEF LeaveLoop
<1>23. CASE WorkerExit
  <2>1. ~workerError => inFlight = <<>>
    BY <1>23 DEF WorkerExit, WorkerShape
  <2> QED
    BY <1>23, <2>1 DEF WorkerExit
<1>24. CASE UNCHANGED vars
  BY <1>24 DEF vars
<1> QED
  BY <1>1, <1>2, <1>3, <1>4, <1>5, <1>6, <1>7, <1>8, <1>9, <1>10, <1>11,
     <1>12, <1>13, <1>14, <1>15, <1>16, <1>17, <1>18, <1>19, <1>20, <1>21,
     <1>22, <1>23, <1>24
     DEF Next, Worker, Caller, Producer

-----------------------------------------------------------------------------
(* The theorems.                                                           *)

\* The inductive invariant holds initially.
LEMMA InitCore == Init => CoreInv
<1> SUFFICES ASSUME Init PROVE CoreInv
  OBVIOUS
<1>1. TypeOK
  BY InitType
<1>2. WorkerShape
  BY DEF Init, WorkerShape
<1>3. OpenClean
  BY DEF Init, OpenClean
<1>4. Reach
  BY DEF Init, Reach
<1>5. PipelineInOrder
  BY DEF Init, PipelineInOrder
<1>6. Accounted
  BY DEF Init, Accounted
<1> QED
  BY <1>1, <1>2, <1>3, <1>4, <1>5, <1>6 DEF CoreInv

\* Every step keeps the inductive invariant.
LEMMA CoreStep == CoreInv /\ [Next]_vars => CoreInv'
<1> SUFFICES ASSUME CoreInv, [Next]_vars PROVE CoreInv'
  OBVIOUS
<1>1. /\ TypeOK /\ ControlType /\ RevisionType /\ PipelineType /\ RasterType
      /\ WorkerShape /\ OpenClean /\ Reach /\ PipelineInOrder /\ Accounted
  BY DEF CoreInv, TypeOK
<1>2. TypeOK'
  BY <1>1, ControlTypeStep, RevisionTypeStep, PipelineTypeStep, RasterTypeStep DEF TypeOK
<1>3. WorkerShape' /\ OpenClean' /\ Reach'
  BY <1>1, WorkerShapeStep, OpenCleanStep, ReachStep
<1>4. PipelineInOrder' /\ Accounted'
  BY <1>1, InOrderStep, AccountedStep
<1> QED
  BY <1>2, <1>3, <1>4 DEF CoreInv

\* The inductive invariant holds in every reachable state.
THEOREM CoreInvariant == Spec => []CoreInv
  BY InitCore, CoreStep, PTL DEF Spec

\* Every variable keeps its type; the queue never exceeds
\* processing.queue_capacity and the pipeline its number of slots.
THEOREM TypeCorrect == Spec => []TypeOK
<1>1. CoreInv => TypeOK
  BY DEF CoreInv
<1> QED
  BY <1>1, CoreInvariant, PTL

\* Batches leave the service in the order enqueueBatch accepted them, none
\* skipped and none twice, until the worker fails.
THEOREM OrderKept == Spec => []PipelineInOrder
<1>1. CoreInv => PipelineInOrder
  BY DEF CoreInv
<1> QED
  BY <1>1, CoreInvariant, PTL

\* Every accepted batch is processed, discarded by a stop and counted, lost to
\* a failure, or still in the pipeline; a session that ends without a failure
\* reports processed + discarded = accepted.
THEOREM AccountingHolds == Spec => []ExactAccounting
<1>1. CoreInv => ExactAccounting
  <2> SUFFICES ASSUME CoreInv PROVE ExactAccounting
    OBVIOUS
  <2>1. Accounted /\ TypeOK /\ WorkerShape
    BY DEF CoreInv
  <2>2. ASSUME ~running, ~workerError PROVE processed + discarded = accepted
    <3>1. queue = <<>> /\ inFlight = <<>> /\ pc # "record"
      BY <2>1, <2>2 DEF WorkerShape, TypeOK, ControlType, WorkerPcs
    <3>2. dropped = 0
      BY <2>1, <2>2 DEF Accounted
    <3> QED
      BY <2>1, <3>1, <3>2 DEF Accounted, TypeOK, PipelineType
  <2> QED
    BY <2>1, <2>2 DEF Accounted, ExactAccounting
<1> QED
  BY <1>1, CoreInvariant, PTL

-----------------------------------------------------------------------------
(* The service implements BatchPipeline.                                   *)

\* Initial states map to initial states.
LEMMA InitRefines == Init => Pipeline!BPInit
<1> SUFFICES ASSUME Init PROVE Pipeline!BPInit
  OBVIOUS
<1>1. (discarded > 0) = FALSE /\ workerError = FALSE
  BY DEF Init
<1>2. /\ accepting = FALSE /\ running = FALSE
      /\ accepted = 0 /\ lastOut = 0
  BY DEF Init
<1> QED
  BY <1>1, <1>2 DEF Pipeline!BPInit

\* A failure closes the pipeline and abandons what is in it.
LEMMA FailureCloses ==
  ASSUME TypeOK, running, running' = running, accepting' = FALSE, workerError' = TRUE,
         UNCHANGED <<accepted, lastOut>>
  PROVE  Pipeline!BPNext
<1>1. (discarded > 0 \/ workerError)' = TRUE
  OBVIOUS
<1> QED
  BY <1>1, Zenon DEF Pipeline!BPNext, Pipeline!Close

\* Every step maps to a step of BatchPipeline or a stutter.
LEMMA StepRefines ==
  CoreInv /\ [Next]_vars
  => [Pipeline!BPNext]_(Pipeline!bpVars)
<1> SUFFICES ASSUME CoreInv, [Next]_vars
             PROVE  [Pipeline!BPNext]_(Pipeline!bpVars)
  OBVIOUS
<1> TypeOK /\ WorkerShape /\ OpenClean /\ Reach /\ PipelineInOrder
  BY DEF CoreInv
<1>1. CASE Configure
  BY <1>1 DEF Configure, Pipeline!bpVars
<1>2. CASE Start
  <2>1. (discarded > 0 \/ workerError)' = FALSE
    BY <1>2 DEF Start
  <2>2. /\ ~running /\ accepting' = TRUE /\ running' = TRUE
        /\ accepted' = 0 /\ lastOut' = 0
    BY <1>2 DEF Start
  <2> QED
    BY <2>1, <2>2, Zenon DEF Pipeline!BPNext, Pipeline!Open
<1>3. CASE UpdateRuntimeConfig
  BY <1>3 DEF UpdateRuntimeConfig, Pipeline!bpVars
<1>4. ASSUME NEW mode \in {"DrainPending", "DiscardPending"}, RequestStop(mode)
      PROVE  [Pipeline!BPNext]_(Pipeline!bpVars)
  <2>1. accepting' = FALSE /\ UNCHANGED <<running, workerError, accepted, lastOut>>
    BY <1>4 DEF RequestStop
  <2>2. discarded > 0 => discarded' > 0
    BY <1>4 DEF RequestStop, DiscardedByStop, TypeOK, PipelineType
  <2>3. CASE running
    <3>1. (discarded > 0 \/ workerError) => (discarded > 0 \/ workerError)'
      BY <2>1, <2>2
    <3>2. (discarded > 0 \/ workerError)' \in BOOLEAN
      BY <2>1 DEF TypeOK, ControlType
    <3> QED
      BY <2>1, <2>3, <3>1, <3>2, Zenon DEF Pipeline!BPNext, Pipeline!Close
  <2>4. CASE ~running
    <3>1. accepting = FALSE /\ queue = <<>>
      BY <2>4 DEF WorkerShape, TypeOK, ControlType
    <3>2. discarded' = discarded
      BY <1>4, <3>1 DEF RequestStop, DiscardedByStop, TypeOK, PipelineType
    <3> QED
      BY <2>1, <3>1, <3>2 DEF Pipeline!bpVars
  <2> QED
    BY <2>3, <2>4
<1>5. CASE WaitUntilStopped
  BY <1>5 DEF WaitUntilStopped, Pipeline!bpVars
<1>6. CASE EnqueueAccepted
  <2>1. /\ accepting /\ accepted' = accepted + 1
        /\ UNCHANGED <<running, accepting, workerError, discarded, lastOut>>
    BY <1>6 DEF EnqueueAccepted
  <2>2. accepted = lastOut + Len(inFlight) + Len(queue)
    BY <2>1 DEF OpenClean, Reach
  <2>3. Len(queue) < Capacity /\ Len(queue) \in Nat /\ Len(inFlight) \in Nat /\ Len(inFlight) <= InFlightMax
    BY <1>6 DEF EnqueueAccepted, QueueFull, TypeOK, PipelineType
  <2>4. accepted - lastOut < Capacity + InFlightMax
    BY <2>2, <2>3 DEF TypeOK, PipelineType
  <2> QED
    BY <2>1, <2>4 DEF Pipeline!BPNext, Pipeline!Accept
<1>7. CASE EnqueueOverflow
  <2>1. accepting' = FALSE /\ running /\ UNCHANGED <<running, workerError, discarded, accepted, lastOut>>
    BY <1>7 DEF EnqueueOverflow
  <2>2. (discarded > 0 \/ workerError) \in BOOLEAN
    BY DEF TypeOK, ControlType
  <2> QED
    BY <2>1, <2>2, Zenon DEF Pipeline!BPNext, Pipeline!Close
<1>8. CASE WorkerReady
  BY <1>8 DEF WorkerReady, Pipeline!bpVars
<1>9. CASE WorkerInitFails
  <2>1. running
    BY <1>9 DEF WorkerInitFails, WorkerShape
  <2>2. /\ accepting' = FALSE /\ running' = FALSE /\ workerError' = TRUE
        /\ UNCHANGED <<accepted, lastOut>>
    BY <1>9 DEF WorkerInitFails
  <2>3. (discarded > 0 \/ workerError)' = TRUE
    BY <2>2
  <2> QED
    BY <2>1, <2>2, <2>3, Zenon DEF Pipeline!BPNext, Pipeline!Finish
<1>10. CASE SyncTake
  BY <1>10 DEF SyncTake, Pipeline!bpVars
<1>11. CASE AsyncTakeUpdate
  BY <1>11 DEF AsyncTakeUpdate, Pipeline!bpVars
<1>12. CASE ApplyUpdate
  BY <1>12 DEF ApplyUpdate, Pipeline!bpVars
<1>13. CASE ApplyUpdateFails
  <2>1. running
    BY <1>13 DEF ApplyUpdateFails, WorkerShape
  <2>2. /\ running' = running /\ accepting' = FALSE /\ workerError' = TRUE
        /\ UNCHANGED <<accepted, lastOut>>
    BY <1>13 DEF ApplyUpdateFails, FailWorker
  <2> QED
    BY <2>1, <2>2, FailureCloses
<1>14. CASE SyncProcess
  BY <1>14 DEF SyncProcess, Pipeline!bpVars
<1>15. CASE BatchFails
  <2>1. running
    BY <1>15 DEF BatchFails, WorkerShape
  <2>2. /\ running' = running /\ accepting' = FALSE /\ workerError' = TRUE
        /\ UNCHANGED <<accepted, lastOut>>
    BY <1>15 DEF BatchFails, FailWorker
  <2> QED
    BY <2>1, <2>2, FailureCloses
<1>16. CASE AsyncSubmit
  BY <1>16 DEF AsyncSubmit, Pipeline!bpVars
<1>17. CASE AsyncSubmitFails
  <2>1. running
    BY <1>17 DEF AsyncSubmitFails, WorkerShape
  <2>2. /\ running' = running /\ accepting' = FALSE /\ workerError' = TRUE
        /\ UNCHANGED <<accepted, lastOut>>
    BY <1>17 DEF AsyncSubmitFails, FailWorker
  <2> QED
    BY <2>1, <2>2, FailureCloses
<1>18. CASE AsyncCollect
  BY <1>18 DEF AsyncCollect, Pipeline!bpVars
<1>19. CASE AsyncCollectFails
  <2>1. running
    BY <1>19 DEF AsyncCollectFails, WorkerShape
  <2>2. /\ running' = running /\ accepting' = FALSE /\ workerError' = TRUE
        /\ UNCHANGED <<accepted, lastOut>>
    BY <1>19 DEF AsyncCollectFails, FailWorker
  <2> QED
    BY <2>1, <2>2, FailureCloses
<1>20. CASE Publish
  <2>1. running /\ ~workerError /\ inFlight # <<>>
    BY <1>20 DEF Publish, WorkerShape
  <2>2. Len(inFlight) >= 1 /\ Len(inFlight) \in Nat /\ Len(queue) \in Nat /\ Head(inFlight) = inFlight[1]
    BY <2>1, HeadTail DEF TypeOK, PipelineType
  <2>3. lastOut' = lastOut + 1
    BY <1>20, <2>1, <2>2 DEF Publish, Completed, PipelineInOrder
  <2>4. lastOut < accepted
    BY <2>1, <2>2 DEF Reach, TypeOK, PipelineType
  <2>5. UNCHANGED <<running, accepting, workerError, discarded, accepted>>
    BY <1>20 DEF Publish
  <2> QED
    BY <2>1, <2>3, <2>4, <2>5 DEF Pipeline!BPNext, Pipeline!Deliver
<1>21. CASE RecordCompleted
  BY <1>21 DEF RecordCompleted, Pipeline!bpVars
<1>22. CASE LeaveLoop
  BY <1>22 DEF LeaveLoop, Pipeline!bpVars
<1>23. CASE WorkerExit
  <2>1. /\ running /\ accepting = FALSE /\ queue = <<>>
        /\ ~workerError => inFlight = <<>>
    BY <1>23 DEF WorkerExit, WorkerShape, TypeOK, ControlType
  <2>2. running' = FALSE /\ UNCHANGED <<accepting, workerError, discarded, accepted, lastOut>>
    BY <1>23 DEF WorkerExit
  <2>3. ~workerError /\ discarded = 0 => lastOut = accepted
    BY <2>1 DEF Reach, TypeOK, PipelineType
  <2>4. (discarded > 0 \/ workerError)' \/ lastOut = accepted
    BY <2>2, <2>3 DEF TypeOK, PipelineType
  <2>5. (discarded > 0 \/ workerError)' \in BOOLEAN
    BY <2>2 DEF TypeOK, ControlType
  <2> QED
    BY <2>1, <2>2, <2>4, <2>5, Zenon DEF Pipeline!BPNext, Pipeline!Finish
<1>24. CASE UNCHANGED vars
  BY <1>24 DEF vars, Pipeline!bpVars
<1> QED
  BY <1>1, <1>2, <1>3, <1>4, <1>5, <1>6, <1>7, <1>8, <1>9, <1>10, <1>11,
     <1>12, <1>13, <1>14, <1>15, <1>16, <1>17, <1>18, <1>19, <1>20, <1>21,
     <1>22, <1>23, <1>24
     DEF Next, Worker, Caller, Producer

\* Without threads, queues and settings the service is BatchPipeline: it
\* delivers what it accepted once each and in order, at most Capacity +
\* InFlightMax batches behind, and finishes short only after abandoning them.
THEOREM ServiceRefinesPipeline == Spec => RefinesPipeline
  BY InitRefines, StepRefines, CoreInvariant, PTL
     DEF Spec, RefinesPipeline, Pipeline!BPSpec

-----------------------------------------------------------------------------
(***************************************************************************)
(* A published cloud is one raster, for every raster height, both workers  *)
(* and every interleaving of updates, stops and restarts. The invariant    *)
(* says what the work cloud holds in the middle of a raster, and that what *)
(* is in flight was computed with the settings the processor has now. Two  *)
(* action properties of the service follow from the same facts.            *)
(***************************************************************************)

\* The line a batch belongs to, and how many lines of a raster are published.
LineOf(id) == (id - 1) % Height
Mid == lastOut % Height

Lined(s) == \A i \in 1..Len(s) : s[i].y = LineOf(s[i].id)

\* Batches carry the line that their number says.
LinesNumbered == Lined(queue) /\ Lined(inFlight)

\* What was computed and waits was computed with the settings applied last.
OneRevision ==
  Async \/ pc = "publish" => \A i \in 1..Len(inFlight) : inFlight[i].rev = applied

\* Settings change between two rasters, with nothing else in flight.
AppliesBetween == pc = "apply" => Mid = 0 /\ (Async => inFlight = <<>>)

\* In the middle of a raster the work cloud holds the lines so far.
Drawn ==
  running /\ ~workerError /\ Mid # 0 =>
    /\ completed = Mid
    /\ \A k \in 0..Mid - 1 :
         lines[k] = [session |-> session, id |-> lastOut - Mid + k + 1, rev |-> applied]

RasterInv ==
  /\ CoreInv /\ LinesNumbered /\ OneRevision /\ AppliesBetween /\ Drawn
  /\ running => session > 0
  /\ CloudIsOneRaster
-----------------------------------------------------------------------------
(* Remainders.                                                             *)

\* A quotient and a remainder are the only ones.
LEMMA RemainderOf ==
  ASSUME NEW q \in Nat, NEW r \in 0..Height - 1
  PROVE  (Height * q + r) % Height = r
<1>1. PICK H \in Nat \ {0} : H = Height
  OBVIOUS
<1> HIDE ConstantsAssumption
<1> QED
  BY <1>1

\* The line after the last one is the first again.
LEMMA NextLine ==
  ASSUME NEW n \in Nat
  PROVE  /\ n % Height \in 0..Height - 1
         /\ (n + 1) % Height = IF (n % Height) + 1 = Height THEN 0 ELSE (n % Height) + 1
<1>1. PICK q \in Nat : q = n \div Height
  OBVIOUS
<1>2. PICK r \in 0..Height - 1 : r = n % Height
  OBVIOUS
<1>3. n = Height * q + r
  BY <1>1, <1>2
<1>4. Height * q \in Nat
  OBVIOUS
<1>5. CASE r + 1 = Height
  <2>1. Height * (q + 1) + 0 = n + 1 /\ q + 1 \in Nat /\ 0 \in 0..Height - 1
    BY <1>3, <1>4, <1>5
  <2>2. (n + 1) % Height = 0
    BY <2>1, RemainderOf
  <2> QED
    BY <1>2, <1>5, <2>2
<1>6. CASE r + 1 # Height
  <2>1. Height * q + (r + 1) = n + 1 /\ r + 1 \in 0..Height - 1
    BY <1>3, <1>4, <1>6
  <2>2. (n + 1) % Height = r + 1
    BY <2>1, RemainderOf
  <2> QED
    BY <1>2, <1>6, <2>2
<1> QED
  BY <1>5, <1>6

\* The batch after the n-th one.
LEMMA LineAfter ==
  ASSUME NEW n \in Nat
  PROVE  LineOf(n + 1) = n % Height
<1>1. (n + 1) - 1 = n
  OBVIOUS
<1> HIDE ConstantsAssumption
<1> QED
  BY <1>1 DEF LineOf
-----------------------------------------------------------------------------
(* Each part of the invariant, step by step.                               *)

\* Batches keep their lines on the way through the pipeline.
LEMMA LinedStep == CoreInv /\ LinesNumbered /\ [Next]_vars => LinesNumbered'
<1> SUFFICES ASSUME CoreInv, LinesNumbered, [Next]_vars PROVE LinesNumbered'
  OBVIOUS
<1>0. PipelineType
  BY DEF CoreInv, TypeOK
<1> USE DEF LinesNumbered, Lined
<1>1. CASE Configure \/ UpdateRuntimeConfig \/ WaitUntilStopped \/ EnqueueOverflow
  BY <1>1 DEF Configure, UpdateRuntimeConfig, WaitUntilStopped, EnqueueOverflow
<1>2. CASE Start
  BY <1>2 DEF Start
<1>3. ASSUME NEW mode \in {"DrainPending", "DiscardPending"}, RequestStop(mode)
      PROVE  LinesNumbered'
  BY <1>3 DEF RequestStop
<1>4. CASE EnqueueAccepted
  <2>1. NextBatch \in Batch /\ accepted \in Nat /\ queue' = Append(queue, NextBatch)
        /\ UNCHANGED inFlight
    BY <1>0, <1>4 DEF EnqueueAccepted, NextBatch, Batch, PipelineType
  <2>2. NextBatch.y = LineOf(NextBatch.id)
    BY <2>1 DEF NextBatch, LineOf
  <2>3. \A i \in 1..Len(queue') : i \in 1..Len(queue) \/ queue'[i] = NextBatch
    BY <1>0, <2>1 DEF PipelineType
  <2>4. \A i \in 1..Len(queue) : queue'[i] = queue[i]
    BY <1>0, <2>1 DEF PipelineType
  <2> QED
    BY <2>1, <2>2, <2>3, <2>4
<1>5. CASE WorkerReady \/ WorkerInitFails \/ AsyncTakeUpdate \/ ApplyUpdate \/ AsyncCollect
           \/ RecordCompleted \/ LeaveLoop
  BY <1>5 DEF WorkerReady, WorkerInitFails, AsyncTakeUpdate, ApplyUpdate, AsyncCollect,
              RecordCompleted, LeaveLoop
<1>6. CASE ApplyUpdateFails \/ BatchFails \/ AsyncSubmitFails
  BY <1>6 DEF ApplyUpdateFails, BatchFails, AsyncSubmitFails, FailWorker
<1>7. CASE SyncTake \/ AsyncSubmit
  <2>1. queue # <<>> /\ queue' = Tail(queue)
    BY <1>7 DEF SyncTake, AsyncSubmit
  <2>2. Lined(queue')
    BY <1>0, <2>1, QueueHeadMoves
  <2>3. Head(queue).y = LineOf(Head(queue).id)
    BY <1>0, <2>1, QueueHeadMoves
  <2>4. Lined(inFlight')
    <3>1. CASE SyncTake
      BY <2>3, <3>1 DEF SyncTake
    <3>2. CASE AsyncSubmit
      <4> DEFINE b == [id |-> Head(queue).id, y |-> Head(queue).y, rev |-> applied]
      <4>1. inFlight' = Append(inFlight, b)
        BY <3>2 DEF AsyncSubmit
      <4>2. b.y = LineOf(b.id)
        BY <2>3
      <4> HIDE DEF b
      <4>3. \A i \in 1..Len(inFlight') :
               inFlight'[i] = IF i \in 1..Len(inFlight) THEN inFlight[i] ELSE b
        BY <1>0, <4>1 DEF PipelineType
      <4> QED
        BY <4>2, <4>3
    <3> QED
      BY <1>7, <3>1, <3>2
  <2> QED
    BY <2>2, <2>4
<1>8. CASE SyncProcess
  <2>1. Len(inFlight) = 1 /\ inFlight[1] \in InFlight
    BY <1>8, OneInFlight DEF SyncProcess, CoreInv
  <2>2. inFlight[1].y = LineOf(inFlight[1].id)
    BY <2>1
  <2>3. /\ inFlight' = <<[inFlight[1] EXCEPT !.rev = applied]>> /\ Len(inFlight') = 1
        /\ UNCHANGED queue
    BY <1>8 DEF SyncProcess
  <2>4. inFlight'[1].y = inFlight[1].y /\ inFlight'[1].id = inFlight[1].id
    BY <2>1, <2>3 DEF InFlight
  <2> QED
    BY <2>2, <2>3, <2>4
<1>9. CASE AsyncCollectFails \/ Publish
  <2>1. inFlight # <<>> /\ inFlight' = Tail(inFlight) /\ queue' \in {queue, <<>>}
    BY <1>9 DEF AsyncCollectFails, FailWorker, Publish, CoreInv, WorkerShape
  <2>2. Lined(inFlight')
    BY <1>0, <2>1, HeadTail DEF PipelineType
  <2> QED
    BY <2>1, <2>2
<1>10. CASE WorkerExit
  BY <1>10 DEF WorkerExit
<1>11. CASE UNCHANGED vars
  BY <1>11 DEF vars
<1> QED
  BY <1>1, <1>2, <1>3, <1>4, <1>5, <1>6, <1>7, <1>8, <1>9, <1>10, <1>11
     DEF Next, Worker, Caller, Producer

\* Settings wait until nothing computed with others is in flight.
LEMMA RevisionStep ==
  CoreInv /\ OneRevision /\ AppliesBetween /\ [Next]_vars => OneRevision'
<1> SUFFICES ASSUME CoreInv, OneRevision, AppliesBetween, [Next]_vars PROVE OneRevision'
  OBVIOUS
<1>0. PipelineType /\ WorkerShape
  BY DEF CoreInv, TypeOK
<1> USE DEF OneRevision
<1>1. CASE Configure
  BY <1>0, <1>1 DEF Configure, WorkerShape
<1>2. CASE Start
  BY <1>0, <1>2 DEF Start, WorkerShape
<1>3. ASSUME NEW mode \in {"DrainPending", "DiscardPending"}, RequestStop(mode)
      PROVE  OneRevision'
  BY <1>3 DEF RequestStop
<1>4. CASE UpdateRuntimeConfig \/ WaitUntilStopped \/ EnqueueAccepted \/ EnqueueOverflow
  BY <1>4 DEF UpdateRuntimeConfig, WaitUntilStopped, EnqueueAccepted, EnqueueOverflow
<1>5. CASE WorkerReady \/ WorkerInitFails \/ AsyncTakeUpdate \/ AsyncCollect \/ RecordCompleted
           \/ LeaveLoop
  BY <1>5 DEF WorkerReady, WorkerInitFails, AsyncTakeUpdate, AsyncCollect, RecordCompleted,
              LeaveLoop
<1>6. CASE ApplyUpdateFails \/ BatchFails \/ AsyncSubmitFails
  BY <1>6 DEF ApplyUpdateFails, BatchFails, AsyncSubmitFails
<1>7. CASE SyncTake
  BY <1>7 DEF SyncTake
<1>8. CASE ApplyUpdate
  BY <1>8 DEF ApplyUpdate, AppliesBetween
<1>9. CASE SyncProcess
  BY <1>0, <1>9, OneInFlight DEF SyncProcess, WorkerShape, CoreInv, InFlight
<1>10. CASE AsyncSubmit
  <2> DEFINE b == [id |-> Head(queue).id, y |-> Head(queue).y, rev |-> applied]
  <2>1. inFlight' = Append(inFlight, b) /\ Async /\ UNCHANGED applied
    BY <1>10 DEF AsyncSubmit
  <2>2. b.rev = applied
    OBVIOUS
  <2> HIDE DEF b
  <2>3. \A i \in 1..Len(inFlight') :
           inFlight'[i] = IF i \in 1..Len(inFlight) THEN inFlight[i] ELSE b
    BY <1>0, <2>1 DEF PipelineType
  <2> QED
    BY <2>1, <2>2, <2>3
<1>11. CASE AsyncCollectFails \/ Publish
  <2>1. /\ inFlight # <<>> /\ inFlight' = Tail(inFlight) /\ UNCHANGED applied
        /\ Async \/ pc = "publish"
    BY <1>0, <1>11 DEF AsyncCollectFails, Publish, WorkerShape
  <2> QED
    BY <1>0, <2>1, HeadTail DEF PipelineType
<1>12. CASE WorkerExit
  BY <1>12 DEF WorkerExit
<1>13. CASE UNCHANGED vars
  BY <1>13 DEF vars
<1> QED
  BY <1>1, <1>2, <1>3, <1>4, <1>5, <1>6, <1>7, <1>8, <1>9, <1>10, <1>11, <1>12, <1>13
     DEF Next, Worker, Caller, Producer

\* The batch at the head of the queue continues what was published.
LEMMA HeadOf ==
  ASSUME CoreInv, LinesNumbered, pc = "loop", queue # <<>>, inFlight = <<>>
  PROVE  Head(queue).y = Mid
<1>1. PipelineType /\ ~workerError /\ PipelineInOrder
  BY DEF CoreInv, TypeOK, WorkerShape
<1>2. Head(queue) = queue[1] /\ 1 \in 1..Len(queue) /\ lastOut \in Nat
  BY <1>1, HeadTail DEF PipelineType
<1>3. Head(queue).id = lastOut + 1
  BY <1>1, <1>2 DEF PipelineInOrder
<1>4. Head(queue).y = LineOf(lastOut + 1)
  BY <1>2, <1>3 DEF LinesNumbered, Lined
<1> QED
  BY <1>2, <1>4, LineAfter DEF Mid

\* Settings are taken with the first line of a raster only.
LEMMA AppliesStep ==
  CoreInv /\ LinesNumbered /\ AppliesBetween /\ [Next]_vars => AppliesBetween'
<1> SUFFICES ASSUME CoreInv, LinesNumbered, AppliesBetween, [Next]_vars, pc' = "apply"
             PROVE  Mid' = 0 /\ (Async => inFlight' = <<>>)
  BY DEF AppliesBetween
<1>1. CASE SyncTake
  <2>1. /\ ~Async /\ pc = "loop" /\ queue # <<>> /\ UpdateDue(Head(queue))
        /\ UNCHANGED lastOut
    BY <1>1 DEF SyncTake
  <2>2. inFlight = <<>>
    BY <2>1 DEF CoreInv, WorkerShape
  <2> QED
    BY <2>1, <2>2, HeadOf DEF UpdateDue, BeginsRaster, Mid
<1>2. CASE AsyncTakeUpdate
  BY <1>2, HeadOf DEF AsyncTakeUpdate, UpdateDue, BeginsRaster, Mid
<1>3. CASE ~SyncTake /\ ~AsyncTakeUpdate
  <2>1. pc = "apply" /\ UNCHANGED <<lastOut, inFlight>>
    <3>1. ~Publish /\ ~Start /\ ~SyncProcess /\ ~AsyncSubmit /\ ~AsyncCollectFails /\ ~WorkerExit
      BY DEF Publish, Start, SyncProcess, AsyncSubmit, AsyncCollectFails, WorkerExit
    <3> QED
      BY <1>3, <3>1
         DEF Next, Worker, Caller, Producer, Configure, UpdateRuntimeConfig, RequestStop,
             WaitUntilStopped, EnqueueAccepted, EnqueueOverflow, WorkerReady, WorkerInitFails,
             ApplyUpdate, ApplyUpdateFails, BatchFails, AsyncSubmitFails, AsyncCollect,
             RecordCompleted, LeaveLoop, vars
  <2> QED
    BY <2>1 DEF AppliesBetween, Mid
<1> QED
  BY <1>1, <1>2, <1>3

\* What the oldest batch in flight adds to the raster.
LEMMA NextInLine ==
  ASSUME CoreInv, LinesNumbered, OneRevision, pc = "publish"
  PROVE  /\ Completed.y = Mid /\ Cell(Completed) = [session |-> session, id |-> lastOut + 1,
                                                    rev |-> applied]
         /\ running /\ ~workerError /\ Mid \in 0..Height - 1 /\ lastOut \in Nat
<1>1. PipelineType /\ ~workerError /\ running /\ inFlight # <<>> /\ PipelineInOrder
  BY DEF CoreInv, TypeOK, WorkerShape
<1>2. Completed = inFlight[1] /\ 1 \in 1..Len(inFlight) /\ lastOut \in Nat
  BY <1>1, HeadTail DEF PipelineType, Completed
<1>3. inFlight[1].id = lastOut + 1 /\ inFlight[1].rev = applied
  BY <1>1, <1>2 DEF PipelineInOrder, OneRevision
<1>4. inFlight[1].y = LineOf(lastOut + 1)
  BY <1>2, <1>3 DEF LinesNumbered, Lined
<1>5. Completed.y = Mid /\ Mid \in 0..Height - 1
  BY <1>2, <1>4, LineAfter, NextLine DEF Mid
<1> QED
  BY <1>1, <1>2, <1>3, <1>5 DEF Cell

\* The work cloud with one more line.
LEMMA StoredOf ==
  ASSUME RasterInv, pc = "publish"
  PROVE  /\ \A k \in 0..Mid :
              StoredLines(Completed)[k]
                = [session |-> session, id |-> lastOut - Mid + k + 1, rev |-> applied]
         /\ LinesBefore(Completed) = Mid
<1>1. /\ Completed.y = Mid /\ running /\ ~workerError /\ Mid \in 0..Height - 1 /\ lastOut \in Nat
      /\ Cell(Completed) = [session |-> session, id |-> lastOut + 1, rev |-> applied]
  BY NextInLine DEF RasterInv
<1>2. lines \in [0..Height - 1 -> LineCell]
  BY DEF RasterInv, CoreInv, TypeOK, RasterType
<1>3. CASE Mid = 0
  <2>1. StoredLines(Completed) = [EmptyLines EXCEPT ![0] = Cell(Completed)]
    BY <1>1, <1>3 DEF StoredLines, BeginsRaster
  <2>2. StoredLines(Completed)[0] = Cell(Completed)
    BY <1>1, <1>3, <2>1 DEF EmptyLines
  <2>3. lastOut - Mid + 0 + 1 = lastOut + 1
    BY <1>1, <1>3
  <2>4. \A k \in 0..Mid : k = 0
    BY <1>3
  <2> QED
    BY <1>1, <1>3, <2>2, <2>3, <2>4 DEF LinesBefore, BeginsRaster
<1>4. CASE Mid # 0
  <2>1. StoredLines(Completed) = [lines EXCEPT ![Mid] = Cell(Completed)]
    BY <1>1, <1>4 DEF StoredLines, BeginsRaster
  <2>2. /\ completed = Mid
        /\ \A k \in 0..Mid - 1 :
             lines[k] = [session |-> session, id |-> lastOut - Mid + k + 1, rev |-> applied]
    BY <1>1, <1>4 DEF RasterInv, Drawn
  <2>3. ASSUME NEW k \in 0..Mid - 1
        PROVE  StoredLines(Completed)[k] = lines[k]
    BY <1>1, <1>2, <2>1
  <2>4. StoredLines(Completed)[Mid] = Cell(Completed) /\ lastOut - Mid + Mid + 1 = lastOut + 1
    BY <1>1, <1>2, <2>1
  <2>5. \A k \in 0..Mid : k \in 0..Mid - 1 \/ k = Mid
    BY <1>1
  <2>6. LinesBefore(Completed) = Mid
    BY <1>1, <1>4, <2>2 DEF LinesBefore, BeginsRaster
  <2> QED
    BY <1>1, <2>2, <2>3, <2>4, <2>5, <2>6
<1> QED
  BY <1>3, <1>4

\* Publishing a line goes on with the raster, or makes it the cloud.
LEMMA PublishStep == RasterInv /\ Publish => Drawn' /\ CloudIsOneRaster'
<1> SUFFICES ASSUME RasterInv, Publish PROVE Drawn' /\ CloudIsOneRaster'
  OBVIOUS
<1> DEFINE full == StoredLines(Completed)
<1>1. /\ Mid \in 0..Height - 1 /\ lastOut \in Nat /\ session > 0
      /\ LinesBefore(Completed) = Mid
      /\ \A k \in 0..Mid :
           full[k] = [session |-> session, id |-> lastOut - Mid + k + 1, rev |-> applied]
  BY NextInLine, StoredOf DEF RasterInv, Publish
<1>2. /\ lines' = full /\ lastOut' = lastOut + 1 /\ UNCHANGED <<session, applied>>
      /\ completed' = IF LinesBefore(Completed) < Height THEN LinesBefore(Completed) + 1
                                                         ELSE Height
      /\ cloud' = IF LinesBefore(Completed) < Height /\ completed' = Height THEN full ELSE cloud
  <2>1. Completed.id = lastOut + 1
    BY NextInLine DEF RasterInv, Publish, Cell
  <2> QED
    BY <2>1 DEF Publish
<1> HIDE DEF full
<1>3. completed' = Mid + 1 /\ cloud' = IF Mid + 1 = Height THEN full ELSE cloud
  BY <1>1, <1>2
<1>4. Mid' = IF Mid + 1 = Height THEN 0 ELSE Mid + 1
  BY <1>1, <1>2, NextLine DEF Mid
<1>5. Drawn'
  <2>1. SUFFICES ASSUME Mid' # 0
                 PROVE  /\ completed' = Mid'
                        /\ \A k \in 0..Mid' - 1 :
                             lines'[k] = [session |-> session', rev |-> applied',
                                          id |-> lastOut' - Mid' + k + 1]
    BY DEF Drawn
  <2>2. Mid' = Mid + 1 /\ Mid' - 1 = Mid /\ lastOut' - Mid' = lastOut - Mid
    BY <1>1, <1>2, <1>4, <2>1
  <2> QED
    BY <1>1, <1>2, <1>3, <2>2
<1>6. CloudIsOneRaster'
  <2>1. CASE Mid + 1 = Height
    <3>1. cloud' = full /\ Height - 1 = Mid /\ 0 \in 0..Mid
      BY <1>1, <1>3, <2>1
    <3>2. ASSUME NEW y \in 0..Mid
          PROVE  /\ full[y].session = full[0].session /\ full[0].session > 0
                 /\ full[y].id = full[0].id + y /\ full[y].rev = full[0].rev
      <4>1. lastOut - Mid + y + 1 = (lastOut - Mid + 0 + 1) + y
        BY <1>1
      <4>2. full[y] = [session |-> session, id |-> lastOut - Mid + y + 1, rev |-> applied]
        BY <1>1
      <4>3. full[0] = [session |-> session, id |-> lastOut - Mid + 0 + 1, rev |-> applied]
        BY <1>1, <3>1
      <4> QED
        BY <1>1, <4>1, <4>2, <4>3
    <3> QED
      BY <3>1, <3>2 DEF CloudIsOneRaster
  <2>2. CASE Mid + 1 # Height
    BY <1>3, <2>2 DEF RasterInv, CloudIsOneRaster
  <2> QED
    BY <2>1, <2>2
<1> QED
  BY <1>5, <1>6

\* Every other step leaves the work cloud alone, or finds no raster begun.
LEMMA DrawnStep ==
  RasterInv /\ [Next]_vars /\ ~Publish =>
    Drawn' /\ CloudIsOneRaster' /\ (running' => session' > 0)
<1> SUFFICES ASSUME RasterInv, [Next]_vars, ~Publish
             PROVE  Drawn' /\ CloudIsOneRaster' /\ (running' => session' > 0)
  OBVIOUS
<1> DEFINE Kept == UNCHANGED <<lines, completed, cloud, session, lastOut>>
<1>1. CASE Configure
  BY <1>1 DEF Configure, RasterInv, Drawn, CloudIsOneRaster, NoCloud
<1>2. CASE Start
  <2>1. lastOut' = 0 /\ session' = session + 1 /\ session \in Nat /\ UNCHANGED cloud
    BY <1>2 DEF Start, RasterInv, CoreInv, TypeOK, PipelineType
  <2>2. Mid' = 0
    <3>1. Height * 0 + 0 = 0 /\ 0 \in 0..Height - 1
      OBVIOUS
    <3>2. 0 % Height = 0
      BY <3>1, RemainderOf
    <3> QED
      BY <2>1, <3>2 DEF Mid
  <2> QED
    BY <2>1, <2>2 DEF RasterInv, Drawn, CloudIsOneRaster
<1>3. CASE ApplyUpdate
  <2>1. Kept /\ Mid = 0 /\ UNCHANGED <<running, workerError>>
    BY <1>3 DEF ApplyUpdate, RasterInv, AppliesBetween
  <2> QED
    BY <2>1 DEF RasterInv, Drawn, Mid, CloudIsOneRaster
<1>4. CASE ~Configure /\ ~Start /\ ~ApplyUpdate
  <2>1. Kept /\ UNCHANGED applied /\ (running' => running) /\ (~workerError' => ~workerError)
    BY <1>4 DEF Next, Worker, Caller, Producer, UpdateRuntimeConfig, RequestStop,
                WaitUntilStopped, EnqueueAccepted, EnqueueOverflow, WorkerReady,
                WorkerInitFails, SyncTake, AsyncTakeUpdate, ApplyUpdateFails, SyncProcess,
                BatchFails, AsyncSubmit, AsyncSubmitFails, AsyncCollect,
                AsyncCollectFails, RecordCompleted, LeaveLoop, WorkerExit, FailWorker, vars
  <2> QED
    BY <2>1 DEF RasterInv, Drawn, Mid, CloudIsOneRaster
<1> QED
  BY <1>1, <1>2, <1>3, <1>4

\* Initially nothing is drawn.
LEMMA InitRaster == Init => RasterInv
<1> SUFFICES ASSUME Init PROVE RasterInv
  OBVIOUS
<1>1. CoreInv
  BY InitCore
<1> QED
  BY <1>1 DEF Init, RasterInv, LinesNumbered, Lined, OneRevision, AppliesBetween, Drawn,
              CloudIsOneRaster

\* Every step keeps the invariant.
LEMMA RasterStep == RasterInv /\ [Next]_vars => RasterInv'
<1> SUFFICES ASSUME RasterInv, [Next]_vars PROVE RasterInv'
  OBVIOUS
<1>1. CoreInv' /\ LinesNumbered' /\ OneRevision' /\ AppliesBetween'
  BY CoreStep, LinedStep, RevisionStep, AppliesStep DEF RasterInv
<1>2. CASE Publish
  <2>1. running' => session' > 0
    BY <1>2 DEF Publish, RasterInv
  <2> QED
    BY <1>1, <1>2, <2>1, PublishStep DEF RasterInv
<1>3. CASE ~Publish
  BY <1>1, <1>3, DrawnStep DEF RasterInv
<1> QED
  BY <1>2, <1>3
-----------------------------------------------------------------------------
(* What a step may not do.                                                 *)

\* A service that accepts was not stopped yet.
OpenUnstopped == accepting => stopReason = "none"

\* Every step keeps that, and with it the first cause of a stop.
LEMMA CauseStep ==
  session \in Nat /\ OpenUnstopped /\ [Next]_vars =>
    /\ OpenUnstopped'
    /\ stopReason # "none" /\ stopReason' # stopReason
         => stopReason' = "failed" \/ session' # session
<1> SUFFICES ASSUME session \in Nat, OpenUnstopped, [Next]_vars
             PROVE  /\ OpenUnstopped'
                    /\ \/ stopReason = "none" \/ stopReason' = stopReason
                       \/ stopReason' = "failed" \/ session' # session
  OBVIOUS
<1> USE DEF OpenUnstopped
<1>1. CASE EnqueueOverflow
  BY <1>1 DEF EnqueueOverflow
<1>2. ASSUME NEW mode \in {"DrainPending", "DiscardPending"}, RequestStop(mode)
      PROVE  ~accepting' /\ (stopReason = "none" \/ stopReason' = stopReason)
  BY <1>2 DEF RequestStop, StopReasonAfter
<1>3. CASE WorkerInitFails \/ ApplyUpdateFails \/ BatchFails \/ AsyncSubmitFails
           \/ AsyncCollectFails
  BY <1>3 DEF WorkerInitFails, ApplyUpdateFails, BatchFails, AsyncSubmitFails,
              AsyncCollectFails, FailWorker
<1>4. CASE Start
  BY <1>4 DEF Start
<1>5. CASE Configure \/ UpdateRuntimeConfig \/ WaitUntilStopped \/ EnqueueAccepted
           \/ WorkerReady \/ SyncTake \/ AsyncTakeUpdate \/ ApplyUpdate \/ SyncProcess
           \/ AsyncSubmit \/ AsyncCollect \/ Publish \/ RecordCompleted \/ LeaveLoop
           \/ WorkerExit \/ UNCHANGED vars
  BY <1>5 DEF Configure, UpdateRuntimeConfig, WaitUntilStopped, EnqueueAccepted, WorkerReady,
              SyncTake, AsyncTakeUpdate, ApplyUpdate, SyncProcess, AsyncSubmit, AsyncCollect,
              Publish, RecordCompleted, LeaveLoop, WorkerExit, vars
<1> QED
  BY <1>1, <1>2, <1>3, <1>4, <1>5 DEF Next, Worker, Caller, Producer

\* Only a take and a submission add to what is in flight, and both look at the
\* settings that wait.
LEMMA TakeStep ==
  CoreInv /\ [Next]_vars =>
    (Len(inFlight') > Len(inFlight) /\ BeginsRaster(inFlight'[Len(inFlight')]) => pending' = 0)
<1> SUFFICES ASSUME CoreInv, [Next]_vars, Len(inFlight') > Len(inFlight),
                    BeginsRaster(inFlight'[Len(inFlight')])
             PROVE  pending' = 0
  OBVIOUS
<1>0. PipelineType /\ Len(inFlight) \in Nat /\ WorkerShape
  BY DEF CoreInv, TypeOK, PipelineType
<1>1. CASE SyncTake
  <2>1. /\ inFlight' = <<[id |-> Head(queue).id, y |-> Head(queue).y, rev |-> 0]>>
        /\ pending' = IF UpdateDue(Head(queue)) THEN 0 ELSE pending
    BY <1>1 DEF SyncTake
  <2>2. Head(queue).y = 0
    BY <2>1 DEF BeginsRaster
  <2> QED
    BY <2>1, <2>2 DEF UpdateDue, BeginsRaster
<1>2. CASE AsyncSubmit
  <2> DEFINE b == [id |-> Head(queue).id, y |-> Head(queue).y, rev |-> applied]
  <2>1. inFlight' = Append(inFlight, b) /\ ~UpdateDue(Head(queue)) /\ UNCHANGED pending
    BY <1>2 DEF AsyncSubmit, SubmitAllowed
  <2>2. b.y = Head(queue).y
    OBVIOUS
  <2> HIDE DEF b
  <2>3. inFlight'[Len(inFlight')] = b
    BY <1>0, <2>1 DEF PipelineType
  <2> QED
    BY <2>1, <2>2, <2>3 DEF UpdateDue, BeginsRaster
<1>3. CASE ~SyncTake /\ ~AsyncSubmit
  <2>1. \/ inFlight' = inFlight \/ inFlight' = <<>>
        \/ inFlight # <<>> /\ inFlight' = Tail(inFlight)
        \/ SyncProcess
    BY <1>0, <1>3
       DEF Next, Worker, Caller, Producer, Configure, Start, UpdateRuntimeConfig, RequestStop,
           WaitUntilStopped, EnqueueAccepted, EnqueueOverflow, WorkerReady, WorkerInitFails,
           AsyncTakeUpdate, ApplyUpdate, ApplyUpdateFails, BatchFails, AsyncSubmitFails,
           AsyncCollect, AsyncCollectFails, Publish, WorkerShape, RecordCompleted, LeaveLoop,
           WorkerExit, vars
  <2>2. SyncProcess => Len(inFlight') = Len(inFlight)
    BY OneInFlight DEF SyncProcess, CoreInv
  <2> QED
    BY <1>0, <2>1, <2>2, HeadTail DEF PipelineType
<1> QED
  BY <1>1, <1>2, <1>3
-----------------------------------------------------------------------------
\* The inductive invariant: the core's, and what the work cloud holds.
THEOREM RasterInvariant == Spec => []RasterInv
<1> QED
  BY InitRaster, RasterStep, PTL DEF Spec

\* No published cloud mixes sessions, skips a line or mixes settings revisions
\* (beginsRasterFrame, publishUnlocked).
THEOREM CloudsAreRasters == Spec => []CloudIsOneRaster
<1>1. RasterInv => CloudIsOneRaster
  BY DEF RasterInv
<1> QED
  BY <1>1, RasterInvariant, PTL

\* The status reports the first cause of a stop, unless the worker failed after it.
THEOREM FirstCauseStays == Spec => StopCauseKept
<1>1. Init => OpenUnstopped
  BY DEF Init, OpenUnstopped
<1>2. CoreInv => session \in Nat
  BY DEF CoreInv, TypeOK, PipelineType
<1> QED
  BY <1>1, <1>2, CauseStep, CoreInvariant, PTL DEF Spec, StopCauseKept

\* New settings that wait go with the first line of the next raster.
THEOREM RastersTakeUpdates == Spec => NoRasterBeforeDueUpdate
<1> QED
  BY CoreInvariant, TakeStep, PTL DEF Spec, NoRasterBeforeDueUpdate
=============================================================================
