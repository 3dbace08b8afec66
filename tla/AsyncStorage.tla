----------------------------- MODULE AsyncStorage -----------------------------
(***************************************************************************)
(* Recording: src/storage/async_storage_service.cpp over the two binary    *)
(* writers of src/storage/binary_storage.cpp.                              *)
(*                                                                         *)
(* One mutex guards two bounded queues, one per stream: raw DMA blocks     *)
(* from the acquisition thread and completed point clouds from the         *)
(* processing worker. Each enabled stream has a worker that writes to its  *)
(* file outside the mutex and, when it leaves its loop, writes the JSON    *)
(* sidecar with the completed flag and the stop reason. Both workers run   *)
(* the same code on different fields, so a stream is a parameter.          *)
(*                                                                         *)
(* Blocks are counted, not carried: a queue is its length and a file is    *)
(* the number of blocks in it. The raw stream's files are RawParts'; the   *)
(* point cloud writer has one file, and what is kept of it is its count.   *)
(***************************************************************************)
EXTENDS RawParts, FiniteSets

CONSTANTS
  Enabled,     \* streams with raw_enabled / processed_enabled
  Capacity,    \* options.queue_capacity
  MaxBlocks,   \* bound: blocks offered to one stream in a session
  MaxSessions  \* bound: calls of start

Streams == {"raw", "cloud"}

ASSUME StorageAssumption ==
  /\ Enabled \subseteq Streams /\ Enabled # {}
  /\ Capacity \in Nat \ {0}
  /\ MaxBlocks \in Nat /\ MaxSessions \in Nat

VARIABLES
  accepting, stopRequested, failed, workerError, stopReason,
  live,        \* raw_running, processed_running
  joinable,    \* the worker threads exist
  pc,          \* where each worker is
  queued,      \* length of each queue
  opts,        \* finalize options a worker copied under the mutex
  written,     \* blocks_written of each writer
  raw,         \* the raw recording of this session: its parts on disk
  sidecar,     \* the JSON sidecar of each stream in this session
  \* history
  accepted,    \* blocks accepted per stream in this session
  session      \* sessions started

flags == <<accepting, stopRequested, failed, workerError, stopReason>>
vars == <<flags, live, joinable, pc, queued, opts, written, raw, sidecar, accepted, session>>

Causes == {"none", "user", "overflow", "write failure", "finalize failure", "open failure"}
NoSidecar == [present |-> FALSE, completed |-> FALSE, reason |-> "none"]
Options == [completed : BOOLEAN, reason : Causes]
Sidecars == [present : BOOLEAN, completed : BOOLEAN, reason : Causes]
WorkerPcs == {"none", "loop", "write", "options", "finalize", "finish", "done"}

Idle == [completed |-> FALSE, reason |-> "none"]
Running == \E s \in Streams : live[s]

Init ==
  /\ accepting = FALSE /\ stopRequested = FALSE /\ failed = FALSE
  /\ workerError = FALSE /\ stopReason = "none"
  /\ live = [s \in Streams |-> FALSE] /\ joinable = [s \in Streams |-> FALSE]
  /\ pc = [s \in Streams |-> "none"]
  /\ queued = [s \in Streams |-> 0] /\ opts = [s \in Streams |-> Idle]
  /\ written = [s \in Streams |-> 0] /\ sidecar = [s \in Streams |-> NoSidecar]
  /\ raw = NoFiles
  /\ accepted = [s \in Streams |-> 0] /\ session = 0
-----------------------------------------------------------------------------
(* The caller: start, requestStop, waitUntilStopped.                       *)

CanStart ==
  /\ ~Running /\ \A s \in Streams : ~joinable[s]
  /\ session < MaxSessions

Start ==
  /\ CanStart
  /\ accepting' = TRUE /\ stopRequested' = FALSE /\ failed' = FALSE
  /\ workerError' = FALSE /\ stopReason' = "none"
  /\ live' = [s \in Streams |-> s \in Enabled]
  /\ joinable' = [s \in Streams |-> s \in Enabled]
  /\ pc' = [s \in Streams |-> IF s \in Enabled THEN "loop" ELSE "none"]
  /\ queued' = [s \in Streams |-> 0] /\ opts' = [s \in Streams |-> Idle]
  /\ written' = [s \in Streams |-> 0] /\ sidecar' = [s \in Streams |-> NoSidecar]
  /\ accepted' = [s \in Streams |-> 0]
  /\ raw' \in IF "raw" \in Enabled THEN Good(Opened(NoFiles)) ELSE {NoFiles}
  /\ session' = session + 1

\* No worker starts: the raw writer refuses, or the point cloud writer does
\* when the raw one is open, and the raw stream is finalized at once, if that works.
StartOpenFails ==
  /\ CanStart
  /\ \E present \in BOOLEAN :
       /\ sidecar' = [s \in Streams |->
            IF s = "raw" /\ s \in Enabled /\ present
              THEN [present |-> TRUE, completed |-> FALSE, reason |-> "open failure"]
              ELSE NoSidecar]
       /\ \/ /\ "raw" \in Enabled /\ ~present
             /\ raw' \in {o.file : o \in Bad(Opened(NoFiles))}
          \/ /\ "cloud" \in Enabled
             /\ raw' \in IF "raw" \in Enabled
                         THEN {o.file : o \in UNION {Closed(f) : f \in Good(Opened(NoFiles))}}
                         ELSE {NoFiles}
  /\ written' = [s \in Streams |-> 0] /\ accepted' = [s \in Streams |-> 0]
  /\ session' = session + 1
  /\ UNCHANGED <<flags, live, joinable, pc, queued, opts>>

\* A later cause replaces the one that stopped the recording.
LatestCause(reason) == reason

FirstCause(reason) == IF stopReason = "none" THEN reason ELSE stopReason

RequestStop ==
  /\ Running \/ \E s \in Streams : joinable[s]
  /\ accepting' = FALSE /\ stopRequested' = TRUE
  /\ stopReason' = FirstCause("user")
  /\ UNCHANGED <<failed, workerError, live, joinable, pc, queued, opts, written,
                 raw, sidecar, accepted, session>>

WaitUntilStopped ==
  /\ \E s \in Streams : joinable[s]
  /\ \A s \in Streams : joinable[s] => pc[s] = "done"
  /\ joinable' = [s \in Streams |-> FALSE]
  /\ UNCHANGED <<flags, live, pc, queued, opts, written, raw, sidecar, accepted, session>>
-----------------------------------------------------------------------------
(* The producers: enqueueRawItem and enqueuePointCloudItem. A disabled     *)
(* stream answers Accepted and keeps nothing.                              *)

\* The capacity test with > where the code has >=.
FullOffByOne(s) == queued[s] > Capacity

Full(s) == queued[s] >= Capacity

EnqueueAccepted(s) ==
  /\ s \in Enabled /\ Running /\ accepting /\ ~Full(s)
  /\ accepted[s] < MaxBlocks
  /\ queued' = [queued EXCEPT ![s] = @ + 1]
  /\ accepted' = [accepted EXCEPT ![s] = @ + 1]
  /\ UNCHANGED <<flags, live, joinable, pc, opts, written, raw, sidecar, session>>

EnqueueOverflow(s) ==
  /\ s \in Enabled /\ Running /\ accepting /\ Full(s)
  /\ stopRequested' = TRUE /\ failed' = TRUE /\ accepting' = FALSE
  /\ stopReason' = "overflow"
  /\ UNCHANGED <<workerError, live, joinable, pc, queued, opts, written, raw, sidecar,
                 accepted, session>>
-----------------------------------------------------------------------------
(* The workers: rawWorkerLoop and pointCloudWorkerLoop.                    *)

\* failWriter with the error recorded by the caller after it returns, too
\* late for a worker that finalizes in between.
FailWriterUnrecorded(cause) ==
  /\ workerError' = workerError
  /\ stopReason' = FirstCause(cause)
  /\ stopRequested' = TRUE /\ failed' = TRUE /\ accepting' = FALSE
  /\ queued' = [s \in Streams |-> 0]

\* failWriter leaving the service open: the other worker never ends.
FailWriterStillAccepting(cause) ==
  /\ workerError' = TRUE
  /\ stopReason' = FirstCause(cause)
  /\ stopRequested' = TRUE /\ failed' = TRUE /\ accepting' = accepting
  /\ queued' = [s \in Streams |-> 0]

FailWriter(cause) ==
  /\ workerError' = TRUE
  /\ stopReason' = FirstCause(cause)
  /\ stopRequested' = TRUE /\ failed' = TRUE /\ accepting' = FALSE
  /\ queued' = [s \in Streams |-> 0]

Goto(s, to) == pc' = [pc EXCEPT ![s] = to]

Take(s) ==
  /\ pc[s] = "loop" /\ queued[s] > 0
  /\ queued' = [queued EXCEPT ![s] = @ - 1]
  /\ Goto(s, "write")
  /\ UNCHANGED <<flags, live, joinable, opts, written, raw, sidecar, accepted, session>>

Write(s) ==
  /\ pc[s] = "write"
  /\ raw' \in IF s = "raw" THEN Good(BatchWritten(raw)) ELSE {raw}
  /\ written' = [written EXCEPT ![s] = @ + 1]
  /\ Goto(s, "loop")
  /\ UNCHANGED <<flags, live, joinable, queued, opts, sidecar, accepted, session>>

\* Closing, opening, writing or flushing a part fails; for the point cloud, writing
\* or flushing. A block may be counted although its flush failed.
WriteFails(s) ==
  /\ pc[s] = "write"
  /\ \/ /\ s = "raw"
        /\ \E o \in Bad(BatchWritten(raw)) :
             /\ raw' = o.file
             /\ written' = [written EXCEPT ![s] = BlocksWritten(o.file)]
     \/ /\ s = "cloud"
        /\ written' \in {written, [written EXCEPT ![s] = @ + 1]}
        /\ UNCHANGED raw
  /\ FailWriter("write failure")
  /\ Goto(s, "options")
  /\ UNCHANGED <<live, joinable, opts, sidecar, accepted, session>>

\* A worker that stops as soon as the service stops accepting.
MayLeaveAtOnce(s) == ~accepting

MayLeave(s) == queued[s] = 0 /\ ~accepting

LeaveLoop(s) ==
  /\ pc[s] = "loop" /\ MayLeave(s)
  /\ Goto(s, "options")
  /\ UNCHANGED <<flags, live, joinable, queued, opts, written, raw, sidecar, accepted, session>>

\* finalizeOptions: completed and the reason as they are now.
ReadOptions(s) ==
  /\ pc[s] = "options"
  /\ opts' = [opts EXCEPT ![s] = [completed |-> ~workerError, reason |-> stopReason]]
  /\ Goto(s, "finalize")
  /\ UNCHANGED <<flags, live, joinable, queued, written, raw, sidecar, accepted, session>>

Finalize(s) ==
  /\ pc[s] = "finalize"
  /\ raw' \in IF s = "raw" THEN Good(Closed(raw)) ELSE {raw}
  /\ sidecar' = [sidecar EXCEPT ![s] =
       [present |-> TRUE, completed |-> opts[s].completed, reason |-> opts[s].reason]]
  /\ Goto(s, "finish")
  /\ UNCHANGED <<flags, live, joinable, queued, opts, written, accepted, session>>

\* The last flush or the truncation fails: the sidecar says so, the writer reports it.
FinalizeFlushFails(s) ==
  /\ pc[s] = "finalize"
  /\ raw' \in IF s = "raw" THEN {o.file : o \in Bad(Closed(raw))} ELSE {raw}
  /\ sidecar' = [sidecar EXCEPT ![s] =
       [present |-> TRUE, completed |-> FALSE, reason |-> opts[s].reason]]
  /\ FailWriter("finalize failure")
  /\ Goto(s, "finish")
  /\ UNCHANGED <<live, joinable, opts, written, accepted, session>>

\* writeSidecar fails: there is no sidecar. (It tests its stream before the
\* stream is closed; a sidecar lost by that close counts as written here.)
FinalizeSidecarFails(s) ==
  /\ pc[s] = "finalize"
  /\ raw' \in IF s = "raw" THEN {o.file : o \in Closed(raw)} ELSE {raw}
  /\ FailWriter("finalize failure")
  /\ Goto(s, "finish")
  /\ UNCHANGED <<live, joinable, opts, written, sidecar, accepted, session>>

FinishWorker(s) ==
  /\ pc[s] = "finish"
  /\ live' = [live EXCEPT ![s] = FALSE]
  /\ Goto(s, "done")
  /\ UNCHANGED <<flags, joinable, queued, opts, written, raw, sidecar, accepted, session>>

Worker(s) ==
  \/ Take(s) \/ Write(s) \/ WriteFails(s) \/ LeaveLoop(s)
  \/ ReadOptions(s) \/ Finalize(s) \/ FinalizeFlushFails(s)
  \/ FinalizeSidecarFails(s) \/ FinishWorker(s)

Next ==
  \/ Start \/ StartOpenFails \/ RequestStop \/ WaitUntilStopped
  \/ \E s \in Streams : EnqueueAccepted(s) \/ EnqueueOverflow(s) \/ Worker(s)

Spec == Init /\ [][Next]_vars

\* Both worker threads are scheduled and file operations return.
FairSpec == Spec /\ \A s \in Streams : WF_vars(Worker(s))
-----------------------------------------------------------------------------
TypeOK ==
  /\ accepting \in BOOLEAN /\ stopRequested \in BOOLEAN /\ failed \in BOOLEAN
  /\ workerError \in BOOLEAN /\ stopReason \in Causes
  /\ live \in [Streams -> BOOLEAN] /\ joinable \in [Streams -> BOOLEAN]
  /\ pc \in [Streams -> WorkerPcs]
  /\ queued \in [Streams -> 0..Capacity]
  /\ opts \in [Streams -> Options]
  /\ written \in [Streams -> Nat] /\ sidecar \in [Streams -> Sidecars]
  /\ accepted \in [Streams -> Nat] /\ session \in Nat
  /\ raw \in Files

\* A sidecar that says completed is true of its own file: every block the
\* service accepted for that stream is in it, although a failure of the other
\* stream may clear both queues at any moment (failWriter, finalizeOptions).
SidecarHonest ==
  \A s \in Streams :
    sidecar[s].present /\ sidecar[s].completed => written[s] = accepted[s]

\* A raw recording whose sidecar says completed can be replayed: the reader finds
\* every accepted block in its numbered parts and then the end, with no preallocated
\* or half-written bytes between two parts, and the sidecar lists exactly the parts
\* that are there (closePart, openPart, openNextPart).
CompletedReplays ==
  sidecar["raw"].present /\ sidecar["raw"].completed =>
    /\ Replay(raw) = [blocks |-> accepted["raw"], end |-> "EndOfStream"]
    /\ raw.listed = Len(raw.parts)

\* The two sidecars of a recording give the same stop reason, whichever
\* thread stopped it and whatever failed while the other was finalizing.
SidecarsAgree ==
  (\A s \in Streams : sidecar[s].present) =>
    sidecar["raw"].reason = sidecar["cloud"].reason

\* Accepted blocks are lost only with an error that waitUntilStopped reports.
LostOnlyWithError ==
  ~Running /\ ~workerError => \A s \in Streams : written[s] = accepted[s]

\* A stop from any cause ends both workers with every stream finalized: each
\* has its sidecar, or the error of the sidecar that could not be written.
StopFinalizes ==
  (Running /\ stopRequested) ~>
    \A s \in Enabled : pc[s] = "done" /\ (sidecar[s].present \/ workerError)
=============================================================================
