------------------------------- MODULE UdpSender -------------------------------
(***************************************************************************)
(* UdpSenderService (src/src/network/udp_sender_service.cpp): records are  *)
(* assembled into rasters under the mutex, rasters wait in a bounded queue *)
(* with a policy, and a worker sends each as datagrams. Two threads call   *)
(* it: processing enqueues, the runtime starts and stops; a stop is        *)
(* RequestStop and Join, between which the worker goes on.                 *)
(***************************************************************************)
EXTENDS UdpWire, FiniteSets

CONSTANTS
  QueueCapacity, Policies,
  MaxRasters  \* bound: rasters completed in all sessions

ASSUME SenderAssumption ==
  /\ QueueCapacity \in Nat \ {0} /\ MaxRasters \in Nat
  /\ Policies \subseteq {"LatestFrame", "PreserveFrames", "StopSending"}

VARIABLES
  caller,     \* "off", "on" or "stopping": the service as its owner sees it
  session,    \* starts so far
  record,     \* frame_id of the last record processed in this session
  policy, accepting,
  active_raster,  \* the raster under assembly, 0 for none (has_active_frame)
  assembly,       \* offset -> point, or Empty; blank without an active raster
  queue,
  worker,     \* "off", "waiting" or "sending"
  frame,      \* the frame the worker holds
  segment,    \* the next of its segments
  status,     \* the counters of sender_status, and the rasters given up unfinished
  net,        \* datagrams on their way, with their age
  offered     \* rasters completed so far. History.

senderVars == <<caller, session, record, policy, accepting, active_raster,
                assembly, queue, worker, frame, segment, status, net,
                offered>>

assemblyVars == <<active_raster, assembly>>

Empty == <<0, 0>>
NoFrame == [raster_frame_id |-> 0, timestamp |-> Empty, points |-> <<>>]
Blanked == [o \in 1..Points |-> Empty]
Zero == [completed |-> 0, sent |-> 0, dropped |-> 0, errors |-> 0, unfinished |-> 0]

SenderInit ==
  /\ caller = "off" /\ worker = "off" /\ accepting = FALSE
  /\ session = 0 /\ record = 0 /\ segment = 1
  /\ policy \in Policies
  /\ active_raster = 0 /\ assembly = Blanked
  /\ queue = <<>> /\ frame = NoFrame /\ status = Zero
  /\ net = {} /\ offered = {}

-----------------------------------------------------------------------------
(* The owner: start, stop and its join. *)

Start ==
  /\ caller = "off" /\ session < MaxSessions
  /\ caller' = "on" /\ worker' = "waiting" /\ accepting' = TRUE
  /\ session' = session + 1 /\ record' = 0
  /\ policy' \in Policies
  /\ active_raster' = 0 /\ assembly' = Blanked
  /\ queue' = <<>> /\ status' = Zero
  /\ UNCHANGED <<frame, segment, net, offered>>

RequestStop ==
  /\ caller = "on"
  /\ caller' = "stopping" /\ accepting' = FALSE
  /\ UNCHANGED <<session, record, policy, assemblyVars, queue, worker, frame, segment,
                 status, net, offered>>

Join ==
  /\ caller = "stopping" /\ worker = "off"
  /\ caller' = "off"
  /\ UNCHANGED <<session, record, policy, accepting, assemblyVars, queue, worker, frame,
                 segment, status, net, offered>>

-----------------------------------------------------------------------------
(* enqueue. *)

\* resetAssembly, when the record does not belong to the raster under assembly.
OtherRaster(n) == active_raster # RasterOf(n)
GivenUp(n) == IF active_raster \notin {0, RasterOf(n)} THEN 1 ELSE 0
AssemblyWith(n) ==
  LET before == IF OtherRaster(n) THEN Blanked ELSE assembly
  IN [before EXCEPT ![OffsetOf(n)] = <<session, n>>]

IsFull(a) == \A o \in 1..Points : a[o] # Empty

Completed(n) ==
  [raster_frame_id |-> RasterOf(n), timestamp |-> <<session, n>>,
   points |-> ValidOf(AssemblyWith(n))]

\* Mutant: one frame too many.
QueueFullOffByOne == Len(queue) > QueueCapacity

QueueFull == Len(queue) >= QueueCapacity

\* Mutant: the frames thrown out of the queue are not counted.
OutcomeUncounted(f) ==
  IF ~QueueFull THEN [queue |-> Append(queue, f), dropped |-> 0]
  ELSE IF policy = "LatestFrame" THEN [queue |-> <<f>>, dropped |-> 0]
  ELSE [queue |-> queue, dropped |-> 1]

\* queueCompletedFrame: the queue it leaves and the frames it drops.
Outcome(f) ==
  CASE ~QueueFull -> [queue |-> Append(queue, f), dropped |-> 0]
    [] QueueFull /\ policy = "LatestFrame" -> [queue |-> <<f>>, dropped |-> Len(queue)]
    [] QueueFull /\ policy # "LatestFrame" -> [queue |-> queue, dropped |-> 1]

\* A record without a valid position, or after the service closed.
EnqueueIgnored ==
  /\ caller = "on" /\ record < MaxRecords
  /\ record' = record + 1
  /\ UNCHANGED <<caller, session, policy, accepting, assemblyVars, queue, worker, frame,
                 segment, status, net, offered>>

EnqueueUnfinished ==
  LET n == record + 1 IN
  /\ caller = "on" /\ accepting /\ n <= MaxRecords
  /\ ~IsFull(AssemblyWith(n))
  /\ record' = n
  /\ active_raster' = RasterOf(n) /\ assembly' = AssemblyWith(n)
  /\ status' = [status EXCEPT !.dropped = @ + GivenUp(n), !.unfinished = @ + GivenUp(n)]
  /\ UNCHANGED <<caller, session, policy, accepting, queue, worker, frame, segment, net,
                 offered>>

EnqueueCompletes ==
  LET n == record + 1  f == Completed(n)  o == Outcome(f) IN
  /\ caller = "on" /\ accepting /\ n <= MaxRecords
  /\ IsFull(AssemblyWith(n)) /\ Cardinality(offered) < MaxRasters
  /\ record' = n
  /\ active_raster' = 0 /\ assembly' = Blanked
  /\ queue' = o.queue
  /\ accepting' = ~(QueueFull /\ policy = "StopSending")
  /\ status' = [status EXCEPT !.completed = @ + 1, !.unfinished = @ + GivenUp(n),
                              !.dropped = @ + GivenUp(n) + o.dropped]
  /\ offered' = offered \cup {f}
  /\ UNCHANGED <<caller, session, policy, worker, frame, segment, net>>

-----------------------------------------------------------------------------
(* workerLoop: one step per stretch under the mutex, and one per datagram. *)

\* Mutant: the worker waits for a frame only.
WokenByFrames == queue # <<>>

\* The predicate of the condition variable.
Woken == queue # <<>> \/ ~accepting

TakeFrame ==
  /\ worker = "waiting" /\ Woken /\ queue # <<>>
  /\ worker' = "sending" /\ frame' = Head(queue) /\ queue' = Tail(queue) /\ segment' = 1
  /\ UNCHANGED <<caller, session, record, policy, accepting, assemblyVars, status, net,
                 offered>>

WorkerLeaves ==
  /\ worker = "waiting" /\ Woken /\ queue = <<>> /\ ~accepting
  /\ worker' = "off" /\ accepting' = FALSE
  /\ UNCHANGED <<caller, session, record, policy, assemblyVars, queue, frame, segment,
                 status, net, offered>>

SendPacket ==
  /\ worker = "sending" /\ segment <= SegmentCount(frame)
  /\ net' = net \cup {[packet |-> Packet(frame, segment), age |-> 0]}
  /\ segment' = segment + 1
  /\ UNCHANGED <<caller, session, record, policy, accepting, assemblyVars, queue, worker,
                 frame, status, offered>>

\* sendto fails: the rest of the frame is not sent.
SendFails ==
  /\ worker = "sending" /\ segment <= SegmentCount(frame)
  /\ status' = [status EXCEPT !.errors = @ + 1]
  /\ worker' = "waiting" /\ frame' = NoFrame /\ segment' = 1
  /\ UNCHANGED <<caller, session, record, policy, accepting, assemblyVars, queue, net,
                 offered>>

FrameSent ==
  /\ worker = "sending" /\ segment > SegmentCount(frame)
  /\ status' = [status EXCEPT !.sent = @ + 1]
  /\ worker' = "waiting" /\ frame' = NoFrame /\ segment' = 1
  /\ UNCHANGED <<caller, session, record, policy, accepting, assemblyVars, queue, net,
                 offered>>

WorkerStep == TakeFrame \/ WorkerLeaves \/ SendPacket \/ SendFails \/ FrameSent

Enqueue == EnqueueIgnored \/ EnqueueUnfinished \/ EnqueueCompletes
SenderNext == Start \/ RequestStop \/ Join \/ Enqueue \/ WorkerStep

-----------------------------------------------------------------------------
SenderTypeOK ==
  /\ caller \in {"off", "on", "stopping"} /\ worker \in {"off", "waiting", "sending"}
  /\ session \in 0..MaxSessions /\ record \in 0..MaxRecords
  /\ policy \in Policies /\ accepting \in BOOLEAN
  /\ assembly \in [1..Points -> Stamps \cup {Empty}]
  /\ Len(queue) <= QueueCapacity
  /\ status \in [DOMAIN Zero -> 0..MaxRecords]
  /\ \A d \in net : d.packet.timestamp \in Stamps

Held == IF worker = "sending" THEN 1 ELSE 0

\* Every raster the service completed or gave up is counted once: sent, failed,
\* dropped, or still queued or being sent; and a worker that left has left nothing
\* in the queue, whatever the policy and whenever the stop came.
CountersAddUp ==
  /\ status.completed + status.unfinished
       = status.sent + status.errors + status.dropped + Len(queue) + Held
  /\ caller = "off" => queue = <<>>

\* A stop of the sender returns: the worker drains the queue and leaves.
StopEnds == caller = "stopping" ~> caller = "off"
=============================================================================
