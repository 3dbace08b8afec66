-------------------------------- MODULE UdpLink --------------------------------
(***************************************************************************)
(* Sender and receiver over a network (external) that loses, duplicates    *)
(* and reorders datagrams, and delays none longer than MaxDelay.           *)
(***************************************************************************)
EXTENDS UdpSender, RosReceiver

CONSTANT MaxDelay

\* No datagram is late by as much as the receiver takes for a new numbering.
ASSUME NetworkAssumption == MaxDelay \in Nat /\ MaxDelay < ResetTimeout

vars == <<senderVars, receiverVars>>

Init == SenderInit /\ ReceiverInit

\* A datagram arrives, and may arrive again until it is too old.
Deliver ==
  /\ \E d \in net : Collect(d.packet) \/ Complete(d.packet)
  /\ UNCHANGED senderVars

\* Time passes; what did not arrive in time is lost.
Tick ==
  /\ Age
  /\ net' = {[d EXCEPT !.age = @ + 1] : d \in {e \in net : e.age < MaxDelay}}
  /\ UNCHANGED <<caller, session, record, policy, accepting, assemblyVars, queue, worker,
                 frame, segment, status, offered>>

Next ==
  \/ SenderNext /\ UNCHANGED receiverVars
  \/ Deliver
  \/ Idle /\ UNCHANGED senderVars
  \/ Tick

Spec == Init /\ [][Next]_vars

\* The worker's thread is scheduled and sendto does not block for ever; the owner
\* waits in join. Nobody owes a start, a stop, a record or a datagram.
FairSpec ==
  /\ Spec
  /\ WF_vars(WorkerStep /\ UNCHANGED receiverVars)
  /\ WF_vars(Join /\ UNCHANGED receiverVars)

TypeOK == SenderTypeOK /\ ReceiverTypeOK

-----------------------------------------------------------------------------
(* Refinement. *)

\* The raster r of session s, without the points that are not valid.
WholeRaster(s, r) ==
  [session |-> s, raster_frame_id |-> r, timestamp |-> <<s, r * Points>>,
   points |-> ValidOf([o \in 1..Points |-> <<s, (r - 1) * Points + o>>])]

WholeRasters == {WholeRaster(s, r) : s \in Sessions, r \in 1..(MaxRecords \div Points)}

OfferedWithSession ==
  {[session |-> f.timestamp[1], raster_frame_id |-> f.raster_frame_id,
    timestamp |-> f.timestamp, points |-> f.points] : f \in offered}

Stream == INSTANCE RasterStream WITH
  Sessions <- Sessions, Frames <- WholeRasters,
  offered <- OfferedWithSession, newest <- newest, cloud <- cloud

\* A published cloud is one raster, whole, as the sender completed it, and within a
\* session clouds only get newer: never two rasters or two sessions mixed, never the
\* same raster twice, whatever the network did within MaxDelay.
RefinesRasterStream == Stream!RSSpec
=============================================================================
