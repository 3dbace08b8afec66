----------------------------- MODULE UdpLinkProofs -----------------------------
(***************************************************************************)
(* The UDP link, for every raster, segment size, queue capacity, timeout   *)
(* and set of policies, any number of sessions and any network. First the  *)
(* bookkeeping of the sender. Then that the link implements RasterStream,  *)
(* for a network that is late by less than the receiver's reset timeout.   *)
(* The invariant follows one segment from the record it was computed from  *)
(* to the cloud: the assembly holds the records of its raster in place, a  *)
(* datagram and a partial frame hold segments of a raster that was         *)
(* completed, what went out is older than what is still to be sent, and a  *)
(* datagram of an old raster is never the one to find the receiver ready   *)
(* for a new numbering.                                                    *)
(***************************************************************************)
EXTENDS UdpLink, IntervalInduction, TLAPS, FiniteSetTheorems, SequenceTheorems

Counters == [completed : Nat, sent : Nat, dropped : Nat, errors : Nat, unfinished : Nat]

\* What is read of the sender: rasters wait in the queue, counters are numbers.
SenderTypes ==
  /\ queue \in Seq(offered) /\ record \in Nat /\ active_raster \in Nat
  /\ status \in Counters

\* A worker runs from start to join, and leaves a closed service and an empty queue.
WorkerLife ==
  /\ caller = "off" => worker = "off"
  /\ worker = "off" => queue = <<>> /\ ~accepting

\* The raster under assembly is one of those the records seen so far may still give.
Begun == IF active_raster = 0 THEN 0 ELSE 1
RecordsSuffice == status.completed + status.unfinished + Begun <= record

SenderInv ==
  SenderTypes /\ WorkerLife /\ RecordsSuffice /\ Len(queue) <= QueueCapacity /\ CountersAddUp
-----------------------------------------------------------------------------
\* A sequence over a set is one over every larger set.
LEMMA SeqOver ==
  ASSUME NEW S, NEW T, S \subseteq T, NEW q \in Seq(S)
  PROVE  q \in Seq(T)
OBVIOUS

\* What a queue does with the raster that was completed.
LEMMA OutcomeOf ==
  ASSUME NEW f, queue \in Seq(offered), Len(queue) <= QueueCapacity
  PROVE  /\ Outcome(f).queue \in Seq(offered \cup {f}) /\ Outcome(f).dropped \in Nat
         /\ Len(Outcome(f).queue) <= QueueCapacity
         /\ Len(Outcome(f).queue) + Outcome(f).dropped = Len(queue) + 1
<1> USE SenderAssumption
<1>1. queue \in Seq(offered \cup {f}) /\ Len(queue) \in Nat
  BY SeqOver
<1>2. CASE ~QueueFull
  <2>1. Outcome(f) = [queue |-> Append(queue, f), dropped |-> 0]
    BY <1>2 DEF Outcome
  <2> QED
    BY <1>1, <1>2, <2>1 DEF QueueFull
<1>3. CASE QueueFull /\ policy = "LatestFrame"
  <2>1. Outcome(f) = [queue |-> <<f>>, dropped |-> Len(queue)]
    BY <1>3 DEF Outcome
  <2> QED
    BY <1>1, <2>1
<1>4. CASE QueueFull /\ policy # "LatestFrame"
  <2>1. Outcome(f) = [queue |-> queue, dropped |-> 1]
    BY <1>4 DEF Outcome
  <2> QED
    BY <1>1, <2>1
<1> QED
  BY <1>2, <1>3, <1>4

\* A record gives up one raster at most, and only one that was begun.
LEMMA GivenUpOf ==
  ASSUME NEW n \in Nat \ {0}, active_raster \in Nat
  PROVE  GivenUp(n) \in 0..Begun /\ RasterOf(n) \in Nat \ {0}
<1>1. RasterOf(n) \in Nat \ {0}
  BY WireAssumption DEF RasterOf
<1> QED
  BY <1>1 DEF GivenUp, Begun

\* The service starts with nothing to count.
LEMMA InitInv == Init => SenderInv
<1> SUFFICES ASSUME Init PROVE SenderInv
  OBVIOUS
<1>1. /\ caller = "off" /\ worker = "off" /\ accepting = FALSE /\ record = 0
      /\ active_raster = 0 /\ queue = <<>> /\ status = Zero /\ offered = {}
  BY DEF Init, SenderInit
<1>2. Zero \in Counters /\ queue \in Seq(offered)
  BY <1>1 DEF Counters, Zero
<1>3. SenderTypes /\ WorkerLife
  BY <1>1, <1>2 DEF SenderTypes, WorkerLife
<1>4. RecordsSuffice /\ CountersAddUp /\ Len(queue) <= QueueCapacity
  BY <1>1, SenderAssumption DEF RecordsSuffice, Begun, CountersAddUp, Held, Zero
<1> QED
  BY <1>3, <1>4 DEF SenderInv

\* Every step of sender, network and receiver keeps the invariant.
LEMMA SenderStep == SenderInv /\ [Next]_vars => SenderInv'
<1> SUFFICES ASSUME SenderInv, [Next]_vars PROVE SenderInv'
  OBVIOUS
<1> USE DEF SenderInv
<1> DEFINE c == status.completed
           s == status.sent
           d == status.dropped
           e == status.errors
           u == status.unfinished
           q == Len(queue)
<1>0. /\ c \in Nat /\ s \in Nat /\ d \in Nat /\ e \in Nat /\ u \in Nat /\ q \in Nat
      /\ record \in Nat
      /\ c + u = s + e + d + q + Held /\ c + u + Begun <= record
      /\ Held \in Nat /\ Begun \in Nat
  BY DEF SenderTypes, Counters, CountersAddUp, RecordsSuffice, Held, Begun
<1> HIDE DEF c
<1> HIDE DEF s
<1> HIDE DEF d
<1> HIDE DEF e
<1> HIDE DEF u
<1> HIDE DEF q
<1>1. CASE Start
  BY <1>1, SenderAssumption DEF Start, SenderTypes, WorkerLife, Begun, RecordsSuffice,
     CountersAddUp, Held, Zero, Counters
<1>2. CASE RequestStop
  BY <1>2 DEF RequestStop, assemblyVars, SenderTypes, WorkerLife, Begun, RecordsSuffice,
     CountersAddUp, Held
<1>3. CASE Join
  BY <1>3 DEF Join, assemblyVars, SenderTypes, WorkerLife, Begun, RecordsSuffice,
     CountersAddUp, Held
<1>4. CASE EnqueueIgnored
  BY <1>4 DEF EnqueueIgnored, assemblyVars, SenderTypes, WorkerLife, Begun, RecordsSuffice,
     CountersAddUp, Held, Counters
<1>5. CASE EnqueueUnfinished
  <2> DEFINE n == record + 1
  <2>1. GivenUp(n) \in 0..Begun /\ RasterOf(n) \in Nat \ {0}
    BY GivenUpOf DEF SenderTypes
  <2> DEFINE lost == GivenUp(n)
  <2>2. /\ record' = record + 1 /\ active_raster' = RasterOf(n) /\ accepting
        /\ UNCHANGED <<caller, accepting, queue, worker, offered>>
    BY <1>5 DEF EnqueueUnfinished
  <2>0. status' = [status EXCEPT !.dropped = @ + lost, !.unfinished = @ + lost]
    BY <1>5 DEF EnqueueUnfinished
  <2>3. lost \in 0..Begun /\ Begun \in 0..1 /\ Begun' = 1 /\ active_raster' \in Nat
    BY <2>1, <2>2 DEF Begun
  <2> HIDE DEF n
  <2> HIDE DEF lost
  <2>4. status' = [completed |-> status.completed, sent |-> status.sent,
                   dropped |-> status.dropped + lost, errors |-> status.errors,
                   unfinished |-> status.unfinished + lost]
    BY <2>0 DEF Counters, SenderTypes
  <2>5. lost \in Nat /\ lost <= Begun /\ d + lost \in Nat /\ u + lost \in Nat
    BY <1>0, <2>3
  <2>6. /\ c + (u + lost) = s + e + (d + lost) + q + Held
        /\ c + (u + lost) + 1 <= record + 1
    BY <1>0, <2>5
  <2>7. SenderTypes' /\ WorkerLife'
    <3>1. status' \in Counters
      BY <1>0, <2>4, <2>5 DEF Counters, c, s, d, e, u
    <3>2. SenderTypes'
      BY <1>0, <2>2, <2>3, <3>1 DEF SenderTypes
    <3>3. WorkerLife'
      BY <2>2 DEF WorkerLife
    <3> QED
      BY <3>2, <3>3
  <2>8. RecordsSuffice'
    BY <2>2, <2>3, <2>4, <2>6 DEF RecordsSuffice, c, u
  <2>9. CountersAddUp'
    BY <2>2, <2>4, <2>6 DEF CountersAddUp, Held, WorkerLife, c, s, d, e, u, q
  <2> QED
    BY <2>2, <2>7, <2>8, <2>9
<1>6. CASE EnqueueCompletes
  <2> DEFINE n == record + 1
             f == Completed(n)
             o == Outcome(f)
             lost == GivenUp(n)
  <2>1. lost \in 0..Begun /\ Begun \in 0..1
    BY GivenUpOf DEF SenderTypes, Begun
  <2>2. /\ o.queue \in Seq(offered \cup {f}) /\ o.dropped \in Nat
        /\ Len(o.queue) <= QueueCapacity /\ Len(o.queue) + o.dropped = Len(queue) + 1
    BY OutcomeOf DEF SenderTypes
  <2>3. /\ record' = record + 1 /\ active_raster' = 0 /\ queue' = o.queue /\ accepting
        /\ offered' = offered \cup {f} /\ caller = "on" /\ UNCHANGED <<caller, worker>>
    BY <1>6 DEF EnqueueCompletes
  <2>0. status' = [status EXCEPT !.completed = @ + 1, !.unfinished = @ + lost,
                                 !.dropped = @ + lost + o.dropped]
    BY <1>6 DEF EnqueueCompletes
  <2> HIDE DEF n
  <2> HIDE DEF f
  <2> HIDE DEF o
  <2> HIDE DEF lost
  <2>4. status' = [completed |-> status.completed + 1, sent |-> status.sent,
                   dropped |-> status.dropped + lost + o.dropped, errors |-> status.errors,
                   unfinished |-> status.unfinished + lost]
    BY <2>0 DEF Counters, SenderTypes
  <2> DEFINE dropped == o.dropped
             length == Len(o.queue)
  <2>5. /\ lost \in Nat /\ lost <= Begun
        /\ dropped \in Nat /\ length \in Nat /\ length + dropped = q + 1
    BY <2>1, <2>2 DEF q
  <2> HIDE DEF dropped
  <2> HIDE DEF length
  <2>6. /\ c + 1 \in Nat /\ d + lost + dropped \in Nat /\ u + lost \in Nat
        /\ (c + 1) + (u + lost) = s + e + (d + lost + dropped) + length + Held
        /\ (c + 1) + (u + lost) + 0 <= record + 1
    BY <1>0, <2>5
  <2>7. SenderTypes' /\ WorkerLife' /\ Begun' = 0
    <3>1. status' \in Counters
      BY <1>0, <2>4, <2>6 DEF Counters, c, s, d, e, u, dropped
    <3>2. SenderTypes' /\ Begun' = 0
      BY <1>0, <2>2, <2>3, <3>1 DEF SenderTypes, Begun
    <3>3. WorkerLife'
      BY <2>3 DEF WorkerLife
    <3> QED
      BY <3>2, <3>3
  <2>8. RecordsSuffice'
    BY <2>3, <2>4, <2>6, <2>7 DEF RecordsSuffice, c, u
  <2>9. CountersAddUp'
    BY <2>3, <2>4, <2>6 DEF CountersAddUp, Held, c, s, d, e, u, dropped, length
  <2> QED
    BY <2>2, <2>3, <2>7, <2>8, <2>9
<1>7. CASE TakeFrame
  <2>1. /\ queue # <<>> /\ queue' = Tail(queue) /\ worker = "waiting" /\ worker' = "sending"
        /\ UNCHANGED <<caller, record, accepting, active_raster, status, offered>>
    BY <1>7 DEF TakeFrame, assemblyVars
  <2>2. queue' \in Seq(offered) /\ Len(queue') = Len(queue) - 1 /\ Len(queue) \in Nat
    BY <2>1 DEF SenderTypes
  <2>3. SenderTypes' /\ WorkerLife' /\ RecordsSuffice' /\ Len(queue') <= QueueCapacity
    BY <2>1, <2>2, SenderAssumption DEF SenderTypes, WorkerLife, RecordsSuffice, Begun
  <2>4. CountersAddUp'
    BY <2>1, <2>2 DEF CountersAddUp, Held, SenderTypes, Counters, WorkerLife
  <2> QED
    BY <2>3, <2>4
<1>8. CASE WorkerLeaves \/ SendPacket
  BY <1>8 DEF WorkerLeaves, SendPacket, assemblyVars, SenderTypes, WorkerLife, Begun,
     RecordsSuffice, CountersAddUp, Held
<1>9. CASE SendFails \/ FrameSent
  <2>1. /\ worker = "sending" /\ worker' = "waiting" /\ status \in Counters
        /\ UNCHANGED <<caller, record, accepting, active_raster, queue, offered>>
    BY <1>9 DEF SendFails, FrameSent, assemblyVars, SenderTypes
  <2>2. \/ status' = [status EXCEPT !.errors = @ + 1]
        \/ status' = [status EXCEPT !.sent = @ + 1]
    BY <1>9 DEF SendFails, FrameSent
  <2>3. /\ status' \in Counters
        /\ status'.completed = status.completed /\ status'.unfinished = status.unfinished
        /\ status'.dropped = status.dropped
        /\ \/ status'.errors = status.errors + 1 /\ status'.sent = status.sent
           \/ status'.errors = status.errors /\ status'.sent = status.sent + 1
    BY <2>1, <2>2 DEF Counters
  <2>4. SenderTypes' /\ WorkerLife'
    BY <2>1, <2>3 DEF SenderTypes, WorkerLife
  <2>5. RecordsSuffice'
    BY <2>1, <2>3 DEF RecordsSuffice, Begun
  <2>6. Held = 1 /\ Held' = 0
    BY <2>1 DEF Held
  <2>7. c + u = (s + 1) + e + d + q + 0 /\ c + u = s + (e + 1) + d + q + 0
    BY <1>0, <2>6
  <2>8. CountersAddUp'
    BY <2>1, <2>3, <2>6, <2>7 DEF CountersAddUp, c, s, d, e, u, q
  <2> QED
    BY <2>1, <2>4, <2>5, <2>8
<1>10. CASE Deliver \/ (Idle /\ UNCHANGED senderVars) \/ Tick \/ UNCHANGED vars
  <2>1. UNCHANGED <<caller, record, accepting, active_raster, queue, worker, status, offered>>
    BY <1>10 DEF Deliver, Tick, vars, senderVars, assemblyVars
  <2> QED
    BY <2>1 DEF SenderTypes, WorkerLife, Begun, RecordsSuffice, CountersAddUp, Held
<1> QED
  BY <1>1, <1>2, <1>3, <1>4, <1>5, <1>6, <1>7, <1>8, <1>9, <1>10
     DEF Next, SenderNext, Enqueue, WorkerStep
-----------------------------------------------------------------------------
\* The inductive invariant: types, the worker's life and what the records allow.
THEOREM SenderInvariant == Spec => []SenderInv
<1> QED
  BY InitInv, SenderStep, PTL DEF Spec

\* Under every policy each raster the service completed or gave up is counted once,
\* and a joined worker left nothing in the queue (queueCompletedFrame, workerLoop).
THEOREM EveryRasterCounted == Spec => []CountersAddUp
<1>1. SenderInv => CountersAddUp
  BY DEF SenderInv
<1> QED
  BY <1>1, SenderInvariant, PTL
-----------------------------------------------------------------------------
(* The link implements RasterStream.                                       *)

\* The frame the service makes of a raster of a session.
Raster(s, r) ==
  [raster_frame_id |-> r, timestamp |-> <<s, r * Points>>,
   points |-> ValidOf([o \in 1..Points |-> <<s, (r - 1) * Points + o>>])]

SessionOf(f) == f.timestamp[1]

Bounds ==
  /\ session \in 0..MaxSessions /\ record \in 0..MaxRecords
  /\ caller # "off" => session # 0

\* The assembly holds records of the raster under assembly, each at its offset.
InPlace ==
  /\ assembly \in [1..Points -> Stamps \cup {Empty}]
  /\ active_raster = 0 => assembly = Blanked
  /\ \A o \in 1..Points : assembly[o] # Empty =>
       /\ assembly[o] = <<session, (active_raster - 1) * Points + o>>
       /\ (active_raster - 1) * Points + o <= record

\* What was completed is a whole raster, of records seen.
Whole ==
  \A f \in offered : \E s \in 1..session, r \in 1..(MaxRecords \div Points) :
    f = Raster(s, r) /\ (s = session => r * Points <= record)

\* Rasters are sent in order, and one that is not sent yet is not published either.
InOrder ==
  /\ \A j \in 1..Len(queue) :
       /\ SessionOf(queue[j]) = session
       /\ newest[session] < queue[j].raster_frame_id
       /\ \A i \in 1..j - 1 : queue[i].raster_frame_id < queue[j].raster_frame_id
  /\ worker = "sending" =>
       /\ frame \in offered /\ SessionOf(frame) = session
       /\ segment \in 1..SegmentCount(frame) + 1
       /\ newest[session] <= frame.raster_frame_id
       /\ segment <= SegmentCount(frame) => newest[session] < frame.raster_frame_id
       /\ \A j \in 1..Len(queue) : frame.raster_frame_id < queue[j].raster_frame_id

\* Segment i of a raster went out before what the sender still has to send.
Gone(f, i) ==
  SessionOf(f) = session =>
    /\ \A j \in 1..Len(queue) : f.raster_frame_id < queue[j].raster_frame_id
    /\ worker = "sending" =>
         /\ f.raster_frame_id <= frame.raster_frame_id
         /\ f.raster_frame_id = frame.raster_frame_id => i < segment

\* A datagram is a segment of a raster that was offered.
Underway ==
  \A d \in net :
    /\ d = [packet |-> d.packet, age |-> d.age] /\ d.age \in 0..MaxDelay
    /\ \E f \in offered : \E i \in 1..SegmentCount(f) : d.packet = Packet(f, i) /\ Gone(f, i)

\* A partial frame has some segments, not all, of a raster that was offered.
PartOf(g, f) ==
  /\ g = [raster_frame_id |-> f.raster_frame_id, timestamp |-> f.timestamp,
          segment_count |-> SegmentCount(f), segments |-> g.segments, age |-> g.age]
  /\ g.age \in 0..AssemblyTimeout
  /\ DOMAIN g.segments \subseteq 1..SegmentCount(f)
  /\ g.segments = [i \in DOMAIN g.segments |-> Packet(f, i).points]
  /\ \A i \in DOMAIN g.segments : Gone(f, i)

Partial ==
  \A g \in frames_ :
    /\ \E f \in offered : PartOf(g, f)
    /\ DOMAIN g.segments # {} /\ ~IsComplete(g)

\* The newest raster published of a session is one it offered.
Shown ==
  /\ newest \in [Sessions -> Nat]
  /\ \A s \in Sessions : newest[s] # 0 => Raster(s, newest[s]) \in offered

\* A datagram of a raster that is not newer is younger than the last publication only
\* if its number gives it away.
Timely ==
  /\ last_frame_id \in Nat /\ since_last \in 0..ResetTimeout
  /\ \A d \in net :
       d.packet.raster_frame_id <= newest[d.packet.timestamp[1]] =>
         d.packet.raster_frame_id <= last_frame_id /\ since_last <= d.age

StreamInv == Bounds /\ InPlace /\ Whole /\ InOrder /\ Underway /\ Partial /\ Shown /\ Timely

-----------------------------------------------------------------------------
(* Numbers of records and rasters.                                         *)

\* Division with a remainder by the number of points.
LEMMA Division ==
  ASSUME NEW P \in Nat \ {0}, NEW n \in Nat
  PROVE  \E q \in Nat : \E r \in 0..P - 1 :
           /\ n = q * P + r /\ n \div P = q /\ n % P = r
<1>1. PICK q \in Nat : q = n \div P
  OBVIOUS
<1>2. PICK r \in 0..P - 1 : r = n % P
  OBVIOUS
<1>3. n = q * P + r
  BY <1>1, <1>2
<1> QED
  BY <1>1, <1>2, <1>3

\* Products keep the order.
LEMMA ProductsGrow ==
  ASSUME NEW P \in Nat \ {0}, NEW a \in Nat, NEW b \in Nat
  PROVE  /\ a * P \in Nat
         /\ a <= b => a * P <= b * P
         /\ a < b => a * P + P <= b * P
<1>1. a * P \in Nat
  OBVIOUS
<1>2. ASSUME a <= b PROVE a * P <= b * P
  <2>1. b - a \in Nat /\ (b - a) * P >= 0
    BY <1>2
  <2> QED
    BY <2>1
<1>3. ASSUME a < b PROVE a * P + P <= b * P
  <2>1. b - a - 1 \in Nat /\ (b - a - 1) * P >= 0
    BY <1>3
  <2> QED
    BY <2>1
<1> QED
  BY <1>1, <1>2, <1>3

\* The record n belongs to its raster, at its offset.
LEMMA Position ==
  ASSUME NEW n \in Nat \ {0}
  PROVE  /\ RasterOf(n) \in Nat \ {0} /\ OffsetOf(n) \in 1..Points
         /\ n = (RasterOf(n) - 1) * Points + OffsetOf(n)
<1>1. Points \in Nat \ {0} /\ n - 1 \in Nat
  BY WireAssumption
<1>2. PICK q \in Nat : \E r \in 0..Points - 1 :
        n - 1 = q * Points + r /\ (n - 1) \div Points = q /\ (n - 1) % Points = r
  BY <1>1, Division
<1>3. PICK r \in 0..Points - 1 :
        n - 1 = q * Points + r /\ (n - 1) \div Points = q /\ (n - 1) % Points = r
  BY <1>2
<1>4. RasterOf(n) = q + 1 /\ OffsetOf(n) = r + 1
  BY <1>3 DEF RasterOf, OffsetOf
<1>5. (RasterOf(n) - 1) * Points = q * Points /\ q * Points \in Nat
  BY <1>1, <1>4
<1> QED
  BY <1>1, <1>3, <1>4, <1>5

\* The rasters that fit into the records of a session.
LEMMA RastersFit ==
  ASSUME NEW r \in Nat
  PROVE  /\ r * Points \in Nat
         /\ r * Points <= MaxRecords <=> r <= MaxRecords \div Points
         /\ r * Points <= MaxRecords => r <= RasterOf(MaxRecords)
         /\ MaxRecords \div Points \in Nat
<1>1. Points \in Nat \ {0} /\ MaxRecords \in Nat \ {0}
  BY WireAssumption
<1>2. PICK q \in Nat : \E s \in 0..Points - 1 :
        MaxRecords = q * Points + s /\ MaxRecords \div Points = q
  BY <1>1, Division
<1>3. PICK s \in 0..Points - 1 : MaxRecords = q * Points + s /\ MaxRecords \div Points = q
  BY <1>2
<1>4. r * Points \in Nat /\ q * Points \in Nat
  BY <1>1, ProductsGrow
<1>5. r <= q => r * Points <= q * Points
  BY <1>1, ProductsGrow
<1>6. q < r => q * Points + Points <= r * Points
  BY <1>1, ProductsGrow
<1>7. r * Points <= MaxRecords <=> r <= q
  BY <1>1, <1>3, <1>4, <1>5, <1>6
<1>8. ASSUME r * Points <= MaxRecords PROVE r <= RasterOf(MaxRecords)
  <2> DEFINE k == RasterOf(MaxRecords)
  <2>1. /\ k \in Nat \ {0} /\ OffsetOf(MaxRecords) \in 1..Points
        /\ MaxRecords = (k - 1) * Points + OffsetOf(MaxRecords)
    BY <1>1, Position
  <2>2. k - 1 \in Nat /\ (k - 1) * Points + Points = k * Points /\ k * Points \in Nat
    BY <1>1, <2>1
  <2>3. MaxRecords <= k * Points
    BY <1>1, <2>1, <2>2
  <2>4. k < r => k * Points + Points <= r * Points
    BY <1>1, <2>1, ProductsGrow
  <2> QED
    BY <1>1, <1>4, <1>8, <2>1, <2>2, <2>3, <2>4
<1> QED
  BY <1>3, <1>4, <1>7, <1>8

\* Segments suffice for the points of a frame.
LEMMA SegmentsSuffice ==
  ASSUME NEW f, Len(f.points) \in Nat
  PROVE  /\ SegmentCount(f) \in Nat \ {0}
         /\ SegmentCount(f) * PacketPointCount \in Nat
         /\ SegmentCount(f) * PacketPointCount >= Len(f.points)
<1> DEFINE l == Len(f.points)
           P == PacketPointCount
<1>1. P \in Nat \ {0} /\ l + P - 1 \in Nat
  BY WireAssumption
<1>2. PICK q \in Nat : \E r \in 0..P - 1 : l + P - 1 = q * P + r /\ (l + P - 1) \div P = q
  BY <1>1, Division
<1>3. PICK r \in 0..P - 1 : l + P - 1 = q * P + r /\ (l + P - 1) \div P = q
  BY <1>2
<1>4. SegmentCount(f) = IF 1 >= q THEN 1 ELSE q
  BY <1>3 DEF SegmentCount, Most
<1> HIDE DEF l, P
<1>5. q * P \in Nat /\ 1 * P = P /\ q * P >= l
  BY <1>1, <1>3, ProductsGrow DEF l
<1>6. q <= 1 => q * P <= 1 * P
  BY <1>1, ProductsGrow
<1>7. SegmentCount(f) * P \in Nat /\ SegmentCount(f) * P >= l
  <2>1. CASE q <= 1
    <3>1. SegmentCount(f) = 1
      BY <1>4, <2>1
    <3>2. SegmentCount(f) * P = P
      BY <1>5, <3>1
    <3>3. P >= l
      BY <1>1, <1>5, <1>6, <2>1 DEF l
    <3> QED
      BY <1>1, <3>2, <3>3
  <2>2. CASE q > 1
    <3>1. SegmentCount(f) = q
      BY <1>4, <2>2
    <3> QED
      BY <1>5, <3>1
  <2> QED
    BY <2>1, <2>2
<1> QED
  BY <1>4, <1>7 DEF l, P

-----------------------------------------------------------------------------
(* Points of a raster, and their way through the segments.                 *)

\* The valid points of a raster are points of it.
LEMMA ValidPoints ==
  ASSUME NEW V, NEW a \in [1..Points -> V]
  PROVE  ValidOf(a) \in Seq(V)
<1> DEFINE Keep(o, s) == IF IsValid(a[o]) THEN Append(s, a[o]) ELSE s
           Good(u) == u = [o \in 0..Points |-> IF o = 0 THEN <<>>
                             ELSE IF IsValid(a[o]) THEN Append(u[o - 1], a[o]) ELSE u[o - 1]]
           step == [o \in 1..Points |-> [s \in Seq(V) |-> Keep(o, s)]]
<1>0. Points \in Nat
  BY WireAssumption
<1>1. \A o \in 1..Points, s \in Seq(V) : Keep(o, s) \in Seq(V)
  OBVIOUS
<1>2. \E u : Good(u)
  <2>1. step \in [1..Points -> [Seq(V) -> Seq(V)]]
    BY <1>1
  <2>2. PICK u \in [0..Points -> Seq(V)] :
          u[0] = <<>> /\ \A i \in 1..Points : u[i] = step[i][u[i - 1]]
    <3> DEFINE first == <<>>
               T == Seq(V)
    <3>1. first \in T /\ step \in [1..Points -> [T -> T]]
      BY <2>1
    <3> HIDE DEF step, first, T
    <3>2. \E u \in [0..Points -> T] :
            Recurs(u, Points, first, step)
      BY <1>0, <3>1, RecursionTo
    <3> QED
      BY <3>2 DEF first, T, Recurs
  <2>3. ASSUME NEW i \in 1..Points PROVE step[i][u[i - 1]] = Keep(i, u[i - 1])
    <3>1. i - 1 \in 0..Points
      BY <1>0
    <3> QED
      BY <2>2, <3>1
  <2>4. \A i \in 0..Points : i = 0 \/ i \in 1..Points
    BY <1>0
  <2>5. \A i \in 0..Points : u[i] = IF i = 0 THEN <<>> ELSE Keep(i, u[i - 1])
    <3> HIDE DEF step, Keep
    <3> QED
      BY <2>2, <2>3, <2>4
  <2>6. u = [i \in 0..Points |-> u[i]]
    BY <2>2
  <2>7. Good(u)
    BY <2>5, <2>6
  <2> QED
    BY <2>7
<1> DEFINE u == CHOOSE u : Good(u)
<1>3. Good(u)
  BY <1>2
<1>4. ValidOf(a) = u[Points]
  BY DEF ValidOf
<1> HIDE DEF u
<1> DEFINE P == {o \in 0..Points : u[o] \in Seq(V)}
<1>5. 0 \in P
  BY <1>0, <1>3
<1>6. ASSUME NEW o \in 0..Points - 1, o \in P PROVE o + 1 \in P
  <2>1. o + 1 \in 1..Points /\ o + 1 \in 0..Points /\ o + 1 # 0 /\ (o + 1) - 1 = o
    BY <1>0
  <2>2. u[o + 1] = Keep(o + 1, u[o])
    BY <1>3, <2>1
  <2>3. u[o] \in Seq(V)
    BY <1>6
  <2>4. u[o + 1] \in Seq(V)
    BY <1>1, <2>1, <2>2, <2>3
  <2> QED
    BY <2>1, <2>4
<1>7. 0..Points \subseteq P
  <2> HIDE DEF P
  <2> QED
    BY <1>0, <1>5, <1>6, InductionTo
<1> QED
  BY <1>0, <1>4, <1>7

\* What the first i segments hold.
UpTo(f, i) == SubSeq(f.points, 1, Least(i * PacketPointCount, Len(f.points)))

\* The next segment is what it holds more.
LEMMA OneMoreSegment ==
  ASSUME NEW V, NEW f, f.points \in Seq(V), NEW i \in Nat
  PROVE  UpTo(f, i) \o Packet(f, i + 1).points = UpTo(f, i + 1)
<1> DEFINE l == Len(f.points)
           P == PacketPointCount
           m == i * P
           k == Least(m, l)
           n == Least((i + 1) * P, l)
<1>1. P \in Nat \ {0} /\ l \in Nat
  BY WireAssumption
<1>2. m \in Nat /\ (i + 1) * P = m + P
  BY <1>1, ProductsGrow
<1>3. Packet(f, i + 1).points = SubSeq(f.points, m + 1, n)
  <2>1. (i + 1) - 1 = i
    OBVIOUS
  <2>2. Packet(f, i + 1).points = SubSeq(f.points, ((i + 1) - 1) * P + 1, n)
    BY DEF Packet
  <2> QED
    BY <2>1, <2>2
<1>4. UpTo(f, i) = SubSeq(f.points, 1, k) /\ UpTo(f, i + 1) = SubSeq(f.points, 1, n)
  BY DEF UpTo
<1>5. k \in 0..l /\ n \in k..l /\ (m <= l => k = m) /\ (m > l => k = l /\ n = l)
  BY <1>1, <1>2 DEF Least
<1> HIDE DEF l, P, m, k, n
<1>6. CASE m <= l
  <2>1. 1 \in 1..l + 1 /\ k \in 1 - 1..l /\ n \in k..l
    BY <1>1, <1>5
  <2>2. SubSeq(f.points, 1, k) \o SubSeq(f.points, k + 1, n) = SubSeq(f.points, 1, n)
    BY <2>1, ConcatAdjacentSubSeq DEF l
  <2> QED
    BY <1>3, <1>4, <1>5, <1>6, <2>2
<1>7. CASE m > l
  <2>1. SubSeq(f.points, m + 1, n) = <<>>
    BY <1>1, <1>2, <1>5, <1>7, SubSeqEmpty
  <2>2. SubSeq(f.points, 1, n) \in Seq(V)
    BY <1>1, <1>5, SubSeqProperties, ElementOfSeq DEF l
  <2> QED
    BY <1>3, <1>4, <1>5, <1>7, <2>1, <2>2, ConcatEmptySeq
<1> QED
  BY <1>1, <1>2, <1>6, <1>7

\* Whoever has all segments has all points.
LEMMA JoinedIsWhole ==
  ASSUME NEW V, NEW f, f.points \in Seq(V), NEW g, g.segment_count = SegmentCount(f),
         \A i \in 1..SegmentCount(f) : g.segments[i] = Packet(f, i).points
  PROVE  Joined(g) = f.points
<1> DEFINE c == SegmentCount(f)
           Good(u) == u = [i \in 0..g.segment_count |->
                             IF i = 0 THEN <<>> ELSE u[i - 1] \o g.segments[i]]
<1>1. c \in Nat \ {0} /\ c * PacketPointCount >= Len(f.points) /\ Len(f.points) \in Nat
  BY SegmentsSuffice
<1>2. UpTo(f, 0) = <<>>
  <2>1. Least(0 * PacketPointCount, Len(f.points)) = 0
    BY <1>1, WireAssumption DEF Least
  <2> QED
    BY <2>1, SubSeqEmpty DEF UpTo
<1>3. ASSUME NEW i \in 0..c - 1 PROVE UpTo(f, i) \o g.segments[i + 1] = UpTo(f, i + 1)
  <2>1. i + 1 \in 1..c /\ i \in Nat
    BY <1>1
  <2> QED
    BY <2>1, OneMoreSegment
<1> DEFINE w == [i \in 0..c |-> UpTo(f, i)]
<1>4. Good(w)
  <2>1. ASSUME NEW i \in 0..c
        PROVE  w[i] = IF i = 0 THEN <<>> ELSE w[i - 1] \o g.segments[i]
    <3>1. CASE i = 0
      BY <1>2, <3>1
    <3>2. CASE i # 0
      <4>1. i - 1 \in 0..c - 1 /\ i - 1 \in 0..c /\ (i - 1) + 1 = i
        BY <1>1, <3>2
      <4> QED
        BY <1>3, <3>2, <4>1
    <3> QED
      BY <3>1, <3>2
  <2>2. w = [i \in 0..c |-> w[i]]
    OBVIOUS
  <2> HIDE DEF w
  <2> QED
    BY <2>1, <2>2
<1> DEFINE u == CHOOSE u : Good(u)
<1>5. Good(u)
  <2> HIDE DEF w
  <2> QED
    BY <1>4
<1>6. Joined(g) = u[c]
  BY DEF Joined
<1> HIDE DEF u
<1> DEFINE P == {i \in 0..c : u[i] = UpTo(f, i)}
<1>7. 0 \in P
  BY <1>1, <1>2, <1>5
<1>8. ASSUME NEW i \in 0..c - 1, i \in P PROVE i + 1 \in P
  <2>1. i + 1 \in 0..c /\ i + 1 # 0 /\ (i + 1) - 1 = i
    BY <1>1
  <2>2. u[i + 1] = u[i] \o g.segments[i + 1]
    BY <1>5, <2>1
  <2> QED
    BY <1>3, <1>8, <2>1, <2>2
<1>9. 0..c \subseteq P
  <2> HIDE DEF P
  <2> QED
    BY <1>1, <1>7, <1>8, InductionTo
<1>10. u[c] = UpTo(f, c)
  BY <1>1, <1>9
<1>11. Least(c * PacketPointCount, Len(f.points)) = Len(f.points)
  BY <1>1, SegmentsSuffice DEF Least
<1> QED
  BY <1>6, <1>10, <1>11, SubSeqFull DEF UpTo

-----------------------------------------------------------------------------
(* Rasters that were offered.                                              *)

\* The fields of a raster.
LEMMA RasterFacts ==
  ASSUME NEW s \in Nat, NEW r \in Nat \ {0}
  PROVE  /\ Raster(s, r).raster_frame_id = r
         /\ Raster(s, r).timestamp = <<s, r * Points>> /\ r * Points \in Nat
         /\ SessionOf(Raster(s, r)) = s
         /\ Raster(s, r).points \in Seq(Nat \X Nat)
         /\ SegmentCount(Raster(s, r)) \in Nat \ {0}
<1>1. /\ Raster(s, r).raster_frame_id = r
      /\ Raster(s, r).timestamp = <<s, r * Points>>
      /\ SessionOf(Raster(s, r)) = s
  BY DEF Raster, SessionOf
<1>2. Raster(s, r).points \in Seq(Nat \X Nat)
  <2> DEFINE a == [o \in 1..Points |-> <<s, (r - 1) * Points + o>>]
  <2>1. Points \in Nat \ {0} /\ (r - 1) * Points \in Nat
    BY WireAssumption, ProductsGrow
  <2>2. \A o \in 1..Points : (r - 1) * Points + o \in Nat
    BY <2>1
  <2>3. a \in [1..Points -> Nat \X Nat]
    BY <2>2
  <2>4. Raster(s, r).points = ValidOf(a)
    BY DEF Raster
  <2> HIDE DEF a
  <2> QED
    BY <2>3, <2>4, ValidPoints
<1>3. Len(Raster(s, r).points) \in Nat
  BY <1>2, LenProperties
<1>4. r * Points \in Nat
  BY WireAssumption, ProductsGrow
<1> QED
  BY <1>1, <1>2, <1>3, <1>4, SegmentsSuffice

\* A raster that was offered is one of a session that began, of records it has seen.
LEMMA OfferedFacts ==
  ASSUME Bounds, Whole, NEW f \in offered
  PROVE  /\ SessionOf(f) \in 1..session /\ SessionOf(f) \in Sessions
         /\ f.raster_frame_id \in 1..(MaxRecords \div Points)
         /\ f = Raster(SessionOf(f), f.raster_frame_id)
         /\ f.timestamp = <<SessionOf(f), f.raster_frame_id * Points>>
         /\ f.raster_frame_id * Points \in Nat
         /\ SessionOf(f) = session => f.raster_frame_id * Points <= record
         /\ f.points \in Seq(Nat \X Nat) /\ SegmentCount(f) \in Nat \ {0}
<1>1. PICK s \in 1..session, r \in 1..(MaxRecords \div Points) :
        f = Raster(s, r) /\ (s = session => r * Points <= record)
  BY DEF Whole
<1>2. s \in Nat /\ r \in Nat \ {0} /\ s \in Sessions
  BY WireAssumption, RastersFit DEF Bounds, Sessions
<1> DEFINE g == Raster(s, r)
<1>4. /\ g.raster_frame_id = r /\ g.timestamp = <<s, r * Points>> /\ r * Points \in Nat
      /\ SessionOf(g) = s /\ g.points \in Seq(Nat \X Nat) /\ SegmentCount(g) \in Nat \ {0}
  BY <1>2, RasterFacts
<1>5. f = g /\ (s = session => r * Points <= record)
  BY <1>1
<1>6. g = Raster(s, r)
  OBVIOUS
<1> HIDE DEF g
<1> QED
  BY <1>1, <1>2, <1>4, <1>5, <1>6

\* Two rasters of one time stamp are one, and so are two of one session and number.
LEMMA OneRaster ==
  ASSUME Bounds, Whole, NEW f \in offered, NEW g \in offered
  PROVE  /\ SessionOf(f) = SessionOf(g) /\ f.raster_frame_id = g.raster_frame_id => f = g
         /\ f.timestamp = g.timestamp => f = g
<1>1. ASSUME f.timestamp = g.timestamp PROVE f.raster_frame_id = g.raster_frame_id
  <2> DEFINE a == f.raster_frame_id
             b == g.raster_frame_id
  <2>0. \A k \in 1..(MaxRecords \div Points) : k \in Nat
    BY RastersFit
  <2>1. /\ a \in Nat /\ b \in Nat
        /\ f.timestamp = <<SessionOf(f), a * Points>>
        /\ g.timestamp = <<SessionOf(g), b * Points>>
    BY <2>0, OfferedFacts
  <2>5. a * Points = b * Points
    <3> DEFINE m == a * Points
               n == b * Points
    <3>1. f.timestamp[2] = m /\ g.timestamp[2] = n
      <4> HIDE DEF m, n
      <4> QED
        BY <2>1 DEF m, n
    <3> QED
      BY <1>1, <3>1
  <2>2. Points \in Nat \ {0} /\ a * Points \in Nat /\ b * Points \in Nat
    BY <2>1, WireAssumption, ProductsGrow
  <2>3. (a < b => a * Points + Points <= b * Points)
        /\ (b < a => b * Points + Points <= a * Points)
    BY <2>1, <2>2, ProductsGrow
  <2> HIDE DEF a, b
  <2>4. a = b
    BY <2>1, <2>2, <2>3, <2>5
  <2> QED
    BY <2>4 DEF a, b
<1> QED
  BY <1>1, OfferedFacts DEF SessionOf

\* What a segment says of its raster.
LEMMA PacketFacts ==
  ASSUME NEW f, NEW i
  PROVE  /\ Packet(f, i).raster_frame_id = f.raster_frame_id
         /\ Packet(f, i).timestamp = f.timestamp
         /\ Packet(f, i).segment_count = SegmentCount(f)
         /\ Packet(f, i).segment_index = i
BY DEF Packet

-----------------------------------------------------------------------------
(* The assembly.                                                           *)

\* The assembly with the next record holds records of one raster, each in its place.
LEMMA AssemblyOf ==
  ASSUME SenderInv, Bounds, InPlace, caller = "on", record + 1 <= MaxRecords
  PROVE  LET n == record + 1
             a == AssemblyWith(n)
             base == (RasterOf(n) - 1) * Points
         IN  /\ a \in [1..Points -> Stamps \cup {Empty}]
             /\ \A o \in 1..Points :
                  a[o] # Empty => a[o] = <<session, base + o>> /\ base + o <= n
<1> DEFINE n == record + 1
           base == (RasterOf(n) - 1) * Points
           before == IF OtherRaster(n) THEN Blanked ELSE assembly
           k == OffsetOf(n)
<1>1. /\ n \in 1..MaxRecords /\ session \in Sessions /\ base \in Nat
      /\ RasterOf(n) \in Nat \ {0} /\ k \in 1..Points /\ n = base + k
  <2>1. n \in Nat \ {0} /\ n \in 1..MaxRecords /\ session \in Sessions
    BY WireAssumption DEF Bounds, Sessions
  <2>2. RasterOf(n) \in Nat \ {0} /\ k \in 1..Points /\ n = base + k
    BY <2>1, Position
  <2> HIDE DEF n
  <2> QED
    BY <2>1, <2>2, WireAssumption, ProductsGrow
<1>2. /\ before \in [1..Points -> Stamps \cup {Empty}]
      /\ \A o \in 1..Points :
           before[o] # Empty => before[o] = <<session, base + o>> /\ base + o <= record
  BY DEF InPlace, OtherRaster, Blanked
<1>3. AssemblyWith(n) = [before EXCEPT ![k] = <<session, n>>]
  BY DEF AssemblyWith
<1>4. <<session, n>> \in Stamps
  BY <1>1 DEF Stamps
<1> HIDE DEF before, base, k
<1>5. [before EXCEPT ![k] = <<session, n>>] \in [1..Points -> Stamps \cup {Empty}]
  BY <1>2, <1>4
<1>6. ASSUME NEW o \in 1..Points, NEW b, b = [before EXCEPT ![k] = <<session, n>>],
             b[o] # Empty
      PROVE  b[o] = <<session, base + o>> /\ base + o <= n
  <2>1. CASE o = k
    BY <1>1, <1>2, <1>6, <2>1
  <2>2. CASE o # k
    <3>1. b[o] = before[o]
      BY <1>2, <1>6, <2>2
    <3>2. before[o] = <<session, base + o>> /\ base + o <= record
      BY <1>2, <1>6, <3>1
    <3> QED
      BY <1>1, <3>1, <3>2 DEF Bounds
  <2> QED
    BY <2>1, <2>2
<1> QED
  BY <1>3, <1>5, <1>6 DEF base

\* What a record completes is a whole raster, and the record the last of it.
LEMMA CompletedIsWhole ==
  ASSUME SenderInv, Bounds, InPlace, caller = "on", record + 1 <= MaxRecords,
         IsFull(AssemblyWith(record + 1))
  PROVE  LET n == record + 1 IN
         /\ RasterOf(n) \in 1..(MaxRecords \div Points)
         /\ RasterOf(n) * Points = n
         /\ Completed(n) = Raster(session, RasterOf(n))
<1> DEFINE n == record + 1
           r == RasterOf(n)
           a == AssemblyWith(n)
           base == (r - 1) * Points
<1>1. Points \in Nat \ {0} /\ n \in Nat \ {0} /\ n <= MaxRecords /\ MaxRecords \in Nat
  BY WireAssumption DEF Bounds
<1>2. r \in Nat \ {0} /\ OffsetOf(n) \in 1..Points /\ n = base + OffsetOf(n)
  BY <1>1, Position
<1>3. /\ a \in [1..Points -> Stamps \cup {Empty}]
      /\ \A o \in 1..Points : a[o] = <<session, base + o>> /\ base + o <= n
  BY AssemblyOf DEF IsFull
<1> HIDE DEF a
<1>4. base \in Nat /\ base + Points = r * Points
  BY <1>1, <1>2
<1>5. Points \in 1..Points
  BY <1>1
<1>6. r * Points = n
  <2>1. base + Points <= n
    BY <1>3, <1>5
  <2> HIDE DEF base, r, n
  <2> QED
    BY <1>1, <1>2, <1>4, <2>1
<1>7. r \in 1..(MaxRecords \div Points)
  <2> HIDE DEF n
  <2>1. r <= MaxRecords \div Points /\ MaxRecords \div Points \in Nat
    BY <1>1, <1>2, <1>6, RastersFit
  <2> QED
    BY <1>2, <2>1
<1>8. a = [o \in 1..Points |-> <<session, base + o>>]
  BY <1>3
<1>9. Completed(n) = [raster_frame_id |-> r, timestamp |-> <<session, n>>,
                      points |-> ValidOf(a)]
  BY DEF Completed, a
<1>10. Raster(session, r) = [raster_frame_id |-> r, timestamp |-> <<session, r * Points>>,
                             points |-> ValidOf([o \in 1..Points |-> <<session, base + o>>])]
  BY DEF Raster
<1> QED
  BY <1>6, <1>7, <1>8, <1>9, <1>10

-----------------------------------------------------------------------------
(* Steps of the sender.                                                    *)

LinkInv == SenderInv /\ StreamInv

\* What a completed raster does to the queue, and that it is newer than all before it.
LEMMA Completing ==
  ASSUME LinkInv, EnqueueCompletes, NEW g, g = Completed(record + 1)
  PROVE  /\ offered' = offered \cup {g}
         /\ \E r \in 1..(MaxRecords \div Points) :
              g = Raster(session, r) /\ r * Points = record + 1
         /\ SessionOf(g) = session /\ g.raster_frame_id \in Nat \ {0}
         /\ \A f \in offered : SessionOf(f) = session => f.raster_frame_id < g.raster_frame_id
         /\ \A j \in 1..Len(queue') :
              \/ queue'[j] = g /\ j = Len(queue')
              \/ j \in 1..Len(queue) /\ queue'[j] = queue[j]
<1> DEFINE n == record + 1
           r == RasterOf(n)
<1>1. /\ caller = "on" /\ n <= MaxRecords /\ IsFull(AssemblyWith(n))
      /\ offered' = offered \cup {g} /\ queue' = Outcome(g).queue
  BY DEF EnqueueCompletes
<1>2. r \in 1..(MaxRecords \div Points) /\ r * Points = n /\ g = Raster(session, r)
  BY <1>1, CompletedIsWhole DEF LinkInv, StreamInv
<1>3. r \in Nat \ {0} /\ session \in Nat /\ Points \in Nat \ {0} /\ record \in Nat
  <2>1. \A k \in 1..(MaxRecords \div Points) : k \in Nat \ {0}
    BY RastersFit
  <2> HIDE DEF r
  <2> QED
    BY <1>2, <2>1, WireAssumption DEF LinkInv, StreamInv, Bounds
<1>4. SessionOf(g) = session /\ g.raster_frame_id = r
  BY <1>2, <1>3, RasterFacts
<1>5. ASSUME NEW f \in offered, SessionOf(f) = session
      PROVE  f.raster_frame_id < g.raster_frame_id
  <2> DEFINE k == f.raster_frame_id
  <2>1. \A m \in 1..(MaxRecords \div Points) : m \in Nat
    BY RastersFit
  <2>2. k \in Nat /\ k * Points \in Nat /\ k * Points <= record
    BY <1>5, <2>1, OfferedFacts DEF LinkInv, StreamInv
  <2> HIDE DEF k, r
  <2>3. r <= k => r * Points <= k * Points
    BY <1>3, <2>2, ProductsGrow
  <2> QED
    BY <1>2, <1>3, <1>4, <2>2, <2>3 DEF k
<1>6. ASSUME NEW j \in 1..Len(queue')
      PROVE  \/ queue'[j] = g /\ j = Len(queue')
             \/ j \in 1..Len(queue) /\ queue'[j] = queue[j]
  <2>1. queue \in Seq(offered)
    BY DEF LinkInv, SenderInv, SenderTypes
  <2>2. \/ queue' = Append(queue, g)
        \/ queue' = <<g>>
        \/ queue' = queue
    BY <1>1 DEF Outcome
  <2>3. CASE queue' = Append(queue, g)
    <3>1. \A k \in 1..Len(queue) + 1 :
            \/ k = Len(queue) + 1 /\ Append(queue, g)[k] = g
            \/ k \in 1..Len(queue) /\ Append(queue, g)[k] = queue[k]
      BY <2>1
    <3>2. Len(Append(queue, g)) = Len(queue) + 1
      BY <2>1
    <3> QED
      BY <2>3, <3>1, <3>2
  <2>4. CASE queue' = <<g>>
    BY <2>4
  <2> QED
    BY <2>2, <2>3, <2>4
<1> QED
  BY <1>1, <1>2, <1>3, <1>4, <1>5, <1>6

\* What was offered stays offered.
LEMMA OfferedGrows ==
  ASSUME LinkInv, SenderNext
  PROVE  offered \subseteq offered'
BY DEF SenderNext, Start, RequestStop, Join, Enqueue, EnqueueIgnored, EnqueueUnfinished,
   EnqueueCompletes, WorkerStep, TakeFrame, WorkerLeaves, SendPacket, SendFails, FrameSent

\* What went out stays gone.
LEMMA GoneKept ==
  ASSUME LinkInv, SenderNext, NEW f \in offered, NEW i \in Nat, Gone(f, i)
  PROVE  Gone(f, i)'
<1> USE DEF LinkInv, StreamInv
<1>1. CASE Start
  <2>1. session' = session + 1 /\ session \in Nat
    BY <1>1 DEF Start, Bounds
  <2>2. SessionOf(f) \in 1..session
    BY OfferedFacts
  <2>3. SessionOf(f) # session'
    BY <2>1, <2>2
  <2> QED
    BY <2>3 DEF Gone
<1>2. CASE RequestStop \/ Join \/ EnqueueIgnored \/ EnqueueUnfinished
  <2>1. UNCHANGED <<session, queue, worker, frame, segment>>
    BY <1>2 DEF RequestStop, Join, EnqueueIgnored, EnqueueUnfinished
  <2> QED
    BY <2>1 DEF Gone
<1>3. CASE EnqueueCompletes
  <2>1. UNCHANGED <<session, worker, frame, segment>>
    BY <1>3 DEF EnqueueCompletes
  <2>2. SUFFICES ASSUME SessionOf(f) = session, NEW j \in 1..Len(queue')
                 PROVE  f.raster_frame_id < queue'[j].raster_frame_id
    BY <2>1 DEF Gone
  <2>5. PICK g : g = Completed(record + 1)
    OBVIOUS
  <2>3. CASE queue'[j] = g
    BY <1>3, <2>2, <2>3, <2>5, Completing
  <2>4. CASE j \in 1..Len(queue) /\ queue'[j] = queue[j]
    BY <2>2, <2>4 DEF Gone
  <2> QED
    BY <1>3, <2>3, <2>4, <2>5, Completing
<1>4. CASE TakeFrame
  <2>1. /\ queue # <<>> /\ queue \in Seq(offered)
        /\ queue' = Tail(queue) /\ frame' = Head(queue) /\ session' = session
    BY <1>4 DEF TakeFrame, SenderInv, SenderTypes
  <2>2. SUFFICES ASSUME SessionOf(f) = session
                 PROVE  /\ f.raster_frame_id < frame'.raster_frame_id
                        /\ \A j \in 1..Len(queue') :
                             f.raster_frame_id < queue'[j].raster_frame_id
    <3>1. \A m \in 1..(MaxRecords \div Points) : m \in Nat
      BY RastersFit
    <3>2. f.raster_frame_id \in Nat /\ frame'.raster_frame_id \in Nat
      BY <2>1, <3>1, OfferedFacts
    <3> QED
      BY <2>1, <3>2 DEF Gone
  <2>3. \A j \in 1..Len(queue) : f.raster_frame_id < queue[j].raster_frame_id
    BY <2>2 DEF Gone
  <2>4. 1 \in 1..Len(queue) /\ frame' = queue[1]
    BY <2>1
  <2>5. \A j \in 1..Len(queue') : j + 1 \in 1..Len(queue) /\ queue'[j] = queue[j + 1]
    BY <2>1
  <2> QED
    BY <2>3, <2>4, <2>5
<1>5. CASE WorkerLeaves \/ SendFails \/ FrameSent
  <2>1. UNCHANGED <<session, queue>> /\ worker' # "sending"
    BY <1>5 DEF WorkerLeaves, SendFails, FrameSent
  <2> QED
    BY <2>1 DEF Gone
<1>6. CASE SendPacket
  <2>1. UNCHANGED <<session, queue, frame, worker>> /\ worker = "sending"
        /\ segment' = segment + 1
    BY <1>6 DEF SendPacket
  <2>2. segment \in Nat
    BY <2>1, OfferedFacts DEF InOrder
  <2>3. i < segment => i < segment + 1
    BY <2>2
  <2> QED
    BY <2>1, <2>3 DEF Gone
<1> QED
  BY <1>1, <1>2, <1>3, <1>4, <1>5, <1>6 DEF SenderNext, Enqueue, WorkerStep

\* The assembly stays in place, and what it completes is whole.
LEMMA AssemblyKept ==
  ASSUME LinkInv, SenderNext
  PROVE  Bounds' /\ InPlace' /\ Whole'
<1> USE DEF LinkInv, StreamInv
<1>0. MaxSessions \in Nat /\ MaxRecords \in Nat /\ session \in Nat /\ record \in Nat
  BY WireAssumption DEF Bounds
<1>1. CASE Start
  <2>1. /\ session' = session + 1 /\ record' = 0 /\ caller' = "on" /\ session < MaxSessions
        /\ active_raster' = 0 /\ assembly' = Blanked /\ offered' = offered
    BY <1>1 DEF Start
  <2>2. Bounds'
    BY <1>0, <2>1 DEF Bounds
  <2>3. InPlace'
    BY <2>1 DEF InPlace, Blanked
  <2>4. \A k \in 1..session : k \in 1..session' /\ k # session'
    BY <1>0, <2>1
  <2>5. Whole'
    BY <2>1, <2>4 DEF Whole
  <2> QED
    BY <2>2, <2>3, <2>5
<1>2. CASE RequestStop \/ Join \/ WorkerStep
  <2>1. /\ UNCHANGED <<session, record, active_raster, assembly, offered>>
        /\ caller' # "off" => caller # "off"
    BY <1>2 DEF RequestStop, Join, WorkerStep, TakeFrame, WorkerLeaves, SendPacket, SendFails,
       FrameSent, assemblyVars
  <2> QED
    BY <2>1 DEF Bounds, InPlace, Whole
<1>3. CASE Enqueue
  <2>1. /\ record' = record + 1 /\ record + 1 <= MaxRecords /\ caller = "on"
        /\ UNCHANGED <<session, caller>>
    BY <1>0, <1>3 DEF Enqueue, EnqueueIgnored, EnqueueUnfinished, EnqueueCompletes
  <2>2. Bounds'
    BY <1>0, <2>1 DEF Bounds
  <2>3. Whole'
    <3> DEFINE Seen(f, m) == \E s \in 1..session, r \in 1..(MaxRecords \div Points) :
                 f = Raster(s, r) /\ (s = session => r * Points <= m)
    <3>1. \A r \in 1..(MaxRecords \div Points) : r * Points \in Nat
      BY RastersFit
    <3>2. \A f \in offered : Seen(f, record + 1)
      <4>1. \A f \in offered : Seen(f, record)
        BY DEF Whole
      <4>2. \A m \in Nat : m <= record => m <= record + 1
        BY <1>0
      <4> QED
        BY <3>1, <4>1, <4>2
    <3>3. \A f \in offered' : Seen(f, record + 1)
      <4>1. CASE EnqueueCompletes
        <5>0. PICK g : g = Completed(record + 1)
          OBVIOUS
        <5>1. offered' = offered \cup {g}
          BY <4>1, <5>0, Completing
        <5>2. PICK r \in 1..(MaxRecords \div Points) :
                g = Raster(session, r) /\ r * Points = record + 1
          BY <4>1, <5>0, Completing
        <5>3. session \in 1..session
          BY <1>0, <2>1 DEF Bounds
        <5>4. r * Points <= record + 1
          BY <1>0, <5>2
        <5>5. Seen(g, record + 1)
          BY <5>2, <5>3, <5>4
        <5> HIDE DEF Seen
        <5> QED
          BY <3>2, <5>1, <5>5
      <4>2. CASE ~EnqueueCompletes
        <5>1. offered' = offered
          BY <1>3, <4>2 DEF Enqueue, EnqueueIgnored, EnqueueUnfinished
        <5> HIDE DEF Seen
        <5> QED
          BY <3>2, <5>1
      <4> QED
        BY <4>1, <4>2
    <3> QED
      BY <2>1, <3>3 DEF Whole
  <2>4. InPlace'
    <3>1. CASE EnqueueIgnored
      <4>1. UNCHANGED <<active_raster, assembly>>
        BY <3>1 DEF EnqueueIgnored, assemblyVars
      <4>2. active_raster \in Nat /\ Points \in Nat
        BY WireAssumption DEF SenderInv, SenderTypes
      <4>3. \A o \in 1..Points : (active_raster - 1) * Points + o \in Int
        BY <4>2
      <4>4. \A m \in Int : m <= record => m <= record + 1
        BY <1>0
      <4> QED
        BY <2>1, <4>1, <4>3, <4>4 DEF InPlace
    <3>2. CASE EnqueueUnfinished
      <4>1. active_raster' = RasterOf(record + 1) /\ assembly' = AssemblyWith(record + 1)
        BY <3>2 DEF EnqueueUnfinished
      <4>2. RasterOf(record + 1) # 0
        BY <1>0, Position
      <4> QED
        BY <2>1, <4>1, <4>2, AssemblyOf DEF InPlace
    <3>3. CASE EnqueueCompletes
      <4>1. active_raster' = 0 /\ assembly' = Blanked
        BY <3>3 DEF EnqueueCompletes
      <4> QED
        BY <4>1 DEF InPlace, Blanked
    <3> QED
      BY <1>3, <3>1, <3>2, <3>3 DEF Enqueue
  <2> QED
    BY <2>2, <2>3, <2>4
<1> QED
  BY <1>1, <1>2, <1>3 DEF SenderNext

\* Rasters stay in order, whatever the queue does with a new one.
LEMMA OrderKept ==
  ASSUME LinkInv, SenderNext, UNCHANGED newest
  PROVE  InOrder'
<1> USE DEF LinkInv, StreamInv
<1>1. CASE Start
  BY <1>1 DEF Start, InOrder
<1>2. CASE RequestStop \/ Join \/ EnqueueIgnored \/ EnqueueUnfinished
  <2>1. UNCHANGED <<session, queue, worker, frame, segment, offered>>
    BY <1>2 DEF RequestStop, Join, EnqueueIgnored, EnqueueUnfinished
  <2> QED
    BY <2>1 DEF InOrder
<1>3. CASE EnqueueCompletes
  <2>0. PICK g : g = Completed(record + 1)
    OBVIOUS
  <2>1. UNCHANGED <<session, worker, frame, segment>> /\ offered \subseteq offered'
    BY <1>3 DEF EnqueueCompletes
  <2>2. /\ SessionOf(g) = session /\ g.raster_frame_id \in Nat \ {0}
        /\ \A f \in offered :
             SessionOf(f) = session => f.raster_frame_id < g.raster_frame_id
        /\ \A k \in 1..Len(queue') :
             \/ queue'[k] = g /\ k = Len(queue')
             \/ k \in 1..Len(queue) /\ queue'[k] = queue[k]
    BY <1>3, <2>0, Completing
  <2>3. queue \in Seq(offered) /\ Len(queue') \in Nat
    <3>1. queue \in Seq(offered) /\ Len(queue) <= QueueCapacity /\ queue' = Outcome(g).queue
      BY <1>3, <2>0 DEF SenderInv, SenderTypes, EnqueueCompletes
    <3>2. queue' \in Seq(offered \cup {g})
      BY <3>1, OutcomeOf
    <3> QED
      BY <3>1, <3>2
  <2>4. newest[session] < g.raster_frame_id
    <3>1. session \in Sessions /\ session \in Nat /\ newest[session] \in Nat
      BY <1>3, WireAssumption DEF EnqueueCompletes, Bounds, Sessions, Shown
    <3>2. CASE newest[session] = 0
      BY <2>2, <3>2
    <3>3. CASE newest[session] # 0
      <4>1. Raster(session, newest[session]) \in offered
        BY <3>1, <3>3 DEF Shown
      <4>2. /\ SessionOf(Raster(session, newest[session])) = session
            /\ Raster(session, newest[session]).raster_frame_id = newest[session]
        BY <3>1, <3>3, RasterFacts
      <4> QED
        BY <2>2, <4>1, <4>2
    <3> QED
      BY <3>2, <3>3
  <2>5. ASSUME NEW j \in 1..Len(queue')
        PROVE  /\ SessionOf(queue'[j]) = session
               /\ newest[session] < queue'[j].raster_frame_id
               /\ \A i \in 1..j - 1 : queue'[i].raster_frame_id < queue'[j].raster_frame_id
               /\ worker = "sending" => frame.raster_frame_id < queue'[j].raster_frame_id
    <3>2. \A k \in 1..Len(queue) : queue[k] \in offered /\ SessionOf(queue[k]) = session
      BY <2>3 DEF InOrder
    <3>3. \A i \in 1..j - 1 :
            i \in 1..Len(queue') /\ i \in 1..Len(queue) /\ queue'[i] = queue[i]
      BY <2>2, <2>3
    <3>4. CASE queue'[j] = g
      BY <2>2, <2>4, <3>2, <3>3, <3>4 DEF InOrder
    <3>5. CASE j \in 1..Len(queue) /\ queue'[j] = queue[j]
      BY <3>3, <3>5 DEF InOrder
    <3> QED
      BY <2>2, <3>4, <3>5
  <2> QED
    BY <2>1, <2>5 DEF InOrder
<1>4. CASE TakeFrame
  <2>1. /\ queue # <<>> /\ queue \in Seq(offered)
        /\ queue' = Tail(queue) /\ frame' = Head(queue) /\ segment' = 1
        /\ UNCHANGED <<session, offered>>
    BY <1>4 DEF TakeFrame, SenderInv, SenderTypes
  <2>2. 1 \in 1..Len(queue) /\ frame' = queue[1] /\ frame' \in offered /\ Len(queue) \in Nat
    BY <2>1
  <2>3. \A j \in 1..Len(queue') : j + 1 \in 1..Len(queue) /\ queue'[j] = queue[j + 1]
    BY <2>1
  <2>4. 1 \in 1..SegmentCount(frame') + 1
    <3>1. SegmentCount(frame') \in Nat
      BY <2>2, OfferedFacts
    <3> QED
      BY <3>1
  <2>5. newest[session] <= frame'.raster_frame_id
    <3>1. session \in Sessions
      <4>1. SessionOf(frame') \in Sessions /\ SessionOf(frame') = session
        BY <2>2, OfferedFacts DEF InOrder
      <4> QED
        BY <4>1
    <3>2. \A m \in 1..(MaxRecords \div Points) : m \in Nat
      BY RastersFit
    <3>3. newest[session] \in Nat /\ frame'.raster_frame_id \in Nat
      BY <2>2, <3>1, <3>2, OfferedFacts DEF Shown
    <3> QED
      BY <2>2, <3>3 DEF InOrder
  <2>6. ASSUME NEW j \in 1..Len(queue')
        PROVE  /\ SessionOf(queue'[j]) = session
               /\ newest[session] < queue'[j].raster_frame_id
               /\ \A i \in 1..j - 1 : queue'[i].raster_frame_id < queue'[j].raster_frame_id
               /\ frame'.raster_frame_id < queue'[j].raster_frame_id
    <3>1. j + 1 \in 1..Len(queue) /\ queue'[j] = queue[j + 1]
      BY <2>3
    <3>2. \A i \in 1..j - 1 : i + 1 \in 1..(j + 1) - 1 /\ queue'[i] = queue[i + 1]
      BY <2>3
    <3>3. 1 \in 1..(j + 1) - 1
      OBVIOUS
    <3> QED
      BY <2>2, <3>1, <3>2, <3>3 DEF InOrder
  <2> QED
    BY <2>1, <2>2, <2>4, <2>5, <2>6 DEF InOrder
<1>5. CASE WorkerLeaves \/ SendFails \/ FrameSent
  <2>1. UNCHANGED <<session, queue>> /\ worker' # "sending"
    BY <1>5 DEF WorkerLeaves, SendFails, FrameSent
  <2> QED
    BY <2>1 DEF InOrder
<1>6. CASE SendPacket
  <2>1. UNCHANGED <<session, queue, frame, worker, offered>> /\ worker = "sending"
        /\ segment' = segment + 1 /\ segment <= SegmentCount(frame)
    BY <1>6 DEF SendPacket
  <2>2. SegmentCount(frame) \in Nat
    BY <2>1, OfferedFacts DEF InOrder
  <2>3. segment \in 1..SegmentCount(frame) + 1 =>
          /\ segment + 1 \in 1..SegmentCount(frame) + 1
          /\ segment + 1 <= SegmentCount(frame) => segment <= SegmentCount(frame)
    BY <2>1, <2>2
  <2> QED
    BY <2>1, <2>3 DEF InOrder
<1> QED
  BY <1>1, <1>2, <1>3, <1>4, <1>5, <1>6 DEF SenderNext, Enqueue, WorkerStep

\* What is underway stays what was offered and is gone; what is sent now is newer than
\* all that was published.
LEMMA UnderwayKept ==
  ASSUME LinkInv, SenderNext, UNCHANGED <<newest, last_frame_id, since_last>>
  PROVE  Underway' /\ Timely'
<1> USE DEF LinkInv, StreamInv
<1> DEFINE Carries(d, h, k) == d.packet = Packet(h, k)
<1>1. \A f \in offered : SegmentCount(f) \in Nat
  BY OfferedFacts
<1>2. ASSUME NEW d \in net
      PROVE  \E f \in offered' : \E i \in 1..SegmentCount(f) : Carries(d, f, i) /\ Gone(f, i)'
  <2>0. PICK f \in offered : \E i \in 1..SegmentCount(f) : Carries(d, f, i) /\ Gone(f, i)
    BY DEF Underway
  <2>1. PICK i \in 1..SegmentCount(f) : Carries(d, f, i) /\ Gone(f, i)
    BY <2>0
  <2>2. i \in Nat
    BY <1>1
  <2>3. Gone(f, i)'
    BY <2>1, <2>2, GoneKept
  <2> HIDE DEF Carries
  <2> QED
    BY <2>1, <2>3, OfferedGrows
<1>3. CASE net' = net
  BY <1>2, <1>3 DEF Underway, Timely
<1>4. CASE SendPacket
  <2> DEFINE new == [packet |-> Packet(frame, segment), age |-> 0]
  <2>1. /\ net' = net \cup {new} /\ worker = "sending" /\ segment <= SegmentCount(frame)
        /\ UNCHANGED <<session, queue, frame, worker, offered>> /\ segment' = segment + 1
    BY <1>4 DEF SendPacket
  <2>2. /\ frame \in offered /\ SessionOf(frame) = session
        /\ segment \in 1..SegmentCount(frame) + 1 /\ newest[session] < frame.raster_frame_id
        /\ \A j \in 1..Len(queue) : frame.raster_frame_id < queue[j].raster_frame_id
    BY <2>1 DEF InOrder
  <2>3. SegmentCount(frame) \in Nat /\ segment \in 1..SegmentCount(frame) /\ segment \in Nat
    <3>1. SegmentCount(frame) \in Nat
      BY <1>1, <2>2
    <3> QED
      BY <2>1, <2>2, <3>1
  <2>4. frame.raster_frame_id \in Nat /\ newest[session] \in Nat
    <3>1. \A m \in 1..(MaxRecords \div Points) : m \in Nat
      BY RastersFit
    <3>2. SessionOf(frame) \in Sessions
      BY <2>2, OfferedFacts
    <3> QED
      BY <2>2, <3>1, <3>2, OfferedFacts DEF Shown
  <2>5. PICK f \in offered, i \in 1..SegmentCount(frame) : f = frame /\ i = segment /\ Gone(f, i)'
    <3>1. PICK g, j : g = frame /\ j = segment
      OBVIOUS
    <3>2. Gone(g, j)'
      BY <2>1, <2>2, <2>3, <2>4, <3>1 DEF Gone
    <3> QED
      BY <2>2, <2>3, <3>1, <3>2
  <2>6. Underway'
    <3>1. /\ new = [packet |-> new.packet, age |-> new.age]
          /\ new.age \in 0..MaxDelay /\ Carries(new, frame, segment)
      BY NetworkAssumption
    <3> HIDE DEF new
    <3>2. \E h \in offered' : \E k \in 1..SegmentCount(h) : Carries(new, h, k) /\ Gone(h, k)'
      BY <2>1, <2>2, <2>3, <2>5, <3>1
    <3>3. \A d \in net' : d = new \/ d \in net
      BY <2>1
    <3> QED
      BY <1>2, <3>1, <3>2, <3>3 DEF Underway
  <2>7. Timely'
    <3>1. ~(new.packet.raster_frame_id <= newest[new.packet.timestamp[1]])
      <4>1. new.packet.raster_frame_id = frame.raster_frame_id
            /\ new.packet.timestamp[1] = session
        BY <2>2, PacketFacts DEF SessionOf
      <4> HIDE DEF new
      <4> QED
        BY <2>2, <2>4, <4>1
    <3> HIDE DEF new
    <3> QED
      BY <2>1, <3>1 DEF Timely
  <2> QED
    BY <2>6, <2>7
<1> QED
  BY <1>3, <1>4 DEF SenderNext, Start, RequestStop, Join, Enqueue, EnqueueIgnored,
     EnqueueUnfinished, EnqueueCompletes, WorkerStep, TakeFrame, WorkerLeaves, SendFails,
     FrameSent

\* The partial frames stay what they are, with more offered and more gone.
LEMMA PartialKept ==
  ASSUME LinkInv, SenderNext, UNCHANGED receiverVars
  PROVE  Partial' /\ Shown'
<1> USE DEF LinkInv, StreamInv
<1>1. UNCHANGED <<frames_, newest>> /\ offered \subseteq offered'
  BY OfferedGrows DEF receiverVars
<1>2. ASSUME NEW g \in frames_, NEW f \in offered, PartOf(g, f) PROVE PartOf(g, f)'
  <2>1. \A i \in DOMAIN g.segments : i \in Nat
    <3>1. SegmentCount(f) \in Nat
      BY OfferedFacts
    <3> QED
      BY <1>2, <3>1 DEF PartOf
  <2>2. \A i \in DOMAIN g.segments : Gone(f, i)'
    BY <1>2, <2>1, GoneKept DEF PartOf
  <2> QED
    BY <1>2, <2>2 DEF PartOf
<1>3. Partial'
  BY <1>1, <1>2 DEF Partial
<1>4. Shown'
  BY <1>1 DEF Shown
<1> QED
  BY <1>3, <1>4

\* Every step of the sender keeps the invariant.
LEMMA SenderKeeps ==
  ASSUME LinkInv, SenderNext, UNCHANGED receiverVars
  PROVE  StreamInv'
BY AssemblyKept, OrderKept, UnderwayKept, PartialKept DEF StreamInv, receiverVars

-----------------------------------------------------------------------------
(* Steps of the receiver.                                                  *)

\* Where a segment goes: to a partial frame of its own raster.
LEMMA PlaceOf ==
  ASSUME LinkInv, NEW f \in offered, NEW i \in 1..SegmentCount(f),
         NEW at \in Places(Packet(f, i))
  PROVE  /\ PartOf(at.partial, f) /\ at.rest \subseteq frames_
         /\ DOMAIN at.partial.segments # 1..SegmentCount(f)
<1> USE DEF LinkInv, StreamInv
<1> DEFINE p == Packet(f, i)
<1>0. SegmentCount(f) \in Nat \ {0} /\ AssemblyTimeout \in Nat
  BY OfferedFacts, ReceiverAssumption
<1>1. /\ p.raster_frame_id = f.raster_frame_id /\ p.timestamp = f.timestamp
      /\ p.segment_count = SegmentCount(f)
  BY PacketFacts
<1> HIDE DEF p
<1>2. Fresh \subseteq frames_ /\ Others(p) \subseteq frames_ /\ Existing(p) \subseteq frames_
  BY DEF Fresh, Others, Existing
<1>3. CASE Existing(p) # {}
  <2>1. PICK h \in Existing(p) : at = [partial |-> h, rest |-> Others(p)]
    BY <1>3 DEF Places, p
  <2>2. h.timestamp = f.timestamp
    BY <1>1 DEF Existing, Consistent
  <2>3. PICK e \in offered : PartOf(h, e)
    BY <1>2 DEF Partial
  <2>4. e.timestamp = f.timestamp
    <3>1. h.timestamp = e.timestamp
      BY <2>3 DEF PartOf
    <3> QED
      BY <2>2, <3>1
  <2>5. e = f
    BY <2>4, OneRaster
  <2>6. DOMAIN h.segments # 1..SegmentCount(f)
    <3>1. h.segment_count = SegmentCount(f)
      BY <2>3, <2>5 DEF PartOf
    <3>2. ~IsComplete(h)
      BY <1>2 DEF Partial
    <3> QED
      BY <3>1, <3>2 DEF IsComplete
  <2> QED
    BY <1>2, <2>1, <2>3, <2>5, <2>6
<1>4. CASE Existing(p) = {}
  <2>1. PICK fs \in AfterEviction(Others(p)) : at = [partial |-> New(p), rest |-> fs]
    BY <1>4 DEF Places, p
  <2>2. fs \subseteq Others(p)
    BY DEF AfterEviction
  <2>3. PartOf(New(p), f)
    BY <1>0, <1>1 DEF PartOf, New
  <2>4. DOMAIN New(p).segments # 1..SegmentCount(f)
    <3>1. DOMAIN New(p).segments = {} /\ 1 \in 1..SegmentCount(f)
      BY <1>0 DEF New
    <3> QED
      BY <3>1
  <2> QED
    BY <1>2, <2>1, <2>2, <2>3, <2>4
<1> QED
  BY <1>3, <1>4

\* A partial frame that is touched, and one with a segment of its raster more.
LEMMA Touched ==
  ASSUME NEW f, NEW g, PartOf(g, f), NEW w, w = [g EXCEPT !.age = 0]
  PROVE  PartOf(w, f) /\ w.segments = g.segments /\ w.segment_count = SegmentCount(f)
<1>1. g = [raster_frame_id |-> f.raster_frame_id, timestamp |-> f.timestamp,
           segment_count |-> SegmentCount(f), segments |-> g.segments, age |-> g.age]
  BY DEF PartOf
<1>2. w = [raster_frame_id |-> f.raster_frame_id, timestamp |-> f.timestamp,
           segment_count |-> SegmentCount(f), segments |-> g.segments, age |-> 0]
  BY <1>1
<1>3. w.segments = g.segments /\ w.age = 0 /\ w.segment_count = SegmentCount(f)
  BY <1>2
<1>4. /\ DOMAIN g.segments \subseteq 1..SegmentCount(f)
      /\ g.segments = [j \in DOMAIN g.segments |-> Packet(f, j).points]
      /\ \A j \in DOMAIN g.segments : Gone(f, j)
  BY DEF PartOf
<1> QED
  BY <1>2, <1>3, <1>4, ReceiverAssumption DEF PartOf

\* With another segment it still holds segments of its raster.
LEMMA AddedTo ==
  ASSUME NEW f, NEW g, NEW i \in 1..SegmentCount(f), PartOf(g, f), Gone(f, i),
         NEW w, w = With(g, Packet(f, i))
  PROVE  /\ PartOf(w, f) /\ w.segment_count = SegmentCount(f)
         /\ \A j : j \in DOMAIN w.segments <=> j \in DOMAIN g.segments \/ j = i
<1> DEFINE p == Packet(f, i)
           segments == [j \in DOMAIN g.segments \cup {i} |->
                          IF j = i THEN p.points ELSE g.segments[j]]
<1>1. p.segment_index = i
  BY PacketFacts
<1>2. g = [raster_frame_id |-> f.raster_frame_id, timestamp |-> f.timestamp,
           segment_count |-> SegmentCount(f), segments |-> g.segments, age |-> g.age]
  BY DEF PartOf
<1>3. w = [g EXCEPT !.age = 0, !.segments = segments]
  BY <1>1 DEF With
<1>4. w = [raster_frame_id |-> f.raster_frame_id, timestamp |-> f.timestamp,
           segment_count |-> SegmentCount(f), segments |-> segments, age |-> 0]
  <2> HIDE DEF segments
  <2>1. PICK h : h = [g EXCEPT !.age = 0]
    OBVIOUS
  <2>2. h = [raster_frame_id |-> f.raster_frame_id, timestamp |-> f.timestamp,
             segment_count |-> SegmentCount(f), segments |-> g.segments, age |-> 0]
    BY <1>2, <2>1
  <2>3. [h EXCEPT !.segments = segments]
          = [raster_frame_id |-> f.raster_frame_id, timestamp |-> f.timestamp,
             segment_count |-> SegmentCount(f), segments |-> segments, age |-> 0]
    BY <2>2
  <2>4. w = [h EXCEPT !.segments = segments]
    BY <1>3, <2>1, Zenon
  <2> QED
    BY <2>3, <2>4
<1>5. segments = [j \in DOMAIN g.segments \cup {i} |-> Packet(f, j).points]
  <2>1. \A j \in DOMAIN g.segments : g.segments[j] = Packet(f, j).points
    BY DEF PartOf
  <2> QED
    BY <2>1
<1>6. \A j \in DOMAIN g.segments \cup {i} : j \in 1..SegmentCount(f) /\ Gone(f, j)
  BY DEF PartOf
<1>7. \A j : j \in DOMAIN segments <=> j \in DOMAIN g.segments \/ j = i
  OBVIOUS
<1>8. DOMAIN segments = DOMAIN g.segments \cup {i}
  OBVIOUS
<1> HIDE DEF segments
<1>9. w.segments = segments /\ w.age = 0 /\ w.segment_count = SegmentCount(f)
  BY <1>4
<1> QED
  BY <1>4, <1>5, <1>6, <1>7, <1>8, <1>9, ReceiverAssumption DEF PartOf

\* A segment that arrives is one of an offered raster that is gone.
LEMMA Arriving ==
  ASSUME LinkInv, NEW d \in net
  PROVE  \E f \in offered : \E i \in 1..SegmentCount(f) : d.packet = Packet(f, i) /\ Gone(f, i)
BY DEF LinkInv, StreamInv, Underway

\* A raster that is not stale when its last segment arrives is newer than all that was
\* published of its session, and so is it of what is underway of other sessions.
LEMMA NotStale ==
  ASSUME LinkInv, NEW d \in net, NEW f \in offered, NEW i, d.packet = Packet(f, i),
         NEW after, after.raster_frame_id = f.raster_frame_id, ~Stale(after)
  PROVE  /\ f.raster_frame_id > newest[SessionOf(f)]
         /\ \A e \in net : e.packet.raster_frame_id <= newest[e.packet.timestamp[1]] =>
              e.packet.raster_frame_id < f.raster_frame_id
<1> USE DEF LinkInv, StreamInv
<1>1. /\ MaxDelay \in Nat /\ ResetTimeout \in Nat /\ MaxDelay < ResetTimeout
      /\ since_last \in Nat /\ last_frame_id \in Nat
  BY NetworkAssumption, ReceiverAssumption DEF Timely
<1>2. \A m \in 1..(MaxRecords \div Points) : m \in Nat
  BY RastersFit
<1>3. f.raster_frame_id \in Nat /\ SessionOf(f) \in Sessions /\ newest[SessionOf(f)] \in Nat
  BY <1>2, OfferedFacts DEF Shown
<1>4. f.raster_frame_id <= last_frame_id => since_last >= ResetTimeout
  BY <1>1, <1>3 DEF Stale
<1>5. ASSUME NEW e \in net, e.packet.raster_frame_id <= newest[e.packet.timestamp[1]]
      PROVE  /\ e.packet.raster_frame_id \in Nat
             /\ e.packet.raster_frame_id < f.raster_frame_id
  <2>1. e.packet.raster_frame_id <= last_frame_id /\ since_last <= e.age /\ e.age \in 0..MaxDelay
    BY <1>5 DEF Timely, Underway
  <2>2. e.packet.raster_frame_id \in Nat
    <3>1. PICK g \in offered : \E k \in 1..SegmentCount(g) : e.packet = Packet(g, k)
      BY Arriving
    <3>2. e.packet.raster_frame_id = g.raster_frame_id
      BY <3>1, PacketFacts
    <3> QED
      BY <1>2, <3>2, OfferedFacts
  <2> QED
    BY <1>1, <1>3, <1>4, <2>1, <2>2
<1>6. d.packet.raster_frame_id = f.raster_frame_id /\ d.packet.timestamp[1] = SessionOf(f)
  BY PacketFacts DEF SessionOf
<1>7. ~(f.raster_frame_id <= newest[SessionOf(f)])
  BY <1>3, <1>5, <1>6
<1> QED
  BY <1>3, <1>5, <1>7

\* The cloud of a raster.
CloudOf(f) ==
  [session |-> SessionOf(f), raster_frame_id |-> f.raster_frame_id,
   timestamp |-> f.timestamp, points |-> f.points]

\* What publishing a raster changes.
Published(f) ==
  /\ f.raster_frame_id > newest[SessionOf(f)]
  /\ \A i \in 1..SegmentCount(f) : Gone(f, i)
  /\ \A e \in net : e.packet.raster_frame_id <= newest[e.packet.timestamp[1]] =>
       e.packet.raster_frame_id < f.raster_frame_id
  /\ cloud' = {CloudOf(f)}
  /\ last_frame_id' = f.raster_frame_id /\ since_last' = 0
  /\ newest' = [newest EXCEPT ![SessionOf(f)] = f.raster_frame_id]

\* A datagram that arrives is collected, or it is the last of a raster that is stale or
\* published whole.
LEMMA Delivering ==
  ASSUME LinkInv, Deliver
  PROVE  Partial' /\ (Quiet \/ \E f \in offered : Published(f))
<1> USE DEF LinkInv, StreamInv
<1>1. PICK d \in net : Collect(d.packet) \/ Complete(d.packet)
  BY DEF Deliver
<1>2. UNCHANGED <<session, queue, worker, frame, segment, offered>>
  BY DEF Deliver, senderVars
<1>3. PICK f \in offered : \E i \in 1..SegmentCount(f) : d.packet = Packet(f, i) /\ Gone(f, i)
  BY Arriving
<1>4. PICK i \in 1..SegmentCount(f) : d.packet = Packet(f, i) /\ Gone(f, i)
  BY <1>3
<1>5. SegmentCount(f) \in Nat \ {0} /\ f.points \in Seq(Nat \X Nat)
  BY OfferedFacts
<1>6. Packet(f, i).segment_index = i
  BY PacketFacts
<1>7. ASSUME NEW rest, rest \subseteq frames_, frames_' = rest PROVE Partial'
  <2>1. \A g, h : PartOf(g, h)' <=> PartOf(g, h)
    BY <1>2 DEF PartOf, Gone
  <2> QED
    BY <1>2, <1>7, <2>1 DEF Partial
<1>8. CASE Collect(d.packet)
  <2>1. PICK at \in Places(Packet(f, i)) :
          LET present == i \in DOMAIN at.partial.segments
              after == IF present THEN [at.partial EXCEPT !.age = 0]
                       ELSE With(at.partial, Packet(f, i))
          IN /\ present \/ ~IsComplete(after)
             /\ frames_' = at.rest \cup {after} /\ Quiet
    BY <1>4, <1>6, <1>8 DEF Collect
  <2> DEFINE h == at.partial
             present == i \in DOMAIN h.segments
             after == IF present THEN [h EXCEPT !.age = 0] ELSE With(h, Packet(f, i))
  <2>2. /\ PartOf(h, f) /\ at.rest \subseteq frames_
        /\ DOMAIN h.segments # 1..SegmentCount(f)
    BY PlaceOf
  <2>3. /\ present \/ ~IsComplete(after)
        /\ frames_' = at.rest \cup {after} /\ Quiet
    BY <2>1
  <2> HIDE DEF h
  <2>4. PartOf(after, f) /\ i \in DOMAIN after.segments /\ ~IsComplete(after)
    <3>1. CASE present
      <4>1. PICK w : w = [h EXCEPT !.age = 0]
        OBVIOUS
      <4>2. PartOf(w, f) /\ w.segments = h.segments /\ w.segment_count = SegmentCount(f)
        BY <2>2, <4>1, Touched
      <4>3. after = w
        BY <3>1, <4>1
      <4> HIDE DEF after
      <4> QED
        BY <2>2, <3>1, <4>2, <4>3 DEF IsComplete
    <3>2. CASE ~present
      <4>1. after = With(h, Packet(f, i))
        BY <3>2
      <4>2. PICK w : w = With(h, Packet(f, i))
        OBVIOUS
      <4> HIDE DEF after
      <4>3. PartOf(w, f) /\ i \in DOMAIN w.segments
        BY <1>4, <2>2, <4>2, AddedTo
      <4> QED
        BY <2>3, <3>2, <4>1, <4>2, <4>3
    <3> QED
      BY <3>1, <3>2
  <2> HIDE DEF after, present
  <2>5. \A x \in frames_' : x \in frames_ \/ x = after
    BY <2>2, <2>3
  <2>6. \A x, y : PartOf(x, y)' <=> PartOf(x, y)
    BY <1>2 DEF PartOf, Gone
  <2>7. \A x \in frames_' : /\ \E y \in offered : PartOf(x, y)
                            /\ DOMAIN x.segments # {} /\ ~IsComplete(x)
    BY <2>4, <2>5 DEF Partial
  <2>8. Partial'
    BY <1>2, <2>6, <2>7 DEF Partial
  <2> QED
    BY <2>3, <2>8
<1>9. CASE Complete(d.packet)
  <2>1. PICK at \in Places(Packet(f, i)) :
          LET after == With(at.partial, Packet(f, i))
          IN /\ IsComplete(after) /\ frames_' = at.rest
             /\ \/ Stale(after) /\ Quiet
                \/ ~Stale(after) /\ Publish(after)
    BY <1>4, <1>6, <1>9 DEF Complete
  <2>2. PartOf(at.partial, f) /\ at.rest \subseteq frames_
    BY PlaceOf
  <2>3. PICK after : after = With(at.partial, Packet(f, i))
    OBVIOUS
  <2>4. /\ IsComplete(after) /\ frames_' = at.rest
        /\ Quiet \/ (~Stale(after) /\ Publish(after))
    BY <2>1, <2>3
  <2>5. PartOf(after, f) /\ after.segment_count = SegmentCount(f)
    BY <1>4, <2>2, <2>3, AddedTo
  <2>6. ASSUME ~Stale(after), Publish(after) PROVE Published(f)
    <3>1. \A k \in 1..SegmentCount(f) :
            Gone(f, k) /\ after.segments[k] = Packet(f, k).points
      BY <2>4, <2>5 DEF IsComplete, PartOf
    <3>2. Joined(after) = f.points
      BY <1>5, <2>5, <3>1, JoinedIsWhole
    <3>3. after.raster_frame_id = f.raster_frame_id /\ after.timestamp = f.timestamp
      BY <2>5 DEF PartOf
    <3>4. /\ f.raster_frame_id > newest[SessionOf(f)]
          /\ \A e \in net : e.packet.raster_frame_id <= newest[e.packet.timestamp[1]] =>
               e.packet.raster_frame_id < f.raster_frame_id
      BY <1>4, <2>6, <3>3, NotStale
    <3>5. /\ cloud' = {CloudOf(f)} /\ last_frame_id' = f.raster_frame_id /\ since_last' = 0
          /\ newest' = [newest EXCEPT ![SessionOf(f)] = f.raster_frame_id]
      BY <2>6, <3>2, <3>3 DEF Publish, CloudOf, SessionOf
    <3> QED
      BY <3>1, <3>4, <3>5 DEF Published
  <2>7. Partial'
    BY <1>7, <2>2, <2>4
  <2> QED
    BY <2>4, <2>6, <2>7
<1> QED
  BY <1>1, <1>8, <1>9

\* Publishing keeps the order: what is published is all gone.
LEMMA PublishedKeeps ==
  ASSUME LinkInv, NEW f \in offered, Published(f), UNCHANGED senderVars
  PROVE  InOrder' /\ Shown' /\ Timely'
<1> USE DEF LinkInv, StreamInv
<1>1. UNCHANGED <<session, queue, worker, frame, segment, net, offered>>
  BY DEF senderVars
<1>2. \A m \in 1..(MaxRecords \div Points) : m \in Nat \ {0}
  BY RastersFit
<1>3. /\ SessionOf(f) \in Sessions /\ f.raster_frame_id \in Nat \ {0}
      /\ SegmentCount(f) \in Nat \ {0} /\ f = Raster(SessionOf(f), f.raster_frame_id)
  BY <1>2, OfferedFacts
<1>4. /\ newest \in [Sessions -> Nat]
      /\ newest' = [newest EXCEPT ![SessionOf(f)] = f.raster_frame_id]
  BY DEF Published, Shown
<1>5. newest'[SessionOf(f)] = f.raster_frame_id
  BY <1>3, <1>4
<1>6. \A s \in Sessions : s # SessionOf(f) => newest'[s] = newest[s]
  BY <1>4
<1>7. Shown'
  BY <1>1, <1>3, <1>4, <1>5, <1>6 DEF Shown
<1>8. Timely'
  <2>1. last_frame_id' = f.raster_frame_id /\ since_last' = 0 /\ ResetTimeout \in Nat
    BY ReceiverAssumption DEF Published
  <2>2. ASSUME NEW d \in net, d.packet.raster_frame_id <= newest'[d.packet.timestamp[1]]
        PROVE  d.packet.raster_frame_id <= f.raster_frame_id /\ 0 <= d.age
    <3>1. d.age \in 0..MaxDelay /\ MaxDelay \in Nat
      BY NetworkAssumption DEF Underway
    <3>2. PICK g \in offered : \E i \in 1..SegmentCount(g) : d.packet = Packet(g, i)
      BY Arriving
    <3>3. d.packet.raster_frame_id = g.raster_frame_id /\ d.packet.timestamp[1] = SessionOf(g)
      BY <3>2, PacketFacts DEF SessionOf
    <3>4. SessionOf(g) \in Sessions /\ g.raster_frame_id \in Nat
      BY <1>2, OfferedFacts
    <3>5. CASE SessionOf(g) = SessionOf(f)
      BY <1>5, <2>2, <3>1, <3>3, <3>5
    <3>6. CASE SessionOf(g) # SessionOf(f)
      <4>1. d.packet.raster_frame_id <= newest[d.packet.timestamp[1]]
        BY <1>6, <2>2, <3>3, <3>4, <3>6
      <4>2. d.packet.raster_frame_id < f.raster_frame_id
        BY <4>1 DEF Published
      <4> QED
        BY <1>3, <3>1, <3>3, <3>4, <4>2
    <3> QED
      BY <3>5, <3>6
  <2> QED
    BY <1>1, <1>3, <2>1, <2>2 DEF Timely
<1>9. InOrder'
  <2>1. CASE SessionOf(f) # session
    <3>1. CASE session = 0
      <4>1. worker = "off" /\ queue = <<>>
        BY <3>1 DEF Bounds, SenderInv, WorkerLife
      <4> QED
        BY <1>1, <4>1 DEF InOrder
    <3>2. CASE session # 0
      <4>1. session \in Sessions
        BY <3>2, WireAssumption DEF Bounds, Sessions
      <4>2. newest'[session] = newest[session]
        BY <1>6, <2>1, <4>1
      <4> QED
        BY <1>1, <4>2 DEF InOrder
    <3> QED
      BY <3>1, <3>2
  <2>2. CASE SessionOf(f) = session
    <3>1. 1 \in 1..SegmentCount(f) /\ SegmentCount(f) \in 1..SegmentCount(f)
      BY <1>3
    <3>2. /\ \A j \in 1..Len(queue) : f.raster_frame_id < queue[j].raster_frame_id
          /\ worker = "sending" =>
               /\ f.raster_frame_id <= frame.raster_frame_id
               /\ f.raster_frame_id = frame.raster_frame_id => SegmentCount(f) < segment
      BY <2>2, <3>1 DEF Gone, Published
    <3>3. ASSUME worker = "sending", segment <= SegmentCount(frame)
          PROVE  f.raster_frame_id < frame.raster_frame_id
      <4>1. /\ frame \in offered /\ SessionOf(frame) = session
            /\ segment \in 1..SegmentCount(frame) + 1
        BY <3>3 DEF InOrder
      <4>2. f.raster_frame_id = frame.raster_frame_id => f = frame
        BY <2>2, <4>1, OneRaster
      <4>3. frame.raster_frame_id \in Nat
        BY <1>2, <4>1, OfferedFacts
      <4> QED
        BY <1>3, <3>2, <3>3, <4>1, <4>2, <4>3
    <3> QED
      BY <1>1, <1>5, <2>2, <3>2, <3>3 DEF InOrder
  <2> QED
    BY <2>1, <2>2
<1> QED
  BY <1>7, <1>8, <1>9

\* A datagram that arrives keeps the invariant.
LEMMA DeliverKeeps ==
  ASSUME LinkInv, Deliver
  PROVE  StreamInv'
<1>1. /\ UNCHANGED senderVars
      /\ UNCHANGED <<caller, session, record, active_raster, assembly, queue, worker, frame,
                     segment, net, offered>>
  BY DEF Deliver, senderVars
<1>2. Bounds' /\ InPlace' /\ Whole' /\ Underway'
  BY <1>1 DEF LinkInv, StreamInv, Bounds, InPlace, Whole, Underway, Gone
<1>3. CASE Quiet
  BY <1>1, <1>2, <1>3, Delivering
     DEF LinkInv, StreamInv, Quiet, InOrder, Shown, Timely
<1>4. CASE \E f \in offered : Published(f)
  BY <1>1, <1>2, <1>4, Delivering, PublishedKeeps DEF StreamInv
<1> QED
  BY <1>3, <1>4, Delivering

\* A receive that times out keeps the invariant.
LEMMA IdleKeeps ==
  ASSUME LinkInv, Idle, UNCHANGED senderVars
  PROVE  StreamInv'
<1>1. /\ UNCHANGED <<caller, session, record, active_raster, assembly, queue, worker, frame,
                     segment, net, offered, last_frame_id, since_last, cloud, newest>>
      /\ frames_' \subseteq frames_
  BY DEF Idle, senderVars, Quiet, Fresh
<1>2. \A g, f : PartOf(g, f)' <=> PartOf(g, f)
  BY <1>1 DEF PartOf, Gone
<1>3. Partial'
  BY <1>1, <1>2 DEF LinkInv, StreamInv, Partial
<1> QED
  BY <1>1, <1>3 DEF LinkInv, StreamInv, Bounds, InPlace, Whole, Underway, Gone, InOrder, Shown,
     Timely

\* Time keeps it: datagrams and the time since the last publication age alike.
LEMMA TickKeeps ==
  ASSUME LinkInv, Tick
  PROVE  StreamInv'
<1> USE DEF LinkInv, StreamInv
<1>1. /\ UNCHANGED <<caller, session, record, active_raster, assembly, queue, worker, frame,
                     segment, offered, last_frame_id, cloud, newest>>
      /\ net' = {[d EXCEPT !.age = @ + 1] : d \in {e \in net : e.age < MaxDelay}}
      /\ frames_' = {[f EXCEPT !.age = Least(@ + 1, AssemblyTimeout)] : f \in frames_}
      /\ since_last' = IF last_frame_id = 0 THEN 0 ELSE Least(since_last + 1, ResetTimeout)
  BY DEF Tick, Age, assemblyVars
<1>2. MaxDelay \in Nat /\ AssemblyTimeout \in Nat \ {0} /\ ResetTimeout \in Nat \ {0}
  BY NetworkAssumption, ReceiverAssumption
<1>3. \A f, i : Gone(f, i)' <=> Gone(f, i)
  BY <1>1 DEF Gone
<1>4. ASSUME NEW d \in net'
      PROVE  \E e \in net : /\ d = [packet |-> e.packet, age |-> e.age + 1]
                            /\ e.age \in Nat /\ e.age < MaxDelay
  <2>1. PICK e \in net : e.age < MaxDelay /\ d = [e EXCEPT !.age = @ + 1]
    BY <1>1
  <2>2. e = [packet |-> e.packet, age |-> e.age] /\ e.age \in 0..MaxDelay
    BY DEF Underway
  <2>3. d = [packet |-> e.packet, age |-> e.age + 1]
    BY <2>1, <2>2
  <2> QED
    BY <1>2, <2>1, <2>2, <2>3
<1>5. Underway'
  <2>1. SUFFICES ASSUME NEW d \in net'
                 PROVE  /\ d = [packet |-> d.packet, age |-> d.age] /\ d.age \in 0..MaxDelay
                        /\ \E f \in offered : \E i \in 1..SegmentCount(f) :
                             d.packet = Packet(f, i) /\ Gone(f, i)
    BY <1>1, <1>3 DEF Underway
  <2>2. PICK e \in net : /\ d = [packet |-> e.packet, age |-> e.age + 1]
                         /\ e.age \in Nat /\ e.age < MaxDelay
    BY <1>4
  <2>3. \E f \in offered : \E i \in 1..SegmentCount(f) :
          e.packet = Packet(f, i) /\ Gone(f, i)
    BY Arriving
  <2>4. d.packet = e.packet /\ d.age = e.age + 1
    BY <2>2
  <2> QED
    BY <1>2, <2>2, <2>3, <2>4
<1>6. Timely'
  <2>1. last_frame_id \in Nat /\ since_last \in Nat /\ since_last <= ResetTimeout
    BY <1>2 DEF Timely
  <2>2. since_last' \in 0..ResetTimeout /\ since_last' <= since_last + 1
    BY <1>1, <1>2, <2>1 DEF Least
  <2>3. ASSUME NEW d \in net', d.packet.raster_frame_id <= newest[d.packet.timestamp[1]]
        PROVE  d.packet.raster_frame_id <= last_frame_id /\ since_last' <= d.age
    <3>1. PICK e \in net : /\ d = [packet |-> e.packet, age |-> e.age + 1]
                           /\ e.age \in Nat /\ e.age < MaxDelay
      BY <1>4
    <3>2. d.packet = e.packet /\ d.age = e.age + 1
      BY <3>1
    <3>3. e.packet.raster_frame_id <= last_frame_id /\ since_last <= e.age
      BY <2>3, <3>2 DEF Timely
    <3> QED
      BY <1>2, <2>1, <2>2, <3>1, <3>2, <3>3
  <2> QED
    BY <1>1, <2>1, <2>2, <2>3 DEF Timely
<1>7. Partial'
  <2>1. SUFFICES ASSUME NEW g \in frames_'
                 PROVE  /\ \E f \in offered : PartOf(g, f)
                        /\ DOMAIN g.segments # {} /\ ~IsComplete(g)
    <3>1. \A g, f : PartOf(g, f)' <=> PartOf(g, f)
      BY <1>3 DEF PartOf
    <3> QED
      BY <1>1, <3>1 DEF Partial
  <2>2. PICK h \in frames_ : g = [h EXCEPT !.age = Least(@ + 1, AssemblyTimeout)]
    BY <1>1
  <2>3. PICK f \in offered : PartOf(h, f)
    BY DEF Partial
  <2>4. /\ h = [raster_frame_id |-> f.raster_frame_id, timestamp |-> f.timestamp,
                segment_count |-> SegmentCount(f), segments |-> h.segments, age |-> h.age]
        /\ h.age \in 0..AssemblyTimeout
    BY <2>3 DEF PartOf
  <2>5. PICK k : k = Least(h.age + 1, AssemblyTimeout) /\ k \in 0..AssemblyTimeout
    BY <1>2, <2>4 DEF Least
  <2>6. g = [raster_frame_id |-> f.raster_frame_id, timestamp |-> f.timestamp,
             segment_count |-> SegmentCount(f), segments |-> h.segments, age |-> k]
    BY <2>2, <2>4, <2>5
  <2>7. g.segments = h.segments /\ g.segment_count = h.segment_count /\ g.age = k
    BY <2>4, <2>6
  <2>8. PartOf(g, f)
    BY <2>3, <2>5, <2>6, <2>7 DEF PartOf
  <2>9. DOMAIN g.segments # {} /\ ~IsComplete(g)
    BY <2>7 DEF Partial, IsComplete
  <2> QED
    BY <2>8, <2>9
<1>8. Bounds' /\ InPlace' /\ Whole' /\ InOrder' /\ Shown'
  BY <1>1 DEF Bounds, InPlace, Whole, InOrder, Shown
<1> QED
  BY <1>5, <1>6, <1>7, <1>8

-----------------------------------------------------------------------------
(* The invariant.                                                          *)

\* Nothing is offered at first.
LEMMA StreamInit == Init => StreamInv
<1> SUFFICES ASSUME Init PROVE StreamInv
  OBVIOUS
<1>1. /\ caller = "off" /\ worker = "off" /\ session = 0 /\ record = 0 /\ active_raster = 0
      /\ assembly = Blanked /\ queue = <<>> /\ net = {} /\ offered = {}
      /\ frames_ = {} /\ last_frame_id = 0 /\ since_last = 0
      /\ newest = [s \in Sessions |-> 0]
  BY DEF Init, SenderInit, ReceiverInit
<1>2. MaxSessions \in Nat /\ MaxRecords \in Nat /\ ResetTimeout \in Nat
  BY WireAssumption, ReceiverAssumption
<1>3. Bounds /\ InPlace /\ Whole /\ InOrder /\ Underway /\ Partial
  BY <1>1, <1>2 DEF Bounds, InPlace, Whole, InOrder, Underway, Partial, Blanked
<1>4. Shown /\ Timely
  BY <1>1, <1>2 DEF Shown, Timely
<1> QED
  BY <1>3, <1>4 DEF StreamInv

\* Every step of sender, network and receiver keeps the invariant.
LEMMA StreamStep == LinkInv /\ [Next]_vars => StreamInv'
<1> SUFFICES ASSUME LinkInv, [Next]_vars PROVE StreamInv'
  OBVIOUS
<1>1. CASE SenderNext /\ UNCHANGED receiverVars
  BY <1>1, SenderKeeps
<1>2. CASE Deliver
  BY <1>2, DeliverKeeps
<1>3. CASE Idle /\ UNCHANGED senderVars
  BY <1>3, IdleKeeps
<1>4. CASE Tick
  BY <1>4, TickKeeps
<1>5. CASE UNCHANGED vars
  <2>1. UNCHANGED <<caller, session, record, active_raster, assembly, queue, worker, frame,
                    segment, net, offered, frames_, last_frame_id, since_last, cloud, newest>>
    BY <1>5 DEF vars, senderVars, receiverVars
  <2>2. Bounds' /\ InPlace' /\ Whole' /\ InOrder' /\ Shown' /\ Timely'
    BY <2>1 DEF LinkInv, StreamInv, Bounds, InPlace, Whole, InOrder, Shown, Timely
  <2>3. \A f, i : Gone(f, i)' <=> Gone(f, i)
    BY <2>1 DEF Gone
  <2>4. \A g, f : PartOf(g, f)' <=> PartOf(g, f)
    BY <2>3 DEF PartOf
  <2>5. Underway' /\ Partial'
    BY <2>1, <2>3, <2>4 DEF LinkInv, StreamInv, Underway, Partial
  <2> QED
    BY <2>2, <2>5 DEF StreamInv
<1> QED
  BY <1>1, <1>2, <1>3, <1>4, <1>5 DEF Next

\* The inductive invariant of the link, with the bookkeeping of the sender.
THEOREM StreamInvariant == Spec => []LinkInv
<1>1. Init => LinkInv
  BY InitInv, StreamInit DEF LinkInv
<1>2. LinkInv /\ [Next]_vars => LinkInv'
  BY SenderStep, StreamStep DEF LinkInv
<1> QED
  BY <1>1, <1>2, PTL DEF Spec

-----------------------------------------------------------------------------
(* Refinement.                                                             *)

\* What was offered, as the clouds it may become.
LEMMA OfferedClouds == OfferedWithSession = {CloudOf(f) : f \in offered}
BY DEF OfferedWithSession, CloudOf, SessionOf

\* The link starts as the stream does.
LEMMA StreamStarts == Init => Stream!RSInit
<1> SUFFICES ASSUME Init PROVE Stream!RSInit
  OBVIOUS
<1>1. offered = {} /\ cloud = {} /\ newest = [s \in Sessions |-> 0]
  BY DEF Init, SenderInit, ReceiverInit
<1>2. OfferedWithSession = {}
  BY <1>1 DEF OfferedWithSession
<1> QED
  BY <1>1, <1>2 DEF Stream!RSInit

\* A raster that is completed is offered to the stream.
LEMMA CompletingOffers ==
  ASSUME LinkInv, EnqueueCompletes, UNCHANGED receiverVars
  PROVE  Stream!RSNext
<1> USE DEF LinkInv, StreamInv
<1>0. PICK g : g = Completed(record + 1)
  OBVIOUS
<1>1. offered' = offered \cup {g} /\ UNCHANGED <<newest, cloud>>
  BY <1>0, Completing DEF receiverVars
<1>2. PICK r \in 1..(MaxRecords \div Points) : g = Raster(session, r)
  BY <1>0, Completing
<1>3. /\ SessionOf(g) = session
      /\ \A f \in offered : SessionOf(f) = session => f.raster_frame_id < g.raster_frame_id
  BY <1>0, Completing
<1>4. session \in Sessions
  BY WireAssumption DEF EnqueueCompletes, Bounds, Sessions
<1> DEFINE c == CloudOf(g)
<1>5. c \in WholeRasters
  <2>1. c = WholeRaster(session, r)
    BY <1>2 DEF CloudOf, Raster, WholeRaster, SessionOf
  <2> QED
    BY <1>4, <2>1 DEF WholeRasters
<1>6. OfferedWithSession' = OfferedWithSession \cup {c}
  <2>1. OfferedWithSession' = {CloudOf(f) : f \in offered'}
    BY DEF OfferedWithSession, CloudOf, SessionOf
  <2> QED
    BY <1>1, <2>1, OfferedClouds
<1>7. \A h \in OfferedWithSession :
        h.session = c.session => h.raster_frame_id < c.raster_frame_id
  <2>1. \A f : CloudOf(f).session = SessionOf(f)
                /\ CloudOf(f).raster_frame_id = f.raster_frame_id
    BY DEF CloudOf
  <2> QED
    BY <1>3, <2>1, OfferedClouds
<1> HIDE DEF c
<1>8. Stream!Offer(c)
  BY <1>1, <1>6, <1>7 DEF Stream!Offer
<1> QED
  BY <1>5, <1>8 DEF Stream!RSNext

\* A raster that is published is shown by the stream.
LEMMA PublishingShows ==
  ASSUME LinkInv, NEW f \in offered, Published(f), UNCHANGED senderVars
  PROVE  Stream!RSNext
<1> USE DEF LinkInv, StreamInv
<1>1. offered' = offered
  BY DEF senderVars
<1>2. PICK c : c = CloudOf(f)
  OBVIOUS
<1>3. c \in OfferedWithSession
  BY <1>2, OfferedClouds
<1>4. /\ c.session = SessionOf(f) /\ c.raster_frame_id = f.raster_frame_id
      /\ c.timestamp = f.timestamp /\ c.points = f.points
  BY <1>2 DEF CloudOf
<1>5. c \in WholeRasters
  <2>1. f = Raster(SessionOf(f), f.raster_frame_id) /\ SessionOf(f) \in Sessions
        /\ f.raster_frame_id \in 1..(MaxRecords \div Points)
    BY OfferedFacts
  <2>2. c = WholeRaster(SessionOf(f), f.raster_frame_id)
    BY <1>2, <2>1 DEF CloudOf, Raster, WholeRaster
  <2> QED
    BY <2>1, <2>2 DEF WholeRasters
<1>6. OfferedWithSession' = OfferedWithSession
  BY <1>1 DEF OfferedWithSession
<1>7. Stream!Show(c)
  BY <1>2, <1>3, <1>4, <1>6 DEF Stream!Show, Published
<1> QED
  BY <1>5, <1>7 DEF Stream!RSNext

\* Every step of the link is a step of the stream, or none.
LEMMA StreamSimulates == LinkInv /\ [Next]_vars => [Stream!RSNext]_(Stream!rsVars)
<1> SUFFICES ASSUME LinkInv, [Next]_vars PROVE [Stream!RSNext]_(Stream!rsVars)
  OBVIOUS
<1>1. ASSUME UNCHANGED <<offered, newest, cloud>> PROVE [Stream!RSNext]_(Stream!rsVars)
  BY <1>1 DEF Stream!rsVars, OfferedWithSession
<1>2. CASE SenderNext /\ UNCHANGED receiverVars
  <2>1. CASE EnqueueCompletes
    BY <1>2, <2>1, CompletingOffers
  <2>2. CASE ~EnqueueCompletes
    <3>1. UNCHANGED <<offered, newest, cloud>>
      BY <1>2, <2>2 DEF SenderNext, Start, RequestStop, Join, Enqueue, EnqueueIgnored,
         EnqueueUnfinished, WorkerStep, TakeFrame, WorkerLeaves, SendPacket, SendFails, FrameSent,
         receiverVars
    <3> QED
      BY <1>1, <3>1
  <2> QED
    BY <2>1, <2>2
<1>3. CASE Deliver
  <2>1. UNCHANGED senderVars
    BY <1>3 DEF Deliver
  <2>2. CASE Quiet
    <3>1. UNCHANGED <<offered, newest, cloud>>
      BY <2>1, <2>2 DEF Quiet, senderVars
    <3> QED
      BY <1>1, <3>1
  <2>3. CASE \E f \in offered : Published(f)
    BY <2>1, <2>3, PublishingShows
  <2> QED
    BY <1>3, <2>2, <2>3, Delivering
<1>4. CASE Idle /\ UNCHANGED senderVars
  <2>1. UNCHANGED <<offered, newest, cloud>>
    BY <1>4 DEF Idle, Quiet, senderVars
  <2> QED
    BY <1>1, <2>1
<1>5. CASE Tick
  <2>1. UNCHANGED <<offered, newest, cloud>>
    BY <1>5 DEF Tick, Age
  <2> QED
    BY <1>1, <2>1
<1>6. CASE UNCHANGED vars
  <2>1. UNCHANGED <<offered, newest, cloud>>
    BY <1>6 DEF vars, senderVars, receiverVars
  <2> QED
    BY <1>1, <2>1
<1> QED
  BY <1>2, <1>3, <1>4, <1>5, <1>6 DEF Next

\* Whatever the network loses, duplicates or reorders within MaxDelay, what the receiver
\* publishes is a raster the sender completed, whole, and newer than all it published of
\* that session (enqueue, encodeFrame, FrameAssembler::addAt, publish).
THEOREM LinkRefinesStream == Spec => RefinesRasterStream
<1> QED
  BY StreamStarts, StreamSimulates, StreamInvariant, PTL
     DEF Spec, RefinesRasterStream, Stream!RSSpec

-----------------------------------------------------------------------------
(* Types.                                                                  *)

\* What the invariant leaves open: the states of the two threads, and the bound on the
\* frames under assembly.
Kinds ==
  /\ caller \in {"off", "on", "stopping"} /\ worker \in {"off", "waiting", "sending"}
  /\ policy \in Policies /\ accepting \in BOOLEAN

Inflight == IsFiniteSet(frames_) /\ Cardinality(frames_) <= MaxInflightFrames

\* A frame finds room, by eviction if need be.
LEMMA RoomFor ==
  ASSUME Inflight, NEW p, NEW at \in Places(p)
  PROVE  IsFiniteSet(at.rest) /\ Cardinality(at.rest) + 1 <= MaxInflightFrames
<1>0. MaxInflightFrames \in Nat \ {0}
  BY ReceiverAssumption
<1>1. IsFiniteSet(frames_) /\ Cardinality(frames_) \in Nat
  BY FS_CardinalityType DEF Inflight
<1>2. Others(p) \subseteq frames_ /\ Existing(p) \subseteq frames_
      /\ Existing(p) \cap Others(p) = {}
  BY DEF Others, Existing, Fresh
<1>3. IsFiniteSet(Others(p)) /\ Cardinality(Others(p)) \in Nat
      /\ Cardinality(Others(p)) <= Cardinality(frames_)
  BY <1>1, <1>2, FS_Subset, FS_CardinalityType
<1>4. CASE Existing(p) # {}
  <2>1. PICK h \in Existing(p) : at = [partial |-> h, rest |-> Others(p)]
    BY <1>4 DEF Places
  <2>2. Others(p) \cup {h} \subseteq frames_ /\ h \notin Others(p)
    BY <1>2
  <2>3. Cardinality(Others(p) \cup {h}) = Cardinality(Others(p)) + 1
    BY <1>3, <2>2, FS_AddElement
  <2>4. Cardinality(Others(p) \cup {h}) <= Cardinality(frames_)
    BY <1>1, <2>2, FS_Subset
  <2>5. at.rest = Others(p)
    BY <2>1
  <2>6. Cardinality(Others(p)) + 1 <= MaxInflightFrames
    BY <1>0, <1>1, <1>3, <2>3, <2>4 DEF Inflight
  <2> QED
    BY <1>3, <2>5, <2>6
<1>5. CASE Existing(p) = {}
  <2>1. PICK fs \in AfterEviction(Others(p)) : at = [partial |-> New(p), rest |-> fs]
    BY <1>5 DEF Places
  <2>2. at.rest = fs
    BY <2>1
  <2>3. CASE Cardinality(Others(p)) < MaxInflightFrames
    <3>1. fs = Others(p)
      BY <2>3 DEF AfterEviction
    <3> QED
      BY <1>0, <1>3, <2>2, <2>3, <3>1
  <2>4. CASE ~(Cardinality(Others(p)) < MaxInflightFrames)
    <3>1. PICK h \in Others(p) : fs = Others(p) \ {h}
      BY <2>4 DEF AfterEviction
    <3>2. /\ IsFiniteSet(Others(p) \ {h})
          /\ Cardinality(Others(p) \ {h}) = Cardinality(Others(p)) - 1
      BY <1>3, FS_RemoveElement
    <3> QED
      BY <1>0, <1>1, <1>3, <2>2, <3>1, <3>2 DEF Inflight
  <2> QED
    BY <2>3, <2>4
<1> QED
  BY <1>4, <1>5

\* No more than max_inflight_frames are under assembly (evictOldestIfFull).
LEMMA InflightStep == Inflight /\ [Next]_vars => Inflight'
<1> SUFFICES ASSUME Inflight, [Next]_vars PROVE Inflight'
  OBVIOUS
<1>0. MaxInflightFrames \in Nat \ {0} /\ IsFiniteSet(frames_) /\ Cardinality(frames_) \in Nat
  BY ReceiverAssumption, FS_CardinalityType DEF Inflight
<1>1. CASE UNCHANGED frames_
  BY <1>1 DEF Inflight
<1>2. CASE Deliver
  <2>1. PICK d \in net : Collect(d.packet) \/ Complete(d.packet)
    BY <1>2 DEF Deliver
  <2>2. PICK at \in Places(d.packet) :
          frames_' = at.rest \/ \E after : frames_' = at.rest \cup {after}
    BY <2>1 DEF Collect, Complete
  <2>3. IsFiniteSet(at.rest) /\ Cardinality(at.rest) + 1 <= MaxInflightFrames
    BY RoomFor
  <2>4. Cardinality(at.rest) \in Nat
    BY <2>3, FS_CardinalityType
  <2>5. CASE frames_' = at.rest
    BY <1>0, <2>3, <2>4, <2>5 DEF Inflight
  <2>6. CASE \E after : frames_' = at.rest \cup {after}
    <3>1. PICK after : frames_' = at.rest \cup {after}
      BY <2>6
    <3>4. PICK rest : rest = at.rest
      OBVIOUS
    <3>5. /\ IsFiniteSet(rest \cup {after})
          /\ Cardinality(rest \cup {after})
               = IF after \in rest THEN Cardinality(rest) ELSE Cardinality(rest) + 1
      BY <2>3, <3>4, FS_AddElement
    <3>2. /\ IsFiniteSet(at.rest \cup {after})
          /\ Cardinality(at.rest \cup {after}) <= Cardinality(at.rest) + 1
      BY <2>4, <3>4, <3>5
    <3>3. Cardinality(at.rest \cup {after}) \in Nat
      BY <3>2, FS_CardinalityType
    <3> QED
      BY <1>0, <2>3, <2>4, <3>1, <3>2, <3>3 DEF Inflight
  <2> QED
    BY <2>2, <2>5, <2>6
<1>3. CASE Idle
  <2>1. frames_' \subseteq frames_
    BY <1>3 DEF Idle, Fresh
  <2>2. IsFiniteSet(frames_') /\ Cardinality(frames_') <= Cardinality(frames_)
        /\ Cardinality(frames_') \in Nat
    BY <1>0, <2>1, FS_Subset, FS_CardinalityType
  <2> QED
    BY <1>0, <2>2 DEF Inflight
<1>4. CASE Tick
  <2> DEFINE older == [f \in frames_ |-> [f EXCEPT !.age = Least(@ + 1, AssemblyTimeout)]]
  <2>1. frames_' = {older[f] : f \in frames_}
    BY <1>4 DEF Tick, Age
  <2>2. older \in Surjection(frames_, frames_')
    <3>1. DOMAIN older = frames_ /\ older = [f \in frames_ |-> older[f]]
      OBVIOUS
    <3> HIDE DEF older
    <3> QED
      BY <2>1, <3>1 DEF Surjection
  <2>3. IsFiniteSet(frames_') /\ Cardinality(frames_') <= Cardinality(frames_)
    <3> HIDE DEF older
    <3> QED
      BY <1>0, <2>2, FS_Surjection
  <2>4. Cardinality(frames_') \in Nat
    BY <2>3, FS_CardinalityType
  <2> QED
    BY <1>0, <2>3, <2>4 DEF Inflight
<1> QED
  BY <1>1, <1>2, <1>3, <1>4 DEF Next, vars, receiverVars

\* The two threads keep to their states.
LEMMA KindsStep == Kinds /\ [Next]_vars => Kinds'
BY DEF Kinds, Next, vars, senderVars, assemblyVars, SenderNext, Start, RequestStop, Join,
   Enqueue, EnqueueIgnored, EnqueueUnfinished, EnqueueCompletes, WorkerStep, TakeFrame,
   WorkerLeaves, SendPacket, SendFails, FrameSent, Deliver, Tick

\* No counter of the sender passes the number of records.
LEMMA CountersBounded ==
  ASSUME SenderInv, Bounds
  PROVE  status \in [DOMAIN Zero -> 0..MaxRecords]
<1>1. /\ status \in Counters /\ queue \in Seq(offered) /\ record \in Nat
      /\ Held \in Nat /\ Begun \in Nat /\ record <= MaxRecords /\ MaxRecords \in Nat
  BY WireAssumption DEF SenderInv, SenderTypes, Held, Begun, Bounds
<1>2. /\ status.completed + status.unfinished + Begun <= record
      /\ status.completed + status.unfinished
           = status.sent + status.errors + status.dropped + Len(queue) + Held
      /\ Len(queue) \in Nat
  BY <1>1 DEF SenderInv, RecordsSuffice, CountersAddUp
<1>3. /\ status.completed \in Nat /\ status.sent \in Nat /\ status.dropped \in Nat
      /\ status.errors \in Nat /\ status.unfinished \in Nat
  BY <1>1 DEF Counters
<1>4. /\ status.completed \in 0..MaxRecords /\ status.sent \in 0..MaxRecords
      /\ status.dropped \in 0..MaxRecords /\ status.errors \in 0..MaxRecords
      /\ status.unfinished \in 0..MaxRecords
  <2> DEFINE c == status.completed
             s == status.sent
             d == status.dropped
             e == status.errors
             u == status.unfinished
             q == Len(queue)
  <2> HIDE DEF c, s, d, e, u, q
  <2>1. /\ c \in Nat /\ s \in Nat /\ d \in Nat /\ e \in Nat /\ u \in Nat /\ q \in Nat
        /\ c + u + Begun <= record /\ c + u = s + e + d + q + Held
    BY <1>2, <1>3 DEF c, s, d, e, u, q
  <2>2. /\ c <= MaxRecords /\ s <= MaxRecords /\ d <= MaxRecords /\ e <= MaxRecords
        /\ u <= MaxRecords
    BY <1>1, <2>1
  <2> QED
    BY <1>1, <2>1, <2>2 DEF c, s, d, e, u
<1>5. status = [completed |-> status.completed, sent |-> status.sent,
                dropped |-> status.dropped, errors |-> status.errors,
                unfinished |-> status.unfinished]
  BY <1>1 DEF Counters
<1> QED
  BY <1>4, <1>5 DEF Zero

\* The types follow.
LEMMA TypesHold ==
  ASSUME LinkInv, Kinds, Inflight
  PROVE  TypeOK
<1> USE DEF LinkInv, StreamInv
<1>1. SenderTypeOK
  <2>1. ASSUME NEW d \in net PROVE d.packet.timestamp \in Stamps
    <3>1. PICK f \in offered : \E i \in 1..SegmentCount(f) : d.packet = Packet(f, i)
      BY Arriving
    <3>2. /\ d.packet.timestamp = <<SessionOf(f), f.raster_frame_id * Points>>
          /\ SessionOf(f) \in Sessions
          /\ f.raster_frame_id \in 1..(MaxRecords \div Points)
      BY <3>1, PacketFacts, OfferedFacts
    <3>3. \A r \in 1..(MaxRecords \div Points) : r * Points \in 1..MaxRecords
      <4>1. SUFFICES ASSUME NEW r \in 1..(MaxRecords \div Points)
                     PROVE  r * Points \in 1..MaxRecords
        OBVIOUS
      <4>2. r \in Nat \ {0} /\ r <= MaxRecords \div Points
        BY RastersFit
      <4>3. r * Points \in Nat /\ r * Points <= MaxRecords
        BY <4>2, RastersFit
      <4>4. Points \in Nat \ {0} /\ 1 * Points = Points /\ 1 * Points <= r * Points
        BY <4>2, WireAssumption, ProductsGrow
      <4> QED
        BY <4>3, <4>4, WireAssumption
    <3> QED
      BY <3>2, <3>3 DEF Stamps
  <2> QED
    BY <2>1, CountersBounded DEF SenderTypeOK, Kinds, Bounds, InPlace, SenderInv
<1>2. ReceiverTypeOK
  <2>1. \A g \in frames_ : /\ g.age \in 0..AssemblyTimeout
                           /\ DOMAIN g.segments \subseteq 1..g.segment_count
                           /\ DOMAIN g.segments # {} /\ ~IsComplete(g)
    <3>1. SUFFICES ASSUME NEW g \in frames_
                   PROVE  /\ g.age \in 0..AssemblyTimeout
                          /\ DOMAIN g.segments \subseteq 1..g.segment_count
      BY DEF Partial
    <3>2. PICK f \in offered : PartOf(g, f)
      BY DEF Partial
    <3>3. g.segment_count = SegmentCount(f)
      BY <3>2 DEF PartOf
    <3> QED
      BY <3>2, <3>3 DEF PartOf
  <2>2. \A s \in Sessions : newest[s] \in 0..RasterOf(MaxRecords)
    <3>1. SUFFICES ASSUME NEW s \in Sessions PROVE newest[s] \in 0..RasterOf(MaxRecords)
      OBVIOUS
    <3>2. newest[s] \in Nat /\ s \in Nat /\ RasterOf(MaxRecords) \in Nat
      <4>1. MaxRecords \in Nat \ {0} /\ \A k \in Sessions : k \in Nat
        BY WireAssumption DEF Sessions
      <4> QED
        BY <4>1, Position DEF Shown
    <3>3. CASE newest[s] # 0
      <4>1. PICK f \in offered : f = Raster(s, newest[s])
        BY <3>3 DEF Shown
      <4>2. f.raster_frame_id = newest[s]
        BY <3>2, <3>3, <4>1, RasterFacts
      <4>3. newest[s] <= MaxRecords \div Points
        <5>1. newest[s] \in 1..(MaxRecords \div Points)
          BY <4>2, OfferedFacts
        <5> QED
          BY <5>1, RastersFit
      <4>4. newest[s] <= RasterOf(MaxRecords)
        BY <3>2, <4>3, RastersFit
      <4> QED
        BY <3>2, <4>4
    <3> QED
      BY <3>2, <3>3
  <2>3. newest \in [Sessions -> 0..RasterOf(MaxRecords)]
    BY <2>2 DEF Shown
  <2> QED
    BY <2>1, <2>3 DEF ReceiverTypeOK, Inflight, Timely
<1> QED
  BY <1>1, <1>2 DEF TypeOK

\* The types of sender and receiver: bounded counters, a queue within its capacity,
\* datagrams with a time stamp that was given, no more partial frames than allowed, none
\* of them complete or empty.
THEOREM LinkTypes == Spec => []TypeOK
<1>1. Init => Kinds /\ Inflight
  <2>1. IsFiniteSet({}) /\ Cardinality({}) <= MaxInflightFrames
    BY FS_EmptySet, ReceiverAssumption
  <2>2. Init => Kinds
    BY DEF Init, SenderInit, Kinds
  <2>3. Init => frames_ = {}
    BY DEF Init, ReceiverInit
  <2> QED
    BY <2>1, <2>2, <2>3 DEF Inflight
<1>2. Kinds /\ Inflight /\ [Next]_vars => Kinds' /\ Inflight'
  BY KindsStep, InflightStep
<1>3. LinkInv /\ Kinds /\ Inflight => TypeOK
  BY TypesHold
<1> QED
  BY <1>1, <1>2, <1>3, StreamInvariant, PTL DEF Spec
=============================================================================
