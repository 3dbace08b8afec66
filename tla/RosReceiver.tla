------------------------------ MODULE RosReceiver ------------------------------
(***************************************************************************)
(* The receiver of src/Ros_project/src/fmcw_lidar_rviz: FrameAssembler     *)
(* (udp_point_protocol.cpp) collects the segments of a raster, and the     *)
(* node (udp_pointcloud_receiver_node.cpp) publishes completed rasters     *)
(* unless they are older than the last one. It runs one thread. The checks *)
(* of a datagram's layout and of max_frame_points are left out, and so is  *)
(* the limit on segments: a raster in more than max_segments_per_frame     *)
(* datagrams, which a small udp.packet_point_count makes, is never shown.  *)
(* There are no statistics. Ages are counted in ticks of the clock and     *)
(* kept at the timeout they are compared with.                             *)
(***************************************************************************)
EXTENDS UdpWire, FiniteSets

CONSTANTS
  AssemblyTimeout,   \* assembly_timeout
  ResetTimeout,      \* frame_reset_timeout
  MaxInflightFrames  \* max_inflight_frames

ASSUME ReceiverAssumption ==
  {AssemblyTimeout, ResetTimeout, MaxInflightFrames} \subseteq Nat \ {0}

VARIABLES
  frames_,        \* frames being assembled: segment index -> points, for those present
  last_frame_id,  \* 0 before the first
  since_last,     \* age of last_publish_time_
  cloud,          \* the last cloud published, as a set of at most one
  newest          \* session -> newest raster published. History.

receiverVars == <<frames_, last_frame_id, since_last, cloud, newest>>

ReceiverInit ==
  /\ frames_ = {} /\ last_frame_id = 0 /\ since_last = 0
  /\ cloud = {}
  /\ newest = [s \in Sessions |-> 0]

\* expireAt.
Fresh == {f \in frames_ : f.age < AssemblyTimeout}

\* Mutant: rasters of two sessions are told apart by their number only.
ConsistentById(f, p) == f.segment_count = p.segment_count

\* The partial frame a packet belongs to; another of the same id is inconsistent.
Consistent(f, p) == f.timestamp = p.timestamp /\ f.segment_count = p.segment_count
Existing(p) == {f \in Fresh : f.raster_frame_id = p.raster_frame_id /\ Consistent(f, p)}
Others(p) == {f \in Fresh : f.raster_frame_id # p.raster_frame_id}

\* evictOldestIfFull: what it may leave; frames of one age are in no order.
AfterEviction(fs) ==
  IF Cardinality(fs) < MaxInflightFrames THEN {fs}
  ELSE {fs \ {f} : f \in {g \in fs : \A h \in fs : h.age <= g.age}}

New(p) == [raster_frame_id |-> p.raster_frame_id, timestamp |-> p.timestamp,
           segment_count |-> p.segment_count, segments |-> <<>>, age |-> 0]

\* The partial frame and the other frames a packet is added to.
Places(p) ==
  IF Existing(p) # {} THEN {[partial |-> f, rest |-> Others(p)] : f \in Existing(p)}
  ELSE {[partial |-> New(p), rest |-> fs] : fs \in AfterEviction(Others(p))}

With(f, p) ==
  [f EXCEPT !.age = 0,
            !.segments = [i \in DOMAIN f.segments \cup {p.segment_index} |->
                            IF i = p.segment_index THEN p.points ELSE f.segments[i]]]

IsComplete(f) == DOMAIN f.segments = 1..f.segment_count

\* The points of all segments, in the order of their indices.
Joined(f) ==
  LET upTo[i \in 0..f.segment_count] ==
        IF i = 0 THEN <<>> ELSE upTo[i - 1] \o f.segments[i]
  IN upTo[f.segment_count]

\* Mutant: a frame is stale only if it is the last one again.
StaleRepeat(f) == f.raster_frame_id = last_frame_id /\ since_last < ResetTimeout

Stale(f) == f.raster_frame_id <= last_frame_id /\ since_last < ResetTimeout

\* publish.
Publish(f) ==
  /\ cloud' = {[session |-> f.timestamp[1], raster_frame_id |-> f.raster_frame_id,
                timestamp |-> f.timestamp, points |-> Joined(f)]}
  /\ last_frame_id' = f.raster_frame_id
  /\ since_last' = 0
  /\ newest' = [newest EXCEPT ![f.timestamp[1]] = f.raster_frame_id]

Quiet == UNCHANGED <<last_frame_id, since_last, cloud, newest>>

\* addAt with a segment that leaves its frame incomplete, or that is there already.
Collect(p) ==
  \E at \in Places(p) :
    LET present == p.segment_index \in DOMAIN at.partial.segments
        after == IF present THEN [at.partial EXCEPT !.age = 0] ELSE With(at.partial, p)
    IN /\ present \/ ~IsComplete(after)
       /\ frames_' = at.rest \cup {after}
       /\ Quiet

\* addAt with the last segment of a frame, which is published or stale.
Complete(p) ==
  \E at \in Places(p) :
    LET after == With(at.partial, p) IN
    /\ p.segment_index \notin DOMAIN at.partial.segments
    /\ IsComplete(after)
    /\ frames_' = at.rest
    /\ \/ Stale(after) /\ Quiet
       \/ ~Stale(after) /\ Publish(after)

\* The receive timed out.
Idle ==
  /\ Fresh # frames_
  /\ frames_' = Fresh
  /\ Quiet

\* Time passes.
Age ==
  /\ frames_' = {[f EXCEPT !.age = Least(@ + 1, AssemblyTimeout)] : f \in frames_}
  /\ since_last' = IF last_frame_id = 0 THEN 0 ELSE Least(since_last + 1, ResetTimeout)
  /\ UNCHANGED <<last_frame_id, cloud, newest>>

-----------------------------------------------------------------------------
ReceiverTypeOK ==
  /\ Cardinality(frames_) <= MaxInflightFrames
  /\ \A f \in frames_ : /\ f.age \in 0..AssemblyTimeout
                        /\ DOMAIN f.segments \subseteq 1..f.segment_count
                        /\ DOMAIN f.segments # {} /\ ~IsComplete(f)
  /\ last_frame_id \in Nat /\ since_last \in 0..ResetTimeout
  /\ newest \in [Sessions -> 0..RasterOf(MaxRecords)]
=============================================================================
