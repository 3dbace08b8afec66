-------------------------------- MODULE UdpWire --------------------------------
(***************************************************************************)
(* Rasters and the datagrams that carry them: UdpPointProtocol of          *)
(* src/src/network/udp_point_protocol.cpp. A point is named by the session *)
(* and the number of the record it was computed from, which also serves as *)
(* the time stamp of a raster: that of the last record filled in (a replay *)
(* repeats recorded time stamps; restoring one turns UDP off). The         *)
(* configuration revision, a function of that record, is left out, and so  *)
(* is the byte layout, which decodePacket inverts.                         *)
(***************************************************************************)
EXTENDS Integers, Sequences

CONSTANTS
  Points,            \* frame_width * frame_height
  PacketPointCount,  \* udp.packet_point_count
  Blank,             \* records whose point is not valid
  MaxRecords,        \* bound: records of one session
  MaxSessions        \* bound: sessions

ASSUME WireAssumption ==
  /\ {Points, PacketPointCount, MaxSessions, MaxRecords} \subseteq Nat \ {0}
  /\ Blank \subseteq 1..MaxRecords

Sessions == 1..MaxSessions
Stamps == Sessions \X (1..MaxRecords)
IsValid(point) == point[2] \notin Blank

\* raster_frame_id of a record, one-based, and its offset in the raster.
RasterOf(record) == (record - 1) \div Points + 1
OffsetOf(record) == ((record - 1) % Points) + 1

\* The valid points of a raster, in order.
ValidOf(raster) ==
  LET upTo[o \in 0..Points] ==
        IF o = 0 THEN <<>>
        ELSE IF IsValid(raster[o]) THEN Append(upTo[o - 1], raster[o]) ELSE upTo[o - 1]
  IN upTo[Points]

Least(a, b) == IF a <= b THEN a ELSE b
Most(a, b) == IF a >= b THEN a ELSE b

SegmentCount(frame) ==
  Most(1, (Len(frame.points) + PacketPointCount - 1) \div PacketPointCount)

\* encodeFrame, for the segment of the given index (one-based here).
Packet(frame, index) ==
  [raster_frame_id |-> frame.raster_frame_id,
   timestamp |-> frame.timestamp,
   segment_count |-> SegmentCount(frame),
   segment_index |-> index,
   points |-> SubSeq(frame.points, (index - 1) * PacketPointCount + 1,
                     Least(index * PacketPointCount, Len(frame.points)))]
=============================================================================
