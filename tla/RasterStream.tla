----------------------------- MODULE RasterStream -----------------------------
(***************************************************************************)
(* What the UDP link promises a viewer, without queues, datagrams or       *)
(* clocks: clouds are whole rasters the sender completed, and within one   *)
(* sending session they only get newer. Any of them may be missing.        *)
(***************************************************************************)
EXTENDS Integers

CONSTANTS
  Sessions,  \* sending sessions
  Frames     \* whole rasters, each with its session and its raster_frame_id

VARIABLES offered, newest, cloud

rsVars == <<offered, newest, cloud>>

RSInit ==
  /\ offered = {}
  /\ newest = [s \in Sessions |-> 0]
  /\ cloud = {}

Offer(f) ==
  /\ \A g \in offered : g.session = f.session => g.raster_frame_id < f.raster_frame_id
  /\ offered' = offered \cup {f}
  /\ UNCHANGED <<newest, cloud>>

Show(f) ==
  /\ f \in offered
  /\ f.raster_frame_id > newest[f.session]
  /\ cloud' = {f}
  /\ newest' = [newest EXCEPT ![f.session] = f.raster_frame_id]
  /\ UNCHANGED offered

RSNext == \E f \in Frames : Offer(f) \/ Show(f)

RSSpec == RSInit /\ [][RSNext]_rsVars
=============================================================================
