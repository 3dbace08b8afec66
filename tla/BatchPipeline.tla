---------------------------- MODULE BatchPipeline ----------------------------
(***************************************************************************)
(* What ProcessingService promises its callers, without threads, queues or *)
(* configuration: while it is open it accepts numbered batches, it         *)
(* delivers them once each and in order, at most Bound of them are         *)
(* undelivered, and it finishes with batches undelivered only after it     *)
(* abandoned them (a discarding stop or a failure). The abstraction of     *)
(* src/processing/processing_service.h.                                    *)
(***************************************************************************)
EXTENDS Integers

CONSTANT Bound

VARIABLES open, live, abandoned, accepted, delivered

bpVars == <<open, live, abandoned, accepted, delivered>>

BPInit ==
  /\ open = FALSE /\ live = FALSE /\ abandoned = FALSE
  /\ accepted = 0 /\ delivered = 0

Open ==
  /\ ~live
  /\ open' = TRUE /\ live' = TRUE /\ abandoned' = FALSE
  /\ accepted' = 0 /\ delivered' = 0

Accept ==
  /\ open /\ accepted - delivered < Bound
  /\ accepted' = accepted + 1
  /\ UNCHANGED <<open, live, abandoned, delivered>>

Deliver ==
  /\ live /\ delivered < accepted
  /\ delivered' = delivered + 1
  /\ UNCHANGED <<open, live, abandoned, accepted>>

\* Closing, with or without abandoning what is undelivered.
Close ==
  /\ live
  /\ open' = FALSE
  /\ abandoned => abandoned'
  /\ abandoned' \in BOOLEAN
  /\ UNCHANGED <<live, accepted, delivered>>

Finish ==
  /\ live
  /\ live' = FALSE /\ open' = FALSE
  /\ abandoned => abandoned'
  /\ abandoned' \in BOOLEAN
  /\ abandoned' \/ delivered = accepted
  /\ UNCHANGED <<accepted, delivered>>

BPNext == Open \/ Accept \/ Deliver \/ Close \/ Finish

BPSpec == BPInit /\ [][BPNext]_bpVars
=============================================================================
