---------------------------- MODULE MCProcessing ----------------------------
(***************************************************************************)
(* Model of ProcessingService for TLC. One run explores both workers: the  *)
(* backend is chosen once, workerLoopAsync (CUDA, InFlightMax submissions) *)
(* or workerLoopSync (FFTW, one batch at a time), and both share every     *)
(* definition but the constants Async and InFlightMax.                     *)
(***************************************************************************)
EXTENDS ProcessingService

VARIABLE backend

Fftw == INSTANCE ProcessingService WITH Async <- FALSE, InFlightMax <- 1

MCInit == Init /\ backend \in {"cuda", "fftw"}

MCNext ==
  /\ \/ backend = "cuda" /\ Next
     \/ backend = "fftw" /\ Fftw!Next
  /\ UNCHANGED backend

\* The worker thread is scheduled, as in FairSpec.
MCSpec ==
  /\ MCInit /\ [][MCNext]_<<vars, backend>>
  /\ WF_vars(backend = "cuda" /\ Worker)
  /\ WF_vars(backend = "fftw" /\ Fftw!Worker)
=============================================================================
