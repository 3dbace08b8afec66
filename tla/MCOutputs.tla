------------------------------ MODULE MCOutputs ------------------------------
(***************************************************************************)
(* Model for TLC of what becomes of a result on the host: it is recorded   *)
(* (AsyncStorage) and shown (UiDispatch). The two share nothing, so one    *)
(* run explores either of them from a common initial state.                *)
(***************************************************************************)
EXTENDS AsyncStorage, UiDispatch

VARIABLE output

outputVars == <<vars, displayVars, output>>

OutputInit == Init /\ DisplayInit /\ output \in {"file", "display"}

OutputNext ==
  /\ \/ output = "file" /\ Next /\ UNCHANGED displayVars
     \/ output = "display" /\ DisplayNext /\ UNCHANGED vars
  /\ UNCHANGED output

\* The fairness of AsyncStorage's FairSpec and of DisplaySpec.
OutputSpec ==
  /\ OutputInit /\ [][OutputNext]_outputVars
  /\ \A s \in Streams : WF_vars(output = "file" /\ Worker(s))
  /\ WF_displayVars(output = "display" /\ RuntimeThread)
  /\ WF_displayVars(output = "display" /\ UiThread)

OutputTypeOK == TypeOK /\ DisplayTypeOK
=============================================================================
