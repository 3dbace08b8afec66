------------------------------- MODULE MCSerial -------------------------------
(***************************************************************************)
(* Model of the two serial devices for TLC. Scanner and amplifier have     *)
(* ports, controllers and answers of their own and share nothing, so one   *)
(* run explores either of them from a common initial state.                *)
(***************************************************************************)
EXTENDS McuLink, EdfaLink

VARIABLE device

serialVars == <<vars, edfaVars, device>>

SerialInit == Init /\ EdfaInit /\ device \in {"scanner", "amplifier"}

SerialNext ==
  /\ \/ device = "scanner" /\ Next /\ UNCHANGED edfaVars
     \/ device = "amplifier" /\ EdfaNext /\ UNCHANGED vars
  /\ UNCHANGED device

\* The fairness of McuLink; nothing is said to happen in EdfaLink.
SerialSpec ==
  /\ SerialInit /\ [][SerialNext]_serialVars
  /\ WF_vars(device = "scanner" /\ CallGoesOn)
  /\ WF_vars(device = "scanner" /\ MainLoop /\ UNCHANGED controller)
  /\ WF_vars(device = "scanner" /\ TickStops /\ UNCHANGED controller)

SerialTypeOK == TypeOK /\ EdfaTypeOK
=============================================================================
