-------------------------------- MODULE McuLink --------------------------------
(***************************************************************************)
(* McuSerialController of src/drivers/mcu and the firmware it talks to.    *)
(* One thread calls the controller, whose mutex is held for a whole call.  *)
(* A write returns when the bytes are out (tcdrain), so writing a token    *)
(* and receiving it are one step of host and UART interrupt together; an   *)
(* answer may be read, be late for its timeout, or be lost.                *)
(***************************************************************************)
EXTENDS McuFirmware

CONSTANTS
  Sizes,    \* points of the waveforms uploaded
  MaxStrays, \* bound: no new call, and no late answer, once more lines went astray
  MaxCalls  \* bound: calls of the controller

ASSUME LinkAssumption == Sizes \subseteq Nat \ {0} /\ MaxCalls \in Nat

VARIABLES
  connected, ready, scanning, \* status_.device.connected, .ready; scan_enabled (and .running)
  points,    \* status_.waveform_points
  waveform,  \* points of loaded_waveform_, 0 when null
  call,      \* the call that runs
  command,   \* what it sends
  phase,     \* "idle", "body", "lf" (in write), "await" (in readLine)
  attempt,   \* of sendAndExpect
  size, sent, \* points to upload, points written
  stopped,   \* history: a stop was confirmed and no START written since
  calls

status == <<connected, ready, scanning, points, waveform>>
sending == <<call, command, phase, attempt, size, sent>>
controller == <<status, sending, stopped, calls>>
vars == <<firmware, wire, controller>>

\* STOP stands for stopScan and emergencyStop, which differ when they fail.
Calls == {"none", "UPLOAD", "START", "STOP"}

Init ==
  /\ FirmwareInit /\ WireInit
  /\ connected = FALSE /\ ready = FALSE /\ scanning = FALSE /\ points = 0 /\ waveform = 0
  /\ call = "none" /\ command = "CLR" /\ phase = "idle" /\ attempt = 0
  /\ size = 0 /\ sent = 0 /\ stopped = FALSE /\ calls = 0
-----------------------------------------------------------------------------
(* Calls that send nothing: configure, connect, disconnect.                *)

MayCall == calls < MaxCalls /\ strays <= MaxStrays

Quick ==
  /\ phase = "idle" /\ MayCall /\ calls' = calls + 1
  /\ UNCHANGED <<sending, stopped, firmware, faults>>

\* The runtime disconnects first. A waveform of the same contract is kept.
Configure ==
  /\ Quick /\ ~port /\ ~scanning
  /\ connected' = FALSE /\ ready' = FALSE
  /\ \/ UNCHANGED <<points, waveform>>
     \/ points' = 0 /\ waveform' = 0
  /\ UNCHANGED <<scanning, port, toHost, strays>>

Connect ==
  /\ Quick /\ ~port
  /\ port' = TRUE /\ toHost' = <<>>
  /\ connected' = TRUE /\ ready' = (waveform # 0 /\ points > 0)
  /\ UNCHANGED <<scanning, points, waveform, strays>>

\* AcquisitionSession stops a running scan before it disconnects. A scan whose stop
\* was not confirmed is forgotten all the same.
Disconnect ==
  /\ Quick /\ port /\ (scanning => ~ready)
  /\ port' = FALSE /\ toHost' = <<>>
  /\ connected' = FALSE /\ ready' = FALSE /\ scanning' = FALSE
  /\ UNCHANGED <<points, waveform, strays>>
-----------------------------------------------------------------------------
(* uploadWaveform, startScan, stopScan, emergencyStop.                     *)

Sends(c) == command' = c /\ phase' = "body" /\ attempt' = 0

Begin(c) ==
  /\ phase = "idle" /\ MayCall /\ calls' = calls + 1
  /\ call' = c
  /\ UNCHANGED <<firmware, wire, connected, scanning, waveform>>

BeginUpload(n) ==
  /\ Begin("UPLOAD") /\ port /\ ~scanning
  /\ Sends("CLR") /\ size' = n /\ sent' = 0
  /\ ready' = FALSE /\ points' = 0
  /\ UNCHANGED stopped

BeginStart ==
  /\ Begin("START") /\ connected /\ ready /\ points # 0 /\ ~scanning
  /\ Sends("START") /\ stopped' = FALSE
  /\ UNCHANGED <<ready, points, size, sent>>

BeginStop ==
  /\ Begin("STOP") /\ port
  /\ Sends("STOP")
  /\ UNCHANGED <<ready, points, size, sent, stopped>>

Forget == ready' = FALSE /\ points' = 0 /\ waveform' = 0

\* The call returns and its locals are gone.
Finish ==
  /\ phase' = "idle" /\ call' = "none" /\ command' = "CLR" /\ attempt' = 0
  /\ size' = 0 /\ sent' = 0

\* An upload refused before a byte is sent: there is no port, the scan is on, or the
\* waveform is not one (fail_upload). An emergency stop without a port does the same.
Refused ==
  /\ Quick /\ Forget
  /\ UNCHANGED <<connected, scanning, port, toHost, strays>>

\* What a call does when its command is not confirmed: fail_upload, stopScan
\* and emergencyStop, which closes the port. `rest' is left to be read.
GiveUp(rest) ==
  /\ Finish
  /\ \/ call = "UPLOAD" /\ Forget /\ toHost' = rest /\ UNCHANGED <<connected, scanning, port>>
     \/ call = "START" /\ toHost' = rest /\ UNCHANGED <<status, port>>
     \/ /\ call = "STOP" /\ toHost' = rest /\ ready' = FALSE
        /\ UNCHANGED <<connected, scanning, points, waveform, port>>
     \/ /\ call = "STOP" /\ toHost' = <<>> /\ Forget
        /\ connected' = FALSE /\ scanning' = FALSE /\ port' = FALSE

\* One round too many.
MoreAttemptsOffByOne == attempt <= Retries
MoreAttempts == attempt < Retries
\* A loop that does not count its rounds.
NextAttemptForgotten == attempt
NextAttempt == attempt + 1

\* The next round of sendAndExpect, if there is one.
Retry(rest) ==
  \/ /\ MoreAttempts /\ attempt' = NextAttempt /\ phase' = "body"
     /\ toHost' = rest /\ UNCHANGED <<call, command, size, sent, status, port>>
  \/ ~MoreAttempts /\ GiveUp(rest)

Kept == UNCHANGED <<stopped, calls>>

WriteBody ==
  /\ phase = "body" /\ phase' = "lf"
  /\ RxCplt(command)
  /\ UNCHANGED <<status, call, command, attempt, size, sent, wire>> /\ Kept

\* The line is out. A point has no answer: the next one follows, or LOAD_DONE.
WriteLf ==
  /\ phase = "lf" /\ RxCplt("LF")
  /\ \/ command # "DATA" /\ phase' = "await" /\ UNCHANGED <<command, attempt, sent>>
     \/ /\ command = "DATA" /\ sent' = sent + 1
        /\ Sends(IF sent' < size THEN "DATA" ELSE "LOAD_DONE")
  /\ UNCHANGED <<status, call, size, wire>> /\ Kept

\* A write fails before a byte is out, within the body, before the line feed or
\* after it (tcdrain), and nobody waits for the answer; a point is not written again.
WriteFails ==
  /\ Fault /\ phase \in {"body", "lf"}
  /\ \/ UNCHANGED firmware
     \/ phase = "body" /\ RxCplt(Cut(command))
     \/ phase = "lf" /\ RxCplt("LF")
  /\ IF command = "DATA" THEN GiveUp(toHost) ELSE Retry(toHost)
  /\ UNCHANGED strays /\ Kept

\* An answer is still to come, or arrives as the read gives up.
Late == toHost # <<>> \/ ring # <<>> \/ main = "start"

\* readLine drops what it has read of an unfinished line.
ReadTimesOut ==
  /\ phase = "await"
  /\ \/ Retry(toHost)
     \/ toHost # <<>> /\ Retry([toHost EXCEPT ![1] = Err])
  /\ Late => strays <= MaxStrays
  /\ IF Late \/ cmd # "" THEN Astray(1) ELSE UNCHANGED strays
  /\ UNCHANGED <<firmware, faults>> /\ Kept

\* Any acknowledgement will do.
ExpectedAnyAck(line) == line.code \notin {"ERR", "BOOT"}
Expected(line) == line.code = command

ReadOther ==
  /\ phase = "await" /\ toHost # <<>> /\ ~Expected(Head(toHost))
  /\ Retry(Tail(toHost))
  /\ UNCHANGED <<firmware, strays, faults>> /\ Kept

\* The acknowledgement of a command; a count that comes with it is recorded.
Confirmed(c) ==
  /\ phase = "await" /\ command = c /\ toHost # <<>> /\ Expected(Head(toHost))
  /\ toHost' = Tail(toHost)
  /\ UNCHANGED <<firmware, port, strays, faults, connected, calls>>
Count == Head(toHost).count

ConfirmedClear ==
  /\ Confirmed("CLR") /\ Sends("DATA")
  /\ UNCHANGED <<ready, scanning, points, waveform, call, size, sent, stopped>>

\* The count is not compared.
VerifiedNever(count) == TRUE
Verified(count) == count = size
ConfirmedLoad ==
  /\ Confirmed("LOAD_DONE") /\ Finish
  /\ \/ Verified(Count) /\ ready' = TRUE /\ points' = Count /\ waveform' = size
     \/ ~Verified(Count) /\ Forget
  /\ UNCHANGED <<scanning, stopped>>

ConfirmedStart ==
  /\ Confirmed("START") /\ Finish /\ scanning' = TRUE
  /\ UNCHANGED <<ready, points, waveform, stopped>>

ConfirmedStop ==
  /\ Confirmed("STOP") /\ Finish
  /\ scanning' = FALSE /\ points' = Count /\ ready' = (Count > 0)
  /\ stopped' = TRUE
  /\ UNCHANGED waveform
-----------------------------------------------------------------------------
NewCall ==
  \/ Configure \/ Connect \/ Disconnect \/ Refused
  \/ (\E n \in Sizes : BeginUpload(n)) \/ BeginStart \/ BeginStop

CallGoesOn ==
  \/ WriteBody \/ WriteLf \/ ReadOther \/ ReadTimesOut
  \/ ConfirmedClear \/ ConfirmedLoad \/ ConfirmedStart \/ ConfirmedStop

Mcu == (MainLoop \/ TickStops \/ FirmwareFaults) /\ UNCHANGED controller
AnswerLost == LoseAnswer /\ UNCHANGED <<firmware, controller>>

Next == NewCall \/ CallGoesOn \/ WriteFails \/ Mcu \/ AnswerLost

Spec == Init /\ [][Next]_vars

\* A call that was begun goes on (reads and writes have a timeout), the main
\* loop runs and TIM6 ticks. New calls and faults are owed by nobody.
FairSpec ==
  /\ Spec /\ WF_vars(CallGoesOn)
  /\ WF_vars(MainLoop /\ UNCHANGED controller)
  /\ WF_vars(TickStops /\ UNCHANGED controller)
-----------------------------------------------------------------------------
TypeOK ==
  /\ WireTypeOK /\ FirmwareTypeOK
  /\ connected \in BOOLEAN /\ ready \in BOOLEAN /\ scanning \in BOOLEAN
  /\ points \in 0..FrameBufLen /\ waveform \in Sizes \cup {0}
  /\ call \in Calls /\ command \in Bodies /\ phase \in {"idle", "body", "lf", "await"}
  /\ attempt \in 0..Retries /\ size \in Sizes \cup {0} /\ sent \in 0..size
  /\ stopped \in BOOLEAN /\ calls \in 0..MaxCalls

\* Answers can be told apart only by their order. As long as no more of them went
\* astray than a command has retries, and with the faults no more than one above,
\* a confirmation is about its own call:
Orderly == strays <= Retries /\ strays + faults <= Retries + 1

\* A controller that is ready knows how many points START would play, unless
\* the MCU lost its memory; then START is refused (uploadWaveform, stopScan).
ReadyMeansLoaded ==
  Orderly /\ ready => /\ points > 0
                      /\ loaded = points \/ (loaded = 0 /\ faults > 0)

\* After a confirmed stop the output stays off until START is written again
\* (stopScan, UARTCMD_ProcessLine).
StoppedMeansOff == Orderly /\ stopped => ~output /\ main # "start"

\* A scan the controller calls active runs, unless a fault ended it or a stop
\* failed (startScan).
ScanningMeansPlaying ==
  Orderly /\ faults = 0 /\ scanning /\ ready /\ phase = "idle" => output

\* A whole line STOP that came in while the output is on, or is about to be,
\* turns it off, though the ring overflows and its bytes are dropped, and though
\* a start in progress clears the request (UARTCMD_ObserveFastStop). It is claimed
\* within the bounds on faults and strays: no more than MaxFaults bytes, transfers or
\* power supplies fail, and no call begins after more than MaxStrays lines went astray.
StopHeardIsObeyed == stopHeard /\ output ~> ~output

\* Every call ends (sendAndExpect).
CallsEnd == phase # "idle" ~> phase = "idle"

\* The controller is ready only for a waveform whose upload it verified
\* (docs/device_protocols.md: no Ready when the count differs).
ReadyMeansVerified == ready => waveform # 0 /\ points = waveform
=============================================================================
