------------------------------ MODULE McuFirmware ------------------------------
(***************************************************************************)
(* The firmware of the scanner's MCU: uart_cmd.c and frame_player.c of     *)
(* src/firmware/mcu. Three contexts share its state:                       *)
(*   - the UART interrupt stores each byte in a ring and watches for the   *)
(*     line STOP (the fast stop);                                          *)
(*   - the main loop takes the ring apart into lines and runs them;        *)
(*   - the TIM6 interrupt plays one point per tick and obeys the fast stop.*)
(* A line is two tokens. The ring is large against every command but DATA: *)
(* it is full when it holds RingLines points.                              *)
(***************************************************************************)
EXTENDS McuWire, FiniteSets, Functions

CONSTANTS
  FrameBufLen, \* FRAME_BUF_LEN
  RingLines    \* points the receive ring has room for

ASSUME FirmwareAssumption == FrameBufLen \in Nat \ {0} /\ RingLines \in Nat \ {0}

VARIABLES
  ring,      \* g_rx_ring from g_rx_tail to g_rx_head
  overflow,  \* g_rx_overflow
  deaf,      \* g_rx_restart_required: no byte is received
  fast,      \* what the fast stop has seen of the line
  cmd,       \* g_cmd_buf: "" is empty
  main,      \* the main loop: "poll" and "drain" in UARTCMD_Process, "start"
             \* inside FramePlayer_Start
  stopReq,   \* g_stop_req
  player,    \* g_state
  loaded,    \* g_loaded_count
  output,    \* pin Enable, high while TIM6 runs
  stopHeard  \* history: a whole line STOP came in with the output on or about to be

uart == <<ring, overflow, deaf, fast>>
frames == <<stopReq, player, loaded, output>>
firmware == <<uart, cmd, main, frames, stopHeard>>

FirmwareInit ==
  /\ ring = <<>> /\ overflow = FALSE /\ deaf = FALSE /\ fast = ""
  /\ cmd = "" /\ main = "poll"
  /\ stopReq = FALSE /\ player = "IDLE" /\ loaded = 0 /\ output = FALSE
  /\ stopHeard = FALSE
-----------------------------------------------------------------------------
(* UARTCMD_RxCpltCallback and UARTCMD_ErrorCallback.                       *)

Points == Cardinality({i \in 1..Len(ring) : ring[i] = "DATA"})

\* A START the main loop has not answered.
StartAhead == main = "start" \/ "START" \in {cmd} \cup Range(ring)

\* UARTCMD_ObserveFastStop: a line feed after exactly STOP asks for the stop.
ObserveFastStop(token) ==
  /\ fast' = IF token = "LF" THEN "" ELSE Joined(fast, token)
  /\ LET whole == token = "LF" /\ fast = "STOP"
     IN /\ stopReq' = (stopReq \/ whole)
        /\ stopHeard' = (stopHeard \/ (whole /\ (output \/ StartAhead)))

\* The ring takes the token, the beginning of it, or nothing.
Store(token) ==
  \/ /\ Points < RingLines
     /\ ring' = Append(ring, token) /\ UNCHANGED overflow
  \/ /\ Points = RingLines - 1 /\ token = "DATA"
     /\ ring' = Append(ring, "CUT") /\ overflow' = TRUE
  \/ /\ Points >= RingLines
     /\ overflow' = TRUE /\ UNCHANGED ring

RxCplt(token) ==
  /\ \/ deaf /\ UNCHANGED <<ring, overflow, fast, stopReq, stopHeard>>
     \/ ~deaf /\ ObserveFastStop(token) /\ Store(token)
  /\ UNCHANGED <<deaf, cmd, main, player, loaded, output>>

\* Noise or an overrun stops reception until the main loop restarts it.
RxError ==
  /\ Fault /\ ~deaf /\ deaf' = TRUE
  /\ UNCHANGED <<ring, overflow, fast, cmd, main, frames, stopHeard, port, toHost, strays>>
-----------------------------------------------------------------------------
(* frame_player.c                                                          *)

\* FramePlayer_StopImmediate, after which no stop is owed.
StopImmediate ==
  /\ output' = FALSE /\ stopReq' = FALSE /\ stopHeard' = FALSE
  /\ player' = IF loaded > 0 THEN "READY" ELSE "IDLE"
  /\ UNCHANGED loaded

ResetBuffer ==
  /\ output' = FALSE /\ stopReq' = FALSE /\ stopHeard' = FALSE
  /\ player' = "IDLE" /\ loaded' = 0

MayLoad == player # "PLAYING" /\ loaded < FrameBufLen
LoadFrame ==
  /\ loaded' = loaded + 1 /\ player' = "READY"
  /\ UNCHANGED <<stopReq, output, stopHeard>>

\* FramePlayer_OnTimTick. Playing a point changes nothing that is modelled.
Tick == player = "PLAYING" /\ output
\* The tick does not look at g_stop_req.
ObeysStopNever == FALSE
ObeysStop == stopReq

TickStops ==
  /\ Tick /\ ObeysStop /\ StopImmediate
  /\ UNCHANGED <<uart, cmd, main, wire>>

\* SPI24_SendArray_Reg gives up.
TickFails ==
  /\ Fault /\ Tick /\ ~ObeysStop
  /\ output' = FALSE /\ stopReq' = FALSE /\ stopHeard' = FALSE /\ player' = "READY"
  /\ UNCHANGED <<uart, cmd, main, loaded, port, toHost, strays>>
-----------------------------------------------------------------------------
(* The main loop: UARTCMD_Process, UARTCMD_ProcessByte, UARTCMD_ProcessLine *)

\* Restart reception, drop everything after an overflow, then drain the ring.
Process ==
  /\ main = "poll" /\ (deaf \/ overflow \/ ring # <<>>)
  /\ main' = "drain" /\ deaf' = FALSE /\ overflow' = FALSE
  /\ IF overflow
       THEN /\ ring' = <<>> /\ cmd' = "" /\ Unasked(<<Err>>)
            /\ stopHeard' = (stopHeard /\ output)
       ELSE UNCHANGED <<ring, cmd, toHost, strays, stopHeard>>
  /\ UNCHANGED <<fast, frames, port, faults>>

RingEmpty ==
  /\ main = "drain" /\ ring = <<>> /\ main' = "poll"
  /\ UNCHANGED <<uart, cmd, frames, stopHeard, wire>>

ProcessBody ==
  /\ main = "drain" /\ ring # <<>> /\ Head(ring) # "LF"
  /\ cmd' = Joined(cmd, Head(ring)) /\ ring' = Tail(ring)
  /\ UNCHANGED <<overflow, deaf, fast, main, frames, stopHeard, wire>>

\* The line in g_cmd_buf is complete and one of these.
CompleteLine(lines) ==
  /\ main = "drain" /\ ring # <<>> /\ Head(ring) = "LF" /\ cmd \in lines
  /\ ring' = Tail(ring) /\ cmd' = ""
  /\ UNCHANGED <<overflow, deaf, fast, port, faults>>

EmptyLine == CompleteLine({""}) /\ UNCHANGED <<main, frames, stopHeard, toHost, strays>>

Clear ==
  /\ CompleteLine({"CLR"}) /\ ResetBuffer /\ Answer(Ack("CLR", 0))
  /\ UNCHANGED main

LoadDone ==
  /\ CompleteLine({"LOAD_DONE"}) /\ Answer(Ack("LOAD_DONE", loaded))
  /\ UNCHANGED <<main, frames, stopHeard>>

Stop ==
  /\ CompleteLine({"STOP"}) /\ StopImmediate /\ Answer(Ack("STOP", loaded))
  /\ UNCHANGED main

\* A point; one that lost its end may still read as a point.
Data ==
  /\ CompleteLine({"DATA", "CUT"}) /\ MayLoad /\ LoadFrame
  /\ UNCHANGED <<main, toHost, strays>>

\* A point the player or the parser refuses: an error nobody waits for.
DataRefused ==
  /\ CompleteLine(PointBodies) /\ (cmd = "DATA" => ~MayLoad)
  /\ Unasked(<<Err>>)
  /\ UNCHANGED <<main, frames, stopHeard>>

UnknownCommand ==
  /\ CompleteLine({"MIXED"}) /\ Answer(Err)
  /\ UNCHANGED <<main, frames, stopHeard>>

StartRefused ==
  /\ CompleteLine({"START"}) /\ (loaded = 0 \/ player = "PLAYING") /\ Answer(Err)
  /\ UNCHANGED <<main, frames, stopHeard>>

\* FramePlayer_Start up to the end of Mirrorcle_PrepareForStart, during which
\* bytes go on coming in.
StartPrepares ==
  /\ CompleteLine({"START"}) /\ loaded # 0 /\ player # "PLAYING"
  /\ main' = "start" /\ output' = FALSE
  /\ UNCHANGED <<stopReq, player, loaded, stopHeard, toHost, strays>>

\* ... and the rest of it: a stop asked for in between is forgotten here and
\* left to the line in the ring.
StartPlays ==
  /\ main = "start" /\ main' = "drain"
  /\ player' = "PLAYING" /\ output' = TRUE /\ stopReq' = FALSE
  /\ Answer(Ack("START", 0))
  /\ UNCHANGED <<uart, cmd, loaded, stopHeard, port, faults>>

\* The preparation failed, or, later, the timer.
StartFails ==
  /\ Fault /\ main = "start" /\ main' = "drain"
  /\ stopReq' \in {stopReq, FALSE} /\ player' = "READY"
  /\ Answer(Err)
  /\ UNCHANGED <<uart, cmd, loaded, output, stopHeard, port>>

\* Power is lost and comes back: main() runs again, with three boot lines.
Reboot ==
  /\ Fault
  /\ ring' = <<>> /\ overflow' = FALSE /\ deaf' = FALSE /\ fast' = ""
  /\ cmd' = "" /\ main' = "poll"
  /\ stopReq' = FALSE /\ player' = "IDLE" /\ loaded' = 0 /\ output' = FALSE
  /\ stopHeard' = FALSE
  /\ Unasked([i \in 1..3 |-> [code |-> "BOOT", count |-> 0]])
  /\ UNCHANGED port

MainLoop ==
  \/ Process \/ RingEmpty \/ ProcessBody \/ EmptyLine \/ Clear \/ LoadDone \/ Stop
  \/ Data \/ DataRefused \/ UnknownCommand \/ StartRefused \/ StartPrepares \/ StartPlays

FirmwareFaults == RxError \/ TickFails \/ StartFails \/ Reboot

FirmwareTypeOK ==
  /\ ring \in Seq(Tokens) /\ Points <= RingLines
  /\ overflow \in BOOLEAN /\ deaf \in BOOLEAN
  /\ fast \in Bodies \cup {""} /\ cmd \in Bodies \cup {""}
  /\ main \in {"poll", "drain", "start"}
  /\ stopReq \in BOOLEAN /\ stopHeard \in BOOLEAN
  /\ player \in {"IDLE", "READY", "PLAYING"}
  /\ loaded \in 0..FrameBufLen /\ output \in BOOLEAN
=============================================================================
