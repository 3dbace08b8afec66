-------------------------------- MODULE McuWire --------------------------------
(***************************************************************************)
(* The serial line between the host and the scanner's MCU, as its two ends *)
(* see it: ISerialTransport (src/drivers/serial) and HAL_UART_Transmit     *)
(* (external). The host writes a line as two tokens, its body and the line *)
(* feed; answers come back as lines. What the MCU sends while the port is  *)
(* closed is lost, and opening the port purges what was received.          *)
(***************************************************************************)
EXTENDS Integers, Sequences

CONSTANTS
  Retries,   \* mcu.retry_count
  MaxFaults  \* bound: bytes and answers lost, writes, SPI transfers and power that fail

ASSUME WireAssumption == Retries \in Nat /\ MaxFaults \in Nat

VARIABLES
  port,    \* transport_->isOpen()
  toHost,  \* lines the host has not read
  strays,  \* lines no attempt waits for any more: answers to attempts that timed
           \* out and lines sent unasked. History, counted up to Retries + 1. What a
           \* fault leaves behind is counted with the faults.
  faults

wire == <<port, toHost, strays, faults>>

\* "CUT" is a point that lost its end, "SPOILT" a line of several points, "MIXED"
\* one of several bodies or a command that lost its end.
PointBodies == {"DATA", "CUT", "SPOILT"}
Bodies == {"CLR", "LOAD_DONE", "START", "STOP", "MIXED"} \cup PointBodies
Tokens == Bodies \cup {"LF"}
Cut(body) == IF body \in PointBodies THEN "CUT" ELSE "MIXED"
Line == [code : Bodies \cup {"ERR", "BOOT"}, count : Nat]
Ack(code, count) == [code |-> code, count |-> count]
Err == [code |-> "ERR", count |-> 0]

\* A body received after `line', an unfinished line or "".
Joined(line, body) ==
  IF line = "" THEN body
  ELSE IF {line, body} \subseteq PointBodies THEN "SPOILT" ELSE "MIXED"

Sent(lines) == toHost' = IF port THEN toHost \o lines ELSE toHost
Answer(line) == Sent(<<line>>) /\ UNCHANGED strays
Astray(n) == strays' = IF strays + n > Retries THEN Retries + 1 ELSE strays + n
Unasked(lines) == Sent(lines) /\ (IF port THEN Astray(Len(lines)) ELSE UNCHANGED strays)

Fault == faults < MaxFaults /\ faults' = faults + 1

\* The line takes an answer away.
LoseAnswer ==
  /\ Fault /\ toHost # <<>> /\ toHost' = Tail(toHost)
  /\ UNCHANGED <<port, strays>>

WireInit == port = FALSE /\ toHost = <<>> /\ strays = 0 /\ faults = 0
WireTypeOK ==
  /\ port \in BOOLEAN /\ toHost \in Seq(Line)
  /\ strays \in 0..(Retries + 1) /\ faults \in 0..MaxFaults
=============================================================================
