------------------------------- MODULE EdfaLink -------------------------------
(***************************************************************************)
(* EdfaSerialController of src/drivers/edfa in controlled mode, the        *)
(* amplifier (external) and the two threads that call the controller: the  *)
(* runtime thread, mostly through AcquisitionSession, and the thread that  *)
(* polls the status. An answer names the value it is about, not the        *)
(* request it answers: only the order of reading ties it to a request.     *)
(***************************************************************************)
EXTENDS Integers, Sequences

CONSTANTS
  MaxOperations, \* bound: operations of the runtime thread
  MaxNoise       \* bound: requests refused, requests and answers lost, late or torn

ASSUME EdfaAssumption == MaxOperations \in Nat /\ MaxNoise \in Nat

VARIABLES
  open,          \* transport_->isOpen()
  outputEnabled, \* status_.output_enabled
  operation,     \* what the runtime thread does, "none" between two operations
  requests,      \* the requests it has left
  polled,        \* queries of the running poll that were answered, -1 without one
  pending,       \* the request whose answer is being read, "none" outside transact
  answers,       \* answers not read yet, the oldest first
  emitting,      \* the amplifier emits
  confirmed,     \* history: the last activation requested, once it is confirmed
  offLost,       \* history: a request for output off got lost since the operation began
  operations, noise

callers == <<operation, requests, polled, operations>>
edfaVars == <<open, outputEnabled, callers, pending, answers, emitting, confirmed, offLost, noise>>

Activations == {"on", "off"}
\* "reading" is the status query that ends setOutputEnabled, whose failure is ignored.
Requests == {"status", "mode", "power", "activation", "set mode", "set power", "reading"}
              \cup Activations
Queries == <<"status", "mode", "power", "activation">>  \* refreshDeviceState
Enable == <<"set mode", "set power", "on", "reading">>
Off == <<"off", "reading">>

\* The address of the answer (docs/device_protocols.md has the table).
About(request) ==
  CASE request \in {"mode", "set mode"} -> "mode"
    [] request \in {"power", "set power"} -> "power"
    [] request \in Activations \cup {"activation"} -> "activation"
    [] OTHER -> "status"

\* value: the output is on; the mode and the power are those asked for. "torn" is
\* what is left of an answer whose first bytes a time-out has read and dropped.
Answers == [about : {"status", "mode", "power", "activation", "torn"}, value : BOOLEAN]
Torn == [about |-> "torn", value |-> FALSE]

Noise == noise < MaxNoise /\ noise' = noise + 1

EdfaInit ==
  /\ open = FALSE /\ outputEnabled = FALSE
  /\ operation = "none" /\ requests = <<>> /\ polled = -1 /\ operations = 0
  /\ pending = "none" /\ answers = <<>> /\ emitting = FALSE
  /\ confirmed = "none" /\ offLost = FALSE /\ noise = 0
-----------------------------------------------------------------------------
(* The callers. Both take the controller's mutex for a call; a status      *)
(* reading belongs to the call of its activation.                          *)

Operation(op, script) ==
  /\ operation = "none" /\ pending = "none" /\ operations < MaxOperations
  /\ operations' = operations + 1
  /\ operation' = op /\ requests' = script /\ offLost' = FALSE
  /\ UNCHANGED <<outputEnabled, polled, pending, emitting, confirmed>>

\* open and purge; an answer still on its way arrives later.
BeginConnect ==
  /\ ~open /\ open' = TRUE
  /\ \/ answers' = <<>> /\ UNCHANGED noise
     \/ Noise /\ answers # <<>> /\ answers' = <<answers[Len(answers)]>>
  /\ Operation("connect", Queries)

\* arm, setEdfaOutputRuntime(true).
BeginEnable == open /\ Operation("enable", Enable) /\ UNCHANGED <<open, answers, noise>>
\* stopDevices, setEdfaOutputRuntime(false).
BeginOff == open /\ Operation("off", Off) /\ UNCHANGED <<open, answers, noise>>

\* A session that trusts its own view of the output.
OffFirstIfEnabled == IF outputEnabled THEN Off ELSE <<>>
\* AcquisitionSession::disconnect turns the output off whatever it believes.
OffFirst == Off
\* stopEdfaMonitor joins the poll first.
BeginDisconnect ==
  /\ open /\ polled = -1
  /\ Operation("disconnect", OffFirst) /\ UNCHANGED <<open, answers, noise>>

\* disconnect() of the controller: the end of a disconnect, or of a connect after
\* which the scanner does not connect.
OffBeforeClose == IF outputEnabled THEN Off ELSE <<>>

PollBegins ==
  /\ open /\ operation \in {"none", "enable", "off"} /\ polled = -1 /\ pending = "none"
  /\ requests # <<>> => Head(requests) # "reading"
  /\ polled' = 0
  /\ UNCHANGED <<open, outputEnabled, operation, requests, operations, pending, answers, emitting,
                 confirmed, offLost, noise>>

\* The request the thread that holds the mutex makes next.
Due(request) ==
  \/ polled >= 0 /\ request = Queries[polled + 1]
  \/ polled = -1 /\ requests # <<>> /\ request = Head(requests)

Closes == open' = FALSE /\ outputEnabled' = FALSE /\ confirmed' = "none"

\* All requests of an operation are done.
Return ==
  /\ operation # "none" /\ requests = <<>> /\ pending = "none" /\ polled = -1
  /\ \/ /\ operation \in {"connect", "enable", "off"}
        /\ operation' = "none" /\ requests' = <<>>
        /\ UNCHANGED <<open, outputEnabled, confirmed>>
     \/ /\ operation \in {"connect", "disconnect"}
        /\ operation' = "close" /\ requests' = OffBeforeClose
        /\ UNCHANGED <<open, outputEnabled, confirmed>>
     \/ /\ operation = "close" /\ Closes
        /\ operation' = "none" /\ requests' = <<>>
  /\ UNCHANGED <<polled, operations, pending, answers, emitting, offLost, noise>>
-----------------------------------------------------------------------------
(* transact: write the request ...                                         *)

Writes(request) ==
  /\ pending = "none" /\ Due(request) /\ pending' = request
  /\ confirmed' = IF request \in Activations THEN "none" ELSE confirmed
  /\ UNCHANGED <<open, outputEnabled, callers>>

Obeys(request) == emitting' = IF request \in Activations THEN request = "on" ELSE emitting
Reply(request, value) == answers' = Append(answers, [about |-> About(request), value |-> value])

Request(request) ==
  /\ Writes(request) /\ Obeys(request)
  /\ Reply(request, IF About(request) = "activation" THEN emitting' ELSE TRUE)
  /\ UNCHANGED <<offLost, noise>>

\* A key that is off, a mode or a power it does not take: it answers what is.
RequestRefused(request) ==
  /\ request \in {"on", "set mode", "set power"}
  /\ Writes(request) /\ Noise
  /\ Reply(request, IF request = "on" THEN emitting ELSE FALSE)
  /\ UNCHANGED <<emitting, offLost>>

RequestLost(request) ==
  /\ Writes(request) /\ Noise
  /\ offLost' = (offLost \/ request = "off")
  /\ UNCHANGED <<answers, emitting>>

AnswerIsLost(request) ==
  /\ Writes(request) /\ Noise /\ Obeys(request)
  /\ UNCHANGED <<answers, offLost>>
-----------------------------------------------------------------------------
(* ... and read one answer.                                                *)

\* What is confirmed is not compared.
FitsAnyValue(answer) == answer.about = About(pending)

\* decodeStatus, decodeMode, decodePowerDbm, decodeActivation and the comparison
\* of what is confirmed with what was asked for.
Fits(answer) ==
  /\ answer.about = About(pending)
  /\ pending \in {"set mode", "set power", "on"} => answer.value
  /\ pending = "off" => ~answer.value

ReadsAnswer ==
  /\ pending # "none" /\ answers # <<>> /\ Fits(Head(answers))
  /\ pending' = "none" /\ answers' = Tail(answers)
  /\ outputEnabled' = IF About(pending) = "activation" THEN Head(answers).value ELSE outputEnabled
  /\ confirmed' = IF pending \in Activations THEN pending ELSE confirmed
  /\ IF polled >= 0
       THEN /\ polled' = IF polled = 3 THEN -1 ELSE polled + 1
            /\ UNCHANGED requests
       ELSE requests' = Tail(requests) /\ UNCHANGED polled
  /\ UNCHANGED <<open, operation, operations, emitting, offLost, noise>>

\* The first answer does not fit. Torn bytes are dropped three at a time, and may
\* take the beginning of the next answer along.
ReadsOther ==
  /\ answers # <<>> /\ ~Fits(Head(answers))
  /\ \/ answers' = Tail(answers) /\ UNCHANGED noise
     \/ Head(answers) = Torn /\ Noise /\ UNCHANGED answers
     \/ /\ Head(answers) = Torn /\ Len(answers) > 1
        /\ answers' = [Tail(answers) EXCEPT ![1] = Torn] /\ UNCHANGED noise

\* Nothing comes, or it comes late, perhaps while the read gives up.
TimesOut ==
  \/ answers = <<>> /\ UNCHANGED <<answers, noise>>
  \/ answers # <<>> /\ Noise /\ (UNCHANGED answers \/ answers' = [answers EXCEPT ![1] = Torn])

\* A failed enable turns the output off; a failed connect closes the port; a
\* failed off is not repeated; a failed status reading does not count.
Fails ==
  /\ pending # "none" /\ pending' = "none"
  /\ ReadsOther \/ TimesOut
  /\ \/ /\ polled >= 0 /\ polled' = -1
        /\ UNCHANGED <<open, outputEnabled, operation, requests, confirmed>>
     \/ /\ polled = -1 /\ operation = "connect" /\ open' = FALSE /\ confirmed' = "none"
        /\ operation' = "none" /\ requests' = <<>> /\ UNCHANGED <<outputEnabled, polled>>
     \/ /\ polled = -1 /\ operation = "enable" /\ pending # "reading"
        /\ operation' = "off" /\ requests' = Off
        /\ UNCHANGED <<open, outputEnabled, polled, confirmed>>
     \/ /\ polled = -1 /\ operation # "connect" /\ (operation = "enable" => pending = "reading")
        /\ requests' = <<>>
        /\ UNCHANGED <<open, outputEnabled, operation, polled, confirmed>>
  /\ UNCHANGED <<operations, emitting, offLost>>
-----------------------------------------------------------------------------
EdfaNext ==
  \/ BeginConnect \/ BeginEnable \/ BeginOff \/ BeginDisconnect
  \/ PollBegins \/ Return \/ ReadsAnswer \/ Fails
  \/ \E r \in Requests :
       Request(r) \/ RequestRefused(r) \/ RequestLost(r) \/ AnswerIsLost(r)

EdfaSpec == EdfaInit /\ [][EdfaNext]_edfaVars

EdfaTypeOK ==
  /\ open \in BOOLEAN /\ outputEnabled \in BOOLEAN
  /\ operation \in {"none", "connect", "enable", "off", "disconnect", "close"}
  /\ requests \in Seq(Requests) /\ polled \in -1..3
  /\ pending \in Requests \cup {"none"}
  /\ answers \in Seq(Answers) /\ Len(answers) <= MaxNoise + 1
  /\ emitting \in BOOLEAN /\ confirmed \in Activations \cup {"none"} /\ offLost \in BOOLEAN
  /\ operations \in 0..MaxOperations /\ noise \in 0..MaxNoise

\* An output confirmed off is off, whatever the poll read in between, as long as no
\* more than two requests or answers were refused, lost, late or torn: two late answers
\* and a lost request may take an old answer for its own (setOutputEnabled).
ConfirmedMeansOff == noise <= 2 /\ confirmed = "off" => ~emitting

\* A disconnect closes the port with the output on only if its request to turn it
\* off got lost, whatever the controller believed (AcquisitionSession::disconnect).
DisconnectMeansOff ==
  [][open /\ ~open' /\ operation = "close" => ~emitting \/ offLost]_edfaVars
=============================================================================
