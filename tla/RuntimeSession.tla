---------------------------- MODULE RuntimeSession ----------------------------
(***************************************************************************)
(* The session as a whole: RuntimeWorker of                                *)
(* src/apps/common/application_controller.cpp over AcquisitionSession and  *)
(* ContinuousAcquisitionWorker of src/core, with the services it starts    *)
(* and stops reduced to what the session can see of them.                  *)
(*                                                                         *)
(* One runtime thread takes commands and posted events from one FIFO queue *)
(* and runs each to its end; a start or a stop takes many steps, between   *)
(* which the acquisition worker, the processing worker, the storage        *)
(* workers and the EDFA monitor go on. `up' is the set of parts that are   *)
(* on, `todo' the steps a teardown has left.                               *)
(***************************************************************************)
EXTENDS Integers, Sequences

CONSTANTS
  Enabled,     \* optional parts the configuration enables
  Backlog,     \* processing queue capacity
  MaxEvents,   \* bound: events waiting in the runtime queue
  MaxCommands, \* bound: commands posted
  MaxFaults    \* bound: failures of devices, files and services

Hardware == {"scanner", "digitizer", "edfa"}
Services == {"processing", "storage", "udp"}
Parts == Hardware \cup Services

ASSUME SessionAssumption ==
  /\ Enabled \subseteq {"scanner", "edfa", "storage", "udp"}
  /\ Backlog \in Nat \ {0}
  /\ MaxEvents \in Nat /\ MaxCommands \in Nat /\ MaxFaults \in Nat

VARIABLES
  pc,            \* the runtime thread: "idle", a stage of START, "down", or "over"
  todo,          \* teardown steps left
  plan,          \* what the teardown is for
  running, state, accepting, timer, storageFailure,
  configured, processing,  \* configured_, processing_ # nullptr
  connected, waveform,     \* connected_, mcu_waveform_revision_ = config_revision_
  monitor, generation,     \* the EDFA poll thread and edfa_monitor_generation_
  armed, triggered,        \* AcquisitionSession's armed_ and running_
  up,            \* the parts that are on
  stopError,     \* a device step of the current teardown failed
  worker, workerStop, workerFailed,
  backlog, procAccepting, procStop, storageStop,
  told, applied, pending,  \* settings handed out, in the processor, queued: numbered in
                 \* order (the code's own numbers restart with an APPLY)
  events,        \* the queue of the runtime thread
  reply,         \* the last commandCompleted or commandFailed
  commands, faults

runtime == <<pc, todo, plan, running, state, accepting, timer, stopError>>
setup   == <<configured, processing, connected, waveform>>
poll    == <<monitor, generation>>
devices == <<armed, triggered, up>>
acq     == <<worker, workerStop, workerFailed>>
proc    == <<backlog, procAccepting, procStop>>
store   == <<storageFailure, storageStop>>
revs    == <<told, applied, pending>>
vars == <<runtime, setup, poll, devices, acq, proc, store, revs, events, reply,
          commands, faults>>

States == {"Disconnected", "Configured", "Ready", "Preview", "Running", "Stopping", "Error"}
Commands == {"APPLY", "CONNECT", "DISCONNECT", "UPLOAD", "START", "STOP", "ESTOP", "UPDATE",
             "OUTPUT", "QUIT"}
Event == [type : Commands \cup {"EXIT", "EDFA"}, failed : BOOLEAN, generation : Nat]
Command(c) == [type |-> c, failed |-> FALSE, generation |-> 0]
NoReply == [command |-> "none", ok |-> TRUE]
NoPlan == [kind |-> "none", failed |-> FALSE]
Stages == {"storage", "udp", "processing", "edfa", "digitizer", "worker", "await",
           "trigger", "scan", "armed"}

Init ==
  /\ pc = "idle" /\ todo = <<>> /\ plan = NoPlan
  /\ running = FALSE /\ state = "Disconnected" /\ accepting = FALSE /\ timer = FALSE
  /\ storageFailure = FALSE /\ stopError = FALSE
  /\ configured = FALSE /\ processing = FALSE /\ connected = FALSE /\ waveform = FALSE
  /\ monitor = FALSE /\ generation = 0
  /\ armed = FALSE /\ triggered = FALSE /\ up = {}
  /\ worker = "none" /\ workerStop = FALSE /\ workerFailed = FALSE
  /\ backlog = 0 /\ procAccepting = FALSE /\ procStop = FALSE /\ storageStop = FALSE
  /\ told = 0 /\ applied = 0 /\ pending = 0
  /\ events = <<>> /\ reply = NoReply /\ commands = 0 /\ faults = 0

\* A failure of the environment, one of MaxFaults.
Fault == faults < MaxFaults /\ faults' = faults + 1

Succeeded(c) == reply' = [command |-> c, ok |-> TRUE]
Failed(c) == reply' = [command |-> c, ok |-> FALSE]
-----------------------------------------------------------------------------
(* ApplicationController posts each command to the runtime thread; QUIT    *)
(* comes from its destructor and is the last.                              *)

Quits == pc = "over" \/ plan.kind = "QUIT" \/ \E i \in 1..Len(events) : events[i].type = "QUIT"

PostCommand(c) ==
  /\ commands < MaxCommands /\ Len(events) < MaxEvents /\ ~Quits
  /\ commands' = commands + 1
  /\ events' = Append(events, Command(c))
  /\ UNCHANGED <<runtime, setup, poll, devices, acq, proc, store, revs, reply, faults>>

\* The runtime thread is free and takes the first event, of this type.
Take(type) ==
  /\ pc = "idle" /\ events # <<>> /\ Head(events).type = type
  /\ events' = Tail(events)
  /\ UNCHANGED commands
-----------------------------------------------------------------------------
(* configureRuntime, connectRuntime, disconnectRuntime, upload.            *)

StopMonitor == monitor' = FALSE /\ generation' = generation + 1
\* startEdfaMonitor begins with stopEdfaMonitor.
StartMonitor ==
  /\ monitor' = ("edfa" \in Enabled)
  /\ generation' = generation + (IF "edfa" \in Enabled THEN 2 ELSE 1)

\* A running session refuses a new configuration; fail() shows Error.
ConfigureRefused(c) ==
  /\ Take(c) /\ running
  /\ state' = "Error" /\ Failed(c)
  /\ UNCHANGED <<pc, todo, plan, running, accepting, timer, stopError, setup, poll,
                 devices, acq, proc, store, revs, faults>>

\* What configureRuntime does before it can fail: a connected session is
\* disconnected (EDFA off, ports and board closed) and the services go.
Unplugged == up \ {"edfa", "digitizer"}

\* Every failure up to the configuration of the devices leaves no processing_:
\* selectRuntimeAdapters, which fails before processing_ goes, is never seen to
\* (the factory makes three adapters of each source, and a session that does
\* not run has no acquisition worker).
ConfigureFails(c) ==
  /\ Take(c) /\ ~running /\ Fault
  /\ processing' = FALSE /\ connected' = FALSE
  /\ up' = IF connected THEN Unplugged ELSE up
  /\ IF connected THEN StopMonitor ELSE UNCHANGED poll
  /\ storageStop' = FALSE
  /\ state' = "Error" /\ Failed(c)
  /\ UNCHANGED <<pc, todo, plan, running, accepting, timer, stopError, configured, waveform,
                 armed, triggered, acq, proc, storageFailure, revs>>

\* The new configuration is in force, whether or not the devices come back.
Configured(c) ==
  /\ Take(c) /\ ~running
  /\ configured' = TRUE /\ processing' = TRUE
  /\ waveform' \in {FALSE, waveform}
  /\ told' = told + 1 /\ applied' = told + 1 /\ pending' = 0
  /\ up' = IF connected THEN Unplugged ELSE up
  /\ storageStop' = FALSE
  /\ UNCHANGED <<pc, todo, plan, running, accepting, timer, stopError,
                 armed, triggered, acq, proc, storageFailure>>

Apply ==
  /\ Configured("APPLY")
  /\ connected' = connected
  /\ state' = IF connected THEN "Ready" ELSE "Configured"
  /\ IF connected THEN StartMonitor ELSE UNCHANGED poll
  /\ Succeeded("APPLY") /\ UNCHANGED faults

Connect ==
  /\ Configured("CONNECT")
  /\ connected' = TRUE /\ state' = "Ready"
  /\ StartMonitor
  /\ Succeeded("CONNECT") /\ UNCHANGED faults

ConnectFails(c) ==
  /\ Configured(c) /\ (c = "APPLY" => connected) /\ Fault
  /\ connected' = FALSE /\ state' = "Error"
  /\ IF connected THEN StopMonitor ELSE UNCHANGED poll
  /\ Failed(c)

Disconnected ==
  /\ StopMonitor
  /\ connected' = FALSE /\ waveform' = FALSE
  /\ up' = Unplugged /\ armed' = FALSE /\ triggered' = FALSE
  /\ state' = IF configured THEN "Configured" ELSE "Disconnected"
  /\ Succeeded("DISCONNECT")

DisconnectIdle ==
  /\ Take("DISCONNECT") /\ ~running
  /\ Disconnected
  /\ UNCHANGED <<pc, todo, plan, running, accepting, timer, stopError, configured, processing,
                 acq, proc, store, revs, faults>>

\* uploadMcuWaveformRuntime: the controller refuses while it scans; without a
\* scanner there is nothing to do.
Upload ==
  /\ Take("UPLOAD") /\ connected
  /\ waveform' \in IF "scanner" \notin Enabled THEN {waveform}
                   ELSE IF running THEN {FALSE} ELSE BOOLEAN
  /\ reply' = [command |-> "UPLOAD", ok |-> waveform' \/ "scanner" \notin Enabled]
  /\ UNCHANGED <<runtime, configured, processing, connected, poll, devices, acq, proc,
                 store, revs, faults>>

UploadRejected ==
  /\ Take("UPLOAD") /\ ~connected
  /\ Failed("UPLOAD")
  /\ UNCHANGED <<runtime, setup, poll, devices, acq, proc, store, revs, faults>>
-----------------------------------------------------------------------------
(* setEdfaOutputRuntime: whatever else is going on.                        *)

OutputSet(reached, ok) ==
  /\ Take("OUTPUT") /\ up' = reached
  /\ reply' = [command |-> "OUTPUT", ok |-> ok]
  /\ UNCHANGED <<runtime, setup, poll, armed, triggered, acq, proc, store, revs>>

OutputCommanded ==
  /\ connected /\ "edfa" \in Enabled
  /\ OutputSet(up \cup {"edfa"}, TRUE) \/ OutputSet(up \ {"edfa"}, TRUE)
  /\ UNCHANGED faults

\* An enable that fails turns the output off, unless that fails as well; a
\* failed disable leaves it.
OutputCommandFails ==
  /\ connected /\ "edfa" \in Enabled /\ Fault
  /\ \E left \in SUBSET {"edfa"} : OutputSet((up \ {"edfa"}) \cup left, FALSE)

OutputRejected ==
  /\ ~connected \/ "edfa" \notin Enabled
  /\ OutputSet(up, FALSE) /\ UNCHANGED faults
-----------------------------------------------------------------------------
(* updateProcessingRuntime.                                                *)

UpdateRejected ==
  /\ Take("UPDATE")
  /\ ~configured \/ ~processing \/ (running /\ ~procAccepting)
  /\ Failed("UPDATE")
  /\ UNCHANGED <<runtime, setup, poll, devices, acq, proc, store, revs, faults>>

\* While running the settings wait in the service for the next raster.
UpdateQueued ==
  /\ Take("UPDATE") /\ configured /\ processing /\ running /\ procAccepting
  /\ told' = told + 1 /\ pending' = told + 1 /\ UNCHANGED applied
  /\ Succeeded("UPDATE")
  /\ UNCHANGED <<runtime, setup, poll, devices, acq, proc, store, faults>>

\* Otherwise a new service replaces the old one.
UpdateReplaced ==
  /\ Take("UPDATE") /\ configured /\ processing /\ ~running
  /\ told' = told + 1 /\ applied' = told + 1 /\ pending' = 0
  /\ Succeeded("UPDATE")
  /\ UNCHANGED <<runtime, setup, poll, devices, acq, proc, store, faults>>
-----------------------------------------------------------------------------
(* startRuntime, one stage at a time.                                      *)

StartRejected ==
  /\ Take("START")
  /\ running \/ ~configured \/ ~processing
  /\ Failed("START")
  /\ UNCHANGED <<runtime, setup, poll, devices, acq, proc, store, revs, faults>>

StartUnconnected ==
  /\ Take("START") /\ ~running /\ configured /\ processing
  /\ ~connected /\ Fault
  /\ state' = "Error" /\ Failed("START")
  /\ UNCHANGED <<pc, todo, plan, running, accepting, timer, stopError, setup, poll,
                 devices, acq, proc, store, revs>>

\* Connects when it has to, then asks for the uploaded waveform.
BeginStart ==
  /\ Take("START") /\ ~running /\ configured /\ processing
  /\ connected' = TRUE
  /\ IF connected THEN UNCHANGED poll ELSE StartMonitor
  /\ IF "scanner" \in Enabled /\ ~waveform
       THEN Failed("START") /\ UNCHANGED pc
       ELSE pc' = "storage" /\ UNCHANGED reply
  /\ UNCHANGED <<todo, plan, running, state, accepting, timer, stopError, configured,
                 processing, waveform, devices, acq, proc, store, revs, faults>>

\* The stage is over; the next one follows. A disabled part is skipped.
Stage(at, next, part) ==
  /\ pc = at /\ pc' = next
  /\ up' = up \cup (IF part \in Enabled \cup {"processing", "digitizer"} THEN {part} ELSE {})
  /\ UNCHANGED <<todo, plan, running, accepting, timer, stopError, setup, poll, acq, revs,
                 events, reply, commands, faults>>

\* A failed stage: what was started is taken down again, in this order.
Unwind(steps) ==
  /\ pc' = "down" /\ todo' = steps /\ stopError' = FALSE
  /\ plan' = [kind |-> "START", failed |-> TRUE]
  /\ UNCHANGED <<running, state, timer, setup, poll, revs, events, reply, commands>>

StorageStarts ==
  /\ Stage("storage", "udp", "storage")
  /\ storageStop' = FALSE
  /\ UNCHANGED <<state, armed, triggered, proc, storageFailure>>

StorageStartFails ==
  /\ pc = "storage" /\ "storage" \in Enabled /\ Fault
  /\ Unwind(<<>>)
  /\ UNCHANGED <<accepting, devices, acq, proc, store>>

UdpStarts ==
  /\ Stage("udp", "processing", "udp")
  /\ UNCHANGED <<state, armed, triggered, proc, store>>

UdpStartFails ==
  /\ pc = "udp" /\ "udp" \in Enabled /\ Fault
  /\ Unwind(<<"storage">>)
  /\ UNCHANGED <<accepting, devices, acq, proc, store>>

ProcessingStarts ==
  /\ Stage("processing", "edfa", "processing")
  /\ backlog' = 0 /\ procAccepting' = TRUE /\ procStop' = FALSE
  /\ state' = "Preview"
  /\ UNCHANGED <<armed, triggered, store>>

ProcessingStartFails ==
  /\ pc = "processing" /\ Fault
  /\ Unwind(<<"storage", "udp">>)
  /\ UNCHANGED <<accepting, devices, acq, proc, store>>

\* session.arm: the EDFA first, then the digitizer.
EdfaStarts ==
  /\ Stage("edfa", "digitizer", "edfa")
  /\ UNCHANGED <<state, armed, triggered, proc, store>>

\* The output is commanded off again; nobody looks at what came of that.
EdfaStartFails ==
  /\ pc = "edfa" /\ "edfa" \in Enabled /\ Fault
  /\ up' \in {up \ {"edfa"}, up \cup {"edfa"}}
  /\ Unwind(<<"processing", "storage", "udp">>)
  /\ UNCHANGED <<accepting, armed, triggered, acq, proc, store>>

DigitizerStarts ==
  /\ Stage("digitizer", "worker", "digitizer")
  /\ armed' = TRUE /\ storageFailure' = FALSE
  /\ UNCHANGED <<state, triggered, proc, storageStop>>

DigitizerStartFails ==
  /\ pc = "digitizer" /\ Fault
  /\ up' \in {up, up \ {"edfa"}}
  /\ Unwind(<<"processing", "storage", "udp">>)
  /\ UNCHANGED <<accepting, armed, triggered, acq, proc, store>>

WorkerStarts ==
  /\ pc = "worker" /\ pc' = "await"
  /\ accepting' = TRUE
  /\ worker' = "starting" /\ workerStop' = FALSE /\ workerFailed' = FALSE
  /\ UNCHANGED <<todo, plan, running, state, timer, stopError, setup, poll, devices,
                 proc, store, revs, events, reply, commands, faults>>

\* The starter wakes up while the worker is in its loop.
WorkerReadySeen ==
  /\ pc = "await" /\ worker \in {"loop", "wait", "deliver", "leave"}
  /\ pc' = "trigger"
  /\ UNCHANGED <<todo, plan, running, state, accepting, timer, stopError, setup, poll,
                 devices, acq, proc, store, revs, events, reply, commands, faults>>

\* A starter that waits for readiness only.
StartGivesUpOnTimeout == worker = "starting"

StartGivesUp == worker \in {"starting", "post", "done"}

\* It wakes up after a second without the worker ready, or after the worker
\* has already left: start joins the worker and reports failure.
\* (acquisition_accepting_ is cleared after that join; no batch can be
\* delivered before it, so it is cleared here.)
WorkerNotReady ==
  /\ pc = "await" /\ StartGivesUp
  /\ workerStop' = TRUE /\ accepting' = FALSE
  /\ Unwind(<<"worker", "scanner", "digitizer", "edfa", "processing", "udp", "storage">>)
  /\ UNCHANGED <<devices, worker, workerFailed, proc, store, faults>>

\* What follows a trigger source that did not start.
TriggerFails ==
  /\ accepting' = FALSE /\ workerStop' = TRUE
  /\ Unwind(<<"scanner", "digitizer", "edfa", "worker", "processing", "udp", "storage">>)
  /\ UNCHANGED <<worker, workerFailed, proc, store>>

\* session.enableTrigger: the session must still be armed ...
TriggerChecked ==
  /\ pc = "trigger" /\ armed /\ ~triggered
  /\ pc' = "scan"
  /\ UNCHANGED <<todo, plan, running, state, accepting, timer, stopError, setup, poll,
                 devices, acq, proc, store, revs, events, reply, commands, faults>>

TriggerUnarmed ==
  /\ pc = "trigger" /\ ~(armed /\ ~triggered)
  /\ TriggerFails
  /\ UNCHANGED <<devices, faults>>

\* ... and mcu.startScan must be acknowledged.
ScanStarts ==
  /\ Stage("scan", "armed", "scanner")
  /\ UNCHANGED <<state, armed, triggered, proc, store>>

\* A scan that was not acknowledged may be running all the same, and what
\* became of the digitizer and the EDFA is not looked at.
ScanStartFails ==
  /\ pc = "scan" /\ "scanner" \in Enabled /\ Fault
  /\ \E left \in SUBSET ((up \cap {"digitizer", "edfa"}) \cup {"scanner"}) :
       up' = (up \cap Services) \cup left
  /\ armed' = FALSE
  /\ TriggerFails
  /\ UNCHANGED triggered

\* armed is not looked at again: the source may have ended meanwhile.
StartCompletes ==
  /\ pc = "armed" /\ pc' = "idle"
  /\ triggered' = TRUE
  /\ running' = TRUE /\ state' = "Running" /\ timer' = TRUE
  /\ Succeeded("START")
  /\ UNCHANGED <<todo, plan, accepting, stopError, setup, poll, armed, up, acq, proc, store,
                 revs, events, commands, faults>>
-----------------------------------------------------------------------------
(* stopRuntime, emergencyStopRuntime and the end of a failed START.        *)

\* A stop that closes storage before the service that feeds it.
StopStepsStorageFirst ==
  <<"scanner", "digitizer", "edfa", "worker", "storage", "processing", "udp">>

\* A stop that aborts the digitizer first.
StopStepsDigitizerFirst ==
  <<"digitizer", "scanner", "edfa", "worker", "processing", "udp", "storage">>

StopSteps ==
  <<"scanner", "digitizer", "edfa", "worker", "processing", "udp", "storage">>

BeginStop(kind, failed) ==
  /\ pc' = "down" /\ todo' = StopSteps /\ stopError' = FALSE
  /\ plan' = [kind |-> kind, failed |-> failed]
  /\ timer' = FALSE /\ accepting' = FALSE /\ workerStop' = TRUE
  /\ state' = IF kind = "ESTOP" THEN state ELSE "Stopping"
  /\ UNCHANGED <<running, setup, devices, worker, workerFailed, proc, store, revs, reply,
                 faults>>

Stop ==
  /\ Take("STOP") /\ running
  /\ BeginStop("STOP", FALSE)
  /\ UNCHANGED poll

StopIdle ==
  /\ Take("STOP") /\ ~running
  /\ Succeeded("STOP")
  /\ UNCHANGED <<runtime, setup, poll, devices, acq, proc, store, revs, faults>>

EmergencyStop ==
  /\ Take("ESTOP")
  /\ BeginStop("ESTOP", TRUE)
  /\ UNCHANGED poll

DisconnectRunning ==
  /\ Take("DISCONNECT") /\ running
  /\ BeginStop("DISCONNECT", FALSE)
  /\ UNCHANGED poll

\* shutdown, after which the runtime thread ends.
QuitRunning ==
  /\ Take("QUIT") /\ running
  /\ BeginStop("QUIT", FALSE)
  /\ UNCHANGED poll

Unplug ==
  /\ pc' = "over" /\ plan' = NoPlan
  /\ StopMonitor /\ connected' = FALSE
  /\ up' = Unplugged /\ armed' = FALSE /\ triggered' = FALSE
  /\ UNCHANGED <<todo, accepting, timer, stopError, configured, processing, waveform, acq, proc,
                 store, revs, reply, faults>>

QuitIdle ==
  /\ Take("QUIT") /\ ~running
  /\ Unplug
  /\ UNCHANGED <<running, state>>

\* An exit handler that asks only whether the session is armed.
ExitConcernsArmed == armed

\* The posted exit handler asks for any session, not for its worker's own.
ExitConcerns == running \/ armed

WorkerExitEvent ==
  /\ Take("EXIT") /\ ExitConcerns
  /\ BeginStop("EXIT", Head(events).failed)
  /\ UNCHANGED poll

EdfaLossEvent ==
  /\ Take("EDFA") /\ Head(events).generation = generation /\ running
  /\ StopMonitor
  /\ BeginStop("EDFA", TRUE)

\* Nothing to stop, or an event of a monitor that is gone.
EventIgnored ==
  /\ \/ Take("EXIT") /\ ~ExitConcerns
     \/ Take("EDFA") /\ ~(Head(events).generation = generation /\ running)
  /\ UNCHANGED <<runtime, setup, poll, devices, acq, proc, store, revs, reply, faults>>

\* publishPeriodic: the timer fires between events.
Tick ==
  /\ pc = "idle" /\ timer /\ running
  /\ storageFailure \/ procStop \/ ("storage" \in Enabled /\ storageStop)
  /\ BeginStop("TICK", TRUE)
  /\ UNCHANGED <<poll, events, commands>>

\* The runtime thread does one teardown step; the rest it leaves alone.
Teardown(step) ==
  /\ pc = "down" /\ todo # <<>> /\ Head(todo) = step
  /\ todo' = Tail(todo)
  /\ UNCHANGED <<pc, plan, running, state, accepting, timer, setup, poll, told, applied,
                 events, reply, commands>>

\* stopDevices is over: armed_ and running_ are cleared with its last device.
DeviceStep(part) ==
  /\ Teardown(part)
  /\ armed' = IF part = "edfa" THEN FALSE ELSE armed
  /\ triggered' = IF part = "edfa" THEN FALSE ELSE triggered
  /\ UNCHANGED <<acq, proc, store, pending>>

DeviceStops(part) ==
  /\ DeviceStep(part)
  /\ up' = up \ {part}
  /\ UNCHANGED <<stopError, faults>>

DeviceStopFails(part) ==
  /\ part = "digitizer" \/ part \in Enabled
  /\ part = "digitizer" => part \in up
  /\ DeviceStep(part) /\ Fault
  /\ stopError' = TRUE
  /\ UNCHANGED up

\* waitForAcquisitionWorker, or the join inside a failed start.
WorkerJoined ==
  /\ worker \in {"none", "done"}
  /\ Teardown("worker")
  /\ worker' = "none"
  /\ UNCHANGED <<stopError, devices, workerStop, workerFailed, proc, store, pending, faults>>

\* Which stops throw the backlog away, and the queued settings with it.
Discards == plan.kind \notin {"START", "ESTOP"}

\* stopProcessing: a draining stop waits for the backlog.
ProcessingStops ==
  /\ Discards \/ backlog = 0
  /\ Teardown("processing")
  /\ backlog' = 0 /\ procAccepting' = FALSE
  /\ pending' = IF Discards /\ "processing" \in up THEN 0 ELSE pending
  /\ up' = up \ {"processing"}
  /\ UNCHANGED <<stopError, armed, triggered, acq, procStop, store, faults>>

ServiceStops(part) ==
  /\ part \in {"udp", "storage"}
  /\ Teardown(part)
  /\ up' = up \ {part}
  /\ UNCHANGED <<stopError, armed, triggered, acq, proc, store, pending, faults>>

\* A stop whose errors do not reach the state.
StateAfterStopErrorLost == IF plan.failed THEN "Error" ELSE IF connected THEN "Ready" ELSE "Configured"

StateAfterStop ==
  IF plan.failed \/ stopError THEN "Error"
  ELSE IF connected THEN "Ready" ELSE "Configured"

\* The reply of STOP and ESTOP is "completed" whatever the devices answered.
StopCompletes ==
  /\ pc = "down" /\ todo = <<>> /\ plan.kind \notin {"DISCONNECT", "QUIT"}
  /\ pc' = "idle" /\ plan' = NoPlan
  /\ running' = FALSE
  /\ state' = StateAfterStop
  /\ reply' = CASE plan.kind \in {"STOP", "ESTOP"} -> [command |-> plan.kind, ok |-> TRUE]
                [] plan.kind = "START" -> [command |-> "START", ok |-> FALSE]
                [] OTHER -> reply
  /\ UNCHANGED <<todo, accepting, timer, stopError, setup, poll, devices, acq, proc, store,
                 revs, events, commands, faults>>

\* A disconnect goes on once the session has stopped.
DisconnectCompletes ==
  /\ pc = "down" /\ todo = <<>> /\ plan.kind = "DISCONNECT"
  /\ pc' = "idle" /\ plan' = NoPlan
  /\ running' = FALSE
  /\ Disconnected
  /\ UNCHANGED <<todo, accepting, timer, stopError, configured, processing, acq, proc, store,
                 revs, events, commands, faults>>

QuitCompletes ==
  /\ pc = "down" /\ todo = <<>> /\ plan.kind = "QUIT"
  /\ running' = FALSE /\ state' = StateAfterStop
  /\ Unplug
  /\ UNCHANGED <<events, commands>>
-----------------------------------------------------------------------------
(* The acquisition worker.                                                 *)

\* A step of the worker that leaves the other threads' state alone.
WorkerGoes(from, to) ==
  /\ worker = from /\ worker' = to
  /\ UNCHANGED <<runtime, setup, poll, up, workerStop, revs, reply, commands>>

WorkerReady ==
  /\ WorkerGoes("starting", "loop")
  /\ UNCHANGED <<armed, triggered, workerFailed, proc, store, events, faults>>

WorkerWaits ==
  /\ WorkerGoes("loop", IF workerStop THEN "leave" ELSE "wait")
  /\ UNCHANGED <<armed, triggered, workerFailed, proc, store, events, faults>>

\* waitForBatch: nothing within 50 ms.
WorkerTimeout ==
  /\ "digitizer" \in up
  /\ WorkerGoes("wait", "loop")
  /\ UNCHANGED <<armed, triggered, workerFailed, proc, store, events, faults>>

WorkerBatch ==
  /\ armed /\ "digitizer" \in up
  /\ WorkerGoes("wait", "deliver")
  /\ UNCHANGED <<armed, triggered, workerFailed, proc, store, events, faults>>

\* The digitizer is not running any more, or the session is not armed.
WorkerSourceEnded ==
  /\ ~armed \/ "digitizer" \notin up
  /\ WorkerGoes("wait", "leave")
  /\ armed' = FALSE
  /\ triggered' = IF armed THEN FALSE ELSE triggered
  /\ UNCHANGED <<workerFailed, proc, store, events, faults>>

\* A replay file or a simulated source comes to its end and turns itself off.
WorkerSourceCompletes ==
  /\ worker = "wait" /\ worker' = "leave" /\ armed /\ "digitizer" \in up /\ Fault
  /\ up' = up \ {"digitizer"} /\ armed' = FALSE /\ triggered' = FALSE
  /\ UNCHANGED <<runtime, setup, poll, workerStop, workerFailed, proc, store, revs, events,
                 reply, commands>>

WorkerSourceFails ==
  /\ WorkerGoes("wait", "leave") /\ Fault
  /\ workerFailed' = TRUE
  /\ UNCHANGED <<armed, triggered, proc, store, events>>

\* A capacity test that lets one batch too many in.
HasRoomOffByOne == backlog <= Backlog

HasRoom == backlog < Backlog

\* consumeBatch, as far as the service that refuses the batch. A storage or
\* processing overflow stops that service.
ConsumeBatch ==
  /\ worker = "deliver"
  /\ UNCHANGED <<runtime, setup, poll, devices, workerStop, revs, events, reply, commands>>
  /\ LET refused == worker' = "leave" /\ workerFailed' = TRUE
         stored  == accepting /\ ("storage" \in Enabled => ~storageStop)
         room    == procAccepting /\ HasRoom
     IN \/ /\ ~stored /\ refused
           /\ UNCHANGED <<proc, store, faults>>
        \/ /\ stored /\ "storage" \in Enabled /\ Fault /\ refused
           /\ storageStop' = TRUE
           /\ UNCHANGED <<proc, storageFailure>>
        \/ /\ stored /\ ~room /\ refused
           /\ IF procAccepting
                THEN procStop' = TRUE /\ procAccepting' = FALSE
                ELSE UNCHANGED <<procStop, procAccepting>>
           /\ UNCHANGED <<backlog, store, faults>>
        \/ /\ stored /\ room
           /\ backlog' = backlog + 1
           /\ IF storageFailure THEN refused ELSE worker' = "loop" /\ UNCHANGED workerFailed
           /\ UNCHANGED <<procAccepting, procStop, store, faults>>

\* The loop is over: the status says so before the handler runs.
WorkerLeaves ==
  /\ WorkerGoes("leave", "post")
  /\ UNCHANGED <<armed, triggered, workerFailed, proc, store, events, faults>>

PostsExit == ~workerStop

WorkerPosts ==
  /\ WorkerGoes("post", "done")
  /\ events' = IF PostsExit
                 THEN Append(events, [type |-> "EXIT", failed |-> workerFailed, generation |-> 0])
                 ELSE events
  /\ UNCHANGED <<armed, triggered, workerFailed, proc, store, faults>>

Worker ==
  \/ WorkerReady \/ WorkerWaits \/ WorkerTimeout \/ WorkerBatch \/ WorkerSourceEnded
  \/ WorkerSourceCompletes \/ WorkerSourceFails \/ ConsumeBatch \/ WorkerLeaves \/ WorkerPosts
-----------------------------------------------------------------------------
(* The processing worker, the storage workers and the EDFA monitor.        *)

\* A step of a service thread.
ServiceStep ==
  UNCHANGED <<runtime, setup, devices, acq, told, reply, commands>>

\* A batch is processed. It may begin a raster, which takes the queued
\* settings, and complete one, whose cloud the storage queue may refuse: by a failure of its
\* own (an overflow), or because the service has stopped before.
BatchProcessed ==
  /\ "processing" \in up /\ backlog > 0
  /\ backlog' = backlog - 1
  /\ \/ UNCHANGED <<applied, pending>>
     \/ pending # 0 /\ applied' = pending /\ pending' = 0
  /\ \/ UNCHANGED <<store, faults>>
     \/ "storage" \in Enabled /\ Fault /\ storageFailure' = TRUE /\ storageStop' = TRUE
     \/ storageStop /\ storageFailure' = TRUE /\ UNCHANGED <<storageStop, faults>>
  /\ UNCHANGED <<poll, procAccepting, procStop, events>> /\ ServiceStep

ProcessingFails ==
  /\ "processing" \in up /\ ~procStop /\ Fault
  /\ procStop' = TRUE /\ procAccepting' = FALSE /\ backlog' = 0
  /\ UNCHANGED <<poll, store, applied, pending, events>> /\ ServiceStep

StorageFails ==
  /\ "storage" \in up /\ ~storageStop /\ Fault
  /\ storageStop' = TRUE
  /\ UNCHANGED <<poll, proc, storageFailure, applied, pending, events>> /\ ServiceStep

\* Three polls failed: the thread asks for a stop and ends.
MonitorLosesEdfa ==
  /\ monitor /\ Fault
  /\ monitor' = FALSE
  /\ events' = Append(events, [type |-> "EDFA", failed |-> TRUE, generation |-> generation])
  /\ UNCHANGED <<generation, proc, store, applied, pending>> /\ ServiceStep
-----------------------------------------------------------------------------
Configuration ==
  \/ \E c \in {"APPLY", "CONNECT"} : ConfigureRefused(c) \/ ConfigureFails(c) \/ ConnectFails(c)
  \/ Apply \/ Connect \/ DisconnectIdle \/ Upload \/ UploadRejected
  \/ UpdateRejected \/ UpdateQueued \/ UpdateReplaced
  \/ OutputCommanded \/ OutputCommandFails \/ OutputRejected

\* The first step of every command and posted event.
Taking ==
  \/ Configuration
  \/ StartRejected \/ StartUnconnected \/ BeginStart
  \/ Stop \/ StopIdle \/ EmergencyStop \/ DisconnectRunning \/ QuitIdle \/ QuitRunning
  \/ WorkerExitEvent \/ EdfaLossEvent \/ EventIgnored

Starting ==
  \/ StorageStarts \/ StorageStartFails \/ UdpStarts \/ UdpStartFails
  \/ ProcessingStarts \/ ProcessingStartFails \/ EdfaStarts \/ EdfaStartFails
  \/ DigitizerStarts \/ DigitizerStartFails \/ WorkerStarts \/ WorkerReadySeen \/ WorkerNotReady
  \/ TriggerChecked \/ TriggerUnarmed \/ ScanStarts \/ ScanStartFails \/ StartCompletes

TearingDown ==
  \/ \E part \in Hardware : DeviceStops(part) \/ DeviceStopFails(part)
  \/ WorkerJoined \/ ProcessingStops \/ ServiceStops("udp") \/ ServiceStops("storage")
  \/ StopCompletes \/ DisconnectCompletes \/ QuitCompletes

Runtime == Taking \/ Starting \/ TearingDown

Others == BatchProcessed \/ ProcessingFails \/ StorageFails \/ MonitorLosesEdfa

Next ==
  \/ \E c \in Commands : PostCommand(c)
  \/ Runtime \/ Tick \/ Worker \/ Others

Spec == Init /\ [][Next]_vars

\* The runtime thread takes its events and its device calls return, the
\* timer fires, and the worker threads are scheduled. Nobody owes a command.
FairSpec ==
  Spec /\ WF_vars(pc = "idle" /\ events # <<>> /\ Taking) /\ WF_vars(pc \in Stages /\ Starting)
       /\ WF_vars(pc = "down" /\ TearingDown) /\ WF_vars(timer /\ Tick)
       /\ WF_vars(worker # "none" /\ Worker) /\ WF_vars(backlog > 0 /\ BatchProcessed)
-----------------------------------------------------------------------------
TypeOK ==
  /\ pc \in {"idle", "down", "over"} \cup Stages /\ todo \in Seq(Parts \cup {"worker"})
  /\ plan \in [kind : Commands \cup {"none", "EXIT", "EDFA", "TICK"}, failed : BOOLEAN]
  /\ running \in BOOLEAN /\ state \in States /\ accepting \in BOOLEAN /\ timer \in BOOLEAN
  /\ storageFailure \in BOOLEAN /\ stopError \in BOOLEAN
  /\ configured \in BOOLEAN /\ processing \in BOOLEAN
  /\ connected \in BOOLEAN /\ waveform \in BOOLEAN
  /\ monitor \in BOOLEAN /\ generation \in Nat
  /\ armed \in BOOLEAN /\ triggered \in BOOLEAN /\ up \subseteq Parts
  /\ worker \in {"none", "starting", "loop", "wait", "deliver", "leave", "post", "done"}
  /\ workerStop \in BOOLEAN /\ workerFailed \in BOOLEAN
  /\ backlog \in 0..Backlog /\ procAccepting \in BOOLEAN /\ procStop \in BOOLEAN
  /\ storageStop \in BOOLEAN
  /\ told \in Nat /\ applied \in Nat /\ pending \in Nat
  /\ events \in Seq(Event) /\ reply \in [command : Commands \cup {"none"}, ok : BOOLEAN]
  /\ commands \in Nat /\ faults \in Nat

\* Every consumer outlives what feeds it, through starts that fail half way
\* and stops from any cause: the processing callbacks use storage_ and udp_,
\* the acquisition worker uses processing_ and the armed session, so none of
\* them goes while the other lives (startRuntime's unwinding, stopRuntime).
ConsumersOutliveProducers ==
  /\ "processing" \in up => Enabled \cap {"storage", "udp"} \subseteq up
  /\ worker # "none" => "processing" \in up
  /\ backlog > 0 => "processing" \in up

\* No trigger without a receiver: the scan starts with the digitizer armed and
\* stops before it, in every start, stop and unwinding. The exceptions are a
\* source that ended by itself and a scanner that did not answer (arm,
\* enableTrigger, stopDevices).
TriggerNeedsReceiver ==
  [][ /\ "scanner" \in up' \ up =>
           "digitizer" \in up \/ worker \in {"leave", "post", "done"}
      /\ pc = "down" /\ "scanner" \in up' /\ "digitizer" \in up \ up' =>
           stopError \/ worker' # worker
    ]_vars

\* Whatever ended the session, a stop or a failed start leaves nothing behind:
\* no worker, no service, nothing armed, and no device on unless the state
\* says Error (stopRuntime, emergencyStopRuntime, the unwinding of
\* startRuntime; a disconnect and a shutdown give up the devices they cannot stop).
StopLeavesAllOff ==
  [][pc = "down" /\ pc' # "down" =>
       /\ worker' = "none" /\ up' \cap Services = {} /\ backlog' = 0
       /\ ~armed' /\ ~triggered' /\ ~accepting' /\ ~timer'
       /\ up' \cap Hardware = {} \/ state' = "Error" \/ plan.kind \in {"DISCONNECT", "QUIT"}]_vars

\* A session that lost its source, its processing or its recording is stopped,
\* although the loss is noticed by another thread, perhaps while START is still
\* enabling the trigger (the exit handler, publishPeriodic).
DeadSessionStops ==
  (running /\ (worker \in {"leave", "post", "done"} \/ procStop \/ storageStop))
    ~> ~running

\* Every start and every stop comes to an end: no join, drain or wait for the
\* worker's readiness blocks the runtime thread for ever.
StartsAndStopsEnd == []<>(pc \in {"idle", "over"})

\* Settings whose update was reported as completed are the processor's or are
\* still waiting for a raster: none is forgotten (updateProcessingRuntime).
AcceptedSettingsKept == "processing" \in up /\ pending = 0 => applied = told

\* A running acquisition with a controlled EDFA is being polled, or its loss is
\* about to be handled (startEdfaMonitor).
RunningIsMonitored ==
  running /\ pc = "idle" /\ "edfa" \in Enabled =>
    monitor \/ \E i \in 1..Len(events) : events[i].type = "EDFA"

\* A command whose stop failed on a device does not answer that it completed
\* (stopRuntimeCommand, emergencyStopRuntime, disconnectRuntime).
StopFailureNotHidden ==
  [][pc = "down" /\ pc' = "idle" /\ stopError /\ plan.kind \in Commands => ~reply'.ok]_vars

\* While an emergency stop waits, no device is switched on
\* (ApplicationController::emergencyStop).
EmergencyFirst ==
  [][(\E i \in 1..Len(events) : events[i].type = "ESTOP")
       => up' \cap Hardware \subseteq up]_vars
=============================================================================
