------------------------- MODULE RuntimeSessionProofs -------------------------
(***************************************************************************)
(* The safety of the session, for every choice of enabled parts, every     *)
(* backlog and any number of commands and failures.  The invariant says    *)
(* what is on at each stage of a start, between sessions (AtRest), and in  *)
(* a teardown, where what is on has its step still to come; that the       *)
(* scripts of the teardowns are in order (Ordered) carries the rest.       *)
(***************************************************************************)
EXTENDS RuntimeSession, TLAPS

\* What a teardown script names, and the members of a sequence.
Steps == Parts \cup {"worker"}
Elements(s) == {s[i] : i \in 1..Len(s)}

\* A step that would end a consumer before its producer, or a receiver before the
\* trigger, and the one it has to wait for.
Misplaced == {<<"processing", "worker">>, <<"storage", "processing">>,
              <<"udp", "processing">>, <<"digitizer", "scanner">>}

Ordered(s) ==
  \A i, j \in 1..Len(s) : i < j => s[i] # s[j] /\ <<s[i], s[j]>> \notin Misplaced

\* A step the teardown still has to do; the consumers of processing that the settings
\* enable; the services that are on; where the worker may be with its source gone;
\* the stages of a start before and after its worker runs.
Left(step) == step \in Elements(todo)
Sinks == Enabled \cap {"storage", "udp"}
On == up \cap Services
Gone == {"leave", "post", "done"}
Early == {"storage", "udp", "processing", "edfa", "digitizer"}
Late == {"await", "trigger", "scan", "armed"}

\* Between two sessions nothing is on but what a device command turned on.
AtRest ==
  pc \in {"idle", "over"} /\ ~running =>
    /\ worker = "none" /\ On = {} /\ backlog = 0
    /\ ~armed /\ ~triggered /\ ~accepting /\ ~timer

\* What is on at each stage of a start, and in a session.
OnStart ==
  /\ pc = "over" => ~running
  /\ pc \in Stages => ~running /\ ~timer
  /\ pc \in Early \cup {"worker"} => worker = "none" /\ ~triggered /\ ~accepting
  /\ pc \in Early => ~armed
  /\ pc \in {"storage", "udp", "processing"} => backlog = 0
  /\ pc = "storage" => On = {}
  /\ pc = "udp" => On = Enabled \cap {"storage"}
  /\ pc = "processing" => On = Sinks
  /\ pc \in {"edfa", "digitizer", "worker"} \cup Late => On = Sinks \cup {"processing"}
  /\ pc = "idle" /\ running => On = Sinks \cup {"processing"}
  /\ pc \in Late \cup {"worker"} => "digitizer" \in up \/ worker \in Gone

\* In a teardown what is on is still to be done, or the state will say so.
GoingDown ==
  pc = "down" =>
    /\ ~accepting /\ ~timer
    /\ worker # "none" => Left("worker")
    /\ armed \/ triggered => Left("edfa")
    /\ \A s \in On : Left(s)
    /\ plan.failed \/ stopError \/ \A h \in up \cap Hardware : Left(h)
    /\ plan.kind \in {"DISCONNECT", "QUIT"} => ~plan.failed
    /\ "scanner" \in up => Left("scanner") \/ stopError \/ ~Left("digitizer")

\* The types the proof needs: a script of known steps, known parts, a natural backlog.
Sizes == todo \in Seq(Steps) /\ up \subseteq Parts /\ backlog \in Nat

SessionInv ==
  Sizes /\ Ordered(todo) /\ AtRest /\ OnStart /\ GoingDown /\ ConsumersOutliveProducers
-----------------------------------------------------------------------------
(* The steps of a teardown.                                                *)

\* What is left of an ordered script when its first step is done.
LEMMA TailOf ==
  ASSUME NEW s \in Seq(Steps), s # <<>>, Ordered(s)
  PROVE  /\ Tail(s) \in Seq(Steps) /\ Ordered(Tail(s))
         /\ \A x : x \in Elements(Tail(s)) <=> x \in Elements(s) /\ x # Head(s)
         /\ Head(s) \in Elements(s) /\ Head(s) \in Steps
         /\ \A x \in Elements(s) : <<Head(s), x>> \notin Misplaced
<1>1. /\ Tail(s) \in Seq(Steps) /\ Len(s) \in Nat \ {0} /\ Len(Tail(s)) = Len(s) - 1
      /\ \A i \in 1..Len(s) - 1 : Tail(s)[i] = s[i + 1]
      /\ Head(s) = s[1] /\ Head(s) \in Steps
  OBVIOUS
<1>2. Ordered(Tail(s))
  <2>1. SUFFICES ASSUME NEW i \in 1..Len(s) - 1, NEW j \in 1..Len(s) - 1, i < j
                 PROVE  Tail(s)[i] # Tail(s)[j] /\ <<Tail(s)[i], Tail(s)[j]>> \notin Misplaced
    BY <1>1 DEF Ordered
  <2>2. i + 1 \in 1..Len(s) /\ j + 1 \in 1..Len(s) /\ i + 1 < j + 1
    BY <1>1, <2>1
  <2>3. s[i + 1] # s[j + 1] /\ <<s[i + 1], s[j + 1]>> \notin Misplaced
    BY <2>2 DEF Ordered
  <2>4. Tail(s)[i] = s[i + 1] /\ Tail(s)[j] = s[j + 1]
    BY <1>1
  <2> QED
    BY <2>3, <2>4
<1>3. Head(s) \in Elements(s)
  BY <1>1 DEF Elements
<1>4. \A i \in 1..Len(s) : i # 1 => s[i] # Head(s) /\ <<Head(s), s[i]>> \notin Misplaced
  BY <1>1 DEF Ordered
<1>5. <<Head(s), Head(s)>> \notin Misplaced
  BY DEF Misplaced
<1>6. \A x \in Elements(s) : <<Head(s), x>> \notin Misplaced
  BY <1>1, <1>4, <1>5 DEF Elements
<1>7. ASSUME NEW x \in Elements(Tail(s)) PROVE x \in Elements(s) /\ x # Head(s)
  <2>1. PICK i \in 1..Len(s) - 1 : x = Tail(s)[i]
    BY <1>1, <1>7 DEF Elements
  <2>2. i + 1 \in 1..Len(s) /\ i + 1 # 1 /\ x = s[i + 1]
    BY <1>1, <2>1
  <2> QED
    BY <1>4, <2>2 DEF Elements
<1>8. ASSUME NEW x \in Elements(s), x # Head(s) PROVE x \in Elements(Tail(s))
  <2>1. PICK i \in 1..Len(s) : x = s[i]
    BY DEF Elements
  <2>2. i - 1 \in 1..Len(s) - 1 /\ x = Tail(s)[i - 1]
    BY <1>1, <1>8, <2>1
  <2> QED
    BY <1>1, <2>2 DEF Elements
<1> QED
  BY <1>1, <1>2, <1>3, <1>6, <1>7, <1>8

\* An empty script.
LEMMA EmptyOf == <<>> \in Seq(Steps) /\ Ordered(<<>>) /\ Elements(<<>>) = {}
BY DEF Ordered, Elements

\* One step before an ordered script.
LEMMA StepBefore ==
  ASSUME NEW s \in Seq(Steps), Ordered(s), NEW x \in Steps, x \notin Elements(s),
         \A y \in Elements(s) : <<x, y>> \notin Misplaced
  PROVE  /\ <<x>> \o s \in Seq(Steps) /\ Ordered(<<x>> \o s)
         /\ Elements(<<x>> \o s) = {x} \cup Elements(s)
<1> DEFINE t == <<x>> \o s
<1>1. /\ t \in Seq(Steps) /\ Len(s) \in Nat /\ Len(t) = Len(s) + 1 /\ t[1] = x
      /\ \A i \in 2..Len(s) + 1 : t[i] = s[i - 1]
  OBVIOUS
<1> HIDE DEF t
<1>2. \A i \in 2..Len(s) + 1 : i - 1 \in 1..Len(s)
  BY <1>1
<1>3. \A i \in 2..Len(s) + 1 : t[i] \in Elements(s)
  BY <1>1, <1>2 DEF Elements
<1>4. Elements(t) = {x} \cup Elements(s)
  <2>1. ASSUME NEW i \in 1..Len(s) PROVE s[i] \in Elements(t)
    <3>1. i + 1 \in 1..Len(t) /\ t[i + 1] = s[i]
      BY <1>1
    <3> QED
      BY <3>1 DEF Elements
  <2>2. x \in Elements(t)
    BY <1>1 DEF Elements
  <2>3. ASSUME NEW i \in 1..Len(t) PROVE t[i] \in {x} \cup Elements(s)
    BY <1>1, <1>3
  <2> QED
    BY <2>1, <2>2, <2>3 DEF Elements
<1>5. Ordered(t)
  <2>1. SUFFICES ASSUME NEW i \in 1..Len(t), NEW j \in 1..Len(t), i < j
                 PROVE  t[i] # t[j] /\ <<t[i], t[j]>> \notin Misplaced
    BY DEF Ordered
  <2>2. CASE i = 1
    BY <1>1, <1>3, <2>1, <2>2
  <2>3. CASE i # 1
    <3>1. i - 1 \in 1..Len(s) /\ j - 1 \in 1..Len(s) /\ i - 1 < j - 1
      BY <1>1, <2>1, <2>3
    <3>2. t[i] = s[i - 1] /\ t[j] = s[j - 1]
      BY <1>1, <2>1, <2>3
    <3> QED
      BY <3>1, <3>2 DEF Ordered
  <2> QED
    BY <2>2, <2>3
<1> QED
  BY <1>1, <1>4, <1>5 DEF t

\* The script of a stop names every step once, consumers after their producers and
\* the receiver after the trigger.
LEMMA StopStepsOf ==
  StopSteps \in Seq(Steps) /\ Ordered(StopSteps) /\ Elements(StopSteps) = Steps
<1>1. StopSteps \in Seq(Steps) /\ Len(StopSteps) = 7
  BY DEF StopSteps, Steps, Parts, Hardware, Services
<1>2. Elements(StopSteps) = Steps
  BY <1>1 DEF StopSteps, Steps, Parts, Hardware, Services, Elements
<1>3. Ordered(StopSteps)
  BY <1>1 DEF StopSteps, Ordered, Misplaced
<1> QED
  BY <1>1, <1>2, <1>3

\* The script of a start whose worker never says it is ready.
NotReadySteps == <<"worker", "scanner", "digitizer", "edfa", "processing", "udp", "storage">>

\* That script names every step once, in an order that leaves no consumer early.
LEMMA NotReadyStepsOf ==
  /\ NotReadySteps \in Seq(Steps) /\ Ordered(NotReadySteps)
  /\ Elements(NotReadySteps) = Steps
<1>1. NotReadySteps \in Seq(Steps) /\ Len(NotReadySteps) = 7
  BY DEF NotReadySteps, Steps, Parts, Hardware, Services
<1>2. Elements(NotReadySteps) = Steps
  BY <1>1 DEF NotReadySteps, Steps, Parts, Hardware, Services, Elements
<1>3. Ordered(NotReadySteps)
  BY <1>1 DEF NotReadySteps, Ordered, Misplaced
<1> QED
  BY <1>1, <1>2, <1>3

\* The scripts that take down a start which failed before its worker ran.
LEMMA UnwindStepsOf ==
  /\ \A s \in {<<"storage">>, <<"storage", "udp">>, <<"processing", "storage", "udp">>} :
       s \in Seq(Steps) /\ Ordered(s)
  /\ Elements(<<"storage">>) = {"storage"}
  /\ Elements(<<"storage", "udp">>) = {"storage", "udp"}
  /\ Elements(<<"processing", "storage", "udp">>) = {"processing", "storage", "udp"}
<1>1. /\ <<"storage">> \in Seq(Steps) /\ Len(<<"storage">>) = 1
      /\ <<"storage", "udp">> \in Seq(Steps) /\ Len(<<"storage", "udp">>) = 2
      /\ <<"processing", "storage", "udp">> \in Seq(Steps)
      /\ Len(<<"processing", "storage", "udp">>) = 3
  BY DEF Steps, Parts, Services
<1>2. Ordered(<<"storage">>)
  BY <1>1 DEF Ordered
<1>3. Ordered(<<"storage", "udp">>)
  BY <1>1 DEF Ordered, Misplaced
<1>4. Ordered(<<"processing", "storage", "udp">>)
  BY <1>1 DEF Ordered, Misplaced
<1>5. /\ Elements(<<"storage">>) = {"storage"}
      /\ Elements(<<"storage", "udp">>) = {"storage", "udp"}
  BY <1>1 DEF Elements
<1>6. Elements(<<"processing", "storage", "udp">>) = {"processing", "storage", "udp"}
  BY <1>1 DEF Elements
<1> QED
  BY <1>1, <1>2, <1>3, <1>4, <1>5, <1>6

-----------------------------------------------------------------------------
(* What a step can do to the session, and that the invariant survives it.  *)

\* What the invariant reads, and the part of it that no device command touches.
core == <<pc, todo, plan, running, accepting, timer, stopError, armed, triggered, up, worker,
          backlog>>
rest == <<pc, todo, plan, running, accepting, timer, stopError, worker, backlog>>

\* A step that leaves the session alone.
LEMMA Aside == SessionInv /\ UNCHANGED core => SessionInv'
BY DEF SessionInv, core, Sizes, AtRest, OnStart, GoingDown, ConsumersOutliveProducers, Left, On

\* A command that turns devices on or off between two events.
LEMMA Device ==
  ASSUME SessionInv, pc = "idle", UNCHANGED rest,
         armed' => armed, triggered' => triggered,
         up' \subseteq Parts, On' = On
  PROVE  SessionInv'
<1>1. Sizes' /\ Ordered(todo)'
  BY DEF SessionInv, Sizes, rest
<1>2. AtRest' /\ GoingDown'
  BY DEF SessionInv, rest, AtRest, GoingDown
<1>3. OnStart'
  BY DEF SessionInv, rest, OnStart, Stages, Early, Late
<1>4. ConsumersOutliveProducers'
  BY DEF SessionInv, rest, ConsumersOutliveProducers, On, Services
<1> QED
  BY <1>1, <1>2, <1>3, <1>4 DEF SessionInv

\* A stop of whatever cause begins.
LEMMA StopBegins ==
  ASSUME SessionInv, pc = "idle", NEW kind, NEW failed, BeginStop(kind, failed),
         kind \in {"DISCONNECT", "QUIT"} => ~failed
  PROVE  SessionInv'
<1>1. /\ pc' = "down" /\ todo' = StopSteps /\ ~timer' /\ ~accepting'
      /\ plan'.kind = kind /\ plan'.failed = failed
      /\ UNCHANGED <<running, armed, triggered, up, worker, backlog>>
  BY DEF BeginStop, devices, proc
<1>2. Sizes' /\ Ordered(todo)'
  BY <1>1, StopStepsOf DEF SessionInv, Sizes
<1>3. \A x \in Steps : Left(x)'
  BY <1>1, StopStepsOf DEF Left
<1>4. AtRest' /\ OnStart'
  BY <1>1 DEF AtRest, OnStart, Stages, Early, Late
<1>5. GoingDown'
  BY <1>1, <1>3 DEF SessionInv, GoingDown, Steps, Parts, Hardware, Services, On
<1>6. ConsumersOutliveProducers'
  BY <1>1 DEF SessionInv, ConsumersOutliveProducers
<1> QED
  BY <1>2, <1>4, <1>5, <1>6 DEF SessionInv

\* A start fails and is taken down by a script that has what is on so far.
LEMMA StartFails ==
  ASSUME SessionInv, pc \in Stages, NEW script \in Seq(Steps), Ordered(script), Unwind(script),
         up' \subseteq Parts, On' = On, armed' => armed,
         UNCHANGED <<triggered, worker, backlog>>, ~accepting',
         \A s \in On : s \in Elements(script),
         worker # "none" => "worker" \in Elements(script),
         armed \/ triggered => "edfa" \in Elements(script),
         "scanner" \in Elements(script) \/ "digitizer" \notin Elements(script)
  PROVE  SessionInv'
<1>1. /\ pc' = "down" /\ todo' = script /\ plan'.kind = "START" /\ plan'.failed = TRUE
      /\ UNCHANGED <<running, timer>>
  BY DEF Unwind
<1>2. ~timer'
  BY <1>1 DEF SessionInv, OnStart
<1>3. Sizes' /\ Ordered(todo)'
  BY <1>1 DEF SessionInv, Sizes
<1>4. AtRest' /\ OnStart'
  BY <1>1 DEF AtRest, OnStart, Stages, Early, Late
<1>5. GoingDown'
  BY <1>1, <1>2 DEF SessionInv, GoingDown, Left
<1>6. ConsumersOutliveProducers'
  BY <1>1 DEF SessionInv, ConsumersOutliveProducers, On, Services
<1> QED
  BY <1>3, <1>4, <1>5, <1>6 DEF SessionInv

\* A step of a teardown: its part goes, or the failure is remembered.
LEMMA StepDone ==
  ASSUME SessionInv, NEW step \in Steps, Teardown(step),
         up' = up \ {step} \/ (up' = up /\ stopError' /\ step \notin Services),
         stopError => stopError', armed' => armed, triggered' => triggered,
         step = "edfa" => ~armed' /\ ~triggered',
         worker' = worker \/ worker' = "none", step = "worker" => worker' = "none",
         backlog' \in Nat, backlog' > 0 => backlog > 0, step = "processing" => backlog' = 0
  PROVE  SessionInv'
<1>1. /\ pc = "down" /\ pc' = "down" /\ todo # <<>> /\ step = Head(todo) /\ todo' = Tail(todo)
      /\ UNCHANGED <<plan, running, accepting, timer>>
  BY DEF Teardown
<1>2. /\ todo' \in Seq(Steps) /\ Ordered(todo)'
      /\ \A x : Left(x)' <=> Left(x) /\ x # step
      /\ \A x : Left(x) => <<step, x>> \notin Misplaced
  BY <1>1, TailOf DEF SessionInv, Sizes, Left
<1>3. (up' \subseteq up /\ step \notin Services) \/ up' = up \ {step}
  OBVIOUS
<1>4. Sizes'
  BY <1>2 DEF SessionInv, Sizes
<1>5. AtRest' /\ OnStart'
  BY <1>1 DEF AtRest, OnStart, Stages, Early, Late
<1>6. GoingDown'
  <2>1. ~accepting' /\ ~timer' /\ (plan.kind \in {"DISCONNECT", "QUIT"} => ~plan.failed)'
    BY <1>1 DEF SessionInv, GoingDown
  <2>2. worker' # "none" => Left("worker")'
    BY <1>1, <1>2 DEF SessionInv, GoingDown
  <2>3. armed' \/ triggered' => Left("edfa")'
    BY <1>1, <1>2 DEF SessionInv, GoingDown
  <2>4. \A s \in On' : Left(s)'
    BY <1>1, <1>2, <1>3 DEF SessionInv, GoingDown, On
  <2>5. plan'.failed \/ stopError' \/ \A h \in up' \cap Hardware : Left(h)'
    BY <1>1, <1>2 DEF SessionInv, GoingDown
  <2>6. "scanner" \in up' => Left("scanner")' \/ stopError' \/ ~Left("digitizer")'
    BY <1>1, <1>2 DEF SessionInv, GoingDown
  <2> QED
    BY <2>1, <2>2, <2>3, <2>4, <2>5, <2>6 DEF GoingDown
<1>7. ConsumersOutliveProducers'
  <2>1. /\ "processing" \in up => Left("processing")
        /\ worker # "none" => Left("worker")
    BY <1>1 DEF SessionInv, GoingDown, On, Services
  <2>2. /\ step = "processing" => ~Left("worker")
        /\ step \in {"storage", "udp"} => ~Left("processing")
    BY <1>2 DEF Misplaced
  <2>3. "processing" \in up' => Enabled \cap {"storage", "udp"} \subseteq up'
    BY <2>1, <2>2 DEF SessionInv, ConsumersOutliveProducers, Services
  <2>4. worker' # "none" \/ backlog' > 0 => "processing" \in up'
    BY <2>1, <2>2 DEF SessionInv, ConsumersOutliveProducers, Services
  <2> QED
    BY <2>3, <2>4 DEF ConsumersOutliveProducers
<1> QED
  BY <1>2, <1>4, <1>5, <1>6, <1>7 DEF SessionInv

\* A step of the acquisition worker, which may end or lose its source.
LEMMA WorkerOn ==
  ASSUME SessionInv, UNCHANGED <<pc, todo, plan, running, accepting, timer, stopError>>,
         worker # "none", worker' # "none", worker \in Gone => worker' \in Gone,
         up' = up \/ (up' = up \ {"digitizer"} /\ worker' \in Gone),
         armed' => armed, triggered' => triggered, backlog' \in Nat
  PROVE  SessionInv'
<1>1. On' = On /\ up' \subseteq up
  BY DEF On, Services
<1>2. Sizes' /\ Ordered(todo)'
  BY <1>1 DEF SessionInv, Sizes
<1>3. AtRest'
  BY DEF SessionInv, AtRest
<1>4. OnStart'
  BY <1>1 DEF SessionInv, OnStart, Early, Late
<1>5. GoingDown'
  BY <1>1 DEF SessionInv, GoingDown, Left
<1>6. ConsumersOutliveProducers'
  BY <1>1 DEF SessionInv, ConsumersOutliveProducers, On, Services
<1> QED
  BY <1>2, <1>3, <1>4, <1>5, <1>6 DEF SessionInv

\* A step of the processing worker.
LEMMA ProcessingOn ==
  ASSUME SessionInv, "processing" \in up, backlog' \in Nat,
         UNCHANGED <<pc, todo, plan, running, accepting, timer, stopError, armed, triggered, up,
                     worker>>
  PROVE  SessionInv'
<1>1. On' = On /\ "processing" \in On
  BY DEF On, Services
<1>2. Sizes' /\ Ordered(todo)'
  BY DEF SessionInv, Sizes
<1>3. AtRest'
  BY <1>1 DEF SessionInv, AtRest
<1>4. OnStart'
  BY <1>1 DEF SessionInv, OnStart, Sinks
<1>5. GoingDown'
  BY <1>1 DEF SessionInv, GoingDown, Left
<1>6. ConsumersOutliveProducers'
  BY DEF SessionInv, ConsumersOutliveProducers
<1> QED
  BY <1>2, <1>3, <1>4, <1>5, <1>6 DEF SessionInv

\* A stage of a start is done: its part is on, if it is enabled, and the next
\* stage finds what it needs.
LEMMA StageDone ==
  ASSUME SessionInv, NEW at \in Stages, NEW next \in Stages, NEW part, Stage(at, next, part),
         UNCHANGED triggered, part \in Parts, backlog' \in Nat, OnStart',
         backlog' > 0 => "processing" \in up'
  PROVE  SessionInv'
<1>1. pc' = next /\ up \subseteq up' /\ UNCHANGED <<todo, running, worker>>
  BY DEF Stage, acq
<1>2. up' \subseteq Parts
  BY DEF Stage, SessionInv, Sizes
<1>3. Sizes' /\ Ordered(todo)'
  BY <1>1, <1>2 DEF SessionInv, Sizes
<1>4. AtRest' /\ GoingDown'
  BY <1>1 DEF AtRest, GoingDown, Stages
<1>5. "processing" \in up' => Enabled \cap {"storage", "udp"} \subseteq up'
  BY <1>1 DEF OnStart, On, Sinks, Stages, Early, Late, Services
<1> QED
  BY <1>1, <1>3, <1>4, <1>5 DEF SessionInv, ConsumersOutliveProducers

\* Every step keeps the invariant.
LEMMA SessionStep == SessionInv /\ [Next]_vars => SessionInv'
<1> SUFFICES ASSUME SessionInv, [Next]_vars PROVE SessionInv'
  OBVIOUS
<1>1. CASE Upload \/ UploadRejected \/ OutputRejected
  BY <1>1, Aside DEF Upload, Take, runtime, poll, devices, acq, proc, store, revs,
                     UploadRejected, setup, OutputRejected, OutputSet, core
<1>2. ASSUME NEW c \in {"APPLY", "CONNECT"}, ConfigureRefused(c) PROVE SessionInv'
  BY <1>2, Aside DEF ConfigureRefused, Take, setup, poll, devices, acq, proc, store, revs, core
<1>3. CASE UpdateRejected \/ UpdateQueued \/ UpdateReplaced
  BY <1>3, Aside DEF UpdateRejected, Take, runtime, setup, poll, devices, acq, proc, store,
                     revs, UpdateQueued, UpdateReplaced, core
<1>4. CASE StartRejected \/ StartUnconnected \/ StopIdle \/ EventIgnored
  BY <1>4, Aside DEF StartRejected, Take, runtime, setup, poll, devices, acq, proc, store,
                     revs, StartUnconnected, Fault, StopIdle, EventIgnored, core
<1>5. ASSUME NEW c \in Commands, PostCommand(c) PROVE SessionInv'
  BY <1>5, Aside DEF PostCommand, runtime, setup, poll, devices, acq, proc, store, revs, core
<1>6. CASE StorageFails \/ MonitorLosesEdfa
  BY <1>6, Aside DEF StorageFails, Fault, poll, proc, ServiceStep, runtime, setup, devices,
                     acq, MonitorLosesEdfa, store, core
<1>7. ASSUME NEW c \in {"APPLY", "CONNECT"}, ConfigureFails(c) PROVE SessionInv'
  BY <1>7, Device DEF ConfigureFails, Take, Fault, Unplugged, StopMonitor, poll, acq, proc,
                      revs, rest, SessionInv, Sizes, On, Parts, Hardware, Services
<1>8. ASSUME NEW c \in {"APPLY", "CONNECT"}, ConnectFails(c) PROVE SessionInv'
  BY <1>8, Device DEF ConnectFails, Configured, Take, Unplugged, acq, proc, Fault, StopMonitor,
                      poll, rest, SessionInv, Sizes, On, Parts, Hardware, Services
<1>9. CASE Apply \/ Connect
  <2>1. pc = "idle" /\ UNCHANGED rest /\ UNCHANGED <<armed, triggered>> /\ up' \in {up, Unplugged}
    BY <1>9 DEF Apply, Connect, Configured, Take, acq, proc, rest
  <2>2. up' \subseteq Parts /\ On' = On
    BY <2>1 DEF SessionInv, Sizes, Unplugged, On, Services
  <2> QED
    BY <2>1, <2>2, Device
<1>10. CASE DisconnectIdle
  BY <1>10, Device DEF DisconnectIdle, Take, Disconnected, StopMonitor, Unplugged, Configured,
                       acq, proc, store, revs, rest, SessionInv, Sizes, On, Parts, Hardware,
                       Services
<1>11. CASE OutputCommanded \/ OutputCommandFails
  <2>1. /\ pc = "idle" /\ UNCHANGED rest /\ UNCHANGED <<armed, triggered>>
        /\ up' \in {up, up \cup {"edfa"}, up \ {"edfa"}}
    BY <1>11 DEF OutputCommanded, OutputCommandFails, OutputSet, Take, runtime, acq, proc, rest
  <2>2. up' \subseteq Parts /\ On' = On
    BY <2>1 DEF SessionInv, Sizes, On, Parts, Hardware, Services
  <2> QED
    BY <2>1, <2>2, Device
<1>12. CASE Stop
  BY <1>12, StopBegins DEF Stop, Take
<1>13. CASE EmergencyStop
  BY <1>13, StopBegins DEF EmergencyStop, Take
<1>14. CASE DisconnectRunning
  BY <1>14, StopBegins DEF DisconnectRunning, Take
<1>15. CASE QuitRunning
  BY <1>15, StopBegins DEF QuitRunning, Take
<1>16. CASE WorkerExitEvent
  BY <1>16, StopBegins DEF WorkerExitEvent, Take
<1>17. CASE EdfaLossEvent
  BY <1>17, StopBegins DEF EdfaLossEvent, Take
<1>18. CASE Tick
  BY <1>18, StopBegins DEF Tick
<1>19. CASE BeginStart
  <2>1. /\ pc = "idle" /\ ~running /\ pc' \in {"idle", "storage"}
        /\ UNCHANGED <<todo, plan, running, accepting, timer, stopError, armed, triggered, up,
                       worker, backlog>>
    BY <1>19 DEF BeginStart, Take, devices, acq, proc
  <2> QED
    BY <2>1 DEF SessionInv, Sizes, AtRest, OnStart, GoingDown, ConsumersOutliveProducers,
                On, Stages, Early, Late
<1>20. CASE QuitIdle
  <2>1. /\ pc = "idle" /\ ~running /\ pc' = "over" /\ ~armed' /\ ~triggered' /\ up' = Unplugged
        /\ UNCHANGED <<todo, running, accepting, timer, worker, backlog>>
    BY <1>20 DEF QuitIdle, Take, Unplug, acq, proc
  <2>2. up' \subseteq up /\ On' = On
    BY <2>1 DEF Unplugged, On, Services
  <2>3. Sizes' /\ Ordered(todo)' /\ AtRest'
    BY <2>1, <2>2 DEF SessionInv, Sizes, AtRest
  <2>4. OnStart' /\ GoingDown'
    BY <2>1 DEF OnStart, GoingDown, Stages, Early, Late
  <2>5. ConsumersOutliveProducers'
    BY <2>1, <2>2 DEF SessionInv, AtRest, ConsumersOutliveProducers, On, Services
  <2> QED
    BY <2>3, <2>4, <2>5 DEF SessionInv
<1>21. CASE StorageStarts
  <2>1. Stage("storage", "udp", "storage") /\ UNCHANGED triggered
    BY <1>21 DEF StorageStarts
  <2>2. /\ pc = "storage" /\ pc' = "udp" /\ UNCHANGED <<running, timer, accepting, worker>>
        /\ up' = up \cup (IF "storage" \in Enabled \cup {"processing", "digitizer"}
                             THEN {"storage"} ELSE {})
    BY <2>1 DEF Stage, acq
  <2>3. UNCHANGED <<armed, backlog>>
    BY <1>21 DEF StorageStarts, proc
  <2>4. OnStart'
    BY <2>1, <2>2, <2>3 DEF SessionInv, OnStart, On, Sinks, Stages, Early, Late, Parts,
                            Hardware, Services, Gone
  <2>5. backlog' \in Nat /\ (backlog' > 0 => "processing" \in up')
    BY <2>2, <2>3 DEF SessionInv, Sizes, ConsumersOutliveProducers
  <2> QED
    BY <2>1, <2>4, <2>5, StageDone DEF Stages, Parts, Hardware, Services
<1>22. CASE UdpStarts
  <2>1. Stage("udp", "processing", "udp") /\ UNCHANGED triggered
    BY <1>22 DEF UdpStarts
  <2>2. /\ pc = "udp" /\ pc' = "processing" /\ UNCHANGED <<running, timer, accepting, worker>>
        /\ up' = up \cup (IF "udp" \in Enabled \cup {"processing", "digitizer"}
                             THEN {"udp"} ELSE {})
    BY <2>1 DEF Stage, acq
  <2>3. UNCHANGED <<armed, backlog>>
    BY <1>22 DEF UdpStarts, proc
  <2>4. OnStart'
    BY <2>1, <2>2, <2>3 DEF SessionInv, OnStart, On, Sinks, Stages, Early, Late, Parts,
                            Hardware, Services, Gone
  <2>5. backlog' \in Nat /\ (backlog' > 0 => "processing" \in up')
    BY <2>2, <2>3 DEF SessionInv, Sizes, ConsumersOutliveProducers
  <2> QED
    BY <2>1, <2>4, <2>5, StageDone DEF Stages, Parts, Hardware, Services
<1>23. CASE ProcessingStarts
  <2>1. Stage("processing", "edfa", "processing") /\ UNCHANGED triggered
    BY <1>23 DEF ProcessingStarts
  <2>2. /\ pc = "processing" /\ pc' = "edfa" /\ UNCHANGED <<running, timer, accepting, worker>>
        /\ up' = up \cup (IF "processing" \in Enabled \cup {"processing", "digitizer"}
                             THEN {"processing"} ELSE {})
    BY <2>1 DEF Stage, acq
  <2>3. UNCHANGED armed /\ backlog' = 0
    BY <1>23 DEF ProcessingStarts, proc
  <2>4. OnStart'
    BY <2>1, <2>2, <2>3 DEF SessionInv, OnStart, On, Sinks, Stages, Early, Late, Parts,
                            Hardware, Services, Gone
  <2>5. backlog' \in Nat /\ (backlog' > 0 => "processing" \in up')
    BY <2>2, <2>3 DEF SessionInv, Sizes, ConsumersOutliveProducers
  <2> QED
    BY <2>1, <2>4, <2>5, StageDone DEF Stages, Parts, Hardware, Services
<1>24. CASE EdfaStarts
  <2>1. Stage("edfa", "digitizer", "edfa") /\ UNCHANGED triggered
    BY <1>24 DEF EdfaStarts
  <2>2. /\ pc = "edfa" /\ pc' = "digitizer" /\ UNCHANGED <<running, timer, accepting, worker>>
        /\ up' = up \cup (IF "edfa" \in Enabled \cup {"processing", "digitizer"}
                             THEN {"edfa"} ELSE {})
    BY <2>1 DEF Stage, acq
  <2>3. UNCHANGED <<armed, backlog>>
    BY <1>24 DEF EdfaStarts, proc
  <2>4. OnStart'
    BY <2>1, <2>2, <2>3 DEF SessionInv, OnStart, On, Sinks, Stages, Early, Late, Parts,
                            Hardware, Services, Gone
  <2>5. backlog' \in Nat /\ (backlog' > 0 => "processing" \in up')
    BY <2>2, <2>3 DEF SessionInv, Sizes, ConsumersOutliveProducers
  <2> QED
    BY <2>1, <2>4, <2>5, StageDone DEF Stages, Parts, Hardware, Services
<1>25. CASE DigitizerStarts
  <2>1. Stage("digitizer", "worker", "digitizer") /\ UNCHANGED triggered
    BY <1>25 DEF DigitizerStarts
  <2>2. /\ pc = "digitizer" /\ pc' = "worker" /\ UNCHANGED <<running, timer, accepting, worker>>
        /\ up' = up \cup (IF "digitizer" \in Enabled \cup {"processing", "digitizer"}
                             THEN {"digitizer"} ELSE {})
    BY <2>1 DEF Stage, acq
  <2>3. UNCHANGED backlog
    BY <1>25 DEF DigitizerStarts, proc
  <2>4. OnStart'
    BY <2>1, <2>2, <2>3 DEF SessionInv, OnStart, On, Sinks, Stages, Early, Late, Parts,
                            Hardware, Services, Gone
  <2>5. backlog' \in Nat /\ (backlog' > 0 => "processing" \in up')
    BY <2>2, <2>3 DEF SessionInv, Sizes, ConsumersOutliveProducers
  <2> QED
    BY <2>1, <2>4, <2>5, StageDone DEF Stages, Parts, Hardware, Services
<1>26. CASE ScanStarts
  <2>1. Stage("scan", "armed", "scanner") /\ UNCHANGED triggered
    BY <1>26 DEF ScanStarts
  <2>2. /\ pc = "scan" /\ pc' = "armed" /\ UNCHANGED <<running, timer, accepting, worker>>
        /\ up' = up \cup (IF "scanner" \in Enabled \cup {"processing", "digitizer"}
                             THEN {"scanner"} ELSE {})
    BY <2>1 DEF Stage, acq
  <2>3. UNCHANGED <<armed, backlog>>
    BY <1>26 DEF ScanStarts, proc
  <2>4. OnStart'
    BY <2>1, <2>2, <2>3 DEF SessionInv, OnStart, On, Sinks, Stages, Early, Late, Parts,
                            Hardware, Services, Gone
  <2>5. backlog' \in Nat /\ (backlog' > 0 => "processing" \in up')
    BY <2>2, <2>3 DEF SessionInv, Sizes, ConsumersOutliveProducers
  <2> QED
    BY <2>1, <2>4, <2>5, StageDone DEF Stages, Parts, Hardware, Services
<1>27. CASE WorkerStarts
  <2>1. /\ pc = "worker" /\ pc' = "await" /\ worker' = "starting"
        /\ UNCHANGED <<todo, plan, running, timer, stopError, armed, triggered, up, backlog>>
    BY <1>27 DEF WorkerStarts, devices, proc
  <2> QED
    BY <2>1 DEF SessionInv, Sizes, AtRest, OnStart, GoingDown, ConsumersOutliveProducers,
                On, Stages, Early, Late, Gone, Services
<1>28. CASE WorkerReadySeen \/ TriggerChecked
  <2>1. /\ pc \in {"await", "trigger"} /\ pc' \in {"trigger", "scan"}
        /\ UNCHANGED <<todo, plan, running, accepting, timer, stopError, armed, triggered, up,
                       worker, backlog>>
    BY <1>28 DEF WorkerReadySeen, TriggerChecked, devices, acq, proc
  <2> QED
    BY <2>1 DEF SessionInv, Sizes, AtRest, OnStart, GoingDown, ConsumersOutliveProducers,
                On, Stages, Early, Late
<1>29. CASE StorageStartFails
  <2>1. /\ pc = "storage" /\ Unwind(<<>>) /\ UNCHANGED <<triggered, worker, backlog>>
        /\ up' \subseteq Parts /\ On' = On /\ (armed' => armed)
    BY <1>29 DEF StorageStartFails, devices, acq, proc, On, SessionInv, Sizes, Parts, Services
  <2>2. ~accepting' /\ worker = "none" /\ ~armed /\ ~triggered
    BY <1>29, <2>1 DEF SessionInv, OnStart, Early, StorageStartFails, Fault
  <2>3. \A s \in On : s \in Elements(<<>>)
    BY <2>1, UnwindStepsOf, EmptyOf DEF SessionInv, OnStart, Sinks
  <2>4. "digitizer" \notin Elements(<<>>)
    BY UnwindStepsOf, EmptyOf
  <2> QED
    BY <2>1, <2>2, <2>3, <2>4, StartFails, UnwindStepsOf, EmptyOf DEF Stages
<1>30. CASE UdpStartFails
  <2>1. /\ pc = "udp" /\ Unwind(<<"storage">>) /\ UNCHANGED <<triggered, worker, backlog>>
        /\ up' \subseteq Parts /\ On' = On /\ (armed' => armed)
    BY <1>30 DEF UdpStartFails, devices, acq, proc, On, SessionInv, Sizes, Parts, Services
  <2>2. ~accepting' /\ worker = "none" /\ ~armed /\ ~triggered
    BY <1>30, <2>1 DEF SessionInv, OnStart, Early, UdpStartFails, Fault
  <2>3. \A s \in On : s \in Elements(<<"storage">>)
    BY <2>1, UnwindStepsOf, EmptyOf DEF SessionInv, OnStart, Sinks
  <2>4. "digitizer" \notin Elements(<<"storage">>)
    BY UnwindStepsOf, EmptyOf
  <2> QED
    BY <2>1, <2>2, <2>3, <2>4, StartFails, UnwindStepsOf, EmptyOf DEF Stages
<1>31. CASE ProcessingStartFails
  <2>1. /\ pc = "processing" /\ Unwind(<<"storage", "udp">>)
        /\ UNCHANGED <<triggered, worker, backlog>>
        /\ up' \subseteq Parts /\ On' = On /\ (armed' => armed)
    BY <1>31 DEF ProcessingStartFails, devices, acq, proc, On, SessionInv, Sizes, Parts, Services
  <2>2. ~accepting' /\ worker = "none" /\ ~armed /\ ~triggered
    BY <1>31, <2>1 DEF SessionInv, OnStart, Early, ProcessingStartFails, Fault
  <2>3. \A s \in On : s \in Elements(<<"storage", "udp">>)
    BY <2>1, UnwindStepsOf, EmptyOf DEF SessionInv, OnStart, Sinks
  <2>4. "digitizer" \notin Elements(<<"storage", "udp">>)
    BY UnwindStepsOf, EmptyOf
  <2> QED
    BY <2>1, <2>2, <2>3, <2>4, StartFails, UnwindStepsOf, EmptyOf DEF Stages
<1>32. CASE EdfaStartFails
  <2>1. /\ pc = "edfa" /\ Unwind(<<"processing", "storage", "udp">>)
        /\ UNCHANGED <<triggered, worker, backlog>>
        /\ up' \subseteq Parts /\ On' = On /\ (armed' => armed)
    BY <1>32 DEF EdfaStartFails, devices, acq, proc, On, SessionInv, Sizes, Parts, Hardware, Services
  <2>2. ~accepting' /\ worker = "none" /\ ~armed /\ ~triggered
    BY <1>32, <2>1 DEF SessionInv, OnStart, Early, EdfaStartFails, Fault
  <2>3. \A s \in On : s \in Elements(<<"processing", "storage", "udp">>)
    BY <2>1, UnwindStepsOf, EmptyOf DEF SessionInv, OnStart, Sinks
  <2>4. "digitizer" \notin Elements(<<"processing", "storage", "udp">>)
    BY UnwindStepsOf, EmptyOf
  <2> QED
    BY <2>1, <2>2, <2>3, <2>4, StartFails, UnwindStepsOf, EmptyOf DEF Stages
<1>33. CASE DigitizerStartFails
  <2>1. /\ pc = "digitizer" /\ Unwind(<<"processing", "storage", "udp">>)
        /\ UNCHANGED <<triggered, worker, backlog>>
        /\ up' \subseteq Parts /\ On' = On /\ (armed' => armed)
    BY <1>33 DEF DigitizerStartFails, devices, acq, proc, On, SessionInv, Sizes, Parts, Services
  <2>2. ~accepting' /\ worker = "none" /\ ~armed /\ ~triggered
    BY <1>33, <2>1 DEF SessionInv, OnStart, Early, DigitizerStartFails, Fault
  <2>3. \A s \in On : s \in Elements(<<"processing", "storage", "udp">>)
    BY <2>1, UnwindStepsOf, EmptyOf DEF SessionInv, OnStart, Sinks
  <2>4. "digitizer" \notin Elements(<<"processing", "storage", "udp">>)
    BY UnwindStepsOf, EmptyOf
  <2> QED
    BY <2>1, <2>2, <2>3, <2>4, StartFails, UnwindStepsOf, EmptyOf DEF Stages
<1>34. CASE WorkerNotReady
  <2>1. /\ pc = "await" /\ Unwind(NotReadySteps) /\ UNCHANGED <<triggered, worker, backlog>>
        /\ up' \subseteq Parts /\ On' = On /\ (armed' => armed) /\ ~accepting'
    BY <1>34 DEF WorkerNotReady, NotReadySteps, devices, proc, On, SessionInv, Sizes
  <2>2. On \subseteq Steps
    BY DEF On, Steps, Parts
  <2> QED
    BY <2>1, <2>2, StartFails, NotReadyStepsOf DEF Stages, Steps, Parts, Hardware
<1>35. CASE TriggerUnarmed
  <2>1. /\ pc = "trigger" /\ Unwind(StopSteps) /\ UNCHANGED <<triggered, worker, backlog>>
        /\ up' \subseteq Parts /\ On' = On /\ (armed' => armed) /\ ~accepting'
    BY <1>35 DEF TriggerUnarmed, TriggerFails, StopSteps, devices, proc, On, SessionInv, Sizes
  <2>2. On \subseteq Steps
    BY DEF On, Steps, Parts
  <2> QED
    BY <2>1, <2>2, StartFails, StopStepsOf DEF Stages, Steps, Parts, Hardware
<1>36. CASE ScanStartFails
  <2>1. /\ pc = "scan" /\ Unwind(StopSteps) /\ UNCHANGED <<triggered, worker, backlog>>
        /\ up' \subseteq Parts /\ On' = On /\ (armed' => armed) /\ ~accepting'
    BY <1>36 DEF ScanStartFails, TriggerFails, StopSteps, Unplugged, proc, On, SessionInv,
                 Sizes, Parts, Hardware, Services
  <2>2. On \subseteq Steps
    BY DEF On, Steps, Parts
  <2> QED
    BY <2>1, <2>2, StartFails, StopStepsOf DEF Stages, Steps, Parts, Hardware
<1>37. CASE StartCompletes
  <2>1. /\ pc = "armed" /\ pc' = "idle" /\ running'
        /\ UNCHANGED <<todo, plan, accepting, stopError, armed, up, worker, backlog>>
    BY <1>37 DEF StartCompletes, acq, proc
  <2> QED
    BY <2>1 DEF SessionInv, Sizes, AtRest, OnStart, GoingDown, ConsumersOutliveProducers,
                On, Stages, Early, Late
<1>38. ASSUME NEW part \in Hardware, DeviceStops(part) PROVE SessionInv'
  <2>1. /\ Teardown(part) /\ up' = up \ {part} /\ UNCHANGED <<stopError, worker, backlog>>
        /\ (armed' => armed) /\ (triggered' => triggered)
        /\ (part = "edfa" => ~armed' /\ ~triggered')
    BY <1>38 DEF DeviceStops, DeviceStep, acq, proc
  <2> QED
    BY <2>1, StepDone DEF SessionInv, Sizes, Steps, Parts, Hardware
<1>39. ASSUME NEW part \in Hardware, DeviceStopFails(part) PROVE SessionInv'
  <2>1. /\ Teardown(part) /\ up' = up /\ stopError' /\ UNCHANGED <<worker, backlog>>
        /\ (armed' => armed) /\ (triggered' => triggered)
        /\ (part = "edfa" => ~armed' /\ ~triggered')
    BY <1>39 DEF DeviceStopFails, DeviceStep, acq, proc
  <2> QED
    BY <2>1, StepDone DEF SessionInv, Sizes, Steps, Parts, Hardware, Services
<1>40. CASE WorkerJoined
  <2>1. /\ Teardown("worker") /\ worker' = "none"
        /\ UNCHANGED <<stopError, armed, triggered, up, backlog>>
    BY <1>40 DEF WorkerJoined, devices, proc
  <2>2. up' = up \ {"worker"}
    BY <2>1 DEF SessionInv, Sizes, Parts, Hardware, Services
  <2> QED
    BY <2>1, <2>2, StepDone DEF SessionInv, Sizes, Steps
<1>41. CASE ProcessingStops
  <2>1. /\ Teardown("processing") /\ up' = up \ {"processing"} /\ backlog' = 0
        /\ UNCHANGED <<stopError, armed, triggered, worker>>
    BY <1>41 DEF ProcessingStops, acq
  <2> QED
    BY <2>1, StepDone DEF Steps, Parts, Services
<1>42. ASSUME NEW part \in {"udp", "storage"}, ServiceStops(part) PROVE SessionInv'
  <2>1. /\ Teardown(part) /\ up' = up \ {part}
        /\ UNCHANGED <<stopError, armed, triggered, worker, backlog>>
    BY <1>42 DEF ServiceStops, acq, proc
  <2> QED
    BY <2>1, StepDone DEF SessionInv, Sizes, Steps, Parts, Services
<1>43. CASE StopCompletes \/ DisconnectCompletes \/ QuitCompletes
  <2>1. /\ pc = "down" /\ todo = <<>> /\ pc' \in {"idle", "over"} /\ ~running'
        /\ up' \in {up, Unplugged} /\ (armed' => armed) /\ (triggered' => triggered)
        /\ UNCHANGED <<todo, accepting, timer, worker, backlog>>
    BY <1>43 DEF StopCompletes, DisconnectCompletes, QuitCompletes, Disconnected, Unplug, devices,
             acq, proc
  <2>2. worker = "none" /\ On = {} /\ ~armed /\ ~triggered /\ ~accepting /\ ~timer
    BY <2>1, EmptyOf DEF SessionInv, GoingDown, Left
  <2>3. backlog = 0
    BY <2>2 DEF SessionInv, ConsumersOutliveProducers, Sizes, On, Services
  <2>4. up' \subseteq up /\ On' = {}
    BY <2>1, <2>2 DEF Unplugged, On
  <2>5. AtRest' /\ OnStart' /\ GoingDown'
    BY <2>1, <2>2, <2>3, <2>4 DEF AtRest, OnStart, GoingDown, Stages, Early, Late
  <2>6. ConsumersOutliveProducers'
    BY <2>1, <2>2, <2>3, <2>4 DEF ConsumersOutliveProducers, On, Services
  <2> QED
    BY <2>1, <2>4, <2>5, <2>6 DEF SessionInv, Sizes
<1>44. CASE WorkerReady \/ WorkerWaits \/ WorkerTimeout \/ WorkerBatch
  BY <1>44, WorkerOn DEF WorkerReady, WorkerGoes, runtime, proc, WorkerWaits, WorkerTimeout,
                         WorkerBatch, SessionInv, Sizes, Gone
<1>45. CASE WorkerSourceEnded \/ WorkerSourceCompletes
  BY <1>45, WorkerOn DEF WorkerSourceEnded, WorkerGoes, runtime, proc, WorkerSourceCompletes,
                         SessionInv, Sizes, Gone
<1>46. CASE WorkerSourceFails \/ WorkerLeaves \/ WorkerPosts
  BY <1>46, WorkerOn DEF WorkerSourceFails, WorkerGoes, runtime, proc, WorkerLeaves,
                         WorkerPosts, SessionInv, Sizes, Gone
<1>47. CASE ConsumeBatch
  <2>1. /\ worker = "deliver" /\ worker' \in {"leave", "loop"}
        /\ backlog' \in {backlog, backlog + 1}
        /\ UNCHANGED <<pc, todo, plan, running, accepting, timer, stopError, armed, triggered,
                       up>>
    BY <1>47 DEF ConsumeBatch, runtime, devices, proc
  <2> QED
    BY <2>1, WorkerOn DEF SessionInv, Sizes, Gone
<1>48. CASE BatchProcessed
  <2>1. /\ "processing" \in up /\ backlog > 0 /\ backlog' = backlog - 1
        /\ UNCHANGED <<pc, todo, plan, running, accepting, timer, stopError, armed, triggered, up,
                       worker>>
    BY <1>48 DEF BatchProcessed, ServiceStep, runtime, devices, acq
  <2>2. backlog' \in Nat
    BY <2>1 DEF SessionInv, Sizes
  <2> QED
    BY <2>1, <2>2, ProcessingOn
<1>49. CASE ProcessingFails
  <2>1. /\ "processing" \in up /\ backlog' = 0
        /\ UNCHANGED <<pc, todo, plan, running, accepting, timer, stopError, armed, triggered, up,
                       worker>>
    BY <1>49 DEF ProcessingFails, ServiceStep, runtime, devices, acq
  <2>2. backlog' \in Nat
    BY <2>1 DEF SessionInv, Sizes
  <2> QED
    BY <2>1, <2>2, ProcessingOn
<1>50. CASE UNCHANGED vars
  BY <1>50, Aside DEF vars, core, runtime, devices, acq, proc
<1> QED
  BY <1>1, <1>2, <1>3, <1>4, <1>5, <1>6, <1>7, <1>8, <1>9, <1>10, <1>11, <1>12, <1>13,
     <1>14, <1>15, <1>16, <1>17, <1>18, <1>19, <1>20, <1>21, <1>22, <1>23, <1>24, <1>25,
     <1>26, <1>27, <1>28, <1>29, <1>30, <1>31, <1>32, <1>33, <1>34, <1>35, <1>36, <1>37,
     <1>38, <1>39, <1>40, <1>41, <1>42, <1>43, <1>44, <1>45, <1>46, <1>47, <1>48, <1>49,
     <1>50 DEF Next, Runtime, Taking, Configuration, Starting, TearingDown, Worker, Others

\* Init is in the invariant.
LEMMA InitInv == Init => SessionInv
<1> SUFFICES ASSUME Init PROVE SessionInv
  OBVIOUS
<1>1. Sizes /\ Ordered(todo)
  BY EmptyOf DEF Init, Sizes
<1>2. AtRest /\ OnStart /\ GoingDown /\ ConsumersOutliveProducers
  BY DEF Init, AtRest, OnStart, GoingDown, ConsumersOutliveProducers, On, Stages, Early, Late
<1> QED
  BY <1>1, <1>2 DEF SessionInv

\* While a session goes down, a step is one of the teardown or of another thread,
\* which turns nothing on, and off only with the source that ends.
LEMMA StepsGoingDown ==
  ASSUME [Next]_vars, pc = "down"
  PROVE  TearingDown \/ (UNCHANGED pc /\ up' \subseteq up /\ (up' = up \/ worker' # worker))
<1>1. ~Taking
  <2>1. \A type : ~Take(type)
    BY DEF Take
  <2>2. ~Configuration
    BY <2>1 DEF Configuration, ConfigureRefused, ConfigureFails, ConnectFails, Apply, Connect,
                Configured, DisconnectIdle, Upload, UploadRejected, UpdateRejected, UpdateQueued,
                UpdateReplaced, OutputCommanded, OutputCommandFails, OutputRejected, OutputSet
  <2> QED
    BY <2>1, <2>2 DEF Taking, StartRejected, StartUnconnected, BeginStart, Stop, StopIdle,
                EmergencyStop, DisconnectRunning, QuitIdle, QuitRunning, WorkerExitEvent,
                EdfaLossEvent, EventIgnored
<1>2. ~Starting
  BY DEF Starting, StorageStarts, StorageStartFails, UdpStarts, UdpStartFails, ProcessingStarts,
         ProcessingStartFails, EdfaStarts, EdfaStartFails, DigitizerStarts, DigitizerStartFails,
         WorkerStarts, WorkerReadySeen, WorkerNotReady, TriggerChecked, TriggerUnarmed,
         ScanStarts, ScanStartFails, StartCompletes, Stage
<1>3. ~Tick
  BY DEF Tick
<1>4. ASSUME Worker PROVE UNCHANGED pc /\ up' \subseteq up /\ (up' = up \/ worker' # worker)
  BY <1>4 DEF Worker, WorkerReady, WorkerWaits, WorkerTimeout, WorkerBatch, WorkerSourceEnded,
              WorkerSourceCompletes, WorkerSourceFails, ConsumeBatch, WorkerLeaves, WorkerPosts,
              WorkerGoes, runtime, devices
<1>5. ASSUME Others PROVE UNCHANGED pc /\ up' = up
  BY <1>5 DEF Others, BatchProcessed, ProcessingFails, StorageFails, MonitorLosesEdfa,
              ServiceStep, runtime, devices
<1>6. ASSUME NEW c \in Commands, PostCommand(c) PROVE UNCHANGED pc /\ up' = up
  BY <1>6 DEF PostCommand, runtime, devices
<1>7. ASSUME UNCHANGED vars PROVE UNCHANGED pc /\ up' = up
  BY <1>7 DEF vars, runtime, devices
<1> QED
  BY <1>1, <1>2, <1>3, <1>4, <1>5, <1>6, <1>7 DEF Next, Runtime

\* A teardown ends in one of three ways.
LEMMA TeardownEnds ==
  ASSUME [Next]_vars, pc = "down", pc' # "down"
  PROVE  StopCompletes \/ DisconnectCompletes \/ QuitCompletes
<1>1. \A step : ~Teardown(step)
  BY DEF Teardown
<1>2. TearingDown
  BY StepsGoingDown
<1> QED
  BY <1>1, <1>2 DEF TearingDown, DeviceStops, DeviceStopFails, DeviceStep, WorkerJoined,
                    ProcessingStops, ServiceStops

\* What a teardown leaves behind when it ends.
LEMMA NothingLeft ==
  SessionInv /\ [Next]_vars =>
    (pc = "down" /\ pc' # "down" =>
       /\ worker' = "none" /\ up' \cap Services = {} /\ backlog' = 0
       /\ ~armed' /\ ~triggered' /\ ~accepting' /\ ~timer'
       /\ up' \cap Hardware = {} \/ state' = "Error" \/ plan.kind \in {"DISCONNECT", "QUIT"})
<1> SUFFICES ASSUME SessionInv, [Next]_vars, pc = "down", pc' # "down"
             PROVE  /\ worker' = "none" /\ up' \cap Services = {} /\ backlog' = 0
                    /\ ~armed' /\ ~triggered' /\ ~accepting' /\ ~timer'
                    /\ \/ up' \cap Hardware = {} \/ state' = "Error"
                       \/ plan.kind \in {"DISCONNECT", "QUIT"}
  OBVIOUS
<1>1. StopCompletes \/ DisconnectCompletes \/ QuitCompletes
  BY TeardownEnds
<1>2. todo = <<>> /\ pc' \in {"idle", "over"} /\ ~running'
  BY <1>1 DEF StopCompletes, DisconnectCompletes, QuitCompletes, Unplug
<1>3. AtRest'
  BY SessionStep DEF SessionInv
<1>4. /\ worker' = "none" /\ up' \cap Services = {} /\ backlog' = 0
      /\ ~armed' /\ ~triggered' /\ ~accepting' /\ ~timer'
  BY <1>2, <1>3 DEF AtRest, On
<1>5. plan.failed \/ stopError \/ up \cap Hardware = {}
  BY <1>2, EmptyOf DEF SessionInv, GoingDown, Left
<1>6. CASE StopCompletes
  BY <1>4, <1>5, <1>6 DEF StopCompletes, StateAfterStop, devices
<1>7. CASE DisconnectCompletes \/ QuitCompletes
  BY <1>4, <1>7 DEF DisconnectCompletes, QuitCompletes
<1> QED
  BY <1>1, <1>6, <1>7

\* Only the stage that starts the scan turns the scanner on.
LEMMA ScannerStarts ==
  ASSUME SessionInv, [Next]_vars, "scanner" \in up' \ up
  PROVE  pc = "scan"
<1>1. ~Taking
  <2>1. \A c : ~ConfigureRefused(c) /\ ~ConfigureFails(c) /\ ~ConnectFails(c)
    BY DEF ConfigureRefused, ConfigureFails, ConnectFails, Configured, Unplugged, devices
  <2>2. ~Apply /\ ~Connect /\ ~DisconnectIdle
    BY DEF Apply, Connect, Configured, DisconnectIdle, Disconnected, Unplugged
  <2>3. ~Upload /\ ~UploadRejected /\ ~UpdateRejected /\ ~UpdateQueued /\ ~UpdateReplaced
    BY DEF Upload, UploadRejected, UpdateRejected, UpdateQueued, UpdateReplaced, devices
  <2>4. ~OutputCommanded /\ ~OutputCommandFails /\ ~OutputRejected
    BY DEF OutputCommanded, OutputCommandFails, OutputRejected, OutputSet
  <2>5. ~Configuration
    BY <2>1, <2>2, <2>3, <2>4 DEF Configuration
  <2> QED
    BY <2>5 DEF Taking, StartRejected, StartUnconnected, BeginStart, Stop, StopIdle,
                EmergencyStop, DisconnectRunning, QuitIdle, QuitRunning, WorkerExitEvent,
                EdfaLossEvent, EventIgnored, BeginStop, Unplug, Unplugged, devices
<1>2. Starting => pc = "scan"
  BY DEF Starting, StorageStarts, StorageStartFails, UdpStarts, UdpStartFails, ProcessingStarts,
         ProcessingStartFails, EdfaStarts, EdfaStartFails, DigitizerStarts, DigitizerStartFails,
         WorkerStarts, WorkerReadySeen, WorkerNotReady, TriggerChecked, TriggerUnarmed,
         ScanStarts, ScanStartFails, StartCompletes, Stage, devices
<1>3. ~Tick
  BY DEF Tick, BeginStop, devices
<1>4. ~TearingDown
  BY DEF TearingDown, DeviceStops, DeviceStopFails, WorkerJoined, ProcessingStops, ServiceStops,
         StopCompletes, DisconnectCompletes, QuitCompletes, Disconnected, Unplug, Unplugged,
         devices
<1>5. ~Worker
  BY DEF Worker, WorkerReady, WorkerWaits, WorkerTimeout, WorkerBatch, WorkerSourceEnded,
         WorkerSourceCompletes, WorkerSourceFails, ConsumeBatch, WorkerLeaves, WorkerPosts,
         WorkerGoes, devices
<1>6. ~Others /\ ~(UNCHANGED vars) /\ \A c \in Commands : ~PostCommand(c)
  BY DEF Others, BatchProcessed, ProcessingFails, StorageFails, MonitorLosesEdfa,
         ServiceStep, PostCommand, vars, devices
<1> QED
  BY <1>1, <1>2, <1>3, <1>4, <1>5, <1>6 DEF Next, Runtime

\* While a session goes down, the digitizer stops after the scanner.
LEMMA DigitizerStopsLast ==
  ASSUME SessionInv, [Next]_vars, pc = "down", "scanner" \in up', "digitizer" \in up \ up'
  PROVE  stopError \/ worker' # worker
<1>1. CASE UNCHANGED pc /\ up' \subseteq up /\ (up' = up \/ worker' # worker)
  BY <1>1
<1>2. CASE StopCompletes \/ DisconnectCompletes \/ QuitCompletes
  <2>1. todo = <<>> /\ (up' = up \/ plan.kind \in {"DISCONNECT", "QUIT"})
    BY <1>2 DEF StopCompletes, DisconnectCompletes, QuitCompletes, devices
  <2> QED
    BY <2>1, EmptyOf DEF SessionInv, GoingDown, Left, Hardware
<1>3. ASSUME NEW part \in Hardware, DeviceStops(part) PROVE stopError
  <2>1. part = "digitizer" /\ todo # <<>> /\ Head(todo) = "digitizer" /\ "scanner" \in up
    BY <1>3 DEF DeviceStops, DeviceStep, Teardown
  <2>2. Left("digitizer") /\ (Left("scanner") => <<"digitizer", "scanner">> \notin Misplaced)
    BY <2>1, TailOf DEF SessionInv, Sizes, Left
  <2> QED
    BY <2>1, <2>2 DEF SessionInv, GoingDown, Misplaced
<1>4. CASE \/ \E part \in Hardware : DeviceStopFails(part)
           \/ WorkerJoined \/ ProcessingStops \/ ServiceStops("udp") \/ ServiceStops("storage")
  BY <1>4 DEF DeviceStopFails, WorkerJoined, ProcessingStops, ServiceStops, devices
<1> QED
  BY <1>1, <1>2, <1>3, <1>4, StepsGoingDown DEF TearingDown
-----------------------------------------------------------------------------
(* The types of the rest.                                                  *)

\* What the runtime thread keeps,
RuntimeTypes ==
  /\ pc \in {"idle", "down", "over"} \cup Stages
  /\ running \in BOOLEAN /\ state \in States /\ accepting \in BOOLEAN /\ timer \in BOOLEAN
  /\ stopError \in BOOLEAN
\* ... what a teardown is for, and the last reply,
Plans == [kind : Commands \cup {"none", "EXIT", "EDFA", "TICK"}, failed : BOOLEAN]
Answers == [command : Commands \cup {"none"}, ok : BOOLEAN]
RecordTypes == plan \in Plans /\ reply \in Answers
\* ... the session and its devices,
DeviceTypes ==
  /\ configured \in BOOLEAN /\ processing \in BOOLEAN
  /\ connected \in BOOLEAN /\ waveform \in BOOLEAN
  /\ monitor \in BOOLEAN
  /\ armed \in BOOLEAN /\ triggered \in BOOLEAN
\* ... the other threads,
ThreadTypes ==
  /\ worker \in {"none", "starting", "loop", "wait", "deliver", "leave", "post", "done"}
  /\ workerStop \in BOOLEAN /\ workerFailed \in BOOLEAN
  /\ procAccepting \in BOOLEAN /\ procStop \in BOOLEAN
  /\ storageFailure \in BOOLEAN /\ storageStop \in BOOLEAN
\* ... the numbers, and the queue of the runtime thread.
CountTypes ==
  /\ generation \in Nat /\ backlog \in Nat /\ backlog <= Backlog
  /\ told \in Nat /\ applied \in Nat /\ pending \in Nat
  /\ commands \in Nat /\ faults \in Nat
EventTypes == events \in Seq(Event)
SessionTypes ==
  RuntimeTypes /\ RecordTypes /\ DeviceTypes /\ ThreadTypes /\ CountTypes /\ EventTypes

\* An event that is taken leaves a queue of events.
LEMMA EventTaken ==
  ASSUME EventTypes, NEW type, Take(type)
  PROVE  /\ EventTypes' /\ commands' = commands
         /\ Head(events).failed \in BOOLEAN
<1>1. events \in Seq(Event) /\ events # <<>> /\ events' = Tail(events) /\ commands' = commands
  BY DEF Take, EventTypes
<1>2. Tail(events) \in Seq(Event) /\ Head(events) \in Event
  BY <1>1
<1>3. \A e \in Event : e.failed \in BOOLEAN
  BY DEF Event
<1> QED
  BY <1>1, <1>2, <1>3 DEF EventTypes

\* Replies, plans
LEMMA RecordsTyped ==
  /\ \A c \in Commands, ok \in BOOLEAN : [command |-> c, ok |-> ok] \in Answers
  /\ \A k \in Commands \cup {"none", "EXIT", "EDFA", "TICK"}, failed \in BOOLEAN :
       [kind |-> k, failed |-> failed] \in Plans
BY DEF Answers, Plans

\* ... and events are what they should be.
LEMMA EventsTyped ==
  \A t \in Commands \cup {"EXIT", "EDFA"}, failed \in BOOLEAN, n \in Nat :
    [type |-> t, failed |-> failed, generation |-> n] \in Event
BY DEF Event

\* The monitor starts, or there is none.
LEMMA MonitorTyped ==
  StartMonitor /\ generation \in Nat => monitor' \in BOOLEAN /\ generation' \in Nat
<1> SUFFICES ASSUME StartMonitor, generation \in Nat
             PROVE  monitor' \in BOOLEAN /\ generation' \in Nat
  OBVIOUS
<1>1. monitor' \in BOOLEAN
  BY DEF StartMonitor
<1>2. generation' \in {generation + 2, generation + 1}
  BY DEF StartMonitor
<1> QED
  BY <1>1, <1>2

\* One batch less.
LEMMA LessOne == \A n, m \in Int : n \in Nat /\ n > 0 /\ n <= m => n - 1 \in Nat /\ n - 1 <= m
OBVIOUS

\* The commands that are named in the actions.
LEMMA Names ==
  \A c \in {"APPLY", "CONNECT", "DISCONNECT", "UPLOAD", "START", "STOP", "ESTOP", "UPDATE",
            "OUTPUT", "QUIT"} : c \in Commands
BY DEF Commands

\* Every step keeps the types of all but the script and the parts, which SessionInv bounds.
LEMMA TypesStep == SessionTypes /\ [Next]_vars => SessionTypes'
<1> SUFFICES ASSUME SessionTypes, [Next]_vars PROVE SessionTypes'
  OBVIOUS
<1>0. /\ RuntimeTypes /\ RecordTypes /\ DeviceTypes
      /\ ThreadTypes /\ CountTypes /\ EventTypes
  BY DEF SessionTypes
<1>1. CASE UploadRejected \/ UpdateRejected \/ StartRejected \/ StopIdle \/ EventIgnored
  <2>1. EventTypes' /\ UNCHANGED commands
    BY <1>0, <1>1, EventTaken DEF UploadRejected, UpdateRejected, StartRejected, StopIdle,
       EventIgnored
  <2>2. RuntimeTypes' /\ DeviceTypes' /\ ThreadTypes' /\ CountTypes'
    BY <1>0, <1>1, <2>1 DEF UploadRejected, UpdateRejected, StartRejected, StopIdle,
       EventIgnored, RuntimeTypes, DeviceTypes, ThreadTypes, CountTypes, runtime, setup, poll,
       devices, acq, proc, store, revs
  <2>3. RecordTypes'
    BY <1>0, <1>1, <2>1, RecordsTyped, Names DEF UploadRejected, UpdateRejected, StartRejected,
       StopIdle, EventIgnored, Succeeded, Failed, RecordTypes, runtime
  <2> QED
    BY <2>1, <2>2, <2>3 DEF SessionTypes
<1>2. CASE Upload
  <2>1. EventTypes' /\ UNCHANGED commands
    BY <1>0, <1>2, EventTaken DEF Upload
  <2>2. RuntimeTypes' /\ ThreadTypes' /\ CountTypes'
    BY <1>0, <1>2, <2>1 DEF Upload, RuntimeTypes, ThreadTypes, CountTypes, runtime, acq, proc,
       store, poll, revs
  <2>3. RecordTypes'
    BY <1>0, <1>2, <2>1, RecordsTyped, Names DEF Upload, RecordTypes, runtime
  <2>4. DeviceTypes'
    BY <1>0, <1>2 DEF Upload, DeviceTypes, setup, poll, devices
  <2> QED
    BY <2>1, <2>2, <2>3, <2>4 DEF SessionTypes
<1>3. CASE OutputCommanded \/ OutputCommandFails \/ OutputRejected
  <2>1. EventTypes' /\ UNCHANGED commands
    BY <1>0, <1>3, EventTaken DEF OutputCommanded, OutputCommandFails, OutputRejected, OutputSet
  <2>2. RuntimeTypes' /\ DeviceTypes' /\ ThreadTypes'
    BY <1>0, <1>3 DEF OutputCommanded, OutputCommandFails, OutputRejected, OutputSet, Fault,
       RuntimeTypes, DeviceTypes, ThreadTypes, runtime, setup, poll, devices, acq, proc, store
  <2>3. RecordTypes'
    BY <1>0, <1>3, <2>1, RecordsTyped, Names DEF OutputCommanded, OutputCommandFails,
       OutputRejected, OutputSet, Fault, RecordTypes, runtime
  <2>4. CountTypes'
    BY <1>0, <1>3, <2>1 DEF OutputCommanded, OutputCommandFails, OutputRejected, OutputSet,
       Fault, CountTypes, poll, proc, revs
  <2> QED
    BY <2>1, <2>2, <2>3, <2>4 DEF SessionTypes
<1>4. ASSUME NEW c \in {"APPLY", "CONNECT"}, ConfigureRefused(c) \/ ConfigureFails(c)
      PROVE  SessionTypes'
  <2>1. EventTypes' /\ UNCHANGED commands
    BY <1>0, <1>4, EventTaken DEF ConfigureRefused, ConfigureFails
  <2>2. RuntimeTypes'
    BY <1>0, <1>4 DEF ConfigureRefused, ConfigureFails, Failed, Fault, StopMonitor,
       RuntimeTypes, runtime, Stages, States
  <2>3. RecordTypes'
    BY <1>0, <1>4, <2>1, RecordsTyped, Names DEF ConfigureRefused, ConfigureFails, Failed,
       Fault, StopMonitor, RecordTypes, runtime
  <2>4. DeviceTypes'
    BY <1>0, <1>4 DEF ConfigureRefused, ConfigureFails, Failed, Fault, StopMonitor, DeviceTypes,
       setup, poll, devices
  <2>5. ThreadTypes'
    BY <1>0, <1>4 DEF ConfigureRefused, ConfigureFails, Failed, Fault, StopMonitor, ThreadTypes,
       acq, proc, store
  <2>6. CountTypes'
    BY <1>0, <1>4, <2>1 DEF ConfigureRefused, ConfigureFails, Failed, Fault, StopMonitor,
       CountTypes, poll, proc, revs
  <2> QED
    BY <2>1, <2>2, <2>3, <2>4, <2>5, <2>6 DEF SessionTypes
<1>5. ASSUME NEW c \in {"APPLY", "CONNECT"}, ConnectFails(c)
      PROVE  SessionTypes'
  <2>1. EventTypes' /\ UNCHANGED commands
    BY <1>0, <1>5, EventTaken DEF ConnectFails, Configured
  <2>2. RuntimeTypes'
    BY <1>0, <1>5 DEF ConnectFails, Configured, Failed, Fault, StopMonitor, RuntimeTypes,
       runtime, Stages, States
  <2>3. RecordTypes'
    BY <1>0, <1>5, <2>1, RecordsTyped, Names DEF ConnectFails, Configured, Failed, Fault,
       StopMonitor, RecordTypes, runtime
  <2>4. DeviceTypes'
    BY <1>0, <1>5 DEF ConnectFails, Configured, Failed, Fault, StopMonitor, DeviceTypes, setup,
       poll, devices
  <2>5. ThreadTypes'
    BY <1>0, <1>5 DEF ConnectFails, Configured, Failed, Fault, StopMonitor, ThreadTypes, acq,
       proc, store
  <2>6. CountTypes'
    BY <1>0, <1>5, <2>1 DEF ConnectFails, Configured, Failed, Fault, StopMonitor, CountTypes,
       poll, proc, revs
  <2> QED
    BY <2>1, <2>2, <2>3, <2>4, <2>5, <2>6 DEF SessionTypes
<1>6. CASE Apply
  <2>1. EventTypes' /\ UNCHANGED commands
    BY <1>0, <1>6, EventTaken DEF Apply, Configured
  <2>2. RuntimeTypes'
    BY <1>0, <1>6 DEF Apply, Configured, Succeeded, RuntimeTypes, runtime, Stages, States
  <2>3. RecordTypes'
    BY <1>0, <1>6, <2>1, RecordsTyped, Names DEF Apply, Configured, Succeeded, RecordTypes,
       runtime
  <2>4. DeviceTypes'
    BY <1>0, <1>6, MonitorTyped DEF Apply, Configured, Succeeded, CountTypes, DeviceTypes,
       setup, poll, devices
  <2>5. ThreadTypes'
    BY <1>0, <1>6 DEF Apply, Configured, Succeeded, ThreadTypes, acq, proc, store
  <2>6. CountTypes'
    BY <1>0, <1>6, <2>1, MonitorTyped DEF Apply, Configured, Succeeded, CountTypes, poll, proc,
       revs
  <2> QED
    BY <2>1, <2>2, <2>3, <2>4, <2>5, <2>6 DEF SessionTypes
<1>7. CASE Connect
  <2>1. EventTypes' /\ UNCHANGED commands
    BY <1>0, <1>7, EventTaken DEF Connect, Configured
  <2>2. RuntimeTypes'
    BY <1>0, <1>7 DEF Connect, Configured, Succeeded, RuntimeTypes, runtime, Stages, States
  <2>3. RecordTypes'
    BY <1>0, <1>7, <2>1, RecordsTyped, Names DEF Connect, Configured, Succeeded, RecordTypes,
       runtime
  <2>4. DeviceTypes'
    BY <1>0, <1>7, MonitorTyped DEF Connect, Configured, Succeeded, CountTypes, DeviceTypes,
       setup, poll, devices
  <2>5. ThreadTypes'
    BY <1>0, <1>7 DEF Connect, Configured, Succeeded, ThreadTypes, acq, proc, store
  <2>6. CountTypes'
    BY <1>0, <1>7, <2>1, MonitorTyped DEF Connect, Configured, Succeeded, CountTypes, poll,
       proc, revs
  <2> QED
    BY <2>1, <2>2, <2>3, <2>4, <2>5, <2>6 DEF SessionTypes
<1>8. CASE DisconnectIdle
  <2>1. EventTypes' /\ UNCHANGED commands
    BY <1>0, <1>8, EventTaken DEF DisconnectIdle
  <2>2. ThreadTypes'
    BY <1>0, <1>8 DEF DisconnectIdle, Disconnected, ThreadTypes, acq, proc, store
  <2>3. RuntimeTypes'
    BY <1>0, <1>8 DEF DisconnectIdle, Disconnected, StopMonitor, Succeeded, RuntimeTypes,
       runtime, Stages, States
  <2>4. RecordTypes'
    BY <1>0, <1>8, <2>1, RecordsTyped, Names DEF DisconnectIdle, Disconnected, StopMonitor,
       Succeeded, RecordTypes, runtime
  <2>5. DeviceTypes'
    BY <1>0, <1>8 DEF DisconnectIdle, Disconnected, StopMonitor, Succeeded, DeviceTypes, setup,
       poll, devices
  <2>6. CountTypes'
    BY <1>0, <1>8, <2>1 DEF DisconnectIdle, Disconnected, StopMonitor, Succeeded, CountTypes,
       poll, proc, revs
  <2> QED
    BY <2>1, <2>2, <2>3, <2>4, <2>5, <2>6 DEF SessionTypes
<1>9. CASE UpdateQueued \/ UpdateReplaced
  <2>1. EventTypes' /\ UNCHANGED commands
    BY <1>0, <1>9, EventTaken DEF UpdateQueued, UpdateReplaced
  <2>2. RuntimeTypes' /\ DeviceTypes' /\ ThreadTypes'
    BY <1>0, <1>9 DEF UpdateQueued, UpdateReplaced, RuntimeTypes, DeviceTypes, ThreadTypes,
       runtime, setup, poll, devices, acq, proc, store
  <2>3. RecordTypes'
    BY <1>0, <1>9, <2>1, RecordsTyped, Names DEF UpdateQueued, UpdateReplaced, Succeeded,
       RecordTypes, runtime
  <2>4. CountTypes'
    BY <1>0, <1>9, <2>1 DEF UpdateQueued, UpdateReplaced, Succeeded, CountTypes, poll, proc,
       revs
  <2> QED
    BY <2>1, <2>2, <2>3, <2>4 DEF SessionTypes
<1>10. CASE StartUnconnected \/ BeginStart
  <2>1. EventTypes' /\ UNCHANGED commands
    BY <1>0, <1>10, EventTaken DEF StartUnconnected, BeginStart
  <2>2. ThreadTypes'
    BY <1>0, <1>10 DEF StartUnconnected, BeginStart, Fault, ThreadTypes, acq, proc, store
  <2>3. RuntimeTypes'
    BY <1>0, <1>10 DEF StartUnconnected, BeginStart, Failed, Fault, RuntimeTypes, runtime,
       Stages, States
  <2>4. RecordTypes'
    BY <1>0, <1>10, <2>1, RecordsTyped, Names DEF StartUnconnected, BeginStart, Failed, Fault,
       RecordTypes, runtime
  <2>5. DeviceTypes'
    BY <1>0, <1>10, MonitorTyped DEF StartUnconnected, BeginStart, Failed, Fault, CountTypes,
       DeviceTypes, setup, poll, devices
  <2>6. CountTypes'
    BY <1>0, <1>10, <2>1, MonitorTyped DEF StartUnconnected, BeginStart, Failed, Fault,
       CountTypes, poll, proc, revs
  <2> QED
    BY <2>1, <2>2, <2>3, <2>4, <2>5, <2>6 DEF SessionTypes
<1>11. CASE QuitIdle
  <2>1. EventTypes' /\ UNCHANGED commands
    BY <1>0, <1>11, EventTaken DEF QuitIdle
  <2>2. ThreadTypes'
    BY <1>0, <1>11 DEF QuitIdle, Unplug, ThreadTypes, acq, proc, store
  <2>3. RuntimeTypes'
    BY <1>0, <1>11 DEF QuitIdle, Unplug, NoPlan, StopMonitor, RuntimeTypes, runtime, Stages,
       States
  <2>4. RecordTypes'
    BY <1>0, <1>11, <2>1, RecordsTyped, Names DEF QuitIdle, Unplug, NoPlan, StopMonitor,
       RecordTypes, runtime
  <2>5. DeviceTypes'
    BY <1>0, <1>11 DEF QuitIdle, Unplug, NoPlan, StopMonitor, DeviceTypes, setup, poll, devices
  <2>6. CountTypes'
    BY <1>0, <1>11, <2>1 DEF QuitIdle, Unplug, NoPlan, StopMonitor, CountTypes, poll, proc, revs
  <2> QED
    BY <2>1, <2>2, <2>3, <2>4, <2>5, <2>6 DEF SessionTypes
<1>12. CASE Stop \/ EmergencyStop \/ DisconnectRunning \/ QuitRunning
  <2>1. EventTypes' /\ UNCHANGED commands
    BY <1>0, <1>12, EventTaken DEF Stop, EmergencyStop, DisconnectRunning, QuitRunning
  <2>2. DeviceTypes' /\ CountTypes'
    BY <1>0, <1>12, <2>1 DEF Stop, EmergencyStop, DisconnectRunning, QuitRunning, BeginStop,
       DeviceTypes, CountTypes, setup, poll, devices, proc, revs
  <2>3. RuntimeTypes'
    BY <1>0, <1>12 DEF Stop, EmergencyStop, DisconnectRunning, QuitRunning, BeginStop,
       RuntimeTypes, runtime, Stages, States
  <2>4. RecordTypes'
    BY <1>0, <1>12, <2>1, RecordsTyped, Names DEF Stop, EmergencyStop, DisconnectRunning,
       QuitRunning, BeginStop, RecordTypes, runtime
  <2>5. ThreadTypes'
    BY <1>0, <1>12 DEF Stop, EmergencyStop, DisconnectRunning, QuitRunning, BeginStop,
       ThreadTypes, acq, proc, store
  <2> QED
    BY <2>1, <2>2, <2>3, <2>4, <2>5 DEF SessionTypes
<1>13. CASE WorkerExitEvent \/ EdfaLossEvent
  <2>1. EventTypes' /\ UNCHANGED commands /\ Head(events).failed \in BOOLEAN
    BY <1>0, <1>13, EventTaken DEF WorkerExitEvent, EdfaLossEvent
  <2>2. RuntimeTypes'
    BY <1>0, <1>13 DEF WorkerExitEvent, EdfaLossEvent, BeginStop, StopMonitor, RuntimeTypes,
       runtime, Stages, States
  <2>3. RecordTypes'
    BY <1>0, <1>13, <2>1, RecordsTyped, Names DEF WorkerExitEvent, EdfaLossEvent, BeginStop,
       StopMonitor, RecordTypes, runtime
  <2>4. DeviceTypes'
    BY <1>0, <1>13 DEF WorkerExitEvent, EdfaLossEvent, BeginStop, StopMonitor, DeviceTypes,
       setup, poll, devices
  <2>5. ThreadTypes'
    BY <1>0, <1>13 DEF WorkerExitEvent, EdfaLossEvent, BeginStop, StopMonitor, ThreadTypes, acq,
       proc, store
  <2>6. CountTypes'
    BY <1>0, <1>13, <2>1 DEF WorkerExitEvent, EdfaLossEvent, BeginStop, StopMonitor, CountTypes,
       poll, proc, revs
  <2> QED
    BY <2>1, <2>2, <2>3, <2>4, <2>5, <2>6 DEF SessionTypes
<1>14. CASE Tick
  <2>1. DeviceTypes' /\ CountTypes' /\ EventTypes'
    BY <1>0, <1>14 DEF Tick, BeginStop, DeviceTypes, CountTypes, EventTypes, setup, poll,
       devices, proc, revs
  <2>2. RuntimeTypes'
    BY <1>0, <1>14 DEF Tick, BeginStop, RuntimeTypes, runtime, Stages, States
  <2>3. RecordTypes'
    BY <1>0, <1>14, RecordsTyped, Names DEF Tick, BeginStop, RecordTypes, runtime
  <2>4. ThreadTypes'
    BY <1>0, <1>14 DEF Tick, BeginStop, ThreadTypes, acq, proc, store
  <2> QED
    BY <2>1, <2>2, <2>3, <2>4 DEF SessionTypes
<1>15. ASSUME NEW c \in Commands, PostCommand(c)
      PROVE  SessionTypes'
  <2>1. RuntimeTypes' /\ RecordTypes' /\ DeviceTypes' /\ ThreadTypes'
    BY <1>0, <1>15 DEF PostCommand, RuntimeTypes, RecordTypes, DeviceTypes, ThreadTypes,
       runtime, setup, poll, devices, acq, proc, store
  <2>2. CountTypes'
    BY <1>0, <1>15 DEF PostCommand, CountTypes, poll, proc, revs
  <2>3. EventTypes'
    BY <1>0, <1>15 DEF PostCommand, Command, Event, EventTypes
  <2> QED
    BY <2>1, <2>2, <2>3 DEF SessionTypes
<1>16. CASE StorageStarts \/ UdpStarts \/ ScanStarts
  <2>1. RecordTypes' /\ DeviceTypes' /\ CountTypes' /\ EventTypes'
    BY <1>0, <1>16 DEF StorageStarts, UdpStarts, ScanStarts, Stage, RecordTypes, DeviceTypes,
       CountTypes, EventTypes, runtime, setup, poll, devices, proc, revs
  <2>2. RuntimeTypes'
    BY <1>0, <1>16 DEF StorageStarts, UdpStarts, ScanStarts, Stage, RuntimeTypes, runtime,
       Stages, States
  <2>3. ThreadTypes'
    BY <1>0, <1>16 DEF StorageStarts, UdpStarts, ScanStarts, Stage, ThreadTypes, acq, proc,
       store
  <2> QED
    BY <2>1, <2>2, <2>3 DEF SessionTypes
<1>17. CASE ProcessingStarts \/ EdfaStarts \/ DigitizerStarts
  <2>1. RecordTypes' /\ EventTypes'
    BY <1>0, <1>17 DEF ProcessingStarts, EdfaStarts, DigitizerStarts, Stage, RecordTypes,
       EventTypes, runtime
  <2>2. RuntimeTypes'
    BY <1>0, <1>17 DEF ProcessingStarts, EdfaStarts, DigitizerStarts, Stage, RuntimeTypes,
       runtime, Stages, States
  <2>3. DeviceTypes'
    BY <1>0, <1>17 DEF ProcessingStarts, EdfaStarts, DigitizerStarts, Stage, DeviceTypes, setup,
       poll, devices
  <2>4. ThreadTypes'
    BY <1>0, <1>17 DEF ProcessingStarts, EdfaStarts, DigitizerStarts, Stage, ThreadTypes, acq,
       proc, store
  <2>5. CountTypes'
    BY <1>0, <1>17, SessionAssumption DEF ProcessingStarts, EdfaStarts, DigitizerStarts, Stage,
       CountTypes, poll, proc, revs
  <2> QED
    BY <2>1, <2>2, <2>3, <2>4, <2>5 DEF SessionTypes
<1>18. CASE StorageStartFails \/ UdpStartFails \/ ProcessingStartFails
  <2>1. DeviceTypes' /\ ThreadTypes' /\ EventTypes'
    BY <1>0, <1>18 DEF StorageStartFails, UdpStartFails, ProcessingStartFails, Unwind, Fault,
       DeviceTypes, ThreadTypes, EventTypes, setup, poll, devices, acq, proc, store
  <2>2. RuntimeTypes'
    BY <1>0, <1>18 DEF StorageStartFails, UdpStartFails, ProcessingStartFails, Unwind, Fault,
       RuntimeTypes, runtime, Stages, States
  <2>3. RecordTypes'
    BY <1>0, <1>18, RecordsTyped, Names DEF StorageStartFails, UdpStartFails,
       ProcessingStartFails, Unwind, Fault, RecordTypes, runtime
  <2>4. CountTypes'
    BY <1>0, <1>18 DEF StorageStartFails, UdpStartFails, ProcessingStartFails, Unwind, Fault,
       CountTypes, poll, proc, revs
  <2> QED
    BY <2>1, <2>2, <2>3, <2>4 DEF SessionTypes
<1>19. CASE EdfaStartFails \/ DigitizerStartFails
  <2>1. DeviceTypes' /\ ThreadTypes' /\ EventTypes'
    BY <1>0, <1>19 DEF EdfaStartFails, DigitizerStartFails, Unwind, Fault, DeviceTypes,
       ThreadTypes, EventTypes, setup, poll, devices, acq, proc, store
  <2>2. RuntimeTypes'
    BY <1>0, <1>19 DEF EdfaStartFails, DigitizerStartFails, Unwind, Fault, RuntimeTypes,
       runtime, Stages, States
  <2>3. RecordTypes'
    BY <1>0, <1>19, RecordsTyped, Names DEF EdfaStartFails, DigitizerStartFails, Unwind, Fault,
       RecordTypes, runtime
  <2>4. CountTypes'
    BY <1>0, <1>19 DEF EdfaStartFails, DigitizerStartFails, Unwind, Fault, CountTypes, poll,
       proc, revs
  <2> QED
    BY <2>1, <2>2, <2>3, <2>4 DEF SessionTypes
<1>20. CASE WorkerStarts \/ WorkerReadySeen \/ WorkerNotReady
  <2>1. DeviceTypes' /\ CountTypes' /\ EventTypes'
    BY <1>0, <1>20 DEF WorkerStarts, WorkerReadySeen, WorkerNotReady, Unwind, DeviceTypes,
       CountTypes, EventTypes, setup, poll, devices, proc, revs
  <2>2. RuntimeTypes'
    BY <1>0, <1>20 DEF WorkerStarts, WorkerReadySeen, WorkerNotReady, Unwind, RuntimeTypes,
       runtime, Stages, States
  <2>3. RecordTypes'
    BY <1>0, <1>20, RecordsTyped, Names DEF WorkerStarts, WorkerReadySeen, WorkerNotReady,
       Unwind, RecordTypes, runtime
  <2>4. ThreadTypes'
    BY <1>0, <1>20 DEF WorkerStarts, WorkerReadySeen, WorkerNotReady, Unwind, ThreadTypes, acq,
       proc, store
  <2> QED
    BY <2>1, <2>2, <2>3, <2>4 DEF SessionTypes
<1>21. CASE TriggerChecked \/ TriggerUnarmed \/ ScanStartFails
  <2>1. EventTypes'
    BY <1>0, <1>21 DEF TriggerChecked, TriggerUnarmed, ScanStartFails, TriggerFails, Unwind,
       Fault, EventTypes
  <2>2. RuntimeTypes'
    BY <1>0, <1>21 DEF TriggerChecked, TriggerUnarmed, ScanStartFails, TriggerFails, Unwind,
       Fault, RuntimeTypes, runtime, Stages, States
  <2>3. RecordTypes'
    BY <1>0, <1>21, RecordsTyped, Names DEF TriggerChecked, TriggerUnarmed, ScanStartFails,
       TriggerFails, Unwind, Fault, RecordTypes, runtime
  <2>4. DeviceTypes'
    BY <1>0, <1>21 DEF TriggerChecked, TriggerUnarmed, ScanStartFails, TriggerFails, Unwind,
       Fault, DeviceTypes, setup, poll, devices
  <2>5. ThreadTypes'
    BY <1>0, <1>21 DEF TriggerChecked, TriggerUnarmed, ScanStartFails, TriggerFails, Unwind,
       Fault, ThreadTypes, acq, proc, store
  <2>6. CountTypes'
    BY <1>0, <1>21 DEF TriggerChecked, TriggerUnarmed, ScanStartFails, TriggerFails, Unwind,
       Fault, CountTypes, poll, proc, revs
  <2> QED
    BY <2>1, <2>2, <2>3, <2>4, <2>5, <2>6 DEF SessionTypes
<1>22. CASE StartCompletes
  <2>1. ThreadTypes' /\ CountTypes' /\ EventTypes'
    BY <1>0, <1>22 DEF StartCompletes, ThreadTypes, CountTypes, EventTypes, acq, proc, store,
       poll, revs
  <2>2. RuntimeTypes'
    BY <1>0, <1>22 DEF StartCompletes, Succeeded, RuntimeTypes, runtime, Stages, States
  <2>3. RecordTypes'
    BY <1>0, <1>22, RecordsTyped, Names DEF StartCompletes, Succeeded, RecordTypes, runtime
  <2>4. DeviceTypes'
    BY <1>0, <1>22 DEF StartCompletes, Succeeded, DeviceTypes, setup, poll, devices
  <2> QED
    BY <2>1, <2>2, <2>3, <2>4 DEF SessionTypes
<1>23. ASSUME NEW part \in Hardware, DeviceStops(part)
      PROVE  SessionTypes'
  <2>1. RecordTypes' /\ ThreadTypes' /\ CountTypes' /\ EventTypes'
    BY <1>0, <1>23 DEF DeviceStops, DeviceStep, Teardown, RecordTypes, ThreadTypes, CountTypes,
       EventTypes, runtime, acq, proc, store, poll, revs
  <2>2. RuntimeTypes'
    BY <1>0, <1>23 DEF DeviceStops, DeviceStep, Teardown, RuntimeTypes, runtime, Stages, States
  <2>3. DeviceTypes'
    BY <1>0, <1>23 DEF DeviceStops, DeviceStep, Teardown, DeviceTypes, setup, poll, devices
  <2> QED
    BY <2>1, <2>2, <2>3 DEF SessionTypes
<1>24. ASSUME NEW part \in Hardware, DeviceStopFails(part)
      PROVE  SessionTypes'
  <2>1. RecordTypes' /\ ThreadTypes' /\ EventTypes'
    BY <1>0, <1>24 DEF DeviceStopFails, DeviceStep, Teardown, Fault, RecordTypes, ThreadTypes,
       EventTypes, runtime, acq, proc, store
  <2>2. RuntimeTypes'
    BY <1>0, <1>24 DEF DeviceStopFails, DeviceStep, Teardown, Fault, RuntimeTypes, runtime,
       Stages, States
  <2>3. DeviceTypes'
    BY <1>0, <1>24 DEF DeviceStopFails, DeviceStep, Teardown, Fault, DeviceTypes, setup, poll,
       devices
  <2>4. CountTypes'
    BY <1>0, <1>24 DEF DeviceStopFails, DeviceStep, Teardown, Fault, CountTypes, poll, proc,
       revs
  <2> QED
    BY <2>1, <2>2, <2>3, <2>4 DEF SessionTypes
<1>25. CASE WorkerJoined \/ ProcessingStops \/ ServiceStops("udp") \/ ServiceStops("storage")
  <2>1. RuntimeTypes' /\ RecordTypes' /\ DeviceTypes' /\ EventTypes'
    BY <1>0, <1>25 DEF WorkerJoined, ProcessingStops, ServiceStops, Teardown, RuntimeTypes,
       RecordTypes, DeviceTypes, EventTypes, runtime, setup, poll, devices
  <2>2. ThreadTypes'
    BY <1>0, <1>25 DEF WorkerJoined, ProcessingStops, ServiceStops, Teardown, ThreadTypes, acq,
       proc, store
  <2>3. CountTypes'
    BY <1>0, <1>25, SessionAssumption DEF WorkerJoined, ProcessingStops, ServiceStops, Teardown,
       CountTypes, poll, proc, revs
  <2> QED
    BY <2>1, <2>2, <2>3 DEF SessionTypes
<1>26. CASE StopCompletes
  <2>1. DeviceTypes' /\ ThreadTypes' /\ CountTypes' /\ EventTypes'
    BY <1>0, <1>26 DEF StopCompletes, DeviceTypes, ThreadTypes, CountTypes, EventTypes, setup,
       poll, devices, acq, proc, store, revs
  <2>2. RuntimeTypes'
    BY <1>0, <1>26 DEF StopCompletes, NoPlan, StateAfterStop, RuntimeTypes, runtime, Stages,
       States
  <2>3. RecordTypes'
    BY <1>0, <1>26, RecordsTyped, Names DEF StopCompletes, NoPlan, StateAfterStop, RecordTypes,
       runtime
  <2> QED
    BY <2>1, <2>2, <2>3 DEF SessionTypes
<1>27. CASE DisconnectCompletes
  <2>1. ThreadTypes' /\ EventTypes'
    BY <1>0, <1>27 DEF DisconnectCompletes, Disconnected, ThreadTypes, EventTypes, acq, proc,
       store
  <2>2. RuntimeTypes'
    BY <1>0, <1>27 DEF DisconnectCompletes, NoPlan, Disconnected, StopMonitor, Succeeded,
       RuntimeTypes, runtime, Stages, States
  <2>3. RecordTypes'
    BY <1>0, <1>27, RecordsTyped, Names DEF DisconnectCompletes, NoPlan, Disconnected,
       StopMonitor, Succeeded, RecordTypes, runtime
  <2>4. DeviceTypes'
    BY <1>0, <1>27 DEF DisconnectCompletes, NoPlan, Disconnected, StopMonitor, Succeeded,
       DeviceTypes, setup, poll, devices
  <2>5. CountTypes'
    BY <1>0, <1>27 DEF DisconnectCompletes, NoPlan, Disconnected, StopMonitor, Succeeded,
       CountTypes, poll, proc, revs
  <2> QED
    BY <2>1, <2>2, <2>3, <2>4, <2>5 DEF SessionTypes
<1>28. CASE QuitCompletes
  <2>1. ThreadTypes' /\ EventTypes'
    BY <1>0, <1>28 DEF QuitCompletes, Unplug, ThreadTypes, EventTypes, acq, proc, store
  <2>2. RuntimeTypes'
    BY <1>0, <1>28 DEF QuitCompletes, NoPlan, StateAfterStop, Unplug, StopMonitor, RuntimeTypes,
       runtime, Stages, States
  <2>3. RecordTypes'
    BY <1>0, <1>28, RecordsTyped, Names DEF QuitCompletes, NoPlan, StateAfterStop, Unplug,
       StopMonitor, RecordTypes, runtime
  <2>4. DeviceTypes'
    BY <1>0, <1>28 DEF QuitCompletes, NoPlan, StateAfterStop, Unplug, StopMonitor, DeviceTypes,
       setup, poll, devices
  <2>5. CountTypes'
    BY <1>0, <1>28 DEF QuitCompletes, NoPlan, StateAfterStop, Unplug, StopMonitor, CountTypes,
       poll, proc, revs
  <2> QED
    BY <2>1, <2>2, <2>3, <2>4, <2>5 DEF SessionTypes
<1>29. CASE \/ WorkerReady \/ WorkerWaits \/ WorkerTimeout \/ WorkerBatch
          \/ WorkerSourceEnded \/ WorkerLeaves
  <2>1. RuntimeTypes' /\ RecordTypes' /\ CountTypes' /\ EventTypes'
    BY <1>0, <1>29 DEF WorkerReady, WorkerWaits, WorkerTimeout, WorkerBatch, WorkerSourceEnded,
       WorkerLeaves, WorkerGoes, RuntimeTypes, RecordTypes, CountTypes, EventTypes, runtime,
       poll, proc, revs
  <2>2. DeviceTypes'
    BY <1>0, <1>29 DEF WorkerReady, WorkerWaits, WorkerTimeout, WorkerBatch, WorkerSourceEnded,
       WorkerLeaves, WorkerGoes, DeviceTypes, setup, poll, devices
  <2>3. ThreadTypes'
    BY <1>0, <1>29 DEF WorkerReady, WorkerWaits, WorkerTimeout, WorkerBatch, WorkerSourceEnded,
       WorkerLeaves, WorkerGoes, ThreadTypes, acq, proc, store
  <2> QED
    BY <2>1, <2>2, <2>3 DEF SessionTypes
<1>30. CASE WorkerSourceCompletes \/ WorkerSourceFails
  <2>1. RuntimeTypes' /\ RecordTypes' /\ EventTypes'
    BY <1>0, <1>30 DEF WorkerSourceCompletes, WorkerSourceFails, WorkerGoes, Fault,
       RuntimeTypes, RecordTypes, EventTypes, runtime
  <2>2. DeviceTypes'
    BY <1>0, <1>30 DEF WorkerSourceCompletes, WorkerSourceFails, WorkerGoes, Fault, DeviceTypes,
       setup, poll, devices
  <2>3. ThreadTypes'
    BY <1>0, <1>30 DEF WorkerSourceCompletes, WorkerSourceFails, WorkerGoes, Fault, ThreadTypes,
       acq, proc, store
  <2>4. CountTypes'
    BY <1>0, <1>30 DEF WorkerSourceCompletes, WorkerSourceFails, WorkerGoes, Fault, CountTypes,
       poll, proc, revs
  <2> QED
    BY <2>1, <2>2, <2>3, <2>4 DEF SessionTypes
<1>31. CASE ConsumeBatch
  <2>1. RuntimeTypes' /\ RecordTypes' /\ DeviceTypes' /\ EventTypes'
    BY <1>0, <1>31 DEF ConsumeBatch, Fault, RuntimeTypes, RecordTypes, DeviceTypes, EventTypes,
       runtime, setup, poll, devices
  <2>2. ThreadTypes'
    BY <1>0, <1>31 DEF ConsumeBatch, HasRoom, Fault, ThreadTypes, acq, proc, store
  <2>3. CountTypes'
    BY <1>0, <1>31, SessionAssumption DEF ConsumeBatch, HasRoom, Fault, CountTypes, poll, proc,
       revs
  <2> QED
    BY <2>1, <2>2, <2>3 DEF SessionTypes
<1>32. CASE WorkerPosts
  <2>1. RuntimeTypes' /\ RecordTypes' /\ DeviceTypes' /\ CountTypes'
    BY <1>0, <1>32 DEF WorkerPosts, WorkerGoes, RuntimeTypes, RecordTypes, DeviceTypes,
       CountTypes, runtime, setup, poll, devices, proc, revs
  <2>2. ThreadTypes'
    BY <1>0, <1>32 DEF WorkerPosts, WorkerGoes, PostsExit, ThreadTypes, acq, proc, store
  <2>3. EventTypes'
    BY <1>0, <1>32, EventsTyped DEF WorkerPosts, WorkerGoes, PostsExit, ThreadTypes, EventTypes
  <2> QED
    BY <2>1, <2>2, <2>3 DEF SessionTypes
<1>33. CASE BatchProcessed
  <2>1. RuntimeTypes' /\ RecordTypes' /\ DeviceTypes' /\ EventTypes'
    BY <1>0, <1>33 DEF BatchProcessed, ServiceStep, Fault, RuntimeTypes, RecordTypes,
       DeviceTypes, EventTypes, runtime, setup, poll, devices
  <2>2. ThreadTypes'
    BY <1>0, <1>33 DEF BatchProcessed, ServiceStep, Fault, ThreadTypes, acq, proc, store
  <2>3. CountTypes'
    BY <1>0, <1>33, SessionAssumption, LessOne DEF BatchProcessed, ServiceStep, Fault,
       CountTypes, poll, proc, revs
  <2> QED
    BY <2>1, <2>2, <2>3 DEF SessionTypes
<1>34. CASE ProcessingFails \/ StorageFails
  <2>1. RuntimeTypes' /\ RecordTypes' /\ DeviceTypes' /\ EventTypes'
    BY <1>0, <1>34 DEF ProcessingFails, StorageFails, ServiceStep, Fault, RuntimeTypes,
       RecordTypes, DeviceTypes, EventTypes, runtime, setup, poll, devices
  <2>2. ThreadTypes'
    BY <1>0, <1>34 DEF ProcessingFails, StorageFails, ServiceStep, Fault, ThreadTypes, acq,
       proc, store
  <2>3. CountTypes'
    BY <1>0, <1>34, SessionAssumption DEF ProcessingFails, StorageFails, ServiceStep, Fault,
       CountTypes, poll, proc, revs
  <2> QED
    BY <2>1, <2>2, <2>3 DEF SessionTypes
<1>35. CASE MonitorLosesEdfa
  <2>1. RuntimeTypes' /\ RecordTypes' /\ ThreadTypes'
    BY <1>0, <1>35 DEF MonitorLosesEdfa, ServiceStep, Fault, RuntimeTypes, RecordTypes,
       ThreadTypes, runtime, acq, proc, store
  <2>2. DeviceTypes'
    BY <1>0, <1>35 DEF MonitorLosesEdfa, ServiceStep, Fault, DeviceTypes, setup, poll, devices
  <2>3. CountTypes'
    BY <1>0, <1>35 DEF MonitorLosesEdfa, ServiceStep, Fault, CountTypes, poll, proc, revs
  <2>4. EventTypes'
    <3>1. [type |-> "EDFA", failed |-> TRUE, generation |-> generation] \in Event
      BY <1>0, EventsTyped DEF CountTypes
    <3> QED
      BY <1>0, <1>35, <3>1 DEF MonitorLosesEdfa, EventTypes
  <2> QED
    BY <2>1, <2>2, <2>3, <2>4 DEF SessionTypes
<1>36. CASE UNCHANGED vars
  BY <1>0, <1>36 DEF vars, runtime, setup, poll, devices, acq, proc, store, revs, SessionTypes,
     RuntimeTypes, RecordTypes, DeviceTypes, ThreadTypes, CountTypes, EventTypes
<1> QED
  BY <1>1, <1>2, <1>3, <1>4, <1>5, <1>6, <1>7, <1>8, <1>9, <1>10, <1>11, <1>12, <1>13, <1>14,
     <1>15, <1>16, <1>17, <1>18, <1>19, <1>20, <1>21, <1>22, <1>23, <1>24, <1>25, <1>26, <1>27,
     <1>28, <1>29, <1>30, <1>31, <1>32, <1>33, <1>34, <1>35, <1>36 DEF Next, Runtime, Taking,
     Configuration, Starting, TearingDown, Worker, Others

\* The types hold at the start.
LEMMA TypesStart == Init => SessionTypes
<1> SUFFICES ASSUME Init PROVE SessionTypes
  OBVIOUS
<1>1. RuntimeTypes /\ DeviceTypes /\ ThreadTypes
  BY DEF Init, RuntimeTypes, DeviceTypes, ThreadTypes, States
<1>2. RecordTypes
  BY DEF Init, RecordTypes, NoPlan, NoReply, Plans, Answers
<1>3. CountTypes /\ EventTypes
  BY SessionAssumption DEF Init, CountTypes, EventTypes
<1> QED
  BY <1>1, <1>2, <1>3 DEF SessionTypes

-----------------------------------------------------------------------------
(* The theorems.                                                           *)

\* The inductive invariant holds in every state of a session.
THEOREM SessionInvariant == Spec => []SessionInv
<1> QED
  BY InitInv, SessionStep, PTL DEF Spec

\* Storage and the sender outlive the processing that calls them, and the
\* processing outlives the acquisition worker (startRuntime, stopRuntime).
THEOREM ConsumersOutlive == Spec => []ConsumersOutliveProducers
<1>1. SessionInv => ConsumersOutliveProducers
  BY DEF SessionInv
<1> QED
  BY <1>1, SessionInvariant, PTL

\* Whatever ended a session, or a start half way, nothing is left behind, and no
\* device is on unless the state says Error (stopRuntime, startRuntime's unwinding).
THEOREM NothingLeftOn == Spec => StopLeavesAllOff
<1> QED
  BY SessionInvariant, NothingLeft, PTL DEF Spec, StopLeavesAllOff

\* The scan starts with a receiver and stops before it (arm, enableTrigger, stopDevices).
THEOREM ReceiverOutlivesTrigger == Spec => TriggerNeedsReceiver
<1>1. SessionInv /\ [Next]_vars =>
        /\ "scanner" \in up' \ up => "digitizer" \in up \/ worker \in {"leave", "post", "done"}
        /\ pc = "down" /\ "scanner" \in up' /\ "digitizer" \in up \ up' =>
             stopError \/ worker' # worker
  BY ScannerStarts, DigitizerStopsLast DEF SessionInv, OnStart, Late, Gone
<1> QED
  BY <1>1, SessionInvariant, PTL DEF Spec, TriggerNeedsReceiver

\* Every variable of the session keeps its type, and the processing queue its bound
\* (RuntimeWorker, AcquisitionSession, ContinuousAcquisitionWorker).
THEOREM SessionTypesHold == Spec => []TypeOK
<1>1. Spec => []SessionTypes
  BY TypesStart, TypesStep, PTL DEF Spec
<1>2. SessionInv /\ SessionTypes => TypeOK
  <2> SUFFICES ASSUME SessionInv, SessionTypes PROVE TypeOK
    OBVIOUS
  <2>1. todo \in Seq(Parts \cup {"worker"}) /\ up \subseteq Parts
    BY DEF SessionInv, Sizes, Steps
  <2>2. backlog \in 0..Backlog
    BY SessionAssumption DEF SessionTypes, CountTypes
  <2> QED
    BY <2>1, <2>2 DEF TypeOK, SessionTypes, RuntimeTypes, RecordTypes, DeviceTypes, ThreadTypes,
                      CountTypes, EventTypes, Plans, Answers
<1> QED
  BY <1>1, <1>2, SessionInvariant, PTL
=============================================================================
