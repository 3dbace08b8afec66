------------------------------ MODULE UiDispatch ------------------------------
(***************************************************************************)
(* How a snapshot reaches the display: the processing worker replaces it   *)
(* in the snapshot store, the runtime thread picks the plot that is shown  *)
(* when its timer fires, when the session stops and when another plot is   *)
(* selected, and the UI thread drains what is pending behind one event of  *)
(* its queue (publishSnapshots, schedulePendingUiDispatchLocked and        *)
(* drainPendingUiUpdates of src/apps/common/application_controller.cpp).   *)
(***************************************************************************)
EXTENDS Integers

CONSTANTS
  Plots,        \* the kinds of snapshots
  MaxSnapshots, \* bound: snapshots the processing worker publishes
  MaxActs       \* bound: what the user does

ASSUME DisplayAssumption == MaxSnapshots \in Nat /\ MaxActs \in Nat

None == [plot |-> "none", snapshot |-> 0]

VARIABLES
  phase,     \* "idle", "live" (running_, the timer on), "stopping" or "aborting"
  selected,  \* active_live_plot_index_, "none" for a page without a plot
  latest,    \* the store's newest snapshot of each plot, 0 before the first
  last,      \* last_*_snapshot_: what was published last
  carried,   \* the snapshot publishSnapshots has read and not yet enqueued
  waiting,   \* pending_*_ of the UI, 0 for null
  scheduled, \* ui_dispatch_scheduled_
  drains,    \* drain events in the UI thread's queue
  drained,   \* locals of a drain that has let go of the mutex
  shown,     \* the snapshot each widget was handed last
  aborted,   \* history: an emergency stop ended the last session
  made, acts

displayVars == <<phase, selected, latest, last, carried, waiting, scheduled, drains, drained,
                 shown, aborted, made, acts>>

Nothing == [p \in Plots |-> 0]

DisplayInit ==
  /\ phase = "idle" /\ selected = "none"
  /\ latest = Nothing /\ last = Nothing /\ carried = None
  /\ waiting = Nothing /\ scheduled = FALSE /\ drains = 0 /\ drained = Nothing
  /\ shown = Nothing /\ aborted = FALSE /\ made = 0 /\ acts = 0
-----------------------------------------------------------------------------
(* The processing worker and the user.                                     *)

\* ProcessingSnapshotStore replaces a snapshot, until the service is stopped.
Produce(p) ==
  /\ phase # "idle" /\ made < MaxSnapshots
  /\ made' = made + 1 /\ latest' = [latest EXCEPT ![p] = made + 1]
  /\ UNCHANGED <<phase, selected, last, carried, waiting, scheduled, drains, drained, shown,
                 aborted, acts>>

\* A command the runtime thread takes, free of other work.
Act ==
  /\ carried = None /\ acts < MaxActs /\ acts' = acts + 1
  /\ UNCHANGED <<waiting, scheduled, drains, drained, shown, made>>

SessionStarts ==
  /\ Act /\ phase = "idle" /\ phase' = "live" /\ aborted' = FALSE
  /\ UNCHANGED <<selected, latest, last, carried>>

\* A new configuration brings a new service and an empty store.
Reconfigure ==
  /\ Act /\ phase = "idle" /\ latest' = Nothing
  /\ UNCHANGED <<phase, selected, last, carried, aborted>>

StopBegins ==
  /\ Act /\ phase = "live" /\ phase' = "stopping"
  /\ UNCHANGED <<selected, latest, last, carried, aborted>>

EmergencyStopBegins ==
  /\ Act /\ phase = "live" /\ phase' = "aborting"
  /\ UNCHANGED <<selected, latest, last, carried, aborted>>
-----------------------------------------------------------------------------
(* The runtime thread.                                                     *)

\* publishSnapshots, up to the mutex of the UI: only what was not published last.
PublishSnapshots(plot, before) ==
  IF plot \in Plots /\ latest[plot] \notin {0, before[plot]}
    THEN /\ carried' = [plot |-> plot, snapshot |-> latest[plot]]
         /\ last' = [before EXCEPT ![plot] = latest[plot]]
    ELSE /\ last' = before /\ UNCHANGED carried

\* setLivePlotIndexRuntime forgets what it published of the plot.
Select(plot) ==
  /\ Act /\ phase \in {"idle", "live"} /\ plot # selected
  /\ selected' = plot
  /\ PublishSnapshots(plot, [p \in Plots |-> IF p = plot THEN 0 ELSE last[p]])
  /\ UNCHANGED <<phase, latest, aborted>>

TimerPublishes ==
  /\ phase = "live" /\ carried = None
  /\ selected \in Plots /\ latest[selected] # last[selected]
  /\ PublishSnapshots(selected, last)
  /\ UNCHANGED <<phase, selected, latest, waiting, scheduled, drains, drained, shown, aborted,
                 made, acts>>

PublishAtStop == PublishSnapshots(selected, last)

\* The service has stopped. An emergency stop publishes nothing.
Stopped ==
  /\ carried = None /\ phase \in {"stopping", "aborting"} /\ phase' = "idle"
  /\ \/ phase = "stopping" /\ PublishAtStop /\ UNCHANGED aborted
     \/ phase = "aborting" /\ aborted' = TRUE /\ UNCHANGED <<carried, last>>
  /\ UNCHANGED <<selected, latest, waiting, scheduled, drains, drained, shown, made, acts>>

\* enqueueWaveform and its likes: one drain event for whatever becomes pending.
EnqueueUpdate ==
  /\ carried # None /\ carried' = None
  /\ waiting' = [waiting EXCEPT ![carried.plot] = carried.snapshot]
  /\ scheduled' = TRUE /\ drains' = IF scheduled THEN drains ELSE drains + 1
  /\ UNCHANGED <<phase, selected, latest, last, drained, shown, aborted, made, acts>>
-----------------------------------------------------------------------------
(* The UI thread: drainPendingUiUpdates.                                   *)

Drain ==
  /\ drains > 0 /\ drained = Nothing /\ drains' = drains - 1
  /\ drained' = waiting /\ waiting' = Nothing /\ scheduled' = FALSE
  /\ UNCHANGED <<phase, selected, latest, last, carried, shown, aborted, made, acts>>

ShowUpdates ==
  /\ drained # Nothing /\ drained' = Nothing
  /\ shown' = [p \in Plots |-> IF drained[p] # 0 THEN drained[p] ELSE shown[p]]
  /\ UNCHANGED <<phase, selected, latest, last, carried, waiting, scheduled, drains, aborted,
                 made, acts>>
-----------------------------------------------------------------------------
User ==
  \/ SessionStarts \/ Reconfigure \/ StopBegins \/ EmergencyStopBegins
  \/ \E p \in Plots \cup {"none"} : Select(p)
RuntimeThread == TimerPublishes \/ Stopped \/ EnqueueUpdate
UiThread == Drain \/ ShowUpdates

DisplayNext == User \/ (\E p \in Plots : Produce(p)) \/ RuntimeThread \/ UiThread

\* Timer, runtime thread and UI thread are scheduled; nobody owes a snapshot.
DisplaySpec ==
  /\ DisplayInit /\ [][DisplayNext]_displayVars
  /\ WF_displayVars(RuntimeThread) /\ WF_displayVars(UiThread)

Snapshots == 0..MaxSnapshots
DisplayTypeOK ==
  /\ phase \in {"idle", "live", "stopping", "aborting"} /\ selected \in Plots \cup {"none"}
  /\ latest \in [Plots -> Snapshots] /\ last \in [Plots -> Snapshots]
  /\ carried \in [plot : Plots, snapshot : Snapshots] \cup {None}
  /\ waiting \in [Plots -> Snapshots] /\ scheduled \in BOOLEAN /\ drains \in 0..1
  /\ drained \in [Plots -> Snapshots] /\ shown \in [Plots -> Snapshots]
  /\ aborted \in BOOLEAN /\ made \in Snapshots /\ acts \in 0..MaxActs

\* The plot on display catches up with the store whenever snapshots pause: none is
\* lost behind a drain that is already scheduled, by the comparison with the last
\* one published, or in a stop (an emergency stop does not show what it drained).
Behind == selected \in Plots /\ latest[selected] \notin {0, shown[selected]}
=============================================================================
