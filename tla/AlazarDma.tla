------------------------------ MODULE AlazarDma ------------------------------
(***************************************************************************)
(* The DMA buffers of the digitizer: src/drivers/alazar/alazar_digitizer   *)
(* .cpp, as AcquisitionSession of src/core drives it.                      *)
(*                                                                         *)
(* A buffer is posted to the board, filled, lent to the consumers of its   *)
(* batch, and queued for re-posting when the last of them lets go. Four    *)
(* parties take part:                                                      *)
(*   - the controller (the runtime thread): arm, stopDevices, disconnect;  *)
(*   - the waiter (the acquisition thread) in waitForBatch, which drops    *)
(*     the device mutex around the driver's wait and holds it around its   *)
(*     own wait for a returned buffer;                                     *)
(*   - the consumers, who release leases in any order, even after a stop;  *)
(*   - the board, which fills the posted buffers in order (external).      *)
(* A line is its number: data[b] is the line the board wrote last into b.  *)
(***************************************************************************)
EXTENDS Integers, Sequences

CONSTANTS
  Buffers,     \* dma_buffer_count
  FrameCounts, \* finite_frame_count values to choose from; 0 is continuous mode
  MaxLines,    \* bound: lines triggered in one session
  MaxSessions, \* bound: starts of the digitizer
  MaxFaults    \* bound: driver calls that fail

ASSUME DmaAssumption ==
  /\ Buffers \in Nat \ {0}
  /\ FrameCounts \subseteq Nat
  /\ MaxLines \in Nat /\ MaxSessions \in Nat /\ MaxFaults \in Nat

VARIABLES
  control,     \* the controller: "stopped", "running", "stopping" (waits for the
               \* mutex), "abort" (waits for the waiter), "release"
  armed,       \* AcquisitionSession's armed_
  running,     \* telemetry_.device.running
  prepared,    \* async_prepared
  frames,      \* finite_frame_count of this session, 0 when continuous
  session,     \* sessions started: identifies buffers and lease_state
  held,        \* `buffers' and lease_state are there
  posted,      \* posted_indices
  repost,      \* lease_state->repost_enabled
  released,    \* lease_state->released_indices
  leases,      \* AlazarDmaLease objects the consumers hold
  received,    \* dma_buffers_received
  waiter,      \* the acquisition thread: "out", "idle", or inside waitForBatch:
               \* "lease" (waits with the mutex), "api" (without), "relock"
  result,      \* what the driver's wait returned
  \* the board
  board,       \* buffers posted and not collected, in order
  filled,      \* how many of them are filled
  capturing,   \* between AlazarStartCapture and AlazarAbortAsyncRead
  overflow,    \* a line found no free buffer
  lines,       \* lines written in this session
  data,        \* the line last written into each buffer
  faults,
  abortFailed  \* AlazarAbortAsyncRead failed in this session

thread == <<control, waiter, result>>
device == <<armed, running, prepared, frames, session, held>>
pool   == <<posted, repost, released, leases, received>>
card   == <<board, filled, capturing, overflow, lines, data>>
errors == <<faults, abortFailed>>
vars == <<thread, device, pool, card, errors>>

Index == 1..Buffers
Lease == [session : Nat, index : Index, line : Nat]
Results == {"none", "ready", "timeout", "overflow", "error"}
Blank == [i \in Index |-> 0]

\* Posting that counts the buffers from one too many.
InOrderOffByOne == [i \in Index |-> i + 1]

InOrder == [i \in Index |-> i]

Init ==
  /\ control = "stopped" /\ waiter = "out" /\ result = "none"
  /\ armed = FALSE /\ running = FALSE /\ prepared = FALSE
  /\ frames = 0 /\ session = 0 /\ held = FALSE
  /\ posted = <<>> /\ repost = FALSE /\ released = <<>> /\ leases = {} /\ received = 0
  /\ board = <<>> /\ filled = 0 /\ capturing = FALSE /\ overflow = FALSE
  /\ lines = 0 /\ data = Blank
  /\ faults = 0 /\ abortFailed = FALSE

\* One of the driver's calls fails.
Fault == faults < MaxFaults /\ faults' = faults + 1

\* The waiter keeps the device mutex while it waits for a returned buffer.
MutexFree == waiter # "lease"
-----------------------------------------------------------------------------
(* The controller.                                                         *)

\* The runtime stops and joins before it arms again; the device refuses while
\* it is running.
CanArm ==
  control = "stopped" /\ ~armed /\ ~running /\ waiter = "out" /\ session < MaxSessions

\* arm: releaseBuffers, then every buffer is posted and the capture begins.
Start ==
  /\ CanArm
  /\ control' = "running" /\ waiter' = "idle" /\ result' = "none"
  /\ armed' = TRUE /\ running' = TRUE /\ prepared' = TRUE
  /\ frames' \in FrameCounts /\ session' = session + 1 /\ held' = TRUE
  /\ posted' = InOrder /\ repost' = TRUE /\ released' = <<>> /\ received' = 0
  /\ board' = InOrder /\ filled' = 0 /\ capturing' = TRUE /\ overflow' = FALSE
  /\ lines' = 0 /\ data' = Blank
  /\ abortFailed' = FALSE
  /\ UNCHANGED <<leases, faults>>

\* releaseBuffers: the digitizer lets go of its buffers and of lease_state;
\* what the consumers hold lives on in their leases.
ReleaseBuffers ==
  /\ held' = FALSE /\ repost' = FALSE /\ posted' = <<>> /\ released' = <<>>

\* The board refuses a buffer or the capture: the read is aborted again.
StartFails ==
  /\ CanArm /\ Fault
  /\ ReleaseBuffers
  /\ session' = session + 1 /\ prepared' = FALSE
  /\ board' = <<>> /\ filled' = 0 /\ capturing' = FALSE
  /\ UNCHANGED <<thread, armed, running, frames, leases, received, overflow, lines, data,
                 abortFailed>>

\* stopDevices aborts and stops only a session or a device that runs.
StopsDevice == armed \/ running

\* The acquisition thread is asked to leave, then the devices are stopped.
Stop ==
  /\ control = "running"
  /\ control' = IF StopsDevice THEN "stopping" ELSE "stopped"
  /\ UNCHANGED <<waiter, result, device, pool, card, errors>>

\* disconnect after a stop: the digitizer is told in any case.
Disconnect ==
  /\ control = "stopped" /\ held
  /\ control' = "stopping"
  /\ UNCHANGED <<waiter, result, device, pool, card, errors>>

\* abortAsyncReadLocked, up to its wait for the waiter.
AbortAsyncRead ==
  /\ control = "stopping" /\ MutexFree
  /\ control' = "abort" /\ repost' = FALSE /\ prepared' = FALSE
  /\ \/ /\ board' = <<>> /\ filled' = 0 /\ capturing' = FALSE
        /\ UNCHANGED errors
     \/ /\ Fault /\ abortFailed' = TRUE
        /\ UNCHANGED <<board, filled, capturing>>
  /\ UNCHANGED <<waiter, result, armed, running, frames, session, held, posted, released,
                 leases, received, overflow, lines, data>>

\* An abort that goes on while the driver's wait is still active.
WaiterIgnored == MutexFree

\* An abort that expects the waiter to come back for another call.
WaiterCallsAgain == waiter = "idle"

\* api_wait_active is FALSE and the mutex is free.
WaiterIsBack == waiter \notin {"lease", "api", "relock"}

AbortReturns ==
  /\ control = "abort" /\ WaiterIsBack
  /\ control' = "release"
  /\ running' = (running /\ abortFailed)
  /\ UNCHANGED <<waiter, result, armed, prepared, frames, session, held, pool, card, errors>>

\* stop after abort: its own abort finds nothing to do.
StopReturns ==
  /\ control = "release" /\ MutexFree
  /\ control' = "stopped" /\ running' = FALSE /\ armed' = FALSE
  /\ ReleaseBuffers
  /\ UNCHANGED <<waiter, result, prepared, frames, session, leases, received, card, errors>>

Controller == Start \/ StartFails \/ Stop \/ Disconnect
StopGoesOn == AbortAsyncRead \/ AbortReturns \/ StopReturns
-----------------------------------------------------------------------------
(* The waiter: AcquisitionSession::waitForBatch over the digitizer's.      *)

\* Between two calls. A worker asked to stop does not call again; one whose
\* trigger could not be enabled is not asked, and has received nothing.
Calls == waiter = "idle" /\ (control = "running" \/ received = 0)

Leave ==
  /\ waiter = "idle" /\ control # "running"
  /\ waiter' = "out"
  /\ UNCHANGED <<control, result, device, pool, card, errors>>

\* waitForBatch answers Stopped and the session disarms itself.
Stopped ==
  /\ waiter' = "out" /\ armed' = FALSE
  /\ UNCHANGED <<control, result, prepared, frames, session, held, pool, card, errors>>

FiniteEnd == frames # 0 /\ received >= frames

WaitStopped ==
  /\ Calls /\ ~(armed /\ running /\ prepared)
  /\ Stopped /\ UNCHANGED running

WaitFinished ==
  /\ Calls /\ armed /\ running /\ prepared /\ FiniteEnd
  /\ running' = FALSE
  /\ Stopped

\* Returned buffers are posted only when the board has none left.
RepostsWhenEmpty == IF posted = <<>> THEN released ELSE <<>>

\* repostReleasedBuffers takes the whole queue of returned buffers.
Reposts == released

\* Posts the returned buffers, then waits for one or for the board.
WaitBegins ==
  /\ \/ Calls /\ armed /\ running /\ prepared /\ ~FiniteEnd
     \/ waiter = "lease" /\ released # <<>>
  /\ posted' = posted \o Reposts /\ board' = board \o Reposts
  /\ released' = SubSeq(released, Len(Reposts) + 1, Len(released))
  /\ waiter' = IF posted' = <<>> THEN "lease" ELSE "api"
  /\ UNCHANGED <<control, result, device, repost, leases, received, filled, capturing,
                 overflow, lines, data, errors>>

\* The board refuses one of them: it and those behind it are forgotten.
RepostFails ==
  /\ \/ Calls /\ armed /\ running /\ prepared /\ ~FiniteEnd
     \/ waiter = "lease"
  /\ Fault
  /\ \E n \in 0..Len(released) - 1 :
       /\ posted' = posted \o SubSeq(released, 1, n)
       /\ board' = board \o SubSeq(released, 1, n)
  /\ released' = <<>> /\ waiter' = "out"
  /\ UNCHANGED <<control, result, device, repost, leases, received, filled, capturing,
                 overflow, lines, data, abortFailed>>

\* No consumer gave a buffer back in time. The branch for repost_enabled =
\* false is never taken: whoever clears it needs the mutex.
LeaseTimeout ==
  /\ waiter = "lease" /\ released = <<>>
  /\ waiter' = "idle"
  /\ UNCHANGED <<control, result, device, pool, card, errors>>

\* AlazarWaitAsyncBufferComplete returns; the board gives up a filled buffer.
ApiReturns ==
  /\ waiter = "api" /\ waiter' = "relock"
  /\ \/ /\ filled > 0
        /\ result' = "ready" /\ board' = Tail(board) /\ filled' = filled - 1
        /\ UNCHANGED errors
     \/ /\ result' = "timeout" \/ (overflow /\ result' = "overflow")
                               \/ (~capturing /\ result' = "error")
        /\ UNCHANGED <<board, filled, errors>>
     \/ /\ Fault /\ result' = "error"
        /\ UNCHANGED <<board, filled, abortFailed>>
  /\ UNCHANGED <<control, device, pool, capturing, overflow, lines, data>>

\* With the mutex again: the abort of another thread comes first.
WaitEnds ==
  /\ waiter = "relock" /\ result' = "none"
  /\ IF ~prepared
       THEN waiter' = "out" /\ armed' = FALSE
       ELSE /\ waiter' = IF result = "timeout" THEN "idle" ELSE "out"
            /\ result # "ready" /\ UNCHANGED armed
  /\ UNCHANGED <<control, running, prepared, frames, session, held, pool, card, errors>>

\* A batch leaves with a lease on its buffer.
BatchReady ==
  /\ waiter = "relock" /\ prepared /\ result = "ready"
  /\ waiter' = "idle" /\ result' = "none"
  /\ posted' = Tail(posted) /\ received' = received + 1
  /\ leases' = leases \cup {[session |-> session, index |-> Head(posted), line |-> received + 1]}
  /\ UNCHANGED <<control, device, repost, released, card, errors>>

Waiter ==
  \/ Leave \/ WaitStopped \/ WaitFinished \/ WaitBegins \/ RepostFails \/ LeaseTimeout
  \/ ApiReturns \/ WaitEnds \/ BatchReady
-----------------------------------------------------------------------------
(* The consumers and the board.                                            *)

\* A lease that reports to the digitizer's present lease_state.
ReturnsToPresent(l) == repost

\* A lease that reports only to a waiter that sleeps.
ReturnsToSleeper(l) == l.session = session /\ repost /\ waiter = "lease"

\* A lease reports to the lease_state it was made with.
Returns(l) == l.session = session /\ repost

\* ~AlazarDmaLease: the last reference to a batch is gone.
Release ==
  \E l \in leases :
    /\ leases' = leases \ {l}
    /\ released' = IF Returns(l) THEN Append(released, l.index) ELSE released
    /\ UNCHANGED <<thread, device, posted, repost, received, card, errors>>

\* A trigger: the next posted buffer is filled.
BoardFills ==
  /\ capturing /\ ~overflow /\ lines < MaxLines /\ filled < Len(board)
  /\ frames # 0 => lines < frames
  /\ filled' = filled + 1 /\ lines' = lines + 1
  /\ data' = [data EXCEPT ![board[filled + 1]] = lines + 1]
  /\ UNCHANGED <<thread, device, pool, board, capturing, overflow, errors>>

\* A trigger finds no buffer.
BoardOverflows ==
  /\ capturing /\ ~overflow /\ lines < MaxLines /\ filled = Len(board)
  /\ frames # 0 => lines < frames
  /\ overflow' = TRUE
  /\ UNCHANGED <<thread, device, pool, board, filled, capturing, lines, data, errors>>

Next ==
  \/ Controller \/ StopGoesOn \/ Waiter \/ Release \/ BoardFills \/ BoardOverflows

Spec == Init /\ [][Next]_vars

\* The acquisition thread and a stop that was begun go on: the driver's wait
\* and the wait for a lease have a deadline. Consumers, triggers and commands
\* are owed by nobody.
FairSpec == Spec /\ WF_vars(Waiter) /\ WF_vars(StopGoesOn)
-----------------------------------------------------------------------------
Elements(s) == {s[i] : i \in 1..Len(s)}
Distinct(s) == \A i, j \in 1..Len(s) : s[i] = s[j] => i = j
Lent == {l \in leases : l.session = session}

TypeOK ==
  /\ control \in {"stopped", "running", "stopping", "abort", "release"}
  /\ waiter \in {"out", "idle", "lease", "api", "relock"} /\ result \in Results
  /\ armed \in BOOLEAN /\ running \in BOOLEAN /\ prepared \in BOOLEAN /\ held \in BOOLEAN
  /\ frames \in Nat /\ session \in Nat /\ received \in Nat
  /\ posted \in Seq(Index) /\ released \in Seq(Index) /\ repost \in BOOLEAN
  /\ leases \subseteq Lease
  /\ board \in Seq(Index) /\ filled \in 0..Len(board)
  /\ capturing \in BOOLEAN /\ overflow \in BOOLEAN
  /\ lines \in Nat /\ data \in [Index -> Nat]
  /\ faults \in Nat /\ abortFailed \in BOOLEAN

\* A buffer is in one place: with the board, with one batch, or waiting to be
\* posted again; and none is lost while the acquisition goes on (waitForBatch,
\* ~AlazarDmaLease).
EveryBufferHasOnePlace ==
  /\ Distinct(posted) /\ Distinct(released)
  /\ Elements(posted) \cap Elements(released) = {}
  /\ \A l \in Lent :
       /\ held => l.index \notin Elements(posted) \cup Elements(released)
       /\ \A m \in Lent : m.index = l.index => m = l
  /\ repost /\ waiter # "out" =>
       Elements(posted) \cup Elements(released) \cup {l.index : l \in Lent} = Index

\* The line a batch was delivered with, the received-th of its session, stays in
\* its buffer for as long as a consumer holds the batch, whatever other
\* consumers return and however late those of earlier sessions do
\* (data_contract.md: ATS batches retain a lease).
ConsumerReadsItsLine == \A l \in Lent : data[l.index] = l.line

\* What another thread uses is not taken away: the buffer the driver waits for,
\* the lease_state the waiter sleeps on, and the buffers the board writes to,
\* unless the board itself would not stop (abortAsyncReadLocked, releaseBuffers).
InUseStaysAllocated ==
  /\ waiter = "api" => held
  /\ waiter = "lease" => held /\ repost
  /\ capturing => held \/ abortFailed

\* A buffer that comes back is posted again, or the thread that would do it is
\* gone: the acquisition does not starve with free buffers at hand.
ReturnedBuffersArePosted == released # <<>> ~> released = <<>> \/ waiter = "out"

\* A stop ends although the thread it waits for holds the mutex or is inside
\* the driver.
StopEnds == control = "stopping" ~> control = "stopped"

\* After a stop, of whatever cause, the read is aborted and the digitizer holds
\* no buffers (stopDevices, docs/device_protocols.md).
StopAborts == control = "stopped" => ~prepared /\ ~held
=============================================================================
