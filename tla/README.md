# A TLA+ model of the E-Trike control firmware and its control toolkit

This directory holds TLA+ modules for the part of the E-Trike repository that
decides whether the vehicle may move: who holds authority, what takes it away
and what gives it back, on the nodes SYS, RT and MTR and in the toolkit that
drives them from a bench. TLC checks the modules on small instances; TLAPS
proves the safety properties for every value of the constants.

Run a configuration with `tlc -config SysModeReset.cfg MCSysMode`, check the
proofs with `tlapm SysModeProofs.tla`. PROJECT.json lists the runs, what each
definition models (file and lines), the mutants that show that a property can
fail, the findings and the hazards.

## 1. Inventory

The vehicle is a set of nodes on a high CAN bus (Jetson, HMI, RT) and a low CAN
bus (RT, SYS, MTR, brake actuator SEB, steering actuator SES, radio gateway RM).
RT bridges the two. Nodes share no memory: they interact by periodic frames and
by level signals. Inside a node FreeRTOS tasks share relaxed atomics and queues.

| Component | State it keeps | Operations | What makes it correct |
|---|---|---|---|
| **SYS core** (`sys-esp32/src/mode_manager.*`, `inhibit_state.*`, tasks of `main.cpp`) | mode, run latch, latched and transient faults, button history | button tick, HMI mode and power requests, remote reset, ESTOP entry from five tasks, authority published as 0x110 / 0x113 | ESTOP is left only by a validated reset; a block is obeyed by the next pair of frames; run needs a START cycle; a held cause keeps SYS in ESTOP |
| **SYS brake** (`brake_control.h`, `task_brake`) | BOOT_WAIT / LISTEN_SYNC / ACTIVE / DEGRADED, SEB freshness | 50 Hz tick, SEB staleness inhibit | ESTOP over lever over pressure; traction inhibited while the SEB is unknown |
| **SYS safety tasks** (`safety_monitor.*`, `task_diag`, `mtr_estop_ack.h`) | last heartbeat, suppression windows, MTR acknowledgement | feed, check, suppress, acknowledge | heartbeat loss and dead tasks stop the vehicle; suppression never hides a lasting cause |
| **Stream supervision** (`shared/stream_validity.h`, `protocol/core/supervision.hpp`) | last counter, last refresh, validity | observe, set_key, invalidate_now | a jump or a frozen counter costs authority; a repeat never restores it; a healthy producer gets it back |
| **RT authority** (`rt-esp32/src/main.cpp`, `safety_stream_loss.h`, `safety_monitor.h`) | ready mask, ESTOP latch, safety event queue and overflow flags, 0x011 acquisition | RX handlers, control task at 100 Hz | motion only with SAFETY, MODE and HOST ready; an ESTOP event is never lost; cleared only by two 0x011 frames |
| **RT gateway, drivers, steering, kinematics** | queues, controller health, steering state | forwarding, recovery, ramp | bounded queues do not lose the safety frames |
| **MTR** (`mtr-stm32/src/motor_manager.h`, relays and DAC) | ESTOP latch, two-frame clear, REARM state, ready mask, three watchdogs, shift dwell | frame handlers, 5 ms tick, reset by the watchdog | the latch opens the relays and only two zero frames in a row release it; nothing engages on frames from before a clear; each silence stops on its own |
| **RM, PWT, HMI, Jetson bridge** | last inputs | periodic frames | failsafe neutral |
| **Toolkit control** (`control-toolkit/backend`, `session_manager.py`, `control_intent.py`, `scheduler.py`, `ownership.py`, `tx_gate.py`) | session phase, Bench TX, leases, periodic jobs, ids of the control service, intent | HTTP handlers on worker threads, scheduler and watchdog on the event loop, STOP ALL | every job can be cancelled; one control method at a time; a silent client is stopped; a steady one gets through |
| **Toolkit link** (`transport/canalyst.py`, `lifecycle.py`, `recording.py`) | adapter health and epoch, bus handle, failure report, evidence mark | receive worker, monitor, senders, reconnect, callbacks to the loop | a failure turns Bench TX off; no write to a bus of another epoch; the link comes back; a complete recording has no gap |
| **Toolkit observation, API, frontend** | decoded frames, diagnostics, reports | | |
| **rt-aurix-lite, update-beta** | the same rules on other targets | | |

The behaviours that are hard to test:

* **Stores without a lock.** SYS runs twelve unpinned tasks on two cores.
  `ModeManager` tests an atomic and stores another later; any task may run in
  between. Most hazards of PROJECT.json are of this kind.
* **Level and edge.** A mushroom press, a heartbeat loss and START are levels
  sampled at 20 and 10 Hz; a CAN ESTOP is an edge and may be suppressed or lost.
* **Rolling counters** that repeat, jump, wrap and freeze, with one timeout.
* **Distributed latches.** SYS, RT and MTR each latch ESTOP and clear it by a
  sequence of 0x011 frames.
* **Threads against an event loop** in the toolkit: checks before a lock,
  callbacks outside it, jobs already collected when they are cancelled.

## 2. Modules

| Module | What it is |
|---|---|
| `AuthorityContract` | abstract: what SYS promises to the receivers of 0x110 and 0x113 |
| `SysMode` | the SYS core and its tasks, one action per stretch between two shared stores |
| `MCSysMode` | the constants of the four kinds of instance |
| `SysModeProofs` | theorems about `SysMode` |
| `StreamTrust` | how far a stream is trusted, and what a frame may make of that trust |
| `StreamContract` | abstract: what the supervisor promises to the nodes that use it |
| `StreamValidity` | the stream supervisor with both trackers, its producer and its clock |
| `StreamValidityProofs` | theorems about `StreamValidity` |
| `RtAuthority` | the drive authority of RT: CAN handlers, safety event queue, supervision of 0x011, ready mask, control loop |
| `RtAuthorityProofs` | theorems about `RtAuthority` |
| `MtrManager` | the motor node: frames, tick, relays and throttle |
| `MtrManagerProofs` | theorems about `MtrManager` |
| `ControlContract` | abstract: what the toolkit's control service promises about who produces which frame |
| `ToolkitSession` | the toolkit's path from an operator to the bus: sessions, control methods, jobs, leases |
| `ToolkitSessionProofs` | theorems about `ToolkitSession` |
| `CanalystLink` | the toolkit's physical link: the adapter's threads, its reports, Bench TX and recordings |
| `CanalystLinkProofs` | theorems about `CanalystLink` |

### SysMode

A task is a program counter (`pc.mode`, `pc.dispatch`, `pc.safety`); `call[t]` is
where raiser `t` is inside `enter_estop`, which three tasks run at once. An
action ends where the code stores something another task reads:

| Code | Actions |
|---|---|
| `ModeManager::tick` | `TickGrantsReset`, `TickDebounces`, `TickSeesEdges` (one per return), then `ResetClearsLatch`, `ResetEntersManual`, `StartRises`, `RunStored`, `StartFalls`, `ModeReleased`, `ModeToggles`, `ToggleDebounces`, `EdgesDone` |
| publishing block of `task_mode`, `resolve_authority` | `ReadMode` (with the power request), `ReadRun`, `ReadInhibit`, `ReadLatch`, `SendMode` (0x110), `SendPower` (0x113) |
| `enter_estop`, `force_estop` | `EnterEstop` (reads the mode), `ForceEstop` (stores it), `DropRun` |
| `task_dispatch` 0x111, 0x112, 0x114, 0x001 / 0x206, 0x721, 0x731 | `ReceiveHmiMode` + `HmiModeStored`; `ReceiveHmiPower`; `ReceiveResetRequest` + `RemoteReset...`; `ReceiveEstop`; `ReceiveSebStatus` + `SebStatusLatches`; `ReceiveSebErrInfo` + `SebErrInfoStores` |
| `task_safety` | `SafetySamples`, `TakeoverChecks`, `TakeoverStored`, `SafetyChecksHeartbeat` |
| `task_diag`, `task_brake` | `DiagRaises`, `SebCommsChange` |

What is abstracted, and why it loses nothing the properties tell apart:

* Only the production control path; bench pass-through relays HMI requests.
* A stretch that reads one atomic several times without storing is one read.
  Where the reads decide and a store follows, the decision and the store are
  two actions: that is the window in which the races live. A tick that finds the
  mode changed between two of its reads may then fail to reset or to toggle; it
  stores nothing, so such a tick is one that tries again at the next.
* `g_power_request_valid` and `g_hmi_pwr_on` are one value, `powerReq`: both are
  written by the same handler and read together, in the step that reads the mode.
* The suppression windows of 0x001, the wheel speed, the MTR acknowledgement
  and the token of a remote reset are free: a frame they stop is one that the
  environment does not send.
* The latched brake-following bit has no setter left in the firmware; the latch
  is the SEB L3 one.
* The long-press counter saturates: the code compares it with its bound only.
* `spent`, `released`, `seen` and `lifted` are history; no action reads them.

`AuthorityContract` is what the receivers of 0x110 and 0x113 may count on. The
mode and the three causes of a block (an inhibit, the latch, START released) are
read one after another and the two frames leave after that, so a frame may carry
an authority withdrawn since the reads. The contract says how far that goes: an
ESTOP or a block that was there when the last pair of frames had gone, and has
lasted since, is obeyed by both frames of the next pair. `seen` and `lifted` are
the modes SYS has been in, and the causes that have been clear, since that pair.
That no frame with authority leaves while blocked is more than the code does:
`NoneSentWhileBlocked`, below.

### StreamValidity

One supervised stream. `last` and `age` are the entries of the two trackers,
`keyed` tells whether `set_key` was called (SYS binds 0x112 at the first 0x111,
so frames may come before: they meet the default range and no timeout).
`observe` is `Reacquire`, `Accept`, `RejectDuplicate` or `SequenceFault`. The
degraded and stale marks only choose between events that `StreamValidity`
treats alike and are left out. The environment may send any counter at any
time, let time pass, invalidate, and settle on counting one by one. A producer
that has settled is also in time: its next frame comes before the timeout of the
last is past. What a frame that comes later does is not what the comment of the
class says: `LateFrameLosesAuthority`, below.

Its users see less: `StreamTrust` says a stream is trusted not at all, has a
`baseline` or is `valid`, and what a frame may make of that by the way its
counter follows the one of the frame before (`next`, `skip`, `repeat`, `jump`).
`StreamContract` is the specification with no more than that, and
`KeepsStreamContract` says that `StreamValidity` implements it under the mapping
`TrustIn`, with the counter of the last frame while something is held. It is
not the counter that `CounterTracker` holds: that one stays behind when a frame
jumps while the stream reacquires. A stream not yet bound is not trusted.

### RtAuthority

Three tasks: `can_high_task` and `can_low_task` on core 0, `control_task` on
core 1. `post[t]` and `full[t]` are where task `t` is inside
`enqueue_safety_event`; `pc.high` separates the two stores of a 0x300;
`pc.control` is where the control loop is.

| Code | Actions |
|---|---|
| `enqueue_safety_event` | `EventQueued`, or `QueueFull` then `FlagStored` (the flag is stored after the send failed: the queue may be empty again by then) |
| `can_high_task` 0x300; 0x303 and 0x400; 0x001 | `HostCommand` + `HostStored`; `HostSteerOrObstacle`; `SafetyEstop("high")` |
| `can_low_task` 0x011, 0x110, 0x001 | `SysSafetySts`, `SysModeCmd`, `SafetyEstop("low")` |
| `control_task`, flags and queue | `TakeEstopFlag`, `TakeModeFlag`, `TakeClearFlag`, `DrainEvent` / `DrainDone`; a clear goes through `ZeroMailbox` |
| `SafetyStreamSupervisor::update` and the mask | `Supervise` (`Acquisition`, `NextState`), `StoreMask` |
| inputs, safety checks, output | `PeekHost`, `Publish` |
| `monitor_can_bus_off`, 10 Hz host watchdog | `LowBusOff`, `HighBusOff`, `HostStale`, `CycleEnds` |

What is abstracted:

* A speed is zero or drives, and resolver, limits and steering are one free
  Boolean of `Publish`; `tripped` stands for the heartbeat and SES checks. Both
  may only take motion away in the code as in the model.
* Reasons, brake pressure and the 0x001 that RT itself sends while it is stopped
  (with `g_sys_clear_in_progress`, which only gates it) are left out: nothing in
  the mask, the latch or the speed reads them.
* A frame is one that its codec and its `StreamValidity` accept; that part is the
  module `StreamValidity`. `advances` says whether the counter of 0x011 follows
  the last one, as the two-frame clear asks.
* The clock ticks in the middle of a cycle too, where the code uses the time of
  its start: the model may find the stream older, never younger.
* `bus_off_count` and the 10-cycle dividers are left out: any cycle may be one
  that checks. Bench paths (`g_bench_solo_mode`, pass-through) are left out.
* Two loads of the mask in `StoreMask`, and the load and the stores of
  `Publish`, are one step each; the comments in the module say why no other task
  can tell. `verdict`, `host` and `noAuthority` are reset after their last use.
* `owed`, `hostHeard` and `frames` are history; no action reads them.

### MtrManager

One loop drains the CAN frames and then ticks (`mtr-stm32/src/main.cpp:144`), so
every handler is atomic. What is hard is the order of the frames, their loss,
their counters and time.

| Code | Actions |
|---|---|
| `handle_frame` 0x001; 0x011 damaged; 0x011 | `SafetyEstop`; `CorruptSafetySts`; `SysSafetySts` (`UnheardSafetySts`, `AssertedSafetySts`, `ZeroSafetySts` with `AuthorizedClear`) |
| 0x110; 0x113; 0x204; anything else | `SysModeCmd`; `SysPwrCmd` (`PowerOn`, `PowerOff`); `RtDriveCmd`; `OtherFrame` |
| `tick` | `Supervise` (ages, watchdogs), then one of `TickInhibited`, `ShiftStarts`, `Dwells`, `Engages`, one per return |
| reset by the independent watchdog | `Reboot` (`init` on the same wire) |

What is abstracted:

* A speed is its sign; a counter is how it follows the last one (`next`, `skip`,
  `repeat`, `jump`) and a stream one of `none`, `baseline`, `valid`. What a frame
  makes of its stream is `Observed` of `StreamTrust`, the step of the contract
  that `StreamValidity` is shown to keep.
* The throttle DAC is zero or not. A write that is not acknowledged (frame kind
  `nack`) leaves it as it was.
* Ages saturate one past the last limit they are compared with. `Laps` is how
  many ticks of the clock a turn of the loop takes.
* `zeros`, `lastSts`, `since` and `openFor` are history; no action reads them.

### ToolkitSession

Requests run on a pool of threads; the event loop runs the scheduler's pass, the
watchdog and the handler of an adapter failure one after the other. A section
under a service's lock is one step; what was checked before the lock, and what
is done between two locks, are steps of their own. The scheduler has a lock of
its own, so that a stop may fall inside a section of the control service.

| Code | Actions |
|---|---|
| `apply_intent`, `set_direct` | `Checked` (profile and Bench TX, before the lock), then `IntentApplies`, `IntentCut` (`cancel_all` falls between the drive and the heartbeat), `IntentRejected`, `DirectStarts`; `DirectStops` needs no Bench TX |
| `release`, `Scheduler.cancel_all` | `Release`, `CancelAll` |
| `SessionManager.create`, `change_profile`, `stop_all`, `close` | `Create`, `ChangeProfile`, `StopAll`, `Close`, then `Callback`, `Opened` or `OpenFails`, `StopEnds`, by `op` |
| `set_bench_tx`, `mark_link_absent` | `BenchOn`, `BenchOff`, `BenchDropped` |
| `Scheduler._loop`, `TxGate.submit`, `OwnershipTable.claim` | `PassBegins` (snapshot), `Refused`, `Gated`, `Sent`, `Conflicts`, `PassEnds` |
| `tick_watchdog`, `_handle_physical_failure` | `Watchdog`; `AdapterFails`, `FailureHandled` |
| time | `LeaseExpires`, `GoesStale` |

What is abstracted: HOST_DRIVE_CMD and HOST_STEER_CMD, which are scheduled,
updated and cancelled together, are one job `drive`; values, sequence numbers
and revisions are left out; every job is due at every pass; jobs and leases of
other owners (injections, the analysis stimulus) are left out; one session
request runs at a time. An id is the least free one of `Ids`: the code's are
never used twice, and an id is free here only when nothing refers to it.
Of the calls of `Scheduler.cancel_all` only that of DELETE /injections is
modelled inside an intent's section, where it leaves the heartbeat without the
drive; those of the session fall before or after one.

`ControlContract` knows neither ids, leases, sessions nor the scheduler: it says who
produces which frame and which source leads. A source that is let in leads
kinematics alone (with the drive, the heartbeat, or what a stop beside it has
left of them), a direct channel runs beside none, a refused source ends the
kinematics of another, and whatever else happens only takes producers away.
`KeepsControlContract` maps a job to a producer and `owner` to the leader. It
depends on the remembered ids staying true while stops, conflicts and failures
remove jobs behind the service's back.

### CanalystLink

Threads of the adapter (`worker`, `monitor`, the senders in `TxGate.submit`) and
the event loop. A section under the adapter's lock is one step, the callback
that follows it (`post[t]`, then `callbacks`) another.

| Code | Actions |
|---|---|
| `_rx_loop` | `StartsReceive`, `Receives` / `ReceiveFails`, `NotRequested`, `FinishesRecovery` / `KeepsReceiving`, `Disconnects` |
| `_attempt_reconnect` | `StartsRetry`, `RetryFails`, `Reconnects` |
| `_monitor_loop` | `MonitorReads`, then `MonitorMarks` or `MonitorFails` (the heartbeat may have moved on) |
| `TxGate.submit`, `send` | `Gated` (Bench TX), `TakesBus` / `SendRejected`, `Sends` / `SendFails` |
| `_signal_failure` | `SignalFailure` in `ReceiveFails`, `MonitorFails`, `SendFails`; `Posts` |
| `set_bench_tx` | `BenchChecked` (asks the adapter), `BenchEnabled`; `BenchDisabled` |
| `_handle_physical_failure`, `_handle_physical_recovered` | `Handles` (waits for the session's lock) |
| `RecordingService` | `RecordingStarts`, `RecordingStops`, `Observed` |

What is abstracted: both channels are one; OPEN, ACTIVE and QUIET, which every
reader treats alike, are `up`; the wording of an error and the number of an
attempt, which together choose between `absent` and `degraded`, are free; the
receive queue and the TX mirror are left out. The link is open at first: opening
and closing by the operator are left out. `bus` is the epoch that opened the
handle, so a stale handle is one that differs from `bus`. `benchEpoch`,
`requestEpoch`, `armed`, `sent`, `recorded`, `sound` and `faults` are history;
only the bound `MaxFaults` reads the last one.

## 3. Runs

| Run | Instance | Shows |
|---|---|---|
| `sysmode_reset` | START, resets, SEB faults, CAN ESTOP, SEB inhibit, HMI power; long press 2 ticks, debounce 1 (5.4 M states) | `TypeOK`, `RemoteResetKeepsLiveFaults`, `RunNeedsStartCycle`, `KeepsAuthorityContract` hold |
| `sysmode_stop` | mushroom, heartbeat, dead task, HMI mode, lever (0.7 M states), fair tasks | `HeldMushroomRecaptures`, `HeartbeatLossRecaptures` hold |
| `sysmode_lost_estop` | HMI mode, CAN ESTOP, dead task | `EstopLeftOnlyByReset` fails |
| `stream` | range 8, gap 2, timeout 2, default range 4 and gap 3 (2 k states), fair producer | `TypeOK`, `ValidFollowsTheWire`, `RepeatNeverRestores`, `EveryFrameCounts`, `SteadyProducerHeld`, `KeepsStreamContract` hold |
| `stream_frozen` | the same | `FrozenLosesAuthority` fails |
| `rt_motion` | 0x110 (AUTO, ESTOP), 0x011 with and without ESTOP, drive and steer commands, bus-off on both buses; queue depth 1, no clock (6.6 M states) | `TypeOK`, `EstopNeverDropped`, `MotionOnlyUnderAuthority`, `MotionNeedsNewHostCommand` hold |
| `rt_silence` | AUTO, 0x011, drive commands, 0x001 from the high bus, a silent host, the clock (0.6 M states), fair tasks | `SilentSysStops` holds |
| `mtr_motion` | every frame kind except MANUAL and an unacknowledged DAC, counters that follow or repeat, D and R, resets; timeouts of one tick (1.4 M states) | `TypeOK`, `LatchOpensRelays`, `EngagedOnNewFrames`, `TwoZerosRelease`, `AssertOpensRelays`, `SilenceOpensRelays`, `ReversalDwells` hold |
| `toolkit` | one source, one channel, every request and fault, a stop in the middle of an intent (0.69 M states), fair threads | `TypeOK`, `Tracked`, `DirectSilenceStops`, `KeepsControlContract` hold |
| `toolkit_handover` | two sources, intents taken and refused, releases, cancellations (0.32 M states), fair threads | `DriveGetsThrough`, `KeepsControlContract` hold |
| `toolkit_deadman` | one source, intents and channels switched off, fair threads | `KinematicsSilenceStops` fails |
| `link` | one sender, two faults (unplugged, stalled), recordings (0.66 M states), fair threads | `TypeOK`, `FailureReachesBench`, `RecoveryReachesSession`, `LossIsPursued`, `StaleBenchNeverSends`, `CompleteIsOneEpoch`, `LinkComesBack` hold |

**Bounds.** The long press and the debounce are compared with their bounds only
(50 and 5 ticks in the firmware), and every order of reset, debounce, press and
release happens with 2 and 1. A range of 8 with a gap of 2 has counters that
are next, one missed, far ahead and behind; the firmware's 256 adds none, and
the default range is smaller than the range so that a counter may be out of it.
`sysmode_reset` and `sysmode_stop` move different inputs: between them every
action of the model fires.

A queue of depth 1 (16 in the firmware) is full as soon as one event waits, so
that each of the three tasks overflows and the flags overtake the queue; what a
longer queue adds is order among queued events, which one consumer keeps, and
`RtAuthorityProofs` holds for every depth. A timeout of 0 ticks makes the stream
fresh in the tick of its frame and stale one tick later.

In `mtr_motion` each of the three timeouts is one tick; each has its own age, so
each runs out while the others are fed. A recovery of 2 frames (10) needs two in
cadence; a dwell of 2 ticks can be met by an ESTOP, a trip or a new setpoint in
its middle. Counters that follow or repeat are enough for a stream to be
acquired, to reject a frame and to lose its authority by one; `skip` and `jump`
reach the same states by other frames, and the proofs hold for every kind and
for every value of the constants.

In the toolkit runs three ids for one source and one channel, and five for two
sources, leave one free whatever is referred to, so no request fails for want of
an id. In `link`, two faults are a loss while the link recovers from another,
and a receive that hangs past both thresholds of the monitor; epochs are bounded
by them, since every reconnect follows a fault. One sender meets every
interleaving with the worker and the monitor; the proofs are for every number.
`Prompt` says that the stability window after a reconnect (500 ms) outlasts what
was in flight when the link failed: a send gives up after 0.1 s, a callback
waits for one turn of the loop. Without it `StaleBenchNeverSends` fails: a
sender held up across a whole recovery writes under a permission of the epoch
before, if the new bus has been enabled meanwhile. `RecoveryReachesSession` fails
without it too: a report of the failure that is delayed past the recovery leaves
the session with the failure for good.

The toolkit runs check the contract twice: with one source every stop, conflict
and failure meets both methods, with two sources a job could be of the one that
no longer leads.

**Fairness.** `FairSpec` of `SysMode` gives weak fairness to each task and to
each `enter_estop` in progress: the tasks are periodic (`vTaskDelayUntil`) and
none blocks between two of its steps, so none stops for ever. Receiving a frame
and every move of the environment are not fair. `SysMode` uses no strong fairness.
`FairSpec` of `StreamValidity` says that a producer that has settled keeps
sending in time, and nothing before that. `FairSpec` of `RtAuthority` gives weak
fairness to the control loop, to a handler that has taken a frame and to a task
inside `enqueue_safety_event`, and strong fairness to the end of the drain loop:
a frame takes longer on the bus than a turn of that loop, which so finds the
queue empty now and then. Frames, faults and the clock are not fair.

`FairSpec` of `ToolkitSession` gives weak fairness to a request past its checks,
to a session request in progress, to the event loop's pass and to the expiry of
each lease; the watchdog gets strong fairness, since it is enabled between two
passes only and asyncio takes its tasks in turn. Requests, faults and the
silence of a client are not fair. `FairSpec` of `CanalystLink` gives weak
fairness to the worker, the monitor, a Bench TX request past its check, each
sender past the gate and each callback to be posted; strong fairness to the
handling of callbacks, which wait for a lock that is free now and then, and to
the stability window, which a link that keeps recovering lets pass. Plugging in,
faults and the operator are not fair: `LinkComesBack` starts from a device that
stays.

**What the failing runs show** (the code against the quoted line of a comment,
a document or a test; see "findings"):

1. A mode request tested before an ESTOP and stored after it leaves ESTOP
   without a reset (`mode_manager.cpp:140-147` against `131-132`). A *held* cause
   recaptures SYS (`sysmode_stop`); a CAN ESTOP, an edge, is lost.
2. A counter frozen on the frame that restored authority never expires
   (`stream_validity.h:49-51` against `test_frozen_counters.cpp:80`). A counter
   that moves on late keeps authority too, for another reason: see
   `LateFrameLosesAuthority`.
3. Switching a direct channel off while kinematics runs clears the flag the
   intent watchdog looks at: a client that then falls silent is not stopped
   (`control_intent.py:235-237` and `296-297` against `294`).

**Statements that fail and have no run of their own.** They stay in the modules
as definitions; each fails with the constants given here (the others as in the
module's cfg, `SPECIFICATION Spec` unless said otherwise).

| Statement | Constants | What the code does |
|---|---|---|
| `SysMode!RunOnlyWhileStartLatched` | `MCSysMode` with `Inputs <- ButtonInputs`, `LongPressTicks <- LongPress`, `DebounceTicks <- Debounce` | the tick that grants a reset forgets a START released in it, and run stays enabled in MANUAL (`mode_manager.cpp:43` against `mode_manager.h:6-7`) |
| `SysMode!SpentPressNeverToggles` | the same | a MODE press held past the reset and the debounce toggles to AUTO when released (`mode_manager.cpp:42`) |
| `SysMode!NoneSentWhileBlocked` | `MCSysMode` with `Inputs <- ResetInputs`, `LongPressTicks <- LongPress`, `DebounceTicks <- Debounce`, as a property | the frames leave after the mode and the causes have been read: a block stored in between does not stop them (`main.cpp:937-950` against `inhibit_state.h:160-163`); `KeepsAuthorityContract` bounds it to one pair |
| `StreamValidity!LateFrameLosesAuthority` | as `stream`, as a property | a counter that moves on after its timeout keeps authority: `FreshnessTracker::observe` answers `Recovery`, never `Expired` or `Stale`, so the test never fires (`stream_validity.h:67-70` against `9-11`) |
| `StreamValidity!CleanFramesRestore` | as `stream` | a jump while the stream reacquires makes it reject clean frames for a turn of the counter (`supervision.hpp:106` against `stream_validity.h:9-11`); `SteadyProducerHeld` shows that it comes back |
| `RtAuthority!AcquiredFromTwoFrames` | `QueueDepth = 1`, `StsTimeout = 1`, `AcquireGap = 0`, `Inputs = {"zero_sts", "clock"}` | RT acquires 0x011 from one frame after boot: the time stamp that means "never" is 0, above the supervisor's -1 (`main.cpp:107` against `safety_stream_loss.h:8`, `31`, `65`) |
| `RtAuthority!ZeroFramesRelease` | `FairSpec`, `QueueDepth = 2`, `StsTimeout = 1`, `AcquireGap = 0`, `Inputs = {"high_estop", "zero_sts"}` | an ESTOP heard as 0x001 that SYS does not show in 0x011 is never released (`main.cpp:802-823` against `safety_monitor.h:119-121`) |
| `MtrManager!OffIsOfThisEstop` | as `mtr_motion`, as a property | `rearm_off_seen_` is never reset by a new latch: an OFF from before a second ESTOP completes its REARM (`motor_manager.h:166` against `599-600`) |
| `MtrManager!ThrottleIsCommanded` | `CommsTimeout = 3`, `StsTimeout = 4`, `DriveTimeout = 2`, `RecoverGap = 1`, `RecoverFrames = 3`, `Dwell = 2`, `Laps = {1}`, `Kinds = {"next"}`, `Setpoints = {"fwd", "D"}`, `Frames = {"zero", "auto", "manual", "on", "drive"}` | the 0x204 watchdog is armed in AUTO only: after a change to MANUAL the last throttle stays applied (`motor_manager.h:322` against `config.h:76-81`) |
| `CanalystLink!CompleteHasNoEpochGap` | as `link`, as an invariant | a loss while the link recovers is not reported again, so a recording begun in between stays complete across the gap (`canalyst.py:506` against `control-toolkit/architecture-control-toolkit.md:1370`) |

Met while reading, and not in the model: a heartbeat job of the toolkit keeps
its lease when its source is released, so a change of source within two seconds
ends the new heartbeat, which is not scheduled again while the drive goes on
(`control_intent.py:434`); an overflow of the receive queue does not mark a
recording (`canalyst.py:580-583` against the control toolkit's architecture
document, line 1134).

## 4. Proofs

| Theorem | Argument |
|---|---|
| `SysModeProofs!TypeCorrect` | `TypeOK` is inductive, one lemma per task |
| `SysModeProofs!StartMustBeCycled` | `RunNeedsStartCycle` is not inductive: a rising edge found by a tick is acted on later. `RunHistory` adds that a START rise still in `edges`, or a START last seen low after seeding, implies `released` |
| `SysModeProofs!RemoteResetIsValidated` | with `TypeOK`: between the blocker check and the clear, only `task_dispatch` writes the latch and the error status, and its pc is busy; the other task's clear keeps the fault clearable |
| `SysModeProofs!EstopCallsArrive` | `SafetyCallsInTurn`: `task_safety` makes a second call only when its first is over, so no call is overwritten; a call then ends by finding ESTOP or by storing it |
| `SysModeProofs!SysKeepsAuthorityContract` | refinement: every step of `SysMode` is a step of `AuthorityContract` or leaves its variables alone. `Accounted` (the present mode is in `seen`, a cause that is clear is in `lifted`) and `SnapshotJustified` (a snapshot that grants anything comes from a mode in `seen`, and every cause this cycle has read is in `lifted`) make the two sends steps of the contract; `StepAccounted` covers everything outside the publishing block |
| `StreamValidityProofs!TypeCorrect` | `TypeOK` is inductive; needs the bounds of `StreamAssumption` on ranges and gaps |
| `StreamValidityProofs!AuthorityFollowsTheWire` | `WireHistory`: a valid stream has taken the last in-range frame |
| `StreamValidityProofs!StuckProducerStaysInvalid` | `WireHistory` and the definition of `Advance` |
| `StreamValidityProofs!StreamKeepsContract` | refinement, from `WireHistory`: with authority the counter held is the wire's, so the contract sees the same distance; without it the two may differ, and what counts is that a repeat does not advance |
| `StreamValidityProofs!SteadyProducerCountsDown` | from `WireHistory` and `SteadyBound` (a producer that has settled is bound and has sent a frame). `TwoTurns` and `NextDistance`: the distance to the counter that is held shrinks by one, modulo the range, with every frame |
| `RtAuthorityProofs!TypeCorrect` | `TypeOK` is inductive; a credit below two while unacquired keeps it bounded |
| `RtAuthorityProofs!NoEstopIsDropped` | `EstopNeverDropped` is not inductive: a clear in front of the ESTOP would unlatch it. `EstopHeld` adds that an ESTOP that counts has no clear queued or flagged beside it; `AppendHolds` and `TailHolds` say what the queue holds after a send and a receive |
| `RtAuthorityProofs!NoMotionWithoutAuthority`, `NoMotionWithoutNewCommand` | both from `MaskIsBacked`: a grant, and later the SAFETY bit, stand for an acquired stream and no latch in this cycle; a HOST bit stands for a 0x300 since the last clear; the output moves only if all bits are set |
| `MtrManagerProofs!TypeCorrect` | `TypeOK` is inductive; `AgedInRange` bounds every clock |
| `MtrManagerProofs!LatchHolds`, `FreshAuthority`, `ReleaseNeedsTwoZeros`, `AssertHolds`, `SilenceHolds`, `ReversalHolds` | all from `IInv`: `Earned` (each bit of the mask stands for a frame in `since`), `Heard` (a valid 0x011 stream has heard what the wire last said, and a first zero counted is one on the wire), `Opened` (a dwell in progress is no longer than the relays have been open); `TickEngages` says what a tick that engages has passed |
| `ToolkitSessionProofs!JobsAreTracked`, `MethodsExclude` | `JobsInv`: `Tracked` and `OneMethod` (no job of kinematics beside one of a channel) need each other, and `HeartbeatWithDrive` (a heartbeat is held only with a drive), since the methods look at the drive's id to tell whether kinematics runs |
| `ToolkitSessionProofs!SessionKeepsContract`, `ProducersAgree` | refinement, from `JobsInv` and `LeaderInv` (a job of kinematics is of the source heard last, any other is direct): by `Tracked` what a request cancels by its ids is all there is of those frames, so what it leaves is what the contract lets it leave |
| `ToolkitSessionProofs!SilentChannelsStayStopped` | `WatchdogArmed` from `Tracked`: the id of a channel that runs is held, and is not the id of none |
| `ToolkitSessionProofs!TypeCorrect` | `JobsInv` for jobs and ids, one inductive part for the rest |
| `CanalystLinkProofs!TypeCorrect` | one part of the state at a time |
| `CanalystLinkProofs!FailuresReachBench` | `FailureReachesBench` with `Flags` (a failure on record ends only in a recovery that finds health `recovering`; a link that is up has none). `PendingStep`: a step that loses the last pending report is the one that handles it |
| `CanalystLinkProofs!LossesArePursued` | `LossIsPursued` with `LinkInv`: only the end of a recovery clears the record of a failure, and a reconnect is called off only by the step that puts the link in recovery |
| `CanalystLinkProofs!RecoveriesReachSession` | assumes `Prompt`. `NoOldReport`: with no failure on record none is under way, and a window that has passed left none; so a recovery is posted behind the failure it ends |
| `CanalystLinkProofs!CompleteRecordings` | `Evidence`: a sound, complete recording with no report pending has frames of the present bus only, and no failure is on record |
| `CanalystLinkProofs!NoStaleBench` | assumes `Prompt`. `EpochInv`: what Bench TX, a request or a sender holds is of the present epoch (`InEpoch`, `HandIsArmed`) unless a failure is on record, and the window passes only when nothing is in flight (`WindowQuiet`) |

The theorems assume `SysModeAssumption` (a long press of at least one tick),
`StreamAssumption` (what `CounterTracker::observe` itself requires of a
configuration), `RtAssumption` (a queue of at least one entry), `MtrAssumption`
(a dwell, a turn of the loop and a recovery of at least one),
`ToolkitAssumption` (names of frames and owners are distinct) and
`LinkAssumption` (a sender is neither the worker nor the monitor).

Only model-checked: liveness, that is the two recapture properties,
`SteadyProducerHeld`, `SilentSysStops`, `DirectSilenceStops`, `DriveGetsThrough`
and `LinkComesBack`: `tlapm` here has no rules for fairness and ENABLED. What each
rests on without fairness is proved where it says more than a definition does:

| Checked | Proved |
|---|---|
| `HeldMushroomRecaptures`, `HeartbeatLossRecaptures` | `EstopCallsArrive`: an ESTOP asked for is never dropped |
| `SteadyProducerHeld` | `SteadyProducerCountsDown`: a bounded number of frames, each of which counts |
| `SilentSysStops` | `NoMotionWithoutAuthority`: motion only while the stream is acquired |
| `DirectSilenceStops` | `SilentChannelsStayStopped`: the watchdog is armed while a channel runs, nothing restarts one |
| `DriveGetsThrough` | `SessionKeepsContract`: an intent that applies leaves no job of another source or method beside its own |
| `LinkComesBack` | `LossesArePursued`: a lost link always has a step that repairs it |

Every invariant and every action property of the passing runs, and all three
refinements, are theorems.

## 5. Plan

Modelled so far is what decides on motion in SYS, RT and MTR, the supervisor
every node relies on, and the toolkit's control path down to its adapter. Next:

1. `EstopLoop`: SYS, RT, MTR and a lossy bus composed; suppression windows and
   the MTR acknowledgement. An ESTOP reaches both receivers; a reset ends.
2. `LinkLifecycle`: the two openers of the physical link (a request and the
   probe loop, `lifecycle.py:284` and `517`), close and the change of profile
   while one of them is at work; overlapping session requests.
3. `SysBrake`: BrakeControl and the SEB inhibit.
4. `EstopMonitor`: the toolkit's episodes of ESTOP over two buses and its reset.
   Two statements are known to fail there: a second 0x001 on a bus is never
   logged, and `reset` leaves an episode open.
5. `CanDriver` (bus-off latched in an ISR and recovered with back-off) and
   `SebBrakeFallback`.

Of `RtAuthority` two things are left: the order of events that overflow against
those still queued (a clear in its flag overtakes an older ESTOP in the queue),
and the age of a drive command (a 0x303 puts the speed of an older 0x300 back
into the mailbox). Both need more history in the state. Of `CanalystLink` the
receive queue is left, with its overflow and its draining at a reconnect.

The local reset's window (clearing a fault latched after the check), the run
latch stored after an ESTOP dropped it, and the change of profile that restores
what a close has ended are hazards without a property so far.

## 6. Not modelled

Floating-point control laws and steering geometry, register-level drivers,
generated codecs, lights and displays, the radio gateway, the DC-DC node, the
Jetson bridge, the consolidated and Rust ports, the toolkit's diagnostics,
decoding, bench scripts and frontend, and all test harnesses: PROJECT.json gives
the reason for each. Most of the repository's Python is bench scripts and the
generator of the protocol, which keep no state that two actors share.
