---------------------------- MODULE CanalystLink ----------------------------
(***************************************************************************)
(* The CANalyst-II link of the control toolkit: the adapter's threads      *)
(* (receive worker, health monitor, the callers of send), the callbacks    *)
(* they post to the event loop, and Bench TX of the session.               *)
(*                                                                         *)
(* A section under the adapter's lock is one step; the callback that       *)
(* follows it is another.  The two callbacks reach the session in the      *)
(* order they were posted (loop.call_soon_threadsafe).                     *)
(*                                                                         *)
(* Abstracted: both channels are one; OPEN, ACTIVE and QUIET, which every  *)
(* reader treats alike, are "up"; the number of the attempt; the receive   *)
(* queue.  Opening and closing by the operator are left out: the link is   *)
(* open at first, and what it goes through is loss and recovery.           *)
(***************************************************************************)
EXTENDS Integers, Sequences

CONSTANTS
    Senders,    \* the threads in TxGate.submit
    MaxFaults,  \* bound: faults of the environment
    Prompt,     \* the stability window outlasts what was in flight
    Inputs      \* the faults and requests of an instance

ASSUME LinkAssumption ==
    /\ MaxFaults \in Nat /\ Prompt \in BOOLEAN
    /\ Senders \cap {"worker", "monitor"} = {}
    /\ Inputs \subseteq {"unplug", "stall", "record"}

Threads == {"worker", "monitor"} \cup Senders
Closed  == 0

VARIABLES
    device,    \* the device is plugged in
    faults,    \* how many faults there were
    \* CanalystTransportAdapter
    health,
    bus,       \* _bus: the epoch that opened it, or Closed
    broken,    \* the device was lost since it was opened
    epoch,
    requested, \* _reconnect_requested
    notified,  \* _failure_notified
    settled,   \* the stability window since the reconnect is over
    beat,      \* the age of the worker's heartbeat
    worker,    \* where _rx_loop is
    monitor,   \* the heartbeat _monitor_loop has read
    \* TxGate.submit and send, by sender
    sender, hand, armed,
    \* Lifecycle: the callback a thread is about to post, and those posted
    post, callbacks,
    \* SessionManager
    bench, told, request,
    benchEpoch, requestEpoch, \* history: the epoch Bench TX was enabled in
    sent,                     \* history: the last frame that left
    \* RecordingService
    rec,
    recorded, sound           \* history: the epochs of its frames; no failure was on
                              \* record when it began

adapter == <<health, bus, broken, epoch, requested, notified, settled, beat>>
senders == <<sender, hand, armed, sent>>
session == <<bench, benchEpoch, told, request, requestEpoch>>
record  == <<rec, recorded, sound>>
vars    == <<device, faults, adapter, worker, monitor, senders, post, callbacks, session, record>>

TypeOK ==
    /\ device \in BOOLEAN /\ faults \in 0..MaxFaults
    /\ health \in {"up", "degraded", "recovering", "absent"}
    /\ bus \in Nat /\ broken \in BOOLEAN /\ epoch \in Nat \ {Closed}
    /\ requested \in BOOLEAN /\ notified \in BOOLEAN /\ settled \in BOOLEAN
    /\ beat \in {"fresh", "late", "lost"}
    /\ worker \in {"top", "wait", "recv", "check", "finish", "drop"}
    /\ monitor \in {"idle", "fresh", "late", "lost"}
    /\ sender \in [Senders -> {"idle", "gated", "sending"}]
    /\ hand \in [Senders -> Nat] /\ armed \in [Senders -> Nat]
    /\ sent \in [bus : Nat, armed : Nat]
    /\ post \in [Threads -> {"none", "failed", "recovered"}]
    /\ callbacks \in Seq({"failed", "recovered"})
    /\ bench \in BOOLEAN /\ told \in {"connected", "failed", "recovered"}
    /\ request \in {"idle", "checked"} /\ benchEpoch \in Nat /\ requestEpoch \in Nat
    /\ rec \in {"none", "complete", "degraded"} /\ recorded \in SUBSET Nat
    /\ sound \in BOOLEAN

Init ==
    /\ device = TRUE /\ faults = 0 /\ health = "up" /\ bus = 1 /\ broken = FALSE /\ epoch = 1
    /\ requested = FALSE /\ notified = FALSE /\ settled = FALSE /\ beat = "fresh"
    /\ worker = "top" /\ monitor = "idle"
    /\ sender = [s \in Senders |-> "idle"]
    /\ hand = [s \in Senders |-> Closed] /\ armed = [s \in Senders |-> Closed]
    /\ sent = [bus |-> Closed, armed |-> Closed]
    /\ post = [t \in Threads |-> "none"] /\ callbacks = <<>>
    /\ bench = FALSE /\ benchEpoch = Closed /\ told = "connected"
    /\ request = "idle" /\ requestEpoch = Closed
    /\ rec = "none" /\ recorded = {} /\ sound = FALSE

-----------------------------------------------------------------------------
(* The environment                                                          *)

Fault(f) == f \in Inputs /\ faults < MaxFaults /\ faults' = faults + 1

Unplugged ==
    /\ Fault("unplug") /\ device
    /\ device' = FALSE /\ broken' = TRUE
    /\ UNCHANGED <<health, bus, epoch, requested, notified, settled, beat>>
    /\ UNCHANGED <<worker, monitor, senders, post, callbacks, session, record>>

Plugged ==
    /\ ~device
    /\ device' = TRUE
    /\ UNCHANGED <<faults, adapter, worker, monitor, senders, post, callbacks, session, record>>

\* recv hangs in the driver: past worker_degraded, then past worker_failed.
Stalls ==
    /\ Fault("stall") /\ worker = "recv" /\ beat # "lost"
    /\ beat' = IF beat = "fresh" THEN "late" ELSE "lost"
    /\ UNCHANGED <<device, health, bus, broken, epoch, requested, notified, settled>>
    /\ UNCHANGED <<worker, monitor, senders, post, callbacks, session, record>>

\* Nothing that was in flight when the link failed is left.
Quiescent ==
    /\ \A s \in Senders : sender[s] = "idle"
    /\ \A t \in Threads : post[t] = "none"
    /\ callbacks = <<>> /\ request = "idle"

\* recovery_stability_ms (500) after the reconnect; a send gives up after 0.1 s.
WindowPasses ==
    /\ health = "recovering" /\ bus # Closed /\ ~settled
    /\ Prompt => Quiescent
    /\ settled' = TRUE
    /\ UNCHANGED <<device, faults, health, bus, broken, epoch, requested, notified, beat>>
    /\ UNCHANGED <<worker, monitor, senders, post, callbacks, session, record>>

-----------------------------------------------------------------------------
(* Reports: one callback per loss, until a recovery                         *)

\* Mutant: a failure of a link already marked slow is not reported.
SignalFailureIfUp(t) ==
    /\ health' = "degraded" /\ requested' = TRUE /\ notified' = TRUE
    /\ post' = IF notified \/ health # "up" THEN post ELSE [post EXCEPT ![t] = "failed"]

\* _signal_failure, its section under the lock
SignalFailure(t) ==
    /\ health' = "degraded" /\ requested' = TRUE /\ notified' = TRUE
    /\ post' = IF notified THEN post ELSE [post EXCEPT ![t] = "failed"]

\* _physical_failure_from_worker, _physical_recovered_from_worker
Posts(t) ==
    /\ post[t] # "none"
    /\ callbacks' = Append(callbacks, post[t])
    /\ post' = [post EXCEPT ![t] = "none"]
    /\ UNCHANGED <<device, faults, adapter, worker, monitor, senders, session, record>>

-----------------------------------------------------------------------------
(* The receive worker                                                       *)

WorkerAt(label) == worker = label /\ post["worker"] = "none"

\* _disconnect_bus
Disconnects ==
    /\ \/ WorkerAt("top") /\ bus # Closed /\ requested
       \/ WorkerAt("check") /\ requested
       \/ WorkerAt("drop")
    /\ bus' = Closed
    /\ worker' = "top"
    /\ UNCHANGED <<device, faults, health, broken, epoch, requested, notified, settled, beat>>
    /\ UNCHANGED <<monitor, senders, post, callbacks, session, record>>

StartsReceive ==
    /\ WorkerAt("top") /\ bus # Closed /\ ~requested
    /\ beat' = "fresh"
    /\ worker' = "recv"
    /\ UNCHANGED <<device, faults, health, bus, broken, epoch, requested, notified, settled>>
    /\ UNCHANGED <<monitor, senders, post, callbacks, session, record>>

\* recv returns, with a frame or without.
Receives ==
    /\ WorkerAt("recv") /\ ~broken
    /\ beat' = "fresh"
    /\ worker' = "check"
    /\ UNCHANGED <<device, faults, health, bus, broken, epoch, requested, notified, settled>>
    /\ UNCHANGED <<monitor, senders, post, callbacks, session, record>>

ReceiveFails ==
    /\ WorkerAt("recv") /\ broken
    /\ SignalFailure("worker")
    /\ worker' = "drop"
    /\ UNCHANGED <<device, faults, bus, broken, epoch, settled, beat>>
    /\ UNCHANGED <<monitor, senders, callbacks, session, record>>

NotRequested ==
    /\ WorkerAt("check") /\ ~requested
    /\ worker' = "finish"
    /\ UNCHANGED <<device, faults, adapter, monitor, senders, post, callbacks, session, record>>

\* _handle_message and observe_frame
Observed == recorded' \in {recorded, IF rec = "none" THEN {} ELSE recorded \cup {bus}}

\* Mutant: the link is back and nobody is told.
FinishesRecoveryUnreported ==
    /\ WorkerAt("finish") /\ health = "recovering" /\ settled
    /\ health' = "up" /\ notified' = FALSE /\ settled' = FALSE
    /\ worker' = "top" /\ Observed
    /\ UNCHANGED <<device, faults, bus, broken, epoch, requested, beat>>
    /\ UNCHANGED <<monitor, senders, post, callbacks, session, rec, sound>>

\* Mutant: the next failure is not reported.
FinishesRecoverySilenced ==
    /\ WorkerAt("finish") /\ health = "recovering" /\ settled
    /\ health' = "up"
    /\ post' = [post EXCEPT !["worker"] = "recovered"]
    /\ worker' = "top" /\ Observed
    /\ UNCHANGED <<device, faults, bus, broken, epoch, requested, notified, settled, beat>>
    /\ UNCHANGED <<monitor, senders, callbacks, session, rec, sound>>

\* _finish_recovery_if_stable
FinishesRecovery ==
    /\ WorkerAt("finish") /\ health = "recovering" /\ settled
    /\ health' = "up" /\ notified' = FALSE /\ settled' = FALSE
    /\ post' = [post EXCEPT !["worker"] = "recovered"]
    /\ worker' = "top" /\ Observed
    /\ UNCHANGED <<device, faults, bus, broken, epoch, requested, beat>>
    /\ UNCHANGED <<monitor, senders, callbacks, session, rec, sound>>

KeepsReceiving ==
    /\ WorkerAt("finish") /\ ~(health = "recovering" /\ settled)
    /\ worker' = "top" /\ Observed
    /\ UNCHANGED <<device, faults, adapter, monitor, senders, post, callbacks, session, rec, sound>>

\* _attempt_reconnect: the backoff, then an attempt to open.
StartsRetry ==
    /\ WorkerAt("top") /\ bus = Closed
    /\ health' = IF health = "absent" THEN "absent" ELSE "recovering"
    /\ worker' = "wait"
    /\ UNCHANGED <<device, faults, bus, broken, epoch, requested, notified, settled, beat>>
    /\ UNCHANGED <<monitor, senders, post, callbacks, session, record>>

\* Mutant: an attempt that fails closes the adapter.
AfterFailedRetryCloses == {"closed"}

\* By the error's wording and by the number of the attempt.
AfterFailedRetry == {"absent", "degraded"}

RetryFails ==
    /\ WorkerAt("wait") /\ ~device
    /\ health' \in AfterFailedRetry
    /\ beat' = "fresh"
    /\ worker' = "top"
    /\ UNCHANGED <<device, faults, bus, broken, epoch, requested, notified, settled>>
    /\ UNCHANGED <<monitor, senders, post, callbacks, session, record>>

Reconnects ==
    /\ WorkerAt("wait") /\ device
    /\ epoch' = epoch + 1 /\ bus' = epoch + 1 /\ broken' = FALSE
    /\ health' = "recovering" /\ settled' = FALSE /\ beat' = "fresh"
    /\ requested' = FALSE
    /\ worker' = "top"
    /\ UNCHANGED <<device, faults, notified>>
    /\ UNCHANGED <<monitor, senders, post, callbacks, session, record>>

-----------------------------------------------------------------------------
(* The monitor                                                              *)

MonitorReads ==
    /\ monitor = "idle" /\ post["monitor"] = "none"
    /\ health \notin {"absent", "recovering"}
    /\ monitor' = beat
    /\ UNCHANGED <<device, faults, adapter, worker, senders, post, callbacks, session, record>>

\* Mutant: a link marked slow stays so.
MonitorMarksSlow ==
    /\ monitor \in {"late", "fresh"}
    /\ health' = IF monitor = "late" /\ health = "up" THEN "degraded" ELSE health
    /\ monitor' = "idle"
    /\ UNCHANGED <<device, faults, bus, broken, epoch, requested, notified, settled, beat>>
    /\ UNCHANGED <<worker, senders, post, callbacks, session, record>>

\* Mutant: what was slow when it was read is marked so, whatever it is by now.
MonitorMarksStale ==
    /\ monitor \in {"late", "fresh"}
    /\ health' = CASE monitor = "late" -> "degraded"
                   [] /\ monitor = "fresh" /\ health = "degraded"
                      /\ ~requested /\ ~notified -> "up"
                   [] OTHER -> health
    /\ monitor' = "idle"
    /\ UNCHANGED <<device, faults, bus, broken, epoch, requested, notified, settled, beat>>
    /\ UNCHANGED <<worker, senders, post, callbacks, session, record>>

\* The worker is slow, or it is back and no failure waits for a reconnect.
MonitorMarks ==
    /\ monitor \in {"late", "fresh"}
    /\ health' = CASE monitor = "late" /\ health = "up" -> "degraded"
                   [] /\ monitor = "fresh" /\ health = "degraded"
                      /\ ~requested /\ ~notified -> "up"
                   [] OTHER -> health
    /\ monitor' = "idle"
    /\ UNCHANGED <<device, faults, bus, broken, epoch, requested, notified, settled, beat>>
    /\ UNCHANGED <<worker, senders, post, callbacks, session, record>>

MonitorFails ==
    /\ monitor = "lost"
    /\ SignalFailure("monitor")
    /\ monitor' = "idle"
    /\ UNCHANGED <<device, faults, bus, broken, epoch, settled, beat>>
    /\ UNCHANGED <<worker, senders, callbacks, session, record>>

-----------------------------------------------------------------------------
(* A sender: TxGate.submit looks at Bench TX, then send takes the bus       *)

Gated(s) ==
    /\ sender[s] = "idle" /\ post[s] = "none" /\ bench
    /\ sender' = [sender EXCEPT ![s] = "gated"]
    /\ armed' = [armed EXCEPT ![s] = benchEpoch]
    /\ UNCHANGED <<device, faults, adapter, worker, monitor, hand, sent, post, callbacks, session, record>>

\* Mutant: a bus that is recovering may be written to.
SendableRecovering == bus # Closed /\ health \in {"up", "recovering"}

Sendable == bus # Closed /\ health = "up"

TakesBus(s) ==
    /\ sender[s] = "gated" /\ Sendable
    /\ sender' = [sender EXCEPT ![s] = "sending"]
    /\ hand' = [hand EXCEPT ![s] = bus]
    /\ UNCHANGED <<device, faults, adapter, worker, monitor, armed, sent, post, callbacks, session, record>>

Leaves(s) ==
    /\ sender' = [sender EXCEPT ![s] = "idle"]
    /\ hand' = [hand EXCEPT ![s] = Closed] /\ armed' = [armed EXCEPT ![s] = Closed]

SendRejected(s) ==
    /\ sender[s] = "gated" /\ ~Sendable
    /\ Leaves(s)
    /\ UNCHANGED <<device, faults, adapter, worker, monitor, sent, post, callbacks, session, record>>

Sends(s) ==
    /\ sender[s] = "sending" /\ hand[s] = bus /\ ~broken
    /\ sent' = [bus |-> bus, armed |-> armed[s]]
    /\ Leaves(s)
    /\ UNCHANGED <<device, faults, adapter, worker, monitor, post, callbacks, session, record>>

\* The handle was shut down meanwhile, or the device is gone.
SendFails(s) ==
    /\ sender[s] = "sending" /\ (hand[s] # bus \/ broken)
    /\ SignalFailure(s)
    /\ Leaves(s)
    /\ UNCHANGED <<device, faults, bus, broken, epoch, settled, beat>>
    /\ UNCHANGED <<worker, monitor, sent, callbacks, session, record>>

-----------------------------------------------------------------------------
(* The session and the recording                                            *)

\* set_bench_tx asks the adapter, then stores; it holds the session's lock.
BenchChecked ==
    /\ request = "idle" /\ ~bench /\ health = "up"
    /\ request' = "checked" /\ requestEpoch' = epoch
    /\ UNCHANGED <<device, faults, adapter, worker, monitor, senders, post, callbacks, record>>
    /\ UNCHANGED <<bench, benchEpoch, told>>

BenchEnabled ==
    /\ request = "checked"
    /\ bench' = TRUE /\ benchEpoch' = requestEpoch
    /\ request' = "idle" /\ requestEpoch' = Closed
    /\ UNCHANGED <<device, faults, adapter, worker, monitor, senders, post, callbacks, record, told>>

BenchDisabled ==
    /\ request = "idle" /\ bench
    /\ bench' = FALSE /\ benchEpoch' = Closed
    /\ UNCHANGED <<device, faults, adapter, worker, monitor, senders, post, callbacks, record>>
    /\ UNCHANGED <<told, request, requestEpoch>>

\* _handle_physical_failure, _handle_physical_recovered
Handles ==
    /\ callbacks # <<>> /\ request = "idle"
    /\ callbacks' = Tail(callbacks)
    /\ bench' = FALSE /\ benchEpoch' = Closed /\ told' = Head(callbacks)
    /\ rec' = IF Head(callbacks) = "failed" /\ rec = "complete" THEN "degraded" ELSE rec
    /\ UNCHANGED <<device, faults, adapter, worker, monitor, senders, post, request, requestEpoch>>
    /\ UNCHANGED <<recorded, sound>>

RecordingStarts ==
    /\ "record" \in Inputs /\ rec = "none"
    /\ rec' = "complete" /\ recorded' = {} /\ sound' = ~notified
    /\ UNCHANGED <<device, faults, adapter, worker, monitor, senders, post, callbacks, session>>

RecordingStops ==
    /\ rec # "none"
    /\ rec' = "none" /\ recorded' = {} /\ sound' = FALSE
    /\ UNCHANGED <<device, faults, adapter, worker, monitor, senders, post, callbacks, session>>

-----------------------------------------------------------------------------

Worker ==
    \/ Disconnects \/ StartsReceive \/ Receives \/ ReceiveFails \/ NotRequested
    \/ FinishesRecovery \/ KeepsReceiving \/ StartsRetry \/ RetryFails \/ Reconnects

Monitor == MonitorReads \/ MonitorMarks \/ MonitorFails

Submits(s) == TakesBus(s) \/ SendRejected(s) \/ Sends(s) \/ SendFails(s)

Environment == Unplugged \/ Plugged \/ Stalls

Operator == BenchChecked \/ BenchDisabled \/ RecordingStarts \/ RecordingStops

Next ==
    \/ Environment \/ WindowPasses \/ Worker \/ Monitor \/ Operator
    \/ BenchEnabled \/ Handles
    \/ \E s \in Senders : Gated(s) \/ Submits(s)
    \/ \E t \in Threads : Posts(t)

Spec == Init /\ [][Next]_vars

\* Threads and the event loop run on, the lock of the session is free now and then,
\* and a link that keeps recovering sees its window pass.  Plugging, faults and the
\* operator are not fair.
FairSpec ==
    /\ Spec
    /\ WF_vars(Worker) /\ WF_vars(Monitor) /\ WF_vars(BenchEnabled)
    /\ SF_vars(WindowPasses) /\ SF_vars(Handles)
    /\ \A s \in Senders : WF_vars(Submits(s))
    /\ \A t \in Threads : WF_vars(Posts(t))

-----------------------------------------------------------------------------
(* Properties                                                               *)

Pending(report) ==
    \/ \E t \in Threads : post[t] = report
    \/ \E i \in DOMAIN callbacks : callbacks[i] = report

FailurePending  == Pending("failed")
RecoveryPending == Pending("recovered")

\* Failures are reported once until a recovery; none of those left out was needed:
\* while one is on record, Bench TX is off or the report that turns it off is on
\* its way, also for a request that found the link up before it failed
\* (canalyst.py 500-513, session_manager.py 191-214, 231-264).
FailureReachesBench ==
    notified /\ (bench \/ request = "checked") => FailurePending

\* The session is not left with a failure that is over: once the adapter has none on
\* record, a session that was told of one has the recovery on its way to it, and no
\* report of a failure comes behind it to undo it (canalyst.py 474-513,
\* session_manager.py 191-231).
RecoveryReachesSession == told = "failed" /\ ~notified => RecoveryPending

\* The monitor judges a heartbeat it read before, senders fail on a bus that is gone by
\* now, and both write the flags of the reconnect: a failure on record is never masked
\* (canalyst.py 423-425), and one of the worker's next steps still goes to its recovery.
LossIsPursued ==
    notified => health # "up" /\ (requested \/ bus = Closed \/ health = "recovering")

\* architecture-control-toolkit.md 393: reconnect never restores Bench TX.  What a
\* sender writes to a bus was allowed in that bus's own epoch, although the sender
\* looked at Bench TX, and at the link, before it wrote.
StaleBenchNeverSends == sent.bus = sent.armed

\* A device that stays is back in use, and the session knows, whatever was lost,
\* stalled or failed twice on the way (canalyst.py 358-498).
LinkComesBack == <>[]device => <>[](health = "up" /\ told # "failed")

\* A recording that is complete has no gap of the adapter's epoch, if no failure was
\* on record when it began: the loss it lives through is always reported to it
\* (recording.py 217-223, lifecycle.py 379-381).
CompleteIsOneEpoch ==
    rec = "complete" /\ sound /\ ~FailurePending => \A e, f \in recorded : e = f

\* architecture-control-toolkit.md 1370: a complete recording has no adapter-epoch
\* gap.  (Fails: a loss while the link recovers is not reported again.)
CompleteHasNoEpochGap ==
    rec = "complete" /\ ~FailurePending => \A e, f \in recorded : e = f
=============================================================================
