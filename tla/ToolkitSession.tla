--------------------------- MODULE ToolkitSession ---------------------------
(***************************************************************************)
(* The control toolkit's path from an operator to the bus: SessionManager, *)
(* ControlIntentService, Scheduler, OwnershipTable and TxGate, with the    *)
(* callbacks of Lifecycle between them.                                    *)
(*                                                                         *)
(* The requests run on a thread pool.  The event loop runs the scheduler's *)
(* pass, the watchdog and the handler of an adapter failure, one after the *)
(* other.  A service's lock makes its own section atomic; what a request   *)
(* checked before it took the lock, or does between two locks, is a step.  *)
(* The scheduler has a lock of its own: a cancel_all that falls inside the *)
(* section of an intent is IntentCut.                                      *)
(*                                                                         *)
(* One session request runs at a time; control requests, Bench TX and the   *)
(* event loop interleave with it.                                          *)
(*                                                                         *)
(* Abstracted: HOST_DRIVE_CMD and HOST_STEER_CMD, which are scheduled,     *)
(* updated and cancelled together, are one job; values, sequence numbers   *)
(* and revisions are left out, and a request they refuse changes nothing.  *)
(* Every job is due at every pass.  Jobs and leases of other owners        *)
(* (injections, the analysis stimulus) are left out.                       *)
(***************************************************************************)
EXTENDS Integers

CONSTANTS
    Sources,   \* the producers of control intents
    Channels,  \* DIRECT_CHANNELS
    Ids,       \* the job ids of an instance
    Inputs     \* the requests and faults of an instance

Kinematics == {"drive", "heartbeat"}
Frames     == Kinematics \cup Channels
Profiles   == {"bench_test", "full_vehicle"}
NoId       == 0
InputKinds == {"intent", "rejected", "direct_on", "direct_off", "release", "cancel", "cut",
               "stop_all", "profile", "close", "bench_off", "failure"}

ASSUME ToolkitAssumption ==
    /\ Ids \subseteq Nat \ {NoId}
    /\ Channels \cap Kinematics = {}
    /\ Sources \cap {"none", "direct"} = {}
    /\ Inputs \subseteq InputKinds

Owners == Sources \cup {"direct"}
Job    == [frame : Frames, id : Ids, owner : Owners]

VARIABLES
    \* SessionManager
    sid,      \* there is a session_id
    phase,    \* "stopped" for every terminal phase
    profile,
    bench,    \* bench_tx
    op,       \* where the session request that runs is between its locks
    previous, \* what a change of profile that runs falls back to
    \* Scheduler
    jobs,     \* _jobs
    loop,     \* what the event loop is at
    due,      \* the jobs of this pass still to be submitted
    \* OwnershipTable, by frame: one lease each
    lease,
    \* ControlIntentService
    held,     \* job_id, heartbeat_job_id and direct_jobs, by frame
    active,
    owner,    \* the source lease_owner is made from
    stale,    \* last_mono is more than HOST_CMD_STALE_S ago
    req       \* the control request that has passed its checks

session == <<sid, phase, profile, previous>>
control == <<held, active, owner, stale>>
vars    == <<session, bench, op, jobs, loop, due, lease, control, req>>

NoReq    == [kind |-> "none", arg |-> "none"]
Requests == {NoReq} \cup [kind : {"intent", "rejected"}, arg : Sources]
                    \cup [kind : {"direct_on"}, arg : Channels]

Ops == {"idle", "create_open", "create_end", "profile_neutral", "profile_open", "profile_end",
        "stop_neutral", "stop_end", "close_neutral"}

TypeOK ==
    /\ sid \in BOOLEAN /\ phase \in {"stopped", "preparing", "running"}
    /\ profile \in Profiles /\ bench \in BOOLEAN /\ op \in Ops
    /\ previous \in [phase : {"preparing", "running"}, profile : Profiles]
    /\ jobs \subseteq Job /\ due \subseteq Job
    /\ loop \in {"idle", "pass", "gated", "failed"}
    /\ lease \in [Frames -> Owners \cup {"none"}]
    /\ held \in [Frames -> Ids \cup {NoId}] /\ active \in BOOLEAN
    /\ owner \in Sources /\ stale \in BOOLEAN /\ req \in Requests

\* No change of profile runs.
NoPrevious == [phase |-> "running", profile |-> "bench_test"]

Init ==
    /\ sid = FALSE /\ phase = "stopped" /\ profile = "bench_test" /\ bench = FALSE
    /\ op = "idle" /\ previous = NoPrevious
    /\ jobs = {} /\ loop = "idle" /\ due = {}
    /\ lease = [f \in Frames |-> "none"]
    /\ held = [f \in Frames |-> NoId] /\ active = FALSE
    /\ owner \in Sources /\ stale = TRUE /\ req = NoReq

-----------------------------------------------------------------------------
(* Pieces of the services                                                   *)

\* Scheduler.cancel of the jobs the control service holds for these frames.
Without(fs) == {j \in jobs : ~(j.frame \in fs /\ held[j.frame] = j.id)}

\* _cancel_job_locked, _cancel_direct_locked
Forgotten(fs) == [f \in Frames |-> IF f \in fs THEN NoId ELSE held[f]]

\* Scheduler.schedule gives an id that nobody has: the least of the instance's.
Unused(n, fs) ==
    /\ \A j \in jobs \cup due : j.frame \in fs => j.id # n
    /\ \A f \in fs : held[f] # n

FreshId(n, fs) == n \in Ids /\ Unused(n, fs) /\ \A m \in Ids : Unused(m, fs) => n <= m

\* OwnershipTable.clear
NoLeases == [f \in Frames |-> "none"]

\* Mutant: the release also drops the name of the lease owner.
ReleasedForgetsOwner ==
    /\ jobs' = Without(Frames) /\ held' = Forgotten(Frames)
    /\ lease' = [f \in Frames |-> IF f \in Channels THEN "none" ELSE lease[f]]
    /\ owner' = "none" /\ active' = FALSE /\ UNCHANGED stale

\* ControlIntentService.release: the leases of the drive and of the channels,
\* not that of the heartbeat, whose owner has another name.
Released ==
    /\ jobs' = Without(Frames)
    /\ held' = Forgotten(Frames)
    /\ lease' = [f \in Frames |-> IF f \in Channels \/ (f = "drive" /\ lease[f] = owner)
                                  THEN "none" ELSE lease[f]]
    /\ active' = FALSE
    /\ UNCHANGED <<owner, stale>>

-----------------------------------------------------------------------------
(* Control requests                                                         *)

\* The profile and Bench TX are looked at before the service's lock is taken.
Armed == sid /\ phase = "running" /\ bench

Checked(kind, arg) ==
    /\ kind \in Inputs /\ req = NoReq /\ Armed
    /\ kind = "rejected" \/ profile = "bench_test"
    /\ req' = [kind |-> kind, arg |-> arg]
    /\ UNCHANGED <<session, bench, op, jobs, loop, due, lease, control>>

\* Mutant: every intent schedules a heartbeat.
StartsHeartbeatAgain(left, ids) ==
    {f \in Kinematics : f = "drive" => \A j \in left : j.frame = f => j.id # ids[f]}

\* Mutant: the drive is not rescheduled while its id is held.
StartsIfNotHeld(left, ids) == {f \in Kinematics : ids[f] = NoId}

\* _ensure_job_locked, _ensure_heartbeat_job_locked: a held drive job that is
\* gone is scheduled again, a held heartbeat is not looked at.
Starts(left, ids) ==
    {f \in Kinematics : /\ f = "heartbeat" => ids[f] = NoId
                        /\ f = "drive" => \A j \in left : j.frame = f => j.id # ids[f]}

\* Mutant: the jobs of the source before are kept.
KeepsOtherSource(s) == Channels

\* What an intent of source s cancels before it schedules.
Preempted(s) ==
    Channels \cup (IF held["drive"] # NoId /\ owner # s THEN Kinematics ELSE {})

\* apply_intent, under its lock: the drive is scheduled, then the heartbeat.
\* What is cancelled in between (cut) is all but that heartbeat.
IntentRuns(s, cut) ==
    LET left   == Without(Preempted(s))
        ids    == Forgotten(Preempted(s))
        starts == Starts(left, ids)
        Scheduled(fs, n) == {[frame |-> f, id |-> n, owner |-> s] : f \in starts \cap fs}
    IN  /\ req = [kind |-> "intent", arg |-> s]
        /\ \E n \in Ids :
              /\ FreshId(n, starts)
              /\ jobs' = IF cut THEN Scheduled({"heartbeat"}, n)
                         ELSE left \cup Scheduled(Kinematics, n)
              /\ held' = [f \in Frames |-> IF f \in starts THEN n ELSE ids[f]]
        /\ owner' = s /\ active' = TRUE /\ stale' = FALSE
        /\ req' = NoReq
        /\ UNCHANGED <<session, bench, op, loop, due, lease>>

IntentApplies(s) == IntentRuns(s, FALSE)

\* Scheduler.cancel_all takes the scheduler's lock only, so DELETE /injections
\* may fall between the two.
IntentCut(s) == "cut" \in Inputs /\ IntentRuns(s, TRUE)

\* An intent whose mode is not kinematics: refused once it has fed the watchdog.
IntentRejected(s) ==
    LET drops == IF held["drive"] # NoId /\ owner # s THEN Kinematics ELSE {}
    IN  /\ req = [kind |-> "rejected", arg |-> s]
        /\ jobs' = Without(drops) /\ held' = Forgotten(drops)
        /\ owner' = s /\ active' = TRUE /\ stale' = FALSE
        /\ req' = NoReq
        /\ UNCHANGED <<session, bench, op, loop, due, lease>>

\* Mutant: a channel that is switched on leaves the heartbeat running.
DirectStartsBeside(c) ==
    LET drops == IF held["drive"] # NoId THEN {"drive"} ELSE {}
        alive == \E j \in jobs : j.frame = c /\ j.id = held[c]
    IN  /\ req = [kind |-> "direct_on", arg |-> c] /\ ~alive
        /\ \E n \in Ids :
              /\ FreshId(n, {c})
              /\ jobs' = Without(drops) \cup {[frame |-> c, id |-> n, owner |-> "direct"]}
              /\ held' = [Forgotten(drops) EXCEPT ![c] = n]
        /\ active' = TRUE /\ stale' = FALSE
        /\ req' = NoReq
        /\ UNCHANGED <<session, bench, op, loop, due, lease, owner>>

\* set_direct(enabled), under its lock
DirectStarts(c) ==
    LET drops == IF held["drive"] # NoId THEN Kinematics ELSE {}
        alive == \E j \in jobs : j.frame = c /\ j.id = held[c]
    IN  /\ req = [kind |-> "direct_on", arg |-> c]
        /\ IF alive
           THEN jobs' = Without(drops) /\ held' = Forgotten(drops)
           ELSE \E n \in Ids :
                   /\ FreshId(n, {c})
                   /\ jobs' = Without(drops) \cup {[frame |-> c, id |-> n, owner |-> "direct"]}
                   /\ held' = [Forgotten(drops) EXCEPT ![c] = n]
        /\ active' = TRUE /\ stale' = FALSE
        /\ req' = NoReq
        /\ UNCHANGED <<session, bench, op, loop, due, lease, owner>>

\* set_direct(not enabled): needs no Bench TX.
DirectStops(c) ==
    /\ "direct_off" \in Inputs
    /\ jobs' = Without({c}) /\ held' = Forgotten({c})
    /\ active' = (active /\ \E d \in Channels \ {c} : held[d] # NoId)
    /\ stale' = FALSE
    /\ UNCHANGED <<session, bench, op, loop, due, lease, owner, req>>

\* POST /control/release, and the end of an ESTOP intent.
Release ==
    /\ "release" \in Inputs
    /\ Released
    /\ UNCHANGED <<session, bench, op, loop, due, req>>

\* DELETE /injections: Scheduler.cancel_all, of the control jobs too.
CancelAll ==
    /\ "cancel" \in Inputs /\ jobs # {}
    /\ jobs' = {}
    /\ UNCHANGED <<session, bench, op, loop, due, lease, control, req>>

-----------------------------------------------------------------------------
(* Session requests                                                         *)

Idle == op = "idle"

Create(p) ==
    /\ Idle /\ ~(sid /\ phase # "stopped")
    /\ sid' = TRUE /\ phase' = "preparing" /\ profile' = p /\ bench' = FALSE
    /\ op' = "create_open"
    /\ UNCHANGED <<previous, jobs, loop, due, lease, control, req>>

\* change_profile, close: jobs, leases and Bench TX go with the lock held.
Neutralised == jobs' = {} /\ lease' = NoLeases /\ bench' = FALSE

ChangeProfile(p) ==
    /\ "profile" \in Inputs /\ Idle /\ sid /\ phase # "stopped" /\ p # profile
    /\ previous' = [phase |-> phase, profile |-> profile]
    /\ phase' = "preparing" /\ profile' = p
    /\ Neutralised
    /\ op' = "profile_neutral"
    /\ UNCHANGED <<sid, loop, due, control, req>>

\* Bench TX stays on until the callback has sent its zero frame.
StopAll ==
    /\ "stop_all" \in Inputs /\ Idle /\ sid /\ phase # "stopped"
    /\ jobs' = {} /\ lease' = NoLeases
    /\ op' = "stop_neutral"
    /\ UNCHANGED <<session, bench, loop, due, control, req>>

Close ==
    /\ "close" \in Inputs /\ Idle /\ sid
    /\ sid' = FALSE /\ phase' = "stopped"
    /\ Neutralised
    /\ op' = "close_neutral"
    /\ UNCHANGED <<profile, previous, loop, due, control, req>>

AfterCallback == [create_open |-> "create_end", profile_neutral |-> "profile_open",
                  profile_open |-> "profile_end", stop_neutral |-> "stop_end",
                  close_neutral |-> "idle"]

\* Lifecycle._on_stop_all and _on_profile_change release the control service.
Callback ==
    /\ op \in DOMAIN AfterCallback
    /\ Released
    /\ op' = AfterCallback[op]
    /\ UNCHANGED <<session, bench, loop, due, req>>

\* The transport did not open: create gives the session up, a change of
\* profile goes back to the one before.
OpenFails ==
    \/ /\ op = "create_end"
       /\ sid' = FALSE /\ phase' = "stopped"
       /\ op' = "idle"
       /\ UNCHANGED <<profile, previous, bench, jobs, loop, due, lease, control, req>>
    \/ /\ op = "profile_end"
       /\ phase' = previous.phase /\ profile' = previous.profile /\ bench' = FALSE
       /\ op' = "idle" /\ previous' = NoPrevious
       /\ UNCHANGED <<sid, jobs, loop, due, lease, control, req>>

Opened ==
    /\ op \in {"create_end", "profile_end"}
    /\ phase' = "running"
    /\ op' = "idle" /\ previous' = NoPrevious
    /\ UNCHANGED <<sid, profile, bench, jobs, loop, due, lease, control, req>>

StopEnds ==
    /\ op = "stop_end"
    /\ bench' = FALSE /\ jobs' = {}
    /\ op' = "idle"
    /\ UNCHANGED <<session, loop, due, lease, control, req>>

\* set_bench_tx, by a request of its own; an open adapter is assumed.
BenchOn ==
    /\ sid /\ phase = "running" /\ ~bench
    /\ bench' = TRUE
    /\ UNCHANGED <<session, op, jobs, loop, due, lease, control, req>>

BenchOff ==
    /\ "bench_off" \in Inputs /\ sid /\ phase = "running"
    /\ bench' = FALSE /\ jobs' = {}
    /\ UNCHANGED <<session, op, loop, due, lease, control, req>>

\* mark_link_absent, transport_recovered: Bench TX goes, the jobs stay.
BenchDropped ==
    /\ "failure" \in Inputs /\ bench
    /\ bench' = FALSE
    /\ UNCHANGED <<session, op, jobs, loop, due, lease, control, req>>

-----------------------------------------------------------------------------
(* The event loop                                                           *)

\* The pass of Scheduler._loop takes a snapshot of the jobs; it does not look
\* again whether a job was cancelled.
PassBegins ==
    /\ loop = "idle" /\ jobs # {}
    /\ due' = jobs
    /\ loop' = "pass"
    /\ UNCHANGED <<session, bench, op, jobs, lease, control, req>>

PassEnds ==
    /\ loop = "pass" /\ due = {}
    /\ loop' = "idle"
    /\ UNCHANGED <<session, bench, op, jobs, due, lease, control, req>>

\* TxGate.submit looks at Bench TX, then claims the lease and sends.
Refused(j) ==
    /\ loop = "pass" /\ j \in due /\ ~bench
    /\ due' = due \ {j}
    /\ UNCHANGED <<session, bench, op, jobs, loop, lease, control, req>>

Gated ==
    /\ loop = "pass" /\ due # {} /\ bench
    /\ loop' = "gated"
    /\ UNCHANGED <<session, bench, op, jobs, due, lease, control, req>>

Sent(j) ==
    /\ loop = "gated" /\ j \in due /\ lease[j.frame] \in {"none", j.owner}
    /\ lease' = [lease EXCEPT ![j.frame] = j.owner]
    /\ due' = due \ {j} /\ loop' = "pass"
    /\ UNCHANGED <<session, bench, op, jobs, control, req>>

\* A conflict of ownership stops the job.
Conflicts(j) ==
    /\ loop = "gated" /\ j \in due /\ lease[j.frame] \notin {"none", j.owner}
    /\ jobs' = {k \in jobs : k.frame = j.frame => k.id # j.id}
    /\ due' = due \ {j} /\ loop' = "pass"
    /\ UNCHANGED <<session, bench, op, lease, control, req>>

\* Mutant: the watchdog forgets the direct channels.
StoppedByWatchdogKinematics == Kinematics

StoppedByWatchdog == Frames

\* tick_watchdog: the zero frame of the drive claims its lease.
Watchdog ==
    /\ loop = "idle" /\ stale
    /\ active \/ \E c \in Channels : held[c] # NoId
    /\ jobs' = Without(StoppedByWatchdog) /\ held' = Forgotten(StoppedByWatchdog)
    /\ active' = FALSE
    /\ lease' = IF held["drive"] # NoId /\ bench /\ lease["drive"] = "none"
                THEN [lease EXCEPT !["drive"] = owner] ELSE lease
    /\ UNCHANGED <<session, bench, op, loop, due, owner, stale, req>>

\* Lifecycle._handle_physical_failure: transport_failed and its callback.
AdapterFails ==
    /\ "failure" \in Inputs /\ loop = "idle"
    /\ Neutralised
    /\ loop' = "failed"
    /\ UNCHANGED <<session, op, due, control, req>>

FailureHandled ==
    /\ loop = "failed"
    /\ Released
    /\ loop' = "idle"
    /\ UNCHANGED <<session, bench, op, due, req>>

\* Time.  A lease outlives the submissions that renew it by its time to live.
Renewed(f) == bench /\ \E j \in jobs \cup due : j.frame = f /\ j.owner = lease[f]

LeaseExpires(f) ==
    /\ lease[f] # "none" /\ ~Renewed(f)
    /\ lease' = [lease EXCEPT ![f] = "none"]
    /\ UNCHANGED <<session, bench, op, jobs, loop, due, control, req>>

GoesStale ==
    /\ ~stale
    /\ stale' = TRUE
    /\ UNCHANGED <<session, bench, op, jobs, loop, due, lease, held, active, owner, req>>

-----------------------------------------------------------------------------

Applies ==
    \/ \E s \in Sources : IntentApplies(s) \/ IntentCut(s) \/ IntentRejected(s)
    \/ \E c \in Channels : DirectStarts(c)

Client == Applies \/ Release \/ \E c \in Channels : DirectStops(c)

Arrives ==
    \/ \E s \in Sources : Checked("intent", s) \/ Checked("rejected", s)
    \/ \E c \in Channels : Checked("direct_on", c)

Operator ==
    \/ \E p \in Profiles : Create(p) \/ ChangeProfile(p)
    \/ StopAll \/ Close \/ BenchOn \/ BenchOff \/ BenchDropped \/ CancelAll

SessionStep == Callback \/ OpenFails \/ Opened \/ StopEnds

Pass ==
    \/ PassBegins \/ PassEnds \/ Gated
    \/ \E j \in due : Refused(j) \/ Sent(j) \/ Conflicts(j)

LoopStep == Pass \/ FailureHandled

Next ==
    \/ Arrives \/ Client \/ Operator \/ SessionStep \/ LoopStep
    \/ Watchdog \/ AdapterFails \/ GoesStale \/ \E f \in Frames : LeaseExpires(f)

Spec == Init /\ [][Next]_vars

\* Threads and the event loop run on; the loop takes its tasks in turn, so the
\* watchdog gets in between two passes; leases run out.  Requests, faults and the
\* silence of a client are not fair.
FairSpec ==
    /\ Spec
    /\ WF_vars(Applies) /\ WF_vars(SessionStep)
    /\ WF_vars(LoopStep) /\ SF_vars(Watchdog)
    /\ \A f \in Frames : WF_vars(LeaseExpires(f))

-----------------------------------------------------------------------------
(* Properties                                                               *)

\* The control service can cancel every job it ever scheduled: it holds the id
\* (control_intent.py 377-449), so no frame has two producers.
Tracked == \A j \in jobs : held[j.frame] = j.id

\* The jobs of the scheduler as the producers of their frames.
Contract == INSTANCE ControlContract
    WITH producers <- {[frame |-> j.frame, owner |-> j.owner] : j \in jobs}, leader <- owner

\* Whatever ids are stale when a request applies, after a stop, a conflict or a cancel
\* behind the service's back: a frame gains a producer only from a request that leaves
\* no other source and no other method beside it (control_intent.py 130-219, 377-449).
KeepsControlContract == Contract!Spec

\* A client that falls silent loses its direct channels for good, Bench TX on or
\* off, whatever the sessions and releases do (control_intent.py 293-312).
DirectSilenceStops == <>[]stale => <>[](\A j \in jobs : j.frame \notin Channels)

\* What may get between a steady source and the bus: a stop, another source or
\* method, or its own silence.
Disturbs(s) ==
    \/ Release \/ Operator \/ AdapterFails \/ GoesStale
    \/ \E t \in Sources : IntentRejected(t) \/ IntentCut(t) \/ (t # s /\ IntentApplies(t))
    \/ \E c \in Channels : DirectStarts(c) \/ DirectStops(c)

SendsDrive == \E j \in due : j.frame = "drive" /\ Sent(j)

\* A source that keeps sending gets its drive command through, although another
\* source's lease may still be in the way and end its job (scheduler.py 128-135).
DriveGetsThrough ==
    \A s \in Sources :
        <>[][~Disturbs(s)]_vars /\ <>[]bench /\ []<><<IntentApplies(s)>>_vars
            => []<><<SendsDrive>>_vars

\* control_intent.py 294: the watchdog stops the kinematics of a silent client.
\* (A direct channel switched off while kinematics runs clears `active`, and the
\* watchdog then returns at once.)
KinematicsSilenceStops == <>[]stale => <>[](\A j \in jobs : j.frame # "drive")
=============================================================================
