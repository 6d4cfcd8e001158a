---------------------------- MODULE RtAuthority ----------------------------
(***************************************************************************)
(* The drive authority of the RT node: the 0x001, 0x011, 0x110 and 0x300   *)
(* handlers of can_high_task and can_low_task, the safety event queue with *)
(* its overflow flags, SafetyStreamSupervisor and control_task (main.cpp,  *)
(* safety_stream_loss.h, safety_monitor.h).                                *)
(*                                                                         *)
(* The two CAN tasks share core 0 and are preempted between any two steps; *)
(* control_task runs on core 1.  Each action ends at a store another task  *)
(* reads or just before a load that another task may change.               *)
(*                                                                         *)
(* Abstracted: a command is zero or drives; steering, brake pressure and   *)
(* the reason of an ESTOP are left out; heartbeats, the SES fault, the     *)
(* steering state, the gear and the host watchdog are free choices.        *)
(***************************************************************************)
EXTENDS Integers, Sequences

CONSTANTS
    QueueDepth,  \* length of g_safety_evt_q
    StsTimeout,  \* kSysSafetyStsTimeoutUs, in ticks of the clock
    AcquireGap,  \* the gap that resets partial acquisition, in ticks
    Inputs       \* the frames and faults the environment of an instance moves

Modes   == {"Manual", "Auto", "Estop"}
Streams == {"safety", "mode", "host"}       \* the bits of g_ready_mask
CanTasks == {"high", "low"}
Tasks   == CanTasks \cup {"control"}

InputKinds == Modes \cup {"drive_cmd", "stop_cmd", "steer_cmd", "high_estop", "low_estop",
                          "estop_sts", "zero_sts", "low_bus_off", "high_bus_off", "host_silence", "clock"}

ASSUME RtAssumption ==
    /\ QueueDepth \in Nat \ {0}
    /\ StsTimeout \in Nat /\ AcquireGap \in 0 .. StsTimeout
    /\ Inputs \subseteq InputKinds

\* SafetyEvent: a MODE_CHANGE is its payload.
Events   == {"ESTOP", "SAFETY_CLEAR"} \cup Modes
Commands == {"zero", "drive"}   \* what the speed of a 0x300 amounts to

VARIABLES
    \* shared by the tasks
    queue,       \* g_safety_evt_q
    estopFlag,   \* g_pending_estop_event
    clearFlag,   \* g_pending_safety_clear
    modeFlag,    \* g_pending_mode_event, "none" for -1
    ready,       \* g_ready_mask
    mailbox,     \* g_host_cmd_mailbox
    stsAge,      \* now - g_last_sys_safety_sts_us, in ticks, saturating
    stsNew,      \* g_last_sys_safety_sts_us > SafetyStreamSupervisor::last_rx_us_
    \* enqueue_safety_event, by task
    post,        \* the event task t is enqueuing, "none" outside the function
    full,        \* xQueueSend has failed: the flag comes next
    \* can_high_task and can_low_task
    hostSnap,    \* host_snap of can_high_task
    sstsLatched, \* ssts_latched
    confirmed,   \* ssts_clear_confirm, 0 or 1 while latched
    \* control_task
    pending,     \* m_estop_pending
    curMode,     \* m_current_mode
    sup,         \* SafetyStreamSupervisor::state_
    credit,      \* SafetyStreamSupervisor::acquire_count_
    heard,       \* SafetyStreamSupervisor::last_rx_us_ >= 0
    verdict,     \* what the supervisor's status means for the mask
    noAuthority, \* g_no_sys_authority
    host,        \* the host snapshot of this cycle
    out,         \* g_motion_output_mailbox: the speed command
    \* control
    pc,          \* where can_high_task and control_task are
    \* history, read by the properties only
    owed,        \* an ESTOP was enqueued, with no clear under way, and none since
    hostHeard,   \* a 0x300 has arrived since the last ESTOP clear
    frames       \* 0x011 frames taken while unacquired, up to 2

events  == <<queue, estopFlag, clearFlag, modeFlag, owed>>
stream  == <<stsAge, stsNew, frames>>
inHigh  == <<hostSnap, hostHeard>>
inLow   == <<sstsLatched, confirmed>>
latch   == <<pending, curMode>>
superv  == <<sup, credit, heard, verdict>>
motion  == <<noAuthority, host, out>>
vars    == <<events, ready, mailbox, stream, post, full, inHigh, inLow, latch,
             superv, motion, pc>>

ControlLabels == {"estop_flag", "mode_flag", "clear_flag", "clear_zero", "drain",
                  "supervise", "store_mask", "peek", "publish", "low_check",
                  "low_zero", "high_check", "high_zero", "stale_check", "stale_zero"}

TypeOK ==
    /\ queue \in Seq(Events) /\ Len(queue) <= QueueDepth
    /\ estopFlag \in BOOLEAN /\ clearFlag \in BOOLEAN
    /\ modeFlag \in Modes \cup {"none"}
    /\ ready \subseteq Streams
    /\ mailbox \in Commands /\ hostSnap \in Commands
    /\ host \in Commands /\ out \in Commands
    /\ stsAge \in 0 .. StsTimeout + 1 /\ stsNew \in BOOLEAN
    /\ post \in [Tasks -> Events \cup {"none"}]
    /\ full \in [Tasks -> BOOLEAN]
    /\ sstsLatched \in BOOLEAN /\ confirmed \in 0 .. 1
    /\ pending \in BOOLEAN /\ curMode \in Modes
    /\ sup \in {"unacquired", "acquired", "lost"}
    /\ credit \in 0 .. 2 /\ (sup = "unacquired" => credit < 2)
    /\ heard \in BOOLEAN /\ verdict \in {"revoke", "grant", "withhold"}
    /\ noAuthority \in BOOLEAN
    /\ pc \in [high : {"receive", "mailbox"}, control : ControlLabels]
    /\ owed \in BOOLEAN /\ hostHeard \in BOOLEAN /\ frames \in 0 .. 2

\* g_last_sys_safety_sts_us starts at 0 and last_rx_us_ at -1: the first update
\* of the supervisor takes the initial value for a frame.
Init ==
    /\ queue = <<>> /\ estopFlag = FALSE /\ clearFlag = FALSE /\ modeFlag = "none"
    /\ ready = {} /\ mailbox = "zero" /\ hostSnap = "zero"
    /\ stsAge = 0 /\ stsNew = TRUE
    /\ post = [t \in Tasks |-> "none"] /\ full = [t \in Tasks |-> FALSE]
    /\ sstsLatched = FALSE /\ confirmed = 0
    /\ pending = FALSE /\ curMode = "Manual"
    /\ sup = "unacquired" /\ credit = 0 /\ heard = FALSE /\ verdict = "withhold"
    /\ noAuthority = TRUE /\ host = "zero" /\ out = "zero"
    /\ pc = [high |-> "receive", control |-> "estop_flag"]
    /\ owed = FALSE /\ hostHeard = FALSE /\ frames = 0

-----------------------------------------------------------------------------
(* enqueue_safety_event: the queue, and when it is full a flag per type.  An *)
(* ESTOP posted by a CAN task waits 10 ms first, which is a late step here.  *)

Idle(t)    == post[t] = "none"
Post(t, e) == post' = [post EXCEPT ![t] = e]

ClearUnderWay == clearFlag \/ \E i \in 1 .. Len(queue) : queue[i] = "SAFETY_CLEAR"

\* History: what an event that has just been handed over means for the latch.
HandOver(e) ==
    owed' = CASE e = "ESTOP"        -> owed \/ ~ClearUnderWay
              [] e = "SAFETY_CLEAR" -> FALSE
              [] OTHER              -> owed

\* Mutant: the queue takes one event too many.
RoomPastTheEnd == Len(queue) <= QueueDepth

Room == Len(queue) < QueueDepth

EventQueued(t) ==
    /\ ~Idle(t) /\ ~full[t] /\ Room
    /\ queue' = Append(queue, post[t])
    /\ HandOver(post[t])
    /\ Post(t, "none")
    /\ UNCHANGED <<estopFlag, clearFlag, modeFlag, ready, mailbox, stream, full>>
    /\ UNCHANGED <<inHigh, inLow, latch, superv, motion, pc>>

QueueFull(t) ==
    /\ ~Idle(t) /\ ~full[t] /\ ~Room
    /\ full' = [full EXCEPT ![t] = TRUE]
    /\ UNCHANGED <<events, ready, mailbox, stream, post>>
    /\ UNCHANGED <<inHigh, inLow, latch, superv, motion, pc>>

FlagStored(t) ==
    /\ full[t]
    /\ full' = [full EXCEPT ![t] = FALSE]
    /\ estopFlag' = (estopFlag \/ post[t] = "ESTOP")
    /\ clearFlag' = (clearFlag \/ post[t] = "SAFETY_CLEAR")
    /\ modeFlag' = IF post[t] \in Modes THEN post[t] ELSE modeFlag
    /\ HandOver(post[t])
    /\ Post(t, "none")
    /\ UNCHANGED <<queue, ready, mailbox, stream>>
    /\ UNCHANGED <<inHigh, inLow, latch, superv, motion, pc>>

-----------------------------------------------------------------------------
(* can_high_task                                                            *)

HighReceives == Idle("high") /\ pc.high = "receive"

\* 0x300: the HOST bit is set before the mailbox holds the command.
HostCommand(c) ==
    /\ HighReceives
    /\ (IF c = "zero" THEN "stop_cmd" ELSE "drive_cmd") \in Inputs
    /\ hostSnap' = c
    /\ ready' = ready \cup {"host"}
    /\ hostHeard' = TRUE
    /\ pc' = [pc EXCEPT !.high = "mailbox"]
    /\ UNCHANGED <<events, mailbox, stream, post, full, inLow, latch, superv, motion>>

HostStored ==
    /\ pc.high = "mailbox"
    /\ mailbox' = hostSnap
    /\ pc' = [pc EXCEPT !.high = "receive"]
    /\ UNCHANGED <<events, ready, stream, post, full, inHigh, inLow, latch, superv, motion>>

\* 0x303 and 0x400 change other fields of host_snap and store it whole, with
\* the speed of the last 0x300.
HostSteerOrObstacle ==
    /\ HighReceives /\ "steer_cmd" \in Inputs
    /\ mailbox' = hostSnap
    /\ UNCHANGED <<events, ready, stream, post, full, inHigh, inLow, latch, superv, motion, pc>>

EstopInput == [high |-> "high_estop", low |-> "low_estop"]

\* 0x001 on either bus.
SafetyEstop(t) ==
    /\ EstopInput[t] \in Inputs
    /\ Idle(t) /\ (t = "high" => pc.high = "receive")
    /\ ready' = ready \ {"host"}
    /\ Post(t, "ESTOP")
    /\ UNCHANGED <<events, mailbox, stream, full, inHigh, inLow, latch, superv, motion, pc>>

-----------------------------------------------------------------------------
(* can_low_task                                                             *)

\* A 0x011 that StreamValidity accepts.  asserted: estop_source # 0.  advances:
\* the counter follows that of the last frame; it repeats or skips otherwise.
\* While latched, ssts_last_zero is (confirmed = 1).
SysSafetySts(asserted, advances) ==
    LET clears == sstsLatched /\ ~asserted /\ confirmed = 1 /\ advances
    IN  /\ Idle("low")
        /\ (IF asserted THEN "estop_sts" ELSE "zero_sts") \in Inputs
        /\ stsNew' = TRUE /\ stsAge' = 0
        /\ frames' = IF sup = "unacquired" /\ frames < 2 THEN frames + 1 ELSE frames
        /\ sstsLatched' = (asserted \/ (sstsLatched /\ ~clears))
        /\ confirmed' = IF sstsLatched /\ ~asserted /\ ~clears THEN 1 ELSE 0
        /\ post' = [post EXCEPT !["low"] = CASE asserted /\ ~sstsLatched -> "ESTOP"
                                             [] clears                   -> "SAFETY_CLEAR"
                                             [] OTHER                    -> "none"]
        /\ UNCHANGED <<events, ready, mailbox, full, inHigh, latch, superv, motion, pc>>

\* A 0x110 that StreamValidity accepts.
SysModeCmd(m) ==
    /\ Idle("low") /\ m \in Inputs
    /\ ready' = ready \cup {"mode"}
    /\ Post("low", m)
    /\ UNCHANGED <<events, mailbox, stream, full, inHigh, inLow, latch, superv, motion, pc>>

-----------------------------------------------------------------------------
(* control_task: one cycle of the loop.                                     *)

At(label)   == pc.control = label /\ Idle("control")
Goto(label) == pc' = [pc EXCEPT !.control = label]

\* Mutant: the latch follows the flag of this cycle.
LatchedThisCycle == estopFlag

Latched == pending \/ estopFlag

TakeEstopFlag ==
    /\ At("estop_flag")
    /\ pending' = Latched
    /\ estopFlag' = FALSE
    /\ Goto("mode_flag")
    /\ UNCHANGED <<queue, clearFlag, modeFlag, owed, curMode, ready, mailbox, stream>>
    /\ UNCHANGED <<post, full, inHigh, inLow, superv, motion>>

TakeModeFlag ==
    /\ At("mode_flag")
    /\ curMode' = IF modeFlag = "none" THEN curMode ELSE modeFlag
    /\ modeFlag' = "none"
    /\ Goto("clear_flag")
    /\ UNCHANGED <<queue, estopFlag, clearFlag, owed, pending, ready, mailbox, stream>>
    /\ UNCHANGED <<post, full, inHigh, inLow, superv, motion>>

\* Mutant: a clear leaves the HOST bit alone.
MaskKeptByClear == ready

MaskAfterClear == ready \ {"host"}

\* SAFETY_CLEAR, from its flag or from the queue; the mailbox is zeroed next.
ApplyClear ==
    /\ pending' = FALSE
    /\ ready' = MaskAfterClear
    /\ Goto("clear_zero")
    /\ hostHeard' = FALSE
    /\ UNCHANGED <<curMode, hostSnap>>

TakeClearFlag ==
    /\ At("clear_flag")
    /\ clearFlag' = FALSE
    /\ IF clearFlag
       THEN ApplyClear
       ELSE Goto("drain") /\ UNCHANGED <<latch, ready, inHigh>>
    /\ UNCHANGED <<queue, estopFlag, modeFlag, owed, mailbox, stream, post, full, inLow>>
    /\ UNCHANGED <<superv, motion>>

DrainEvent ==
    /\ At("drain") /\ queue # <<>>
    /\ queue' = Tail(queue)
    /\ \/ /\ Head(queue) = "ESTOP"
          /\ pending' = TRUE
          /\ UNCHANGED <<curMode, ready, inHigh, pc>>
       \/ /\ Head(queue) \in Modes
          /\ curMode' = Head(queue)
          /\ UNCHANGED <<pending, ready, inHigh, pc>>
       \/ /\ Head(queue) = "SAFETY_CLEAR"
          /\ ApplyClear
    /\ UNCHANGED <<estopFlag, clearFlag, modeFlag, owed, mailbox, stream, post, full, inLow>>
    /\ UNCHANGED <<superv, motion>>

DrainDone ==
    /\ At("drain") /\ queue = <<>>
    /\ Goto("supervise")
    /\ UNCHANGED <<events, ready, mailbox, stream, post, full, inHigh, inLow, latch, superv, motion>>

\* SafetyStreamSupervisor::update, and what control_task makes of its status.
\* late: kSysSafetyAcquireTimeoutUs has passed since boot.
Acquisition ==
    IF sup # "unacquired" \/ ~stsNew THEN credit
    ELSE IF credit > 0 /\ stsAge > AcquireGap THEN 1
    ELSE credit + 1

NextState ==
    CASE sup = "unacquired" -> IF Acquisition >= 2 THEN "acquired" ELSE "unacquired"
      [] sup = "acquired"   -> IF ~stsNew /\ stsAge > StsTimeout THEN "lost" ELSE "acquired"
      [] sup = "lost"       -> IF stsNew THEN "acquired" ELSE "lost"

SysAbsent(late) == NextState = "unacquired" /\ ~heard /\ ~stsNew /\ late

Supervise(late) ==
    /\ At("supervise")
    /\ sup' = NextState
    /\ credit' = Acquisition
    /\ heard' = (heard \/ stsNew)
    /\ stsNew' = FALSE
    /\ frames' = IF NextState = "acquired" THEN 0 ELSE frames
    /\ verdict' = IF NextState = "lost" \/ pending \/ SysAbsent(late) THEN "revoke"
                  ELSE IF NextState = "acquired" /\ stsAge <= StsTimeout THEN "grant"
                  ELSE "withhold"
    /\ Goto("store_mask")
    /\ UNCHANGED <<events, ready, mailbox, stsAge, post, full, inHigh, inLow, latch, motion>>

\* Mutant: a revocation takes the host's bit only.
MaskWithoutHost ==
    CASE verdict = "revoke"   -> ready \ {"host"}
      [] verdict = "grant"    -> ready \cup {"safety"}
      [] verdict = "withhold" -> ready \ {"safety"}

MaskAfterVerdict ==
    CASE verdict = "revoke"   -> {}
      [] verdict = "grant"    -> ready \cup {"safety"}
      [] verdict = "withhold" -> ready \ {"safety"}

\* The mask is loaded again for g_no_sys_authority: no other task clears MODE or
\* changes SAFETY, so a bit set in between could as well have come before or after.
StoreMask ==
    /\ At("store_mask")
    /\ ready' = MaskAfterVerdict
    /\ noAuthority' = ~({"safety", "mode"} \subseteq ready')
    /\ verdict' = "withhold"
    /\ Goto("peek")
    /\ UNCHANGED <<events, mailbox, stream, post, full, inHigh, inLow, latch>>
    /\ UNCHANGED <<sup, credit, heard, host, out>>

PeekHost ==
    /\ At("peek")
    /\ host' = mailbox
    /\ Goto("publish")
    /\ UNCHANGED <<events, ready, mailbox, stream, post, full, inHigh, inLow, latch, superv>>
    /\ UNCHANGED <<noAuthority, out>>

\* Mutant: the mode does not matter to the drive.
DriveAllowedInAnyMode(driving) == driving

DriveAllowed(driving) == driving /\ curMode = "Auto"

\* From the load of the mask to the output.  tripped: a heartbeat or the SES
\* fault zeroes the setpoints.  driving: the steering is active and the gear is
\* not N.  When the setpoints are zeroed the mask no longer matters, so a 0x300
\* between its load and the store of the mailbox could as well have come before.
\* What no later step reads (verdict, host, noAuthority) is reset.
Publish(tripped, driving) ==
    LET zeroed == pending \/ curMode = "Estop" \/ noAuthority \/ tripped
        moves  == ready = Streams /\ ~zeroed /\ DriveAllowed(driving)
    IN  /\ At("publish")
        /\ mailbox' = IF zeroed THEN "zero" ELSE mailbox
        /\ out' = IF moves THEN host ELSE "zero"
        /\ host' = "zero" /\ noAuthority' = TRUE
        /\ Goto("low_check")
        /\ UNCHANGED <<events, ready, stream, post, full, inHigh, inLow, latch, superv>>

\* monitor_can_bus_off: the low bus, then the high bus; either may be well.
LowBusOff ==
    /\ At("low_check") /\ "low_bus_off" \in Inputs
    /\ Post("control", "ESTOP")
    /\ Goto("low_zero")
    /\ UNCHANGED <<events, ready, mailbox, stream, full, inHigh, inLow, latch, superv, motion>>

HighBusOff ==
    /\ At("low_check") \/ At("high_check")
    /\ "high_bus_off" \in Inputs
    /\ Goto("high_zero")
    /\ UNCHANGED <<events, ready, mailbox, stream, post, full, inHigh, inLow, latch, superv, motion>>

Checks == {"low_check", "high_check", "stale_check"}

\* The end of the cycle: the 10 Hz check of the host watchdog finds the host
\* silent, or does not (or is not due).
HostStale ==
    /\ \E check \in Checks : At(check)
    /\ "host_silence" \in Inputs
    /\ ready' = ready \ {"host"}
    /\ Goto("stale_zero")
    /\ UNCHANGED <<events, mailbox, stream, post, full, inHigh, inLow, latch, superv, motion>>

CycleEnds ==
    /\ \E check \in Checks : At(check)
    /\ Goto("estop_flag")
    /\ UNCHANGED <<events, ready, mailbox, stream, post, full, inHigh, inLow, latch, superv, motion>>

AfterZero == [clear_zero |-> "drain", low_zero |-> "high_check", high_zero |-> "stale_check",
              stale_zero |-> "estop_flag"]

ZeroMailbox ==
    /\ pc.control \in DOMAIN AfterZero /\ Idle("control")
    /\ mailbox' = "zero"
    /\ Goto(AfterZero[pc.control])
    /\ UNCHANGED <<events, ready, stream, post, full, inHigh, inLow, latch, superv, motion>>

-----------------------------------------------------------------------------

\* A tick of esp_timer_get_time().
Tick ==
    /\ "clock" \in Inputs /\ stsAge <= StsTimeout
    /\ stsAge' = stsAge + 1
    /\ UNCHANGED <<events, ready, mailbox, stsNew, frames, post, full, inHigh, inLow>>
    /\ UNCHANGED <<latch, superv, motion, pc>>

Enqueue(t) == EventQueued(t) \/ QueueFull(t) \/ FlagStored(t)

Control ==
    \/ TakeEstopFlag \/ TakeModeFlag \/ TakeClearFlag \/ DrainEvent \/ DrainDone
    \/ \E late \in BOOLEAN : Supervise(late)
    \/ StoreMask \/ PeekHost
    \/ \E tripped, driving \in BOOLEAN : Publish(tripped, driving)
    \/ LowBusOff \/ HighBusOff \/ HostStale \/ CycleEnds \/ ZeroMailbox

Frame ==
    \/ \E c \in Commands : HostCommand(c)
    \/ HostSteerOrObstacle
    \/ \E t \in CanTasks : SafetyEstop(t)
    \/ \E asserted, advances \in BOOLEAN : SysSafetySts(asserted, advances)
    \/ \E m \in Modes : SysModeCmd(m)

Next == Frame \/ HostStored \/ Control \/ Tick \/ \E t \in Tasks : Enqueue(t)

Spec == Init /\ [][Next]_vars

\* The loop of control_task is periodic and never blocks in between; a handler
\* that has taken a frame ends.  A frame takes longer on the bus than a turn of
\* the drain loop, which therefore finds the queue empty at last.  Frames and the
\* clock are not fair.
FairSpec ==
    /\ Spec
    /\ WF_vars(Control) /\ SF_vars(DrainDone) /\ WF_vars(HostStored)
    /\ \A t \in Tasks : WF_vars(Enqueue(t))

-----------------------------------------------------------------------------
(* Properties.                                                              *)

\* An ESTOP that was enqueued while no clear was on its way (main.cpp:219-231) is
\* latched, or still in the queue or in its flag, until a clear is enqueued,
\* whatever the queue overflowed with and whichever task drains or posts.
EstopNeverDropped ==
    owed => \/ pending
            \/ estopFlag
            \/ \E i \in 1 .. Len(queue) : queue[i] = "ESTOP"

Published == pc.control \in Checks \cup {"low_zero", "high_zero", "stale_zero", "estop_flag"}

\* What control_task published moves the vehicle only in AUTO, with the 0x011
\* stream acquired and no ESTOP latched in that cycle (main.cpp:1246-1328), although
\* the CAN tasks go on setting bits of the mask while it decides.
MotionOnlyUnderAuthority ==
    Published /\ out = "drive" => ~pending /\ curMode = "Auto" /\ sup = "acquired"

\* After an ESTOP clear nothing moves before another 0x300 has arrived: a HOST bit
\* set between the latch and the clear does not count (main.cpp:1261).
MotionNeedsNewHostCommand ==
    Published /\ out = "drive" => hostHeard

\* When 0x011 stays away the output goes to zero and stays there, whatever the
\* host and 0x110 still send (safety_stream_loss.h:89-111, main.cpp:1289-1303).
SilentSysStops ==
    <>[](stsAge > StsTimeout) => <>[](out = "zero")

\* safety_stream_loss.h:8 and 31: RT acquires authority from two frames of 0x011.
AcquiredFromTwoFrames ==
    [][sup = "unacquired" /\ sup' = "acquired" => frames >= 2]_vars

EstopSource ==
    \/ \E t \in CanTasks : SafetyEstop(t)
    \/ \E advances \in BOOLEAN : SysSafetySts(TRUE, advances)
    \/ confirmed = 1 /\ SysSafetySts(FALSE, FALSE)
    \/ LowBusOff

\* safety_monitor.h:119-120: a latched ESTOP holds until two consecutive 0x011
\* frames show no ESTOP.  So once only such frames come, and they keep coming, the
\* latch is released.
ZeroFramesRelease ==
    <>[][~EstopSource]_vars /\ []<><<SysSafetySts(FALSE, TRUE)>>_vars => []<>~pending

=============================================================================
