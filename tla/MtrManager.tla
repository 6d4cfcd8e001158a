----------------------------- MODULE MtrManager -----------------------------
(***************************************************************************)
(* The motor node (mtr-stm32): MotorManager::handle_frame, tick and        *)
(* trigger_estop with the relays and the throttle DAC behind them.  One    *)
(* loop drains the CAN frames and then ticks, so every handler is atomic;  *)
(* what is hard is the order of the frames, their loss, and time.          *)
(*                                                                         *)
(* Abstracted: a speed is its sign; a counter is how it follows that of    *)
(* the frame before; a stream is what StreamTrust says of it, which        *)
(* StreamValidity implements; diagnostics and telemetry are left out.      *)
(* Ages are in ticks of the loop, saturating past their last limit.        *)
(***************************************************************************)
EXTENDS Integers, StreamTrust

CONSTANTS
    CommsTimeout, StsTimeout, DriveTimeout,  \* kWatchdogTimeoutMs, kSafetyFreshMs, kDriveCmdTimeoutMs
    RecoverGap, RecoverFrames,               \* kDriveCmdRecoverMaxGapMs, kDriveCmdRecoverFrames
    Dwell,                                   \* kShiftDwellMs
    Laps,      \* how many ticks of the clock one turn of the loop may take
    Frames,    \* the frames of an instance
    Kinds,     \* how their counters may follow one another
    Setpoints  \* the speeds and gears of an instance's 0x204 commands

FrameKinds   == {"estop", "assert", "zero", "corrupt", "auto", "manual", "on", "off",
                 "drive", "other", "nack", "reboot"}
Speeds == {"still", "fwd", "rev"}
Gears  == {"N", "D", "S", "R"}

ASSUME MtrAssumption ==
    /\ CommsTimeout \in Nat /\ StsTimeout \in Nat /\ DriveTimeout \in Nat
    /\ RecoverGap \in Nat /\ RecoverFrames \in Nat \ {0} /\ Dwell \in Nat \ {0}
    /\ Laps \subseteq Nat \ {0}
    /\ Frames \subseteq FrameKinds /\ Kinds \subseteq CounterKinds
    /\ Setpoints \subseteq Speeds \cup Gears

Ready == {"mode", "power", "drive"}         \* MTR_REQUIRED_READY
Never == -1

VARIABLES
    latched,   \* estop_active_
    confirm,   \* clear_confirm_; last_estop_zero_ is confirm = 1 while latched
    safety, mode, power,    \* safety_val_, mode_val_, pwr_val_: "valid" is ..._valid_
    auto,      \* current_mode_ is Auto
    on,        \* power_state_on_
    ready,     \* mtr_ready_mask_
    rearm,     \* rearm_required_, rearm_observed_
    offSeen,   \* rearm_off_seen_
    speed, target, active,  \* target_speed_mmps_, target_gear_, active_gear_
    dwell,     \* now - shift_dwell_start_ms_, Never when it is 0
    tripped,   \* drive_cmd_timed_out_
    recover,   \* drive_recover_count_
    driveSeen, \* drive_seen_
    driveAge,  \* since last_drive_ms_, or since expected_since_ms_ until it is set
    stsAge,    \* since last_safety_ms_
    rxAge,     \* since last_rx_ms_, Never before the first frame
    relay,     \* RelayController::state_
    throttle,  \* the DAC's current_code_ is not 0
    \* history, read by the properties only
    zeros,     \* zero 0x011 frames in a row that count one on, up to two
    lastSts,   \* what the last intact 0x011 said
    since,     \* the frames that came since the boot, the latch or its clear
    openFor    \* how long the relays had engaged no direction, up to the dwell

streams  == <<safety, mode, power>>
command  == <<auto, on, offSeen>>
motion   == <<speed, target, active, dwell>>
watchdog == <<tripped, recover, driveSeen, driveAge>>
outputs  == <<relay, throttle, openFor>>
wire     == <<zeros, lastSts>>
vars == <<latched, confirm, streams, command, ready, rearm, motion, watchdog, stsAge, rxAge,
          outputs, wire, since>>

DriveLimit == 1 + IF DriveTimeout > RecoverGap THEN DriveTimeout ELSE RecoverGap

TypeOK ==
    /\ latched \in BOOLEAN /\ confirm \in 0 .. 1 /\ (confirm = 1 => latched)
    /\ safety \in Trust /\ mode \in Trust /\ power \in Trust
    /\ auto \in BOOLEAN /\ on \in BOOLEAN /\ offSeen \in BOOLEAN
    /\ ready \subseteq Ready /\ rearm \in {"no", "pending", "done"}
    /\ speed \in Speeds /\ target \in Gears /\ active \in Gears
    /\ dwell \in (0 .. Dwell) \cup {Never}
    /\ tripped \in BOOLEAN /\ recover \in 0 .. RecoverFrames
    /\ driveSeen \in BOOLEAN /\ driveAge \in (0 .. DriveLimit) \cup {Never}
    /\ stsAge \in 0 .. StsTimeout + 1
    /\ rxAge \in (0 .. CommsTimeout + 1) \cup {Never}
    /\ relay \in {"Off", "Park", "Drive", "Reverse"} /\ throttle \in BOOLEAN
    /\ zeros \in 0 .. 2 /\ lastSts \in {"none", "assert", "zero"}
    /\ since \subseteq {"mode", "on", "drive"} /\ openFor \in 0 .. Dwell

\* MotorManager::init
Init ==
    /\ latched = FALSE /\ confirm = 0
    /\ safety = "none" /\ mode = "none" /\ power = "none"
    /\ auto = FALSE /\ on = FALSE /\ offSeen = FALSE
    /\ ready = {} /\ rearm = "no"
    /\ speed = "still" /\ target = "N" /\ active = "N" /\ dwell = Never
    /\ tripped = FALSE /\ recover = 0 /\ driveSeen = FALSE /\ driveAge = Never
    /\ stsAge = 0 /\ rxAge = Never
    /\ relay = "Off" /\ throttle = FALSE
    /\ zeros = 0 /\ lastSts = "none" /\ since = {} /\ openFor = Dwell

\* Every frame, whatever it is, feeds the watchdog of the link.
Arrives(f) == f \in Frames /\ rxAge' = 0

\* A frame that costs a stream its authority clears the mask, on_authority_loss.
MaskAfterLoss(stream) == IF stream = "valid" THEN {} ELSE ready

-----------------------------------------------------------------------------
(* 0x001 and 0x011                                                          *)

\* DacController::force_zero: without an acknowledgement the old code stays.
ForceZero == throttle' \in IF "nack" \in Frames THEN {throttle, FALSE} ELSE {FALSE}

\* trigger_estop
Latch ==
    /\ latched' = TRUE
    /\ confirm' = 0
    /\ ready' = {}
    /\ speed' = "still" /\ target' = "N" /\ active' = "N" /\ dwell' = Never
    /\ relay' = "Off" /\ ForceZero
    /\ since' = {}
    /\ UNCHANGED openFor

SafetyEstop ==
    /\ Arrives("estop")
    /\ Latch
    /\ zeros' = 0
    /\ UNCHANGED <<streams, command, rearm, watchdog, stsAge, lastSts>>

CorruptSafetySts ==
    /\ Arrives("corrupt")
    /\ safety' = "none"
    /\ confirm' = 0
    /\ ready' = {}
    /\ zeros' = 0
    /\ UNCHANGED <<latched, mode, power, command, rearm, motion, watchdog, stsAge, outputs>>
    /\ UNCHANGED <<lastSts, since>>

\* The counter of a 0x011 costs the authority of the stream, or does not give
\* it yet: what the frame says is not heard.
UnheardSafetySts ==
    /\ safety' # "valid"
    /\ confirm' = 0
    /\ ready' = MaskAfterLoss(safety)
    /\ UNCHANGED <<latched, mode, power, rearm, motion, stsAge, outputs, since>>

\* Mutant: while a REARM is pending an assert does not latch.
AssertIgnoredInRearm ==
    /\ safety' = "valid"
    /\ stsAge' = 0
    /\ IF latched \/ rearm = "pending"
       THEN confirm' = 0 /\ UNCHANGED <<latched, ready, motion, outputs, since>>
       ELSE Latch
    /\ UNCHANGED <<mode, power, rearm>>

AssertedSafetySts ==
    /\ safety' = "valid"
    /\ stsAge' = 0
    /\ IF latched
       THEN confirm' = 0 /\ UNCHANGED <<latched, ready, motion, outputs, since>>
       ELSE Latch
    /\ UNCHANGED <<mode, power, rearm>>

\* Mutant: any second zero frame confirms the clear.
ClearsOnAnyZero(kind) == latched /\ confirm = 1

\* Two zero frames in a row, the second counting one on.
Clears(kind) == latched /\ confirm = 1 /\ kind = "next"

\* Mutant: the clear leaves the ready mask alone.
MaskKeptByClear == ready

MaskAfterClear == {}

\* authorized_clear
AuthorizedClear ==
    /\ latched' = FALSE
    /\ confirm' = 0
    /\ mode' = "none" /\ power' = "none"
    /\ rearm' = "pending"
    /\ ready' = MaskAfterClear
    /\ since' = {}

ZeroSafetySts(kind) ==
    /\ safety' = "valid"
    /\ stsAge' = 0
    /\ IF Clears(kind)
       THEN AuthorizedClear
       ELSE /\ confirm' = IF latched THEN 1 ELSE 0
            /\ UNCHANGED <<latched, mode, power, rearm, ready, since>>
    /\ UNCHANGED <<motion, outputs>>

\* An intact 0x011.
SysSafetySts(asserted, kind) ==
    /\ Arrives(IF asserted THEN "assert" ELSE "zero")
    /\ safety' \in Observed(safety, kind)
    /\ \/ UnheardSafetySts
       \/ asserted /\ AssertedSafetySts
       \/ ~asserted /\ ZeroSafetySts(kind)
    /\ lastSts' = IF asserted THEN "assert" ELSE "zero"
    /\ zeros' = IF asserted THEN 0 ELSE IF zeros > 0 /\ kind = "next" THEN 2 ELSE 1
    /\ UNCHANGED <<command, watchdog>>

-----------------------------------------------------------------------------
(* 0x110, 0x113, 0x204 and the rest                                         *)

SysModeCmd(isAuto, kind) ==
    /\ Arrives(IF isAuto THEN "auto" ELSE "manual")
    /\ mode' \in Observed(mode, kind)
    /\ IF mode' = "valid"
       THEN auto' = isAuto /\ ready' = ready \cup {"mode"}
       ELSE ready' = MaskAfterLoss(mode) /\ UNCHANGED auto
    /\ since' = since \cup {"mode"}
    /\ UNCHANGED <<latched, confirm, safety, power, on, offSeen, rearm, motion, watchdog>>
    /\ UNCHANGED <<stsAge, outputs, wire>>

\* An ON completes a pending REARM once an OFF has been seen and 0x110 is valid.
Rearms == offSeen /\ mode = "valid"

PowerOn ==
    /\ on' = TRUE
    /\ ready' = IF rearm = "no" \/ Rearms THEN ready \cup {"power"}
                ELSE IF ~offSeen THEN ready \ {"power"} ELSE ready
    /\ rearm' = IF rearm # "no" /\ Rearms THEN "done" ELSE rearm
    /\ UNCHANGED offSeen

PowerOff ==
    /\ on' = FALSE
    /\ offSeen' = TRUE
    /\ ready' = ready \ {"power"}
    /\ UNCHANGED rearm

SysPwrCmd(isOn, kind) ==
    /\ Arrives(IF isOn THEN "on" ELSE "off")
    /\ power' \in Observed(power, kind)
    /\ \/ power' = "valid" /\ isOn /\ PowerOn
       \/ power' = "valid" /\ ~isOn /\ PowerOff
       \/ power' # "valid" /\ ready' = MaskAfterLoss(power) /\ UNCHANGED <<on, offSeen, rearm>>
    /\ since' = since \cup (IF isOn THEN {"on"} ELSE {})
    /\ UNCHANGED <<latched, confirm, safety, mode, auto, motion, watchdog, stsAge, outputs, wire>>

\* Mutant: the count of the recovery does not stop.
RecoveryUnbounded == IF driveSeen /\ driveAge > RecoverGap THEN 1 ELSE recover + 1

\* Recovery counts frames in cadence; a gap starts it again.
Recovery ==
    IF driveSeen /\ driveAge > RecoverGap THEN 1
    ELSE IF recover < RecoverFrames THEN recover + 1 ELSE recover

TripEnds == ~tripped \/ Recovery >= RecoverFrames

RtDriveCmd(v, g) ==
    /\ Arrives("drive")
    /\ mode = "valid"
    /\ speed' = v /\ target' = g
    /\ recover' = Recovery
    /\ driveSeen' = TRUE /\ driveAge' = 0
    /\ tripped' = (tripped /\ ~TripEnds)
    /\ ready' = IF TripEnds THEN ready \cup {"drive"} ELSE ready
    /\ since' = since \cup {"drive"}
    /\ UNCHANGED <<latched, confirm, streams, command, rearm, active, dwell, stsAge>>
    /\ UNCHANGED <<outputs, wire>>

\* A 0x204 without mode authority, or a frame MTR does not read.
OtherFrame ==
    /\ Arrives("other")
    /\ UNCHANGED <<latched, confirm, streams, command, ready, rearm, motion, watchdog, stsAge>>
    /\ UNCHANGED <<outputs, wire, since>>

-----------------------------------------------------------------------------
(* tick                                                                     *)

Aged(age, d, limit) ==
    IF age = Never THEN Never ELSE IF age + d > limit THEN limit ELSE age + d

\* Mutant: the age of 0x011 is looked at only when a frame arrives.
SafetyNeverExpires == FALSE

SafetyExpires == safety = "valid" /\ stsAge' > StsTimeout

LinkSilent == rxAge' > CommsTimeout

Ignition == power = "valid" /\ on /\ safety' = "valid" /\ rearm # "pending"

DriveExpected == mode = "valid" /\ auto /\ Ignition

DriveTrips == DriveExpected /\ ~tripped /\ driveAge' > DriveTimeout

\* The clocks and the three watchdogs.
Supervise(d) ==
    /\ rxAge' = Aged(rxAge, d, CommsTimeout + 1)
    /\ stsAge' = Aged(stsAge, d, StsTimeout + 1)
    /\ safety' = IF SafetyExpires THEN "none" ELSE safety
    /\ confirm' = IF SafetyExpires THEN 0 ELSE confirm
    /\ driveAge' = IF driveSeen \/ (DriveExpected /\ driveAge # Never)
                   THEN Aged(driveAge, d, DriveLimit)
                   ELSE IF DriveExpected THEN 0 ELSE Never
    /\ tripped' = (DriveExpected /\ (tripped \/ DriveTrips))
    /\ recover' = IF DriveTrips \/ ~DriveExpected THEN 0 ELSE recover
    /\ ready' = IF SafetyExpires \/ LinkSilent THEN {}
                ELSE IF DriveTrips THEN ready \ {"drive"} ELSE ready
    /\ openFor' = IF relay \in {"Drive", "Reverse"} THEN 0 ELSE Aged(openFor, d, Dwell)
    /\ UNCHANGED <<latched, mode, power, command, rearm, driveSeen, wire, since, target>>

\* Mutant: the ready mask stands for the latch.
InhibitedByReadiness ==
    LinkSilent \/ tripped' \/ power # "valid" \/ safety' # "valid" \/ ready' # Ready

Inhibited ==
    \/ latched \/ LinkSilent \/ tripped'
    \/ power # "valid" \/ safety' # "valid" \/ rearm = "pending"
    \/ ready' # Ready

\* The dwell clock runs on while propulsion is inhibited.
TickInhibited(d) ==
    /\ Supervise(d)
    /\ Inhibited
    /\ speed' = "still"
    /\ dwell' = Aged(dwell, d, Dwell)
    /\ relay' = "Off" /\ ForceZero
    /\ UNCHANGED active

\* Mutant: only a shift from drive to reverse dwells.
ShiftsToReverse == <<active, target>> = <<"D", "R">>

DirectionShift == <<active, target>> \in {<<"D", "R">>, <<"R", "D">>}

Energised(r) == relay' = IF Ignition THEN r ELSE "Off"

ShiftStarts(d) ==
    /\ Supervise(d)
    /\ ~Inhibited
    /\ DirectionShift /\ dwell = Never
    /\ dwell' = 0
    /\ Energised("Park") /\ ForceZero
    /\ UNCHANGED <<speed, active>>

Dwells(d) ==
    /\ Supervise(d)
    /\ ~Inhibited
    /\ dwell # Never /\ dwell + d < Dwell
    /\ dwell' = dwell + d
    /\ ForceZero
    /\ UNCHANGED <<speed, active, relay>>

RelayOf == [N |-> "Park", D |-> "Drive", S |-> "Drive", R |-> "Reverse"]

\* Which setpoints open the throttle: reverse takes either sign.
Driving == Ignition /\ <<target, speed>> \in {<<"D", "fwd">>, <<"R", "fwd">>, <<"R", "rev">>}

Engages(d) ==
    /\ Supervise(d)
    /\ ~Inhibited
    /\ IF dwell = Never THEN ~DirectionShift ELSE dwell + d >= Dwell
    /\ dwell' = Never
    /\ active' = target
    /\ Energised(RelayOf[target])
    /\ IF Driving
       THEN throttle' \in IF "nack" \in Frames THEN {throttle, TRUE} ELSE {TRUE}
       ELSE ForceZero
    /\ UNCHANGED speed

Tick == \E d \in Laps : TickInhibited(d) \/ ShiftStarts(d) \/ Dwells(d) \/ Engages(d)

\* The independent watchdog resets the node: init again, on the same wire.
Reboot ==
    /\ "reboot" \in Frames
    /\ latched' = FALSE /\ confirm' = 0
    /\ safety' = "none" /\ mode' = "none" /\ power' = "none"
    /\ auto' = FALSE /\ on' = FALSE /\ offSeen' = FALSE
    /\ ready' = {} /\ rearm' = "no"
    /\ speed' = "still" /\ target' = "N" /\ active' = "N" /\ dwell' = Never
    /\ tripped' = FALSE /\ recover' = 0 /\ driveSeen' = FALSE /\ driveAge' = Never
    /\ stsAge' = 0 /\ rxAge' = Never
    /\ relay' = "Off" /\ ForceZero
    /\ since' = {}
    /\ UNCHANGED <<wire, openFor>>

Next ==
    \/ SafetyEstop \/ CorruptSafetySts \/ OtherFrame
    \/ \E b \in BOOLEAN, kind \in Kinds :
          SysSafetySts(b, kind) \/ SysModeCmd(b, kind) \/ SysPwrCmd(b, kind)
    \/ \E v \in Setpoints \cap Speeds, g \in Setpoints \cap Gears : RtDriveCmd(v, g)
    \/ Tick \/ Reboot

Spec == Init /\ [][Next]_vars

-----------------------------------------------------------------------------
(* Properties                                                               *)

Engaged == relay \in {"Drive", "Reverse"}
Moving  == Engaged /\ throttle

\* A latched ESTOP keeps the relays open, whatever frames and ticks follow
\* (motor_manager.h 352-357, 438-451).
LatchOpensRelays == latched => relay = "Off"

\* No direction is engaged before 0x110, 0x113 ON and 0x204 have all come
\* since the boot or since the last clear of the ESTOP latch (265-284).
EngagedOnNewFrames == Engaged => {"mode", "on", "drive"} \subseteq since

\* A running node releases the latch only on two zero 0x011 frames in a row,
\* the second counting one on, with no assert, 0x001 or damaged frame between
\* or before them since the last assert (212-262).
TwoZerosRelease == [][latched /\ ~latched' /\ rxAge' # Never => zeros' = 2]_vars

\* After a tick the relays are open if the last intact 0x011 asserted, even
\* when its counter kept it from being heard (201-235, 352-357).
AssertOpensRelays == [][Tick => (Engaged' => lastSts = "zero")]_vars

\* After a tick the relays are open if 0x011 or the bus has been silent past
\* its timeout, or 0x204 in AUTO (287-350).
SilenceOpensRelays ==
    [][Tick => (Engaged' => /\ stsAge' <= StsTimeout /\ rxAge' <= CommsTimeout
                            /\ auto => driveAge' <= DriveTimeout)]_vars

\* The relays never close on one direction less than a dwell after they opened
\* on the other (378-402).
ReversalDwells ==
    [][/\ relay # "Reverse" /\ relay' = "Reverse" /\ <<active, target>> = <<"D", "R">> => openFor' = Dwell
       /\ relay # "Drive" /\ relay' = "Drive" /\ <<active, target>> = <<"R", "D">> => openFor' = Dwell]_vars

\* A REARM pairs its ON with an OFF of the same ESTOP (599-600): a new latch
\* forgets the one before.  (Fails: the OFF is kept for good.)
OffIsOfThisEstop == [][~latched /\ latched' => ~offSeen']_vars

\* No throttle outlives the drive commands (config.h 76-81).
ThrottleIsCommanded == [][Tick => (Moving' => driveAge' <= DriveTimeout)]_vars
=============================================================================
