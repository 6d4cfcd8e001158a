-------------------------- MODULE MtrManagerProofs --------------------------
(***************************************************************************)
(* Theorems about MtrManager, for all timeouts, dwells and loop times.     *)
(***************************************************************************)
EXTENDS MtrManager, TLAPS

\* An age grows within its limit.
LEMMA AgedInRange ==
    ASSUME NEW limit \in Nat, NEW age \in (0 .. limit) \cup {Never}, NEW d \in Nat \ {0}
    PROVE  /\ Aged(age, d, limit) \in (0 .. limit) \cup {Never}
           /\ age # Never => Aged(age, d, limit) \in 0 .. limit
  BY DEF Aged, Never

\* Where a frame leaves a stream.
LEMMA ObservedInRange ==
    ASSUME NEW stream \in Trust, NEW kind \in CounterKinds PROVE Observed(stream, kind) \subseteq Trust
  BY DEF Observed, Trust, CounterKinds

\* trigger_estop keeps the types of what it sets.
LEMMA LatchTypeOK ==
    ASSUME TypeOK, Latch
    PROVE  /\ latched' \in BOOLEAN /\ confirm' = 0 /\ ready' \subseteq Ready
           /\ speed' \in Speeds /\ target' \in Gears /\ active' \in Gears
           /\ dwell' \in (0 .. Dwell) \cup {Never}
           /\ relay' \in {"Off", "Park", "Drive", "Reverse"} /\ throttle' \in BOOLEAN
           /\ since' \subseteq {"mode", "on", "drive"} /\ openFor' \in 0 .. Dwell
  <1>1. throttle' \in BOOLEAN /\ latched' \in BOOLEAN
    BY Zenon DEF TypeOK, Latch, ForceZero
  <1> QED BY <1>1 DEF TypeOK, Latch, Speeds, Gears

LEMMA FrameTypeOK ==
    ASSUME TypeOK, SafetyEstop \/ CorruptSafetySts \/ OtherFrame PROVE TypeOK'
  <1>1. CASE SafetyEstop
    <2>1. Latch
      BY <1>1 DEF SafetyEstop
    <2> QED BY <1>1, <2>1, LatchTypeOK, MtrAssumption
         DEF TypeOK, SafetyEstop, Arrives, streams, command, watchdog
  <1>2. CASE CorruptSafetySts
    BY <1>2, MtrAssumption
       DEF TypeOK, CorruptSafetySts, Arrives, command, motion, watchdog, outputs, Trust
  <1>3. CASE OtherFrame
    BY <1>3, MtrAssumption
       DEF TypeOK, OtherFrame, Arrives, command, motion, watchdog, outputs, wire, streams
  <1> QED BY <1>1, <1>2, <1>3

LEMMA SafetyStsTypeOK ==
    ASSUME TypeOK, NEW asserted \in BOOLEAN, NEW kind \in CounterKinds, SysSafetySts(asserted, kind)
    PROVE  TypeOK'
  <1>1. /\ safety' \in Trust /\ rxAge' = 0
        /\ zeros' \in 0 .. 2 /\ lastSts' \in {"none", "assert", "zero"}
    BY ObservedInRange DEF TypeOK, SysSafetySts, Arrives
  <1>2. UNCHANGED <<auto, on, offSeen, tripped, recover, driveSeen, driveAge>>
    BY DEF SysSafetySts, command, watchdog
  <1>3. CASE UnheardSafetySts
    <2>1. ready' \subseteq Ready
      BY <1>3 DEF UnheardSafetySts, MaskAfterLoss, TypeOK
    <2> QED BY <1>1, <1>2, <1>3, <2>1, MtrAssumption DEF UnheardSafetySts, TypeOK, motion, outputs
  <1>4. CASE AssertedSafetySts
    <2>1. UNCHANGED <<mode, power, rearm>> /\ stsAge' = 0
      BY <1>4 DEF AssertedSafetySts
    <2>2. CASE latched
      <3>1. confirm' = 0 /\ UNCHANGED <<latched, ready, motion, outputs, since>>
        BY <1>4, <2>2 DEF AssertedSafetySts
      <3> QED BY <1>1, <1>2, <2>1, <3>1, MtrAssumption DEF TypeOK, motion, outputs
    <2>3. CASE ~latched
      <3>1. Latch
        BY <1>4, <2>3 DEF AssertedSafetySts
      <3> QED BY <1>1, <1>2, <2>1, <3>1, LatchTypeOK, MtrAssumption DEF TypeOK
    <2> QED BY <2>2, <2>3
  <1>5. CASE ZeroSafetySts(kind)
    <2>1. UNCHANGED <<motion, outputs>> /\ stsAge' = 0
      BY <1>5 DEF ZeroSafetySts
    <2>2. CASE Clears(kind)
      <3>1. AuthorizedClear
        BY <1>5, <2>2 DEF ZeroSafetySts
      <3>2. /\ confirm' = 0 /\ mode' \in Trust /\ power' \in Trust
            /\ rearm' = "pending" /\ ready' = {} /\ since' \subseteq since
        BY <3>1 DEF AuthorizedClear, MaskAfterClear, Trust
      <3>3. ready' \subseteq Ready /\ since' \subseteq {"mode", "on", "drive"}
        BY <3>2 DEF TypeOK
      <3>4. latched' \in BOOLEAN
        BY <3>1, Zenon DEF AuthorizedClear
      <3> QED BY <1>1, <1>2, <2>1, <3>2, <3>3, <3>4, MtrAssumption DEF TypeOK, motion, outputs
    <2>3. CASE ~Clears(kind)
      <3>1. /\ confirm' = IF latched THEN 1 ELSE 0
            /\ UNCHANGED <<latched, mode, power, rearm, ready, since>>
        BY <1>5, <2>3 DEF ZeroSafetySts
      <3> QED BY <1>1, <1>2, <2>1, <3>1, MtrAssumption DEF TypeOK, motion, outputs
    <2> QED BY <2>2, <2>3
  <1> QED BY <1>3, <1>4, <1>5 DEF SysSafetySts

LEMMA CommandTypeOK ==
    ASSUME TypeOK, NEW b \in BOOLEAN, NEW kind \in CounterKinds,
           \/ SysModeCmd(b, kind) \/ SysPwrCmd(b, kind)
           \/ \E v \in Speeds, g \in Gears : RtDriveCmd(v, g)
    PROVE  TypeOK'
  <1>1. CASE SysModeCmd(b, kind)
    <2>1. mode' \in Trust
      BY <1>1, ObservedInRange DEF SysModeCmd, TypeOK
    <2>2. auto' \in BOOLEAN
      BY <1>1, Zenon DEF SysModeCmd, TypeOK
    <2>3. ready' \subseteq Ready
      BY <1>1 DEF SysModeCmd, MaskAfterLoss, TypeOK, Ready
    <2> QED BY <1>1, <2>1, <2>2, <2>3, MtrAssumption
         DEF SysModeCmd, Arrives, TypeOK, motion, watchdog, outputs, wire
  <1>2. CASE SysPwrCmd(b, kind)
    <2>1. power' \in Trust
      BY <1>2, ObservedInRange DEF SysPwrCmd, TypeOK
    <2>2. on' \in BOOLEAN /\ offSeen' \in BOOLEAN
      BY <1>2, Zenon DEF SysPwrCmd, PowerOn, PowerOff, TypeOK
    <2>3. ready' \subseteq Ready /\ rearm' \in {"no", "pending", "done"}
      BY <1>2 DEF SysPwrCmd, PowerOn, PowerOff, MaskAfterLoss, TypeOK, Ready
    <2> QED BY <1>2, <2>1, <2>2, <2>3, MtrAssumption
         DEF SysPwrCmd, Arrives, TypeOK, motion, watchdog, outputs, wire
  <1>3. ASSUME NEW v \in Speeds, NEW g \in Gears, RtDriveCmd(v, g) PROVE TypeOK'
    <2>1. Recovery \in 0 .. RecoverFrames
      BY MtrAssumption DEF Recovery, TypeOK
    <2>2. tripped' \in BOOLEAN
      BY <1>3, Zenon DEF RtDriveCmd, TypeOK
    <2>3. ready' \subseteq Ready
      BY <1>3 DEF RtDriveCmd, TypeOK, Ready
    <2>4. driveAge' \in 0 .. DriveLimit
      BY <1>3, MtrAssumption DEF RtDriveCmd, DriveLimit
    <2> QED BY <1>3, <2>1, <2>2, <2>3, <2>4, MtrAssumption
         DEF RtDriveCmd, Arrives, TypeOK, streams, command, outputs, wire
  <1> QED BY <1>1, <1>2, <1>3

LEMMA SuperviseTypeOK ==
    ASSUME TypeOK, NEW d \in Nat \ {0}, Supervise(d)
    PROVE  /\ rxAge' \in (0 .. CommsTimeout + 1) \cup {Never}
           /\ stsAge' \in 0 .. StsTimeout + 1 /\ safety' \in Trust
           /\ confirm' \in 0 .. 1 /\ (confirm' = 1 => confirm = 1)
           /\ driveAge' \in (0 .. DriveLimit) \cup {Never}
           /\ tripped' \in BOOLEAN /\ recover' \in 0 .. RecoverFrames
           /\ ready' \subseteq ready /\ openFor' \in 0 .. Dwell
           /\ UNCHANGED <<latched, mode, power, command, rearm, driveSeen, wire, since, target>>
  <1>1. DriveLimit \in Nat
    BY MtrAssumption DEF DriveLimit
  <1>2. rxAge' \in (0 .. CommsTimeout + 1) \cup {Never}
    BY AgedInRange, MtrAssumption DEF Supervise, TypeOK
  <1>3. stsAge' \in 0 .. StsTimeout + 1
    BY AgedInRange, MtrAssumption DEF Supervise, TypeOK, Never
  <1>4. openFor' \in 0 .. Dwell
    BY AgedInRange, MtrAssumption DEF Supervise, TypeOK, Never
  <1>5. driveAge' \in (0 .. DriveLimit) \cup {Never}
    BY <1>1, AgedInRange DEF Supervise, TypeOK
  <1>6. safety' \in Trust /\ confirm' \in 0 .. 1 /\ (confirm' = 1 => confirm = 1)
    BY DEF Supervise, TypeOK, Trust
  <1>7. tripped' \in BOOLEAN
    BY Zenon DEF Supervise
  <1>8. recover' \in 0 .. RecoverFrames
    BY MtrAssumption DEF Supervise, TypeOK
  <1>9. ready' \subseteq ready
    BY DEF Supervise
  <1>10. UNCHANGED <<latched, mode, power, command, rearm, driveSeen, wire, since, target>>
    BY DEF Supervise
  <1> QED BY <1>2, <1>3, <1>4, <1>5, <1>6, <1>7, <1>8, <1>9, <1>10

\* What each kind of tick leaves in the variables that Supervise does not set.
LEMMA TickMoves ==
    ASSUME TypeOK, NEW d \in Nat \ {0},
           TickInhibited(d) \/ ShiftStarts(d) \/ Dwells(d) \/ Engages(d)
    PROVE  /\ throttle' \in BOOLEAN /\ speed' \in Speeds /\ active' \in Gears
           /\ relay' \in {"Off", "Park", "Drive", "Reverse"}
           /\ dwell' \in (0 .. Dwell) \cup {Never}
  <1>1. throttle \in BOOLEAN /\ (ForceZero => throttle' \in BOOLEAN)
    BY Zenon DEF TypeOK, ForceZero
  <1>2. /\ speed \in Speeds /\ active \in Gears /\ target \in Gears
        /\ relay \in {"Off", "Park", "Drive", "Reverse"}
        /\ dwell \in (0 .. Dwell) \cup {Never}
    BY DEF TypeOK
  <1>3. ASSUME NEW r, Energised(r) PROVE relay' \in {r, "Off"}
    BY <1>3 DEF Energised
  <1>4. CASE TickInhibited(d)
    <2>1. /\ speed' = "still" /\ active' = active /\ relay' = "Off" /\ ForceZero
          /\ dwell' = Aged(dwell, d, Dwell)
      BY <1>4 DEF TickInhibited
    <2>2. dwell' \in (0 .. Dwell) \cup {Never}
      BY <1>2, <2>1, AgedInRange, MtrAssumption
    <2> QED BY <1>1, <1>2, <2>1, <2>2 DEF Speeds
  <1>5. CASE ShiftStarts(d)
    <2>1. speed' = speed /\ active' = active /\ Energised("Park") /\ ForceZero /\ dwell' = 0
      BY <1>5 DEF ShiftStarts
    <2> QED BY <1>1, <1>2, <1>3, <2>1, MtrAssumption
  <1>6. CASE Dwells(d)
    <2>1. /\ speed' = speed /\ active' = active /\ relay' = relay /\ ForceZero
          /\ dwell # Never /\ dwell + d < Dwell /\ dwell' = dwell + d
      BY <1>6 DEF Dwells
    <2>2. dwell' \in 0 .. Dwell
      BY <1>2, <2>1, MtrAssumption
    <2> QED BY <1>1, <1>2, <2>1, <2>2
  <1>7. CASE Engages(d)
    <2>1. speed' = speed /\ active' = target /\ Energised(RelayOf[target]) /\ dwell' = Never
      BY <1>7 DEF Engages
    <2>2. throttle' \in BOOLEAN
      BY <1>1, <1>7, Zenon DEF Engages
    <2>3. RelayOf[target] \in {"Park", "Drive", "Reverse"}
      BY <1>2 DEF RelayOf, Gears
    <2> QED BY <1>1, <1>2, <1>3, <2>1, <2>2, <2>3
  <1> QED BY <1>4, <1>5, <1>6, <1>7

LEMMA TickTypeOK == ASSUME TypeOK, Tick PROVE TypeOK'
  <1> PICK d \in Laps : TickInhibited(d) \/ ShiftStarts(d) \/ Dwells(d) \/ Engages(d)
    BY DEF Tick
  <1>1. d \in Nat \ {0}
    BY MtrAssumption
  <1>2. Supervise(d)
    BY DEF TickInhibited, ShiftStarts, Dwells, Engages
  <1>3. /\ throttle' \in BOOLEAN /\ speed' \in Speeds /\ active' \in Gears
        /\ relay' \in {"Off", "Park", "Drive", "Reverse"}
        /\ dwell' \in (0 .. Dwell) \cup {Never}
    BY <1>1, TickMoves
  <1>4. /\ rxAge' \in (0 .. CommsTimeout + 1) \cup {Never}
        /\ stsAge' \in 0 .. StsTimeout + 1 /\ safety' \in Trust
        /\ driveAge' \in (0 .. DriveLimit) \cup {Never}
        /\ tripped' \in BOOLEAN /\ recover' \in 0 .. RecoverFrames
        /\ openFor' \in 0 .. Dwell
    BY <1>1, <1>2, SuperviseTypeOK
  <1>5. /\ confirm' \in 0 .. 1 /\ (confirm' = 1 => confirm = 1)
        /\ ready' \subseteq ready
        /\ UNCHANGED <<latched, mode, power, command, rearm, driveSeen, wire, since, target>>
    BY <1>1, <1>2, SuperviseTypeOK
  <1>6. confirm' = 1 => latched'
    BY <1>5, Zenon DEF TypeOK
  <1>7. /\ latched' \in BOOLEAN /\ auto' \in BOOLEAN /\ on' \in BOOLEAN
        /\ offSeen' \in BOOLEAN /\ driveSeen' \in BOOLEAN
    BY <1>5, Zenon DEF TypeOK, command
  <1>8. ready' \subseteq Ready /\ since' \subseteq {"mode", "on", "drive"}
    BY <1>5 DEF TypeOK
  <1>9. /\ mode' \in Trust /\ power' \in Trust /\ rearm' \in {"no", "pending", "done"}
        /\ target' \in Gears /\ zeros' \in 0 .. 2 /\ lastSts' \in {"none", "assert", "zero"}
    BY <1>5 DEF TypeOK, wire
  <1> QED BY <1>3, <1>4, <1>5, <1>6, <1>7, <1>8, <1>9 DEF TypeOK

LEMMA RebootTypeOK == ASSUME TypeOK, Reboot PROVE TypeOK'
  <1>1. throttle' \in BOOLEAN
    BY Zenon DEF TypeOK, Reboot, ForceZero
  <1>2. /\ latched' \in BOOLEAN /\ auto' \in BOOLEAN /\ on' \in BOOLEAN
        /\ offSeen' \in BOOLEAN /\ tripped' \in BOOLEAN /\ driveSeen' \in BOOLEAN
    BY Zenon DEF Reboot
  <1>3. confirm' = 0 /\ safety' \in Trust /\ mode' \in Trust /\ power' \in Trust
    BY DEF Reboot, Trust
  <1>4. ready' \subseteq Ready /\ rearm' = "no" /\ relay' = "Off"
    BY DEF Reboot
  <1>5. speed' \in Speeds /\ target' \in Gears /\ active' \in Gears
    BY DEF Reboot, Speeds, Gears
  <1>6. /\ dwell' \in (0 .. Dwell) \cup {Never} /\ recover' \in 0 .. RecoverFrames
        /\ driveAge' \in (0 .. DriveLimit) \cup {Never} /\ stsAge' \in 0 .. StsTimeout + 1
        /\ rxAge' \in (0 .. CommsTimeout + 1) \cup {Never}
    BY MtrAssumption DEF Reboot
  <1>7. since' \subseteq {"mode", "on", "drive"}
    BY DEF Reboot
  <1>8. UNCHANGED <<zeros, lastSts, openFor>>
    BY DEF Reboot, wire
  <1> QED BY <1>1, <1>2, <1>3, <1>4, <1>5, <1>6, <1>7, <1>8 DEF TypeOK

\* MTR is well typed in every reachable state: its ages, counts and dwell stay
\* within their limits (motor_manager.h 553-623).
THEOREM TypeCorrect == Spec => []TypeOK
  <1>1. Init => TypeOK
    <2> SUFFICES ASSUME Init PROVE TypeOK
      OBVIOUS
    <2>1. /\ latched \in BOOLEAN /\ auto \in BOOLEAN /\ on \in BOOLEAN /\ offSeen \in BOOLEAN
          /\ tripped \in BOOLEAN /\ driveSeen \in BOOLEAN /\ throttle \in BOOLEAN
      BY Zenon DEF Init
    <2>2. confirm = 0 /\ safety \in Trust /\ mode \in Trust /\ power \in Trust
      BY DEF Init, Trust
    <2>3. ready \subseteq Ready /\ rearm = "no" /\ relay = "Off" /\ lastSts = "none"
      BY DEF Init
    <2>4. speed \in Speeds /\ target \in Gears /\ active \in Gears
      BY DEF Init, Speeds, Gears
    <2>5. /\ dwell \in (0 .. Dwell) \cup {Never} /\ recover \in 0 .. RecoverFrames
          /\ driveAge \in (0 .. DriveLimit) \cup {Never}
          /\ rxAge \in (0 .. CommsTimeout + 1) \cup {Never}
      BY MtrAssumption DEF Init
    <2>6. stsAge \in 0 .. StsTimeout + 1 /\ zeros \in 0 .. 2 /\ openFor \in 0 .. Dwell
      BY MtrAssumption DEF Init
    <2>7. since \subseteq {"mode", "on", "drive"}
      BY DEF Init
    <2> QED BY <2>1, <2>2, <2>3, <2>4, <2>5, <2>6, <2>7 DEF TypeOK
  <1>2. TypeOK /\ [Next]_vars => TypeOK'
    <2> SUFFICES ASSUME TypeOK, Next \/ UNCHANGED vars PROVE TypeOK'
      OBVIOUS
    <2>1. CASE UNCHANGED vars
      BY <2>1 DEF vars, TypeOK, streams, command, motion, watchdog, outputs, wire
    <2>2. CASE Next
      <3>1. CASE SafetyEstop \/ CorruptSafetySts \/ OtherFrame
        BY <3>1, FrameTypeOK
      <3>2. ASSUME NEW b \in BOOLEAN, NEW kind \in Kinds,
                   SysSafetySts(b, kind) \/ SysModeCmd(b, kind) \/ SysPwrCmd(b, kind)
            PROVE  TypeOK'
        <4>1. kind \in CounterKinds
          BY MtrAssumption
        <4>2. CASE SysSafetySts(b, kind)
          BY <4>1, <4>2, SafetyStsTypeOK
        <4>3. CASE SysModeCmd(b, kind) \/ SysPwrCmd(b, kind)
          BY <4>1, <4>3, CommandTypeOK
        <4> QED BY <3>2, <4>2, <4>3
      <3>3. ASSUME NEW v \in Speeds, NEW g \in Gears, RtDriveCmd(v, g) PROVE TypeOK'
        <4>1. "next" \in CounterKinds
          BY DEF CounterKinds
        <4> QED BY <3>3, <4>1, CommandTypeOK
      <3>4. CASE Tick \/ Reboot
        BY <3>4, TickTypeOK, RebootTypeOK
      <3> QED BY <2>2, <3>1, <3>2, <3>3, <3>4 DEF Next
    <2> QED BY <2>1, <2>2
  <1> QED BY <1>1, <1>2, PTL DEF Spec

-----------------------------------------------------------------------------
(* The inductive invariant.                                                 *)

\* A ready bit was set by a frame that came since the boot or the last clear.
Earned ==
    /\ "mode" \in ready => "mode" \in since /\ mode = "valid"
    /\ "power" \in ready => "on" \in since
    /\ "drive" \in ready => "drive" \in since

\* A 0x011 that is heard and not latched was zero; a clear that waits to be
\* confirmed has seen one zero frame.
Heard ==
    /\ safety = "valid" /\ ~latched => lastSts = "zero"
    /\ confirm = 1 => zeros > 0

\* The relays are open while the dwell runs, and have been for as long.
Opened == dwell # Never => ~Engaged /\ openFor >= dwell

IInv == TypeOK /\ Earned /\ Heard /\ Opened /\ LatchOpensRelays /\ EngagedOnNewFrames

\* A frame leaves ready bits alone, adds its own or clears them all.
LEMMA MaskAfterLossShrinks ==
    ASSUME NEW stream PROVE MaskAfterLoss(stream) \in {ready, {}}
  BY DEF MaskAfterLoss

LEMMA EarnedStep == ASSUME TypeOK, Earned, [Next]_vars PROVE Earned'
  <1>1. ASSUME ready' = {} PROVE Earned'
    BY <1>1 DEF Earned
  <1>2. ASSUME ready' \subseteq ready, UNCHANGED <<mode, since>> PROVE Earned'
    BY <1>2 DEF Earned
  <1>3. CASE UNCHANGED vars
    BY <1>2, <1>3 DEF vars, streams
  <1>4. CASE SafetyEstop \/ CorruptSafetySts \/ OtherFrame \/ Reboot
    BY <1>1, <1>2, <1>4 DEF SafetyEstop, Latch, CorruptSafetySts, OtherFrame, Reboot, streams
  <1>5. ASSUME NEW b \in BOOLEAN, NEW kind, SysSafetySts(b, kind) PROVE Earned'
    <2>1. CASE UnheardSafetySts
      BY <1>1, <1>2, <2>1, MaskAfterLossShrinks DEF UnheardSafetySts
    <2>2. CASE AssertedSafetySts
      BY <1>1, <1>2, <2>2 DEF AssertedSafetySts, Latch
    <2>3. CASE ZeroSafetySts(kind)
      BY <1>1, <1>2, <2>3 DEF ZeroSafetySts, AuthorizedClear, MaskAfterClear
    <2> QED BY <1>5, <2>1, <2>2, <2>3 DEF SysSafetySts
  <1>6. ASSUME NEW b \in BOOLEAN, NEW kind, SysModeCmd(b, kind) PROVE Earned'
    <2>1. mode' \in Observed(mode, kind) /\ since' = since \cup {"mode"}
      BY <1>6 DEF SysModeCmd
    <2>2. CASE mode' = "valid"
      <3>1. ready' = ready \cup {"mode"}
        BY <1>6, <2>2 DEF SysModeCmd
      <3> QED BY <2>1, <2>2, <3>1 DEF Earned
    <2>3. CASE mode' # "valid"
      <3>1. ready' = MaskAfterLoss(mode)
        BY <1>6, <2>3 DEF SysModeCmd
      <3>2. mode = "valid" => ready' = {}
        BY <2>1, <2>3, <3>1 DEF MaskAfterLoss
      <3> QED BY <1>1, <2>1, <3>1, <3>2, MaskAfterLossShrinks DEF Earned
    <2> QED BY <2>2, <2>3
  <1>7. ASSUME NEW b \in BOOLEAN, NEW kind, SysPwrCmd(b, kind) PROVE Earned'
    <2>1. UNCHANGED mode
      BY <1>7 DEF SysPwrCmd
    <2>2. CASE b /\ PowerOn
      <3>1. since' = since \cup {"on"}
        BY <1>7, <2>2 DEF SysPwrCmd
      <3>2. ready' \subseteq ready \cup {"power"}
        BY <2>2 DEF PowerOn
      <3> QED BY <2>1, <3>1, <3>2 DEF Earned
    <2>3. CASE PowerOff
      <3>1. since \subseteq since' /\ ready' \subseteq ready
        BY <1>7, <2>3 DEF SysPwrCmd, PowerOff
      <3> QED BY <2>1, <3>1 DEF Earned
    <2>4. CASE ready' = MaskAfterLoss(power)
      <3>1. since \subseteq since'
        BY <1>7 DEF SysPwrCmd
      <3> QED BY <2>1, <2>4, <3>1, MaskAfterLossShrinks DEF Earned
    <2> QED BY <1>7, <2>2, <2>3, <2>4 DEF SysPwrCmd
  <1>8. ASSUME NEW v, NEW g, RtDriveCmd(v, g) PROVE Earned'
    <2>1. since' = since \cup {"drive"} /\ ready' \subseteq ready \cup {"drive"} /\ UNCHANGED mode
      BY <1>8 DEF RtDriveCmd, streams
    <2> QED BY <2>1 DEF Earned
  <1>9. CASE Tick
    <2>1. PICK d : Supervise(d)
      BY <1>9 DEF Tick, TickInhibited, ShiftStarts, Dwells, Engages
    <2> QED BY <1>2, <2>1 DEF Supervise
  <1> QED BY <1>3, <1>4, <1>5, <1>6, <1>7, <1>8, <1>9 DEF Next

LEMMA HeardStep == ASSUME TypeOK, Heard, [Next]_vars PROVE Heard'
  <1>1. ASSUME confirm' = 0, safety' # "valid" \/ latched' PROVE Heard'
    BY <1>1 DEF Heard
  <1>2. ASSUME UNCHANGED <<latched, confirm, safety, wire>> PROVE Heard'
    BY <1>2, Zenon DEF Heard, wire
  <1>3. CASE UNCHANGED vars
    BY <1>2, <1>3 DEF vars, streams
  <1>4. CASE SafetyEstop \/ CorruptSafetySts \/ Reboot
    BY <1>1, <1>4 DEF SafetyEstop, Latch, CorruptSafetySts, Reboot
  <1>5. CASE OtherFrame
    BY <1>2, <1>5 DEF OtherFrame, streams
  <1>6. ASSUME NEW b \in BOOLEAN, NEW kind, SysSafetySts(b, kind) PROVE Heard'
    <2>1. CASE UnheardSafetySts
      BY <1>1, <2>1 DEF UnheardSafetySts
    <2>2. CASE b /\ AssertedSafetySts
      <3>1. CASE latched
        <4>1. confirm' = 0 /\ UNCHANGED latched
          BY <2>2, <3>1 DEF AssertedSafetySts
        <4>2. latched'
          BY <3>1, <4>1
        <4> QED BY <1>1, <4>1, <4>2
      <3>2. CASE ~latched
        BY <1>1, <2>2, <3>2 DEF AssertedSafetySts, Latch
      <3> QED BY <3>1, <3>2
    <2>3. CASE ~b /\ ZeroSafetySts(kind)
      <3>1. lastSts' = "zero" /\ zeros' \in 1 .. 2
        BY <1>6, <2>3 DEF SysSafetySts
      <3> QED BY <3>1 DEF Heard
    <2> QED BY <1>6, <2>1, <2>2, <2>3 DEF SysSafetySts
  <1>7. ASSUME NEW b \in BOOLEAN, NEW kind, SysModeCmd(b, kind) \/ SysPwrCmd(b, kind) PROVE Heard'
    BY <1>2, <1>7 DEF SysModeCmd, SysPwrCmd
  <1>8. ASSUME NEW v, NEW g, RtDriveCmd(v, g) PROVE Heard'
    BY <1>2, <1>8 DEF RtDriveCmd, streams
  <1>9. CASE Tick
    <2>1. PICK d \in Laps : Supervise(d)
      BY <1>9 DEF Tick, TickInhibited, ShiftStarts, Dwells, Engages
    <2>2. /\ confirm' = 1 => confirm = 1
          /\ UNCHANGED <<latched, wire>>
      BY <2>1, SuperviseTypeOK, MtrAssumption
    <2>3. safety' = "valid" => safety = "valid"
      BY <2>1 DEF Supervise
    <2> QED BY <2>2, <2>3, Zenon DEF Heard, wire
  <1> QED BY <1>3, <1>4, <1>5, <1>6, <1>7, <1>8, <1>9 DEF Next

\* A tick leaves a direction engaged only if nothing inhibits it, and then the
\* relays follow the commanded gear and the dwell is over.
LEMMA TickEngages ==
    ASSUME TypeOK, Opened, NEW d,
           TickInhibited(d) \/ ShiftStarts(d) \/ Dwells(d) \/ Engages(d), Engaged'
    PROVE  Engages(d) /\ ~Inhibited /\ Ignition /\ relay' = RelayOf[target]
  <1>1. relay' \in {"Drive", "Reverse"}
    BY DEF Engaged
  <1>2. ~TickInhibited(d)
    BY <1>1 DEF TickInhibited
  <1>3. ~ShiftStarts(d)
    BY <1>1 DEF ShiftStarts, Energised
  <1>4. ~Dwells(d)
    BY <1>1 DEF Dwells, Opened, Engaged
  <1>5. Engages(d)
    BY <1>2, <1>3, <1>4
  <1>6. Energised(RelayOf[target]) /\ ~Inhibited
    BY <1>5 DEF Engages
  <1> QED BY <1>1, <1>5, <1>6 DEF Energised

\* The relays stay open as long as the dwell says they have been.
LEMMA OpenFor ==
    ASSUME TypeOK, Opened, NEW d \in Nat \ {0}, Supervise(d), dwell # Never
    PROVE  /\ openFor' = Aged(openFor, d, Dwell)
           /\ openFor' >= Aged(dwell, d, Dwell)
           /\ openFor' >= (IF dwell + d > Dwell THEN Dwell ELSE dwell + d)
  <1>1. openFor' = Aged(openFor, d, Dwell)
    BY DEF Supervise, Opened, Engaged
  <1>2. openFor \in 0 .. Dwell /\ dwell \in 0 .. Dwell /\ openFor >= dwell /\ Dwell \in Nat
    BY MtrAssumption DEF TypeOK, Opened
  <1> QED BY <1>1, <1>2 DEF Aged, Never

LEMMA RelayStep ==
    ASSUME IInv, Earned', [Next]_vars
    PROVE  Opened' /\ LatchOpensRelays' /\ EngagedOnNewFrames'
  <1> USE DEF IInv
  <1>1. ASSUME relay' = "Off", dwell' = Never
        PROVE  Opened' /\ LatchOpensRelays' /\ EngagedOnNewFrames'
    BY <1>1 DEF Opened, LatchOpensRelays, EngagedOnNewFrames, Engaged
  <1>2. ASSUME UNCHANGED <<relay, dwell, openFor>>, latched' => latched, since \subseteq since'
        PROVE  Opened' /\ LatchOpensRelays' /\ EngagedOnNewFrames'
    BY <1>2 DEF Opened, LatchOpensRelays, EngagedOnNewFrames, Engaged
  <1>3. CASE UNCHANGED vars
    BY <1>2, <1>3 DEF vars, outputs, motion
  <1>4. CASE SafetyEstop \/ Reboot
    BY <1>1, <1>4 DEF SafetyEstop, Latch, Reboot
  <1>5. CASE CorruptSafetySts \/ OtherFrame
    BY <1>2, <1>5 DEF CorruptSafetySts, OtherFrame, outputs, motion
  <1>6. ASSUME NEW b \in BOOLEAN, NEW kind, SysSafetySts(b, kind)
        PROVE  Opened' /\ LatchOpensRelays' /\ EngagedOnNewFrames'
    <2>1. CASE UnheardSafetySts
      BY <1>2, <2>1 DEF UnheardSafetySts, outputs, motion
    <2>2. CASE AssertedSafetySts
      BY <1>1, <1>2, <2>2 DEF AssertedSafetySts, Latch, outputs, motion
    <2>3. CASE ZeroSafetySts(kind) /\ Clears(kind)
      <3>1. UNCHANGED <<relay, dwell, openFor>> /\ AuthorizedClear /\ latched
        BY <2>3 DEF ZeroSafetySts, outputs, motion, Clears
      <3>2. relay = "Off"
        BY <3>1 DEF LatchOpensRelays
      <3>3. ~latched'
        BY <3>1 DEF AuthorizedClear
      <3> QED BY <3>1, <3>2, <3>3 DEF Opened, LatchOpensRelays, EngagedOnNewFrames, Engaged
    <2>4. CASE ZeroSafetySts(kind) /\ ~Clears(kind)
      BY <1>2, <2>4 DEF ZeroSafetySts, outputs, motion
    <2> QED BY <1>6, <2>1, <2>2, <2>3, <2>4 DEF SysSafetySts
  <1>7. ASSUME NEW b \in BOOLEAN, NEW kind, SysModeCmd(b, kind) \/ SysPwrCmd(b, kind)
        PROVE  Opened' /\ LatchOpensRelays' /\ EngagedOnNewFrames'
    BY <1>2, <1>7 DEF SysModeCmd, SysPwrCmd, outputs, motion
  <1>8. ASSUME NEW v, NEW g, RtDriveCmd(v, g)
        PROVE  Opened' /\ LatchOpensRelays' /\ EngagedOnNewFrames'
    BY <1>2, <1>8 DEF RtDriveCmd, outputs, motion
  <1>9. CASE Tick
    <2>1. PICK d \in Laps : TickInhibited(d) \/ ShiftStarts(d) \/ Dwells(d) \/ Engages(d)
      BY <1>9 DEF Tick
    <2>2. d \in Nat \ {0} /\ Dwell \in Nat \ {0}
      BY MtrAssumption
    <2>3. Supervise(d)
      BY <2>1 DEF TickInhibited, ShiftStarts, Dwells, Engages
    <2>4. UNCHANGED <<latched, since>> /\ ready' \subseteq ready /\ openFor' \in 0 .. Dwell
      BY <2>2, <2>3, SuperviseTypeOK
    <2>5. Engaged' => Engages(d) /\ ~Inhibited
      BY <2>1, TickEngages
    <2>6. Opened'
      <3>1. CASE TickInhibited(d)
        BY <2>2, <2>3, <3>1, OpenFor DEF TickInhibited, Opened, Engaged, Aged, Never
      <3>2. CASE ShiftStarts(d)
        BY <2>4, <3>2 DEF ShiftStarts, Opened, Engaged, Energised, Never
      <3>3. CASE Dwells(d)
        <4>1. dwell # Never /\ dwell' = dwell + d /\ dwell + d < Dwell /\ relay' = relay
          BY <3>3 DEF Dwells
        <4>2. openFor' >= dwell'
          BY <2>2, <2>3, <4>1, OpenFor DEF TypeOK
        <4> QED BY <4>1, <4>2 DEF Opened, Engaged
      <3>4. CASE Engages(d)
        BY <3>4 DEF Engages, Opened
      <3> QED BY <2>1, <3>1, <3>2, <3>3, <3>4
    <2>7. LatchOpensRelays'
      <3>1. ASSUME latched PROVE relay' = "Off"
        BY <2>1, <3>1 DEF TickInhibited, ShiftStarts, Dwells, Engages, Inhibited
      <3> QED BY <2>4, <3>1 DEF LatchOpensRelays
    <2>8. EngagedOnNewFrames'
      BY <2>5 DEF Inhibited, Earned, EngagedOnNewFrames, Ready
    <2> QED BY <2>6, <2>7, <2>8
  <1> QED BY <1>3, <1>4, <1>5, <1>6, <1>7, <1>8, <1>9 DEF Next

THEOREM Invariance == Spec => []IInv
  <1>1. Init => Earned /\ Heard /\ Opened /\ LatchOpensRelays /\ EngagedOnNewFrames
    BY DEF Init, Earned, Heard, Opened, LatchOpensRelays, EngagedOnNewFrames, Engaged
  <1>2. IInv /\ TypeOK' /\ [Next]_vars => IInv'
    BY EarnedStep, HeardStep, RelayStep DEF IInv
  <1>3. TypeOK /\ Earned /\ Heard /\ Opened /\ LatchOpensRelays /\ EngagedOnNewFrames => IInv
    BY DEF IInv
  <1> QED BY <1>1, <1>2, <1>3, TypeCorrect, PTL DEF Spec

\* A latched ESTOP keeps the relays open (motor_manager.h 352-357, 437-451).
THEOREM LatchHolds == Spec => []LatchOpensRelays
  <1>1. IInv => LatchOpensRelays
    BY DEF IInv
  <1> QED BY <1>1, Invariance, PTL

\* No direction is engaged on frames from before the boot or the last clear
\* (265-284).
THEOREM FreshAuthority == Spec => []EngagedOnNewFrames
  <1>1. IInv => EngagedOnNewFrames
    BY DEF IInv
  <1> QED BY <1>1, Invariance, PTL

\* A running node releases the ESTOP latch only on two zero 0x011 in a row
\* (212-262).
THEOREM ReleaseNeedsTwoZeros == Spec => TwoZerosRelease
  <1>1. IInv /\ [Next]_vars => [latched /\ ~latched' /\ rxAge' # Never => zeros' = 2]_vars
    <2> SUFFICES ASSUME IInv, Next, latched, ~latched', rxAge' # Never PROVE zeros' = 2
      OBVIOUS
    <2>1. ~SafetyEstop /\ ~CorruptSafetySts /\ ~OtherFrame /\ ~Reboot
      BY DEF SafetyEstop, Latch, CorruptSafetySts, OtherFrame, Reboot
    <2>2. ASSUME NEW b, NEW kind PROVE ~SysModeCmd(b, kind) /\ ~SysPwrCmd(b, kind)
      BY DEF SysModeCmd, SysPwrCmd
    <2>3. ASSUME NEW v, NEW g PROVE ~RtDriveCmd(v, g)
      BY DEF RtDriveCmd
    <2>4. ~Tick
      BY DEF Tick, TickInhibited, ShiftStarts, Dwells, Engages, Supervise
    <2>5. PICK b \in BOOLEAN, kind \in Kinds : SysSafetySts(b, kind)
      BY <2>1, <2>2, <2>3, <2>4 DEF Next
    <2>6. ~UnheardSafetySts /\ ~AssertedSafetySts
      BY DEF UnheardSafetySts, AssertedSafetySts
    <2>7. ~b /\ ZeroSafetySts(kind)
      BY <2>5, <2>6 DEF SysSafetySts
    <2>8. Clears(kind)
      BY <2>7 DEF ZeroSafetySts
    <2>9. confirm = 1 /\ kind = "next"
      BY <2>8 DEF Clears
    <2>10. zeros > 0
      BY <2>9 DEF IInv, Heard
    <2> QED BY <2>5, <2>7, <2>9, <2>10 DEF SysSafetySts
  <1> QED BY <1>1, Invariance, PTL DEF Spec, TwoZerosRelease

\* After a tick a closed direction relay means that the last intact 0x011 did
\* not assert (201-235, 352-357).
THEOREM AssertHolds == Spec => AssertOpensRelays
  <1>1. IInv /\ [Next]_vars => [Tick => (Engaged' => lastSts = "zero")]_vars
    <2> SUFFICES ASSUME IInv, Tick, Engaged' PROVE lastSts = "zero"
      OBVIOUS
    <2>1. PICK d \in Laps : TickInhibited(d) \/ ShiftStarts(d) \/ Dwells(d) \/ Engages(d)
      BY DEF Tick
    <2>2. Engages(d) /\ ~Inhibited
      BY <2>1, TickEngages DEF IInv
    <2>3. safety' = "valid" /\ ~latched
      BY <2>2 DEF Inhibited
    <2>4. safety = "valid"
      BY <2>2, <2>3 DEF Engages, Supervise
    <2> QED BY <2>3, <2>4 DEF IInv, Heard
  <1> QED BY <1>1, Invariance, PTL DEF Spec, AssertOpensRelays

\* After a tick a closed direction relay means that neither 0x011, nor the bus,
\* nor in AUTO 0x204 has been silent past its timeout (287-350).
THEOREM SilenceHolds == Spec => SilenceOpensRelays
  <1>1. IInv /\ [Next]_vars =>
          [Tick => (Engaged' => /\ stsAge' <= StsTimeout /\ rxAge' <= CommsTimeout
                                /\ auto => driveAge' <= DriveTimeout)]_vars
    <2> SUFFICES ASSUME IInv, Tick, Engaged'
                 PROVE  /\ stsAge' <= StsTimeout /\ rxAge' <= CommsTimeout
                        /\ auto => driveAge' <= DriveTimeout
      OBVIOUS
    <2>1. PICK d \in Laps : TickInhibited(d) \/ ShiftStarts(d) \/ Dwells(d) \/ Engages(d)
      BY DEF Tick
    <2>2. d \in Nat \ {0}
      BY MtrAssumption
    <2>3. Engages(d) /\ ~Inhibited /\ Ignition
      BY <2>1, TickEngages DEF IInv
    <2>4. Supervise(d)
      BY <2>3 DEF Engages
    <2>5. /\ stsAge' \in 0 .. StsTimeout + 1 /\ ready' \subseteq ready
          /\ rxAge' \in (0 .. CommsTimeout + 1) \cup {Never}
          /\ driveAge' \in (0 .. DriveLimit) \cup {Never}
      BY <2>2, <2>4, SuperviseTypeOK DEF IInv
    <2>6. CommsTimeout \in Nat /\ StsTimeout \in Nat /\ DriveTimeout \in Nat /\ DriveLimit \in Nat
      BY MtrAssumption DEF DriveLimit
    <2>7. safety' = "valid" /\ ~LinkSilent /\ ~tripped' /\ ready' = Ready
      BY <2>3 DEF Inhibited
    <2>8. stsAge' <= StsTimeout
      BY <2>4, <2>5, <2>6, <2>7 DEF Supervise, SafetyExpires
    <2>9. rxAge' <= CommsTimeout
      BY <2>5, <2>6, <2>7 DEF LinkSilent, Never
    <2>10. ASSUME auto PROVE driveAge' <= DriveTimeout
      <3>1. mode = "valid"
        BY <2>5, <2>7 DEF IInv, Earned, Ready
      <3>2. DriveExpected
        BY <2>3, <2>10, <3>1 DEF DriveExpected
      <3>3. ~tripped /\ ~DriveTrips
        BY <2>4, <2>7, <3>2 DEF Supervise
      <3>4. ~(driveAge' > DriveTimeout)
        BY <3>2, <3>3 DEF DriveTrips
      <3> QED BY <2>5, <2>6, <3>4 DEF Never
    <2> QED BY <2>8, <2>9, <2>10
  <1> QED BY <1>1, Invariance, PTL DEF Spec, SilenceOpensRelays

\* Between drive and reverse the relays stay open for a whole dwell (378-402).
THEOREM ReversalHolds == Spec => ReversalDwells
  <1> DEFINE Reverses ==
        /\ relay # "Reverse" /\ relay' = "Reverse" /\ <<active, target>> = <<"D", "R">> => openFor' = Dwell
        /\ relay # "Drive" /\ relay' = "Drive" /\ <<active, target>> = <<"R", "D">> => openFor' = Dwell
  <1>1. IInv /\ [Next]_vars => [Reverses]_vars
    <2> SUFFICES ASSUME IInv, Next, DirectionShift, Engaged', relay' # relay PROVE openFor' = Dwell
      BY DEF DirectionShift, Engaged
    <2>1. ~SafetyEstop /\ ~CorruptSafetySts /\ ~OtherFrame /\ ~Reboot
      BY DEF SafetyEstop, Latch, CorruptSafetySts, OtherFrame, Reboot, outputs, Engaged
    <2>2. ASSUME NEW b, NEW kind
          PROVE  ~SysSafetySts(b, kind) /\ ~SysModeCmd(b, kind) /\ ~SysPwrCmd(b, kind)
      BY DEF SysSafetySts, UnheardSafetySts, AssertedSafetySts, Latch, ZeroSafetySts,
             SysModeCmd, SysPwrCmd, outputs, Engaged
    <2>3. ASSUME NEW v, NEW g PROVE ~RtDriveCmd(v, g)
      BY DEF RtDriveCmd, outputs
    <2>4. PICK d \in Laps : TickInhibited(d) \/ ShiftStarts(d) \/ Dwells(d) \/ Engages(d)
      BY <2>1, <2>2, <2>3 DEF Next, Tick
    <2>5. d \in Nat \ {0} /\ Dwell \in Nat \ {0}
      BY MtrAssumption
    <2>6. Engages(d)
      BY <2>4, TickEngages DEF IInv
    <2>7. dwell # Never /\ dwell + d >= Dwell /\ Supervise(d)
      BY <2>6 DEF Engages
    <2>8. openFor' \in 0 .. Dwell
      BY <2>5, <2>7, SuperviseTypeOK DEF IInv
    <2>9. dwell \in 0 .. Dwell
      BY <2>7 DEF IInv, TypeOK
    <2>10. openFor' >= (IF dwell + d > Dwell THEN Dwell ELSE dwell + d)
      BY <2>5, <2>7, OpenFor DEF IInv
    <2> QED BY <2>5, <2>7, <2>8, <2>9, <2>10
  <1> QED BY <1>1, Invariance, PTL DEF Spec, ReversalDwells
=============================================================================
