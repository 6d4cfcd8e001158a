------------------------------ MODULE SysMode ------------------------------
(***************************************************************************)
(* The mode and authority core of the SYS node: ModeManager                *)
(* (mode_manager.cpp), the latched brake fault (inhibit_state.h) and the   *)
(* FreeRTOS tasks that read and write them (main.cpp).                     *)
(*                                                                         *)
(* The tasks run unpinned on two cores and share relaxed atomics without a *)
(* lock, so a task may be interrupted between reading an atomic and        *)
(* storing one.  Each action is one stretch of a task that ends at a store *)
(* another task can see, or at a read of an atomic that decides what is    *)
(* stored or sent; pc gives the place of each task and call the place it   *)
(* has reached inside enter_estop.                                         *)
(*                                                                         *)
(* Abstracted: the kind of control path is the production one; the 0x001   *)
(* suppression windows, the wheel speed, the MTR acknowledgement and the   *)
(* token of a remote reset are free choices of the environment; counters   *)
(* saturate where the code only compares them with a bound.                *)
(***************************************************************************)
EXTENDS Integers

CONSTANTS
    LongPressTicks,  \* kEstopLongPressMs / 100: ticks of a MODE hold that resets
    DebounceTicks,   \* kDebounceMs / 100
    Inputs           \* the inputs the environment of an instance moves

InputKinds == {"start", "hmi_mode", "hmi_pwr", "reset_req", "can_estop",
               "seb_status", "seb_errinfo", "mushroom", "lever", "heartbeat",
               "seb_comms", "task_deadline"}

ASSUME SysModeAssumption ==
    /\ LongPressTicks \in Nat \ {0}
    /\ DebounceTicks \in Nat
    /\ Inputs \subseteq InputKinds

Modes   == {"Manual", "Auto", "Estop"}
Raisers == {"safety", "dispatch", "diag"}

\* What blocks traction in any mode: START released, an inhibit, a latched fault.
Causes == {"run", "inhibit", "latch"}

VARIABLES
    \* atomics shared by the tasks
    mode,       \* ModeManager::m_mode
    run,        \* ModeManager::m_run_enabled
    latched,    \* kLatchedSebL3 in g_latched_fault_reasons
    sebL3,      \* g_seb_error_status >= 3
    inhibited,  \* g_inhibit_reasons # 0 (kInhibitSebCommsLoss)
    estopSeen,  \* SafetyMonitor::m_estop, the last sample of the mushroom
    powerReq,   \* power_req of task_mode: the valid HMI request, else ON
    \* the world
    mushroom,   \* the physical ESTOP button is down
    heartbeat,  \* SafetyMonitor::heartbeat_ok()
    \* task_mode: private members of ModeManager and locals of the loop
    longPress,  \* m_estop_longpress_ctr
    debounce,   \* m_debounce
    prevMode,   \* m_prev_mode_btn
    prevStart,  \* m_prev_start_btn
    seeded,     \* m_start_seeded
    edges,      \* button edges of this tick still to be acted on
    snapshot,   \* what this cycle's 0x110 and 0x113 are about to carry
    wire,       \* the last 0x110.mode = AUTO and 0x113.power_state = ON sent
    \* control
    pc,         \* where task_mode, task_dispatch and task_safety are
    call,       \* where each raiser is inside enter_estop
    \* history, read by the properties only
    spent,      \* the MODE press still held has already performed a reset
    released,   \* a tick has sampled START released since boot
    seen,       \* the modes SYS has been in since its last pair of frames
    lifted      \* the causes of a block that have been clear since then

atomics == <<mode, seen, run, latched, sebL3, inhibited, estopSeen, powerReq>>
world   == <<mushroom, heartbeat>>
buttons == <<longPress, debounce, prevMode, prevStart, seeded, edges, spent, released>>
output  == <<snapshot, wire, lifted>>
vars    == <<atomics, world, buttons, output, pc, call>>

ModeLabels     == {"tick", "reset_clear", "reset_manual", "edges", "run_store",
                   "auto_store", "manual_store", "toggled", "resolve", "read_run",
                   "read_inhibit", "read_latch", "send_mode", "send_power"}
DispatchLabels == {"receive", "auto_store", "manual_store", "remote", "remote_clear",
                   "remote_manual", "seb_latch", "seb_error"}
SafetyLabels   == {"sample", "takeover", "takeover_store", "heartbeat"}
CallLabels     == {"none", "enter", "force", "drop_run"}

TypeOK ==
    /\ mode \in Modes
    /\ run \in BOOLEAN /\ latched \in BOOLEAN /\ sebL3 \in BOOLEAN
    /\ inhibited \in BOOLEAN /\ estopSeen \in BOOLEAN /\ powerReq \in BOOLEAN
    /\ mushroom \in BOOLEAN /\ heartbeat \in BOOLEAN
    /\ longPress \in 0 .. LongPressTicks
    /\ debounce \in 0 .. DebounceTicks
    /\ prevMode \in BOOLEAN /\ prevStart \in BOOLEAN /\ seeded \in BOOLEAN
    /\ edges \subseteq {"start_rise", "start_fall", "mode_release"}
    /\ snapshot \in [auto : BOOLEAN, power : BOOLEAN]
    /\ wire \in [auto : BOOLEAN, power : BOOLEAN]
    /\ pc \in [mode : ModeLabels, dispatch : DispatchLabels, safety : SafetyLabels]
    /\ call \in [Raisers -> CallLabels]
    /\ spent \in BOOLEAN /\ released \in BOOLEAN
    /\ seen \subseteq Modes /\ lifted \subseteq Causes

\* The locals of the publishing block, out of scope between two cycles.
NoSnapshot == [auto |-> FALSE, power |-> FALSE]

Init ==
    /\ mode = "Manual" /\ run = FALSE
    /\ latched = FALSE /\ sebL3 = FALSE /\ inhibited = FALSE
    /\ estopSeen = FALSE /\ powerReq = TRUE
    /\ mushroom = FALSE /\ heartbeat = TRUE
    /\ longPress = 0 /\ debounce = 0
    /\ prevMode = FALSE /\ prevStart = FALSE /\ seeded = FALSE /\ edges = {}
    /\ snapshot = NoSnapshot
    /\ wire = [auto |-> FALSE, power |-> FALSE]
    /\ pc = [mode |-> "tick", dispatch |-> "receive", safety |-> "sample"]
    /\ call = [t \in Raisers |-> "none"]
    /\ spent = FALSE /\ released = FALSE
    /\ seen = {"Manual"} /\ lifted = {"inhibit", "latch"}

Goto(task, label) == pc' = [pc EXCEPT ![task] = label]
Invoke(t)         == call' = [call EXCEPT ![t] = "enter"]

\* The causes that block traction now.
Blocks ==
    (IF run THEN {} ELSE {"run"})
    \cup (IF inhibited THEN {"inhibit"} ELSE {})
    \cup (IF latched THEN {"latch"} ELSE {})

\* A store after which one cause is clear.
Lifts(cause) == lifted' = lifted \cup {cause} /\ UNCHANGED <<snapshot, wire>>

\* ModeManager::set_mode
SetMode(m) == mode' = m /\ seen' = seen \cup {m}

-----------------------------------------------------------------------------
(* enter_estop and force_estop, as any raiser runs them.                    *)

EnterEstop(t) ==
    /\ call[t] = "enter"
    /\ call' = [call EXCEPT ![t] = IF mode = "Estop" THEN "none" ELSE "force"]
    /\ UNCHANGED <<atomics, world, buttons, output, pc>>

ForceEstop(t) ==
    /\ call[t] = "force"
    /\ SetMode("Estop")
    /\ call' = [call EXCEPT ![t] = "drop_run"]
    /\ UNCHANGED <<run, latched, sebL3, inhibited, estopSeen, powerReq>>
    /\ UNCHANGED <<world, buttons, output, pc>>

DropRun(t) ==
    /\ call[t] = "drop_run"
    /\ run' = FALSE
    /\ call' = [call EXCEPT ![t] = "none"]
    /\ UNCHANGED <<mode, seen, latched, sebL3, inhibited, estopSeen, powerReq>>
    /\ UNCHANGED <<world, buttons, output, pc>>

-----------------------------------------------------------------------------
(* task_mode: ModeManager::tick at 10 Hz, then 0x110 and 0x113.             *)

\* latched_causes_currently_clearable
Clearable == ~(latched /\ sebL3)

\* The MODE hold counts towards a reset at this tick.
Counting(pressed) == (mode = "Estop" \/ latched) /\ ~estopSeen /\ pressed

Granted(pressed) ==
    Counting(pressed) /\ longPress + 1 >= LongPressTicks /\ Clearable

HoldCount(pressed) ==
    IF ~Counting(pressed) THEN 0
    ELSE IF longPress < LongPressTicks THEN longPress + 1 ELSE longPress

\* Mutant: the START level at power-up is taken for an edge.
UnseededStart(started) == prevStart

SeededStart(started) == IF seeded THEN prevStart ELSE started

ButtonEdges(pressed, started) ==
    (IF ~SeededStart(started) /\ started THEN {"start_rise"} ELSE {})
    \cup (IF SeededStart(started) /\ ~started THEN {"start_fall"} ELSE {})
    \cup (IF prevMode /\ ~pressed THEN {"mode_release"} ELSE {})

Sampled(started) ==
    /\ pc.mode = "tick"
    /\ started => "start" \in Inputs
    /\ seeded' = TRUE
    /\ released' = (released \/ ~started)

\* The long press has run its time and no latched cause is asserted.
TickGrantsReset(pressed, started) ==
    /\ Sampled(started)
    /\ Granted(pressed)
    /\ longPress' = 0
    /\ prevMode' = FALSE
    /\ prevStart' = started
    /\ debounce' = DebounceTicks
    /\ spent' = TRUE
    /\ Goto("mode", "reset_clear")
    /\ UNCHANGED <<atomics, world, output, edges, call>>

\* Mutant: the debounce counter is decremented without its test.
TickDebouncesPastZero(pressed, started) ==
    /\ Sampled(started)
    /\ ~Granted(pressed)
    /\ debounce' = debounce - 1
    /\ longPress' = HoldCount(pressed)
    /\ prevStart' = SeededStart(started)
    /\ spent' = (spent /\ pressed)
    /\ Goto("mode", "resolve")
    /\ UNCHANGED <<atomics, world, output, prevMode, edges, call>>

TickDebounces(pressed, started) ==
    /\ Sampled(started)
    /\ ~Granted(pressed)
    /\ debounce > 0
    /\ debounce' = debounce - 1
    /\ longPress' = HoldCount(pressed)
    /\ prevStart' = SeededStart(started)
    /\ spent' = (spent /\ pressed)
    /\ Goto("mode", "resolve")
    /\ UNCHANGED <<atomics, world, output, prevMode, edges, call>>

TickSeesEdges(pressed, started) ==
    /\ Sampled(started)
    /\ ~Granted(pressed)
    /\ debounce = 0
    /\ longPress' = HoldCount(pressed)
    /\ edges' = ButtonEdges(pressed, started)
    /\ prevMode' = pressed
    /\ prevStart' = started
    /\ spent' = (spent /\ pressed)
    /\ Goto("mode", "edges")
    /\ UNCHANGED <<atomics, world, output, debounce, call>>

\* try_exit_estop and reset_latched_faults_if_clearable: clear, then MANUAL.
ResetClearsLatch ==
    /\ pc.mode = "reset_clear"
    /\ latched' = FALSE
    /\ Lifts("latch")
    /\ Goto("mode", "reset_manual")
    /\ UNCHANGED <<mode, seen, run, sebL3, inhibited, estopSeen, powerReq>>
    /\ UNCHANGED <<world, buttons, call>>

ResetEntersManual ==
    /\ pc.mode = "reset_manual"
    /\ SetMode("Manual")
    /\ Goto("mode", "resolve")
    /\ UNCHANGED <<run, latched, sebL3, inhibited, estopSeen, powerReq>>
    /\ UNCHANGED <<world, buttons, output, call>>

StartRises ==
    /\ pc.mode = "edges" /\ "start_rise" \in edges
    /\ edges' = edges \ {"start_rise"}
    /\ Goto("mode", IF mode # "Estop" THEN "run_store" ELSE "edges")
    /\ UNCHANGED <<atomics, world, output, call>>
    /\ UNCHANGED <<longPress, debounce, prevMode, prevStart, seeded, spent, released>>

RunStored ==
    /\ pc.mode = "run_store"
    /\ run' = TRUE
    /\ Lifts("run")
    /\ Goto("mode", "edges")
    /\ UNCHANGED <<mode, seen, latched, sebL3, inhibited, estopSeen, powerReq>>
    /\ UNCHANGED <<world, buttons, call>>

StartFalls ==
    /\ pc.mode = "edges" /\ "start_fall" \in edges
    /\ run' = FALSE
    /\ edges' = edges \ {"start_fall"}
    /\ UNCHANGED <<mode, seen, latched, sebL3, inhibited, estopSeen, powerReq>>
    /\ UNCHANGED <<longPress, debounce, prevMode, prevStart, seeded, spent, released>>
    /\ UNCHANGED <<world, output, pc, call>>

\* MODE released: read the mode, then store the other one (nothing in ESTOP).
ModeReleased ==
    /\ pc.mode = "edges" /\ edges = {"mode_release"}
    /\ edges' = {}
    /\ Goto("mode", IF mode = "Manual" THEN "auto_store"
                    ELSE IF mode = "Auto" THEN "manual_store" ELSE "toggled")
    /\ UNCHANGED <<atomics, world, output, call>>
    /\ UNCHANGED <<longPress, debounce, prevMode, prevStart, seeded, spent, released>>

ModeToggles ==
    /\ pc.mode \in {"auto_store", "manual_store"}
    /\ SetMode(IF pc.mode = "auto_store" THEN "Auto" ELSE "Manual")
    /\ Goto("mode", "toggled")
    /\ UNCHANGED <<run, latched, sebL3, inhibited, estopSeen, powerReq>>
    /\ UNCHANGED <<world, buttons, output, call>>

\* The mode is read again to decide whether the button is debounced.
ToggleDebounces ==
    /\ pc.mode = "toggled"
    /\ debounce' = IF mode # "Estop" THEN DebounceTicks ELSE debounce
    /\ Goto("mode", "resolve")
    /\ UNCHANGED <<atomics, world, output, call>>
    /\ UNCHANGED <<longPress, prevMode, prevStart, seeded, edges, spent, released>>

EdgesDone ==
    /\ pc.mode = "edges" /\ edges = {}
    /\ Goto("mode", "resolve")
    /\ UNCHANGED <<atomics, world, buttons, output, call>>

\* Mutant: ESTOP clamps the mode but leaves the power request through.
ResolveModeOnly(m) == [auto |-> m = "Auto", power |-> powerReq]

\* What the mode and the power request alone would have the frames carry.
Resolved(m) == [auto |-> m = "Auto", power |-> m # "Estop" /\ powerReq]

\* The mode is read first, then the power request.
ReadMode ==
    /\ pc.mode = "resolve"
    /\ snapshot' = Resolved(mode)
    /\ Goto("mode", "read_run")
    /\ UNCHANGED <<atomics, world, buttons, wire, lifted, call>>

\* One operand of the stop of resolve_authority is read: it clears both frames.
ReadBlock(place, stop, next) ==
    /\ pc.mode = place
    /\ snapshot' = IF stop THEN NoSnapshot ELSE snapshot
    /\ Goto("mode", next)
    /\ UNCHANGED <<atomics, world, buttons, wire, lifted, call>>

ReadRun     == ReadBlock("read_run", ~run, "read_inhibit")
ReadInhibit == ReadBlock("read_inhibit", inhibited, "read_latch")
ReadLatch   == ReadBlock("read_latch", latched, "send_mode")

\* 0x110 goes out, then 0x113: other tasks may store in between.
SendMode ==
    /\ pc.mode = "send_mode"
    /\ wire' = [wire EXCEPT !.auto = snapshot.auto]
    /\ Goto("mode", "send_power")
    /\ UNCHANGED <<atomics, world, buttons, snapshot, lifted, call>>

SendPower ==
    /\ pc.mode = "send_power"
    /\ wire' = [wire EXCEPT !.power = snapshot.power]
    /\ snapshot' = NoSnapshot
    /\ seen' = {mode}
    /\ lifted' = Causes \ Blocks
    /\ Goto("mode", "tick")
    /\ UNCHANGED <<mode, run, latched, sebL3, inhibited, estopSeen, powerReq>>
    /\ UNCHANGED <<world, buttons, call>>

Publishing ==
    \/ ReadMode \/ ReadRun \/ ReadInhibit \/ ReadLatch
    \/ SendMode \/ SendPower

ModeTask ==
    \/ \E pressed, started \in BOOLEAN :
          \/ TickGrantsReset(pressed, started)
          \/ TickDebounces(pressed, started)
          \/ TickSeesEdges(pressed, started)
    \/ ResetClearsLatch \/ ResetEntersManual
    \/ StartRises \/ RunStored \/ StartFalls
    \/ ModeReleased \/ ModeToggles \/ ToggleDebounces \/ EdgesDone
    \/ Publishing

-----------------------------------------------------------------------------
(* task_dispatch: one frame at a time from the receive queue.              *)

Receives(frame) == pc.dispatch = "receive" /\ call["dispatch"] = "none" /\ frame \in Inputs

\* 0x111 in a valid stream: parse_hmi_mode tests for ESTOP, then stores the
\* mode requested (its test for a change saves a store, no more).
ReceiveHmiMode(request) ==
    /\ Receives("hmi_mode")
    /\ mode # "Estop"
    /\ Goto("dispatch", request)
    /\ UNCHANGED <<atomics, world, buttons, output, call>>

HmiModeStored ==
    /\ pc.dispatch \in {"auto_store", "manual_store"}
    /\ SetMode(IF pc.dispatch = "auto_store" THEN "Auto" ELSE "Manual")
    /\ Goto("dispatch", "receive")
    /\ UNCHANGED <<run, latched, sebL3, inhibited, estopSeen, powerReq>>
    /\ UNCHANGED <<world, buttons, output, call>>

\* 0x112: an invalid stream leaves power at its default, ON.
ReceiveHmiPower(valid, on) ==
    /\ Receives("hmi_pwr")
    /\ powerReq' = (~valid \/ on)
    /\ UNCHANGED <<mode, seen, run, latched, sebL3, inhibited, estopSeen>>
    /\ UNCHANGED <<world, buttons, output, pc, call>>

\* Mutant: the blocker mask leaves out kResetBlockLatchedFault.
NoBlockerButLatch == ~estopSeen /\ heartbeat /\ ~inhibited

\* get_estop_reset_blockers = 0, then the mode test of try_exit_estop_remote.
NoResetBlocker == ~estopSeen /\ Clearable /\ heartbeat /\ ~inhibited

ReceiveResetRequest ==
    /\ Receives("reset_req")
    /\ NoResetBlocker
    /\ Goto("dispatch", "remote")
    /\ UNCHANGED <<atomics, world, buttons, output, call>>

RemoteResetChecksMode ==
    /\ pc.dispatch = "remote"
    /\ Goto("dispatch", IF mode = "Estop" THEN "remote_clear" ELSE "receive")
    /\ UNCHANGED <<atomics, world, buttons, output, call>>

RemoteResetClearsLatch ==
    /\ pc.dispatch = "remote_clear"
    /\ latched' = FALSE
    /\ Lifts("latch")
    /\ Goto("dispatch", "remote_manual")
    /\ UNCHANGED <<mode, seen, run, sebL3, inhibited, estopSeen, powerReq>>
    /\ UNCHANGED <<world, buttons, call>>

RemoteResetEntersManual ==
    /\ pc.dispatch = "remote_manual"
    /\ SetMode("Manual")
    /\ Goto("dispatch", "receive")
    /\ UNCHANGED <<run, latched, sebL3, inhibited, estopSeen, powerReq>>
    /\ UNCHANGED <<world, buttons, output, call>>

\* 0x001, or 0x206 with ESTOP_ACTIVE, outside the suppression windows.
ReceiveEstop ==
    /\ Receives("can_estop")
    /\ Invoke("dispatch")
    /\ UNCHANGED <<atomics, world, buttons, output, pc>>

\* 0x721: the error status is stored first, the fault is latched after it.
ReceiveSebStatus(l3) ==
    /\ Receives("seb_status")
    /\ sebL3' = l3
    /\ Goto("dispatch", IF l3 THEN "seb_latch" ELSE "receive")
    /\ UNCHANGED <<mode, seen, run, latched, inhibited, estopSeen, powerReq>>
    /\ UNCHANGED <<world, buttons, output, call>>

SebStatusLatches ==
    /\ pc.dispatch = "seb_latch"
    /\ latched' = TRUE
    /\ Goto("dispatch", "receive")
    /\ UNCHANGED <<mode, seen, run, sebL3, inhibited, estopSeen, powerReq>>
    /\ UNCHANGED <<world, buttons, output, call>>

\* 0x731 with an L3 bit: the fault is latched first, the status stored after.
ReceiveSebErrInfo ==
    /\ Receives("seb_errinfo")
    /\ latched' = TRUE
    /\ Goto("dispatch", "seb_error")
    /\ UNCHANGED <<mode, seen, run, sebL3, inhibited, estopSeen, powerReq>>
    /\ UNCHANGED <<world, buttons, output, call>>

SebErrInfoStores ==
    /\ pc.dispatch = "seb_error"
    /\ sebL3' = TRUE
    /\ Goto("dispatch", "receive")
    /\ UNCHANGED <<mode, seen, run, latched, inhibited, estopSeen, powerReq>>
    /\ UNCHANGED <<world, buttons, output, call>>

DispatchFrame ==
    \/ ReceiveResetRequest \/ ReceiveEstop \/ ReceiveSebErrInfo
    \/ \E request \in {"auto_store", "manual_store"} : ReceiveHmiMode(request)
    \/ \E valid, on \in BOOLEAN : ReceiveHmiPower(valid, on)
    \/ \E l3 \in BOOLEAN : ReceiveSebStatus(l3)

DispatchStep ==
    \/ HmiModeStored \/ RemoteResetChecksMode \/ RemoteResetClearsLatch
    \/ RemoteResetEntersManual \/ SebStatusLatches \/ SebErrInfoStores

-----------------------------------------------------------------------------
(* task_safety at 20 Hz: mushroom, driver takeover, RT heartbeat.           *)

\* Mutant: only the edge of the mushroom raises an ESTOP.
SafetySamplesEdge ==
    /\ pc.safety = "sample" /\ call["safety"] = "none"
    /\ estopSeen' = mushroom
    /\ call' = [call EXCEPT !["safety"] = IF mushroom /\ ~estopSeen THEN "enter" ELSE "none"]
    /\ Goto("safety", "takeover")
    /\ UNCHANGED <<mode, seen, run, latched, sebL3, inhibited, powerReq>>
    /\ UNCHANGED <<world, buttons, output>>

SafetySamples ==
    /\ pc.safety = "sample" /\ call["safety"] = "none"
    /\ estopSeen' = mushroom
    /\ call' = [call EXCEPT !["safety"] = IF mushroom THEN "enter" ELSE "none"]
    /\ Goto("safety", "takeover")
    /\ UNCHANGED <<mode, seen, run, latched, sebL3, inhibited, powerReq>>
    /\ UNCHANGED <<world, buttons, output>>

\* handle_driver_brake_takeover
TakeoverChecks(lever) ==
    /\ pc.safety = "takeover" /\ call["safety"] = "none"
    /\ lever => "lever" \in Inputs
    /\ Goto("safety", IF lever /\ mode = "Auto" THEN "takeover_store" ELSE "heartbeat")
    /\ UNCHANGED <<atomics, world, buttons, output, call>>

TakeoverStored ==
    /\ pc.safety = "takeover_store"
    /\ SetMode("Manual")
    /\ Goto("safety", "heartbeat")
    /\ UNCHANGED <<run, latched, sebL3, inhibited, estopSeen, powerReq>>
    /\ UNCHANGED <<world, buttons, output, call>>

\* Mutant: a lost heartbeat matters in AUTO only.
HeartbeatMattersInAuto ==
    /\ pc.safety = "heartbeat"
    /\ call' = [call EXCEPT !["safety"] =
                    IF heartbeat \/ mode # "Auto" THEN "none" ELSE "enter"]
    /\ Goto("safety", "sample")
    /\ UNCHANGED <<atomics, world, buttons, output>>

SafetyChecksHeartbeat ==
    /\ pc.safety = "heartbeat"
    /\ call' = [call EXCEPT !["safety"] = IF heartbeat THEN "none" ELSE "enter"]
    /\ Goto("safety", "sample")
    /\ UNCHANGED <<atomics, world, buttons, output>>

SafetyTask ==
    \/ SafetySamples \/ TakeoverStored \/ SafetyChecksHeartbeat
    \/ \E lever \in BOOLEAN : TakeoverChecks(lever)

-----------------------------------------------------------------------------
(* task_diag, task_brake and the world.                                     *)

\* Critical task missing for two cycles, or the bus off for five.
DiagRaises ==
    /\ "task_deadline" \in Inputs /\ call["diag"] = "none"
    /\ Invoke("diag")
    /\ UNCHANGED <<atomics, world, buttons, output, pc>>

\* task_brake sets or clears its own inhibit bit.
SebCommsChange ==
    /\ "seb_comms" \in Inputs
    /\ inhibited' = ~inhibited
    /\ IF inhibited THEN Lifts("inhibit") ELSE UNCHANGED output
    /\ UNCHANGED <<mode, seen, run, latched, sebL3, estopSeen, powerReq>>
    /\ UNCHANGED <<world, buttons, pc, call>>

MushroomMoves ==
    /\ "mushroom" \in Inputs
    /\ mushroom' = ~mushroom
    /\ UNCHANGED <<atomics, heartbeat, buttons, output, pc, call>>

HeartbeatChanges ==
    /\ "heartbeat" \in Inputs
    /\ heartbeat' = ~heartbeat
    /\ UNCHANGED <<atomics, mushroom, buttons, output, pc, call>>

Environment == DiagRaises \/ SebCommsChange \/ MushroomMoves \/ HeartbeatChanges

EnterEstopStep(t) == EnterEstop(t) \/ ForceEstop(t) \/ DropRun(t)

-----------------------------------------------------------------------------
Next ==
    \/ ModeTask \/ DispatchFrame \/ DispatchStep \/ SafetyTask \/ Environment
    \/ \E t \in Raisers : EnterEstopStep(t)

Spec == Init /\ [][Next]_vars

\* Every task is periodic and its steps between two delays always run on; the
\* environment owes nothing.
Fairness ==
    /\ WF_vars(ModeTask)
    /\ WF_vars(DispatchStep)
    /\ WF_vars(SafetyTask)
    /\ \A t \in Raisers : WF_vars(EnterEstopStep(t))

FairSpec == Spec /\ Fairness

-----------------------------------------------------------------------------
(* Properties                                                               *)

\* A remote reset (0x114) never clears the SEB L3 latch while the SEB still
\* reports L3: between the blocker check and the clear only task_dispatch
\* could set either, and it is busy with the reset (main.cpp 469-490).
RemoteResetKeepsLiveFaults ==
    pc.dispatch \in {"remote", "remote_clear"} => Clearable

\* Run is never enabled by a START that was already latched at power-up: a
\* tick has sampled START released before (mode_manager.cpp 19-25).
RunNeedsStartCycle == (run \/ pc.mode = "run_store") => released

\* 0x110 and 0x113 keep the contract: an ESTOP, an inhibit, a latched fault or
\* a released START that has lasted since the previous pair of frames is in both
\* frames of the next, in whatever order the tasks run between the reads and
\* the two sends (main.cpp 930-950, inhibit_state.h 110-111, 170-177).
Contract == INSTANCE AuthorityContract WITH blocks <- Blocks
KeepsAuthorityContract == Contract!Spec

\* While the mushroom is held SYS is in ESTOP again and again, even when a
\* task overwrites the mode with a store it decided on before.
HeldMushroomRecaptures == []<>(mode = "Estop" \/ ~mushroom)

\* The same for a lost RT heartbeat, which no edge announces.
HeartbeatLossRecaptures == []<>(mode = "Estop" \/ heartbeat)

\* A step out of ESTOP is the last step of a validated reset
\* (mode_manager.cpp 127-133, emergency-system.md 28).
EstopLeftOnlyByReset ==
    [][mode = "Estop" /\ mode' # "Estop"
       => pc.mode = "reset_manual" \/ pc.dispatch = "remote_manual"]_vars

\* No frame that carries AUTO or power leaves while something blocks traction
\* (inhibit_state.h 156-163).
NoneSentWhileBlocked ==
    [][wire' # wire /\ (wire'.auto \/ wire'.power) => Blocks = {}]_vars

\* Between two ticks run is enabled only while START was last seen latched
\* (mode_manager.h 6-7: released means motion inhibited).
RunOnlyWhileStartLatched == pc.mode = "tick" /\ run => prevStart

\* The release of a MODE press that performed a reset is not also a request to
\* toggle to AUTO (mode_manager.cpp 42).
SpentPressNeverToggles == [][spent /\ ~spent' => "mode_release" \notin edges']_vars
=============================================================================
