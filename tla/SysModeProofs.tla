--------------------------- MODULE SysModeProofs ---------------------------
(***************************************************************************)
(* Theorems about SysMode, for every length of the long press and of the   *)
(* debounce and every set of inputs.  The induction is split by conjunct:  *)
(* types, the history of START, the remote reset, the frames of a cycle,   *)
(* the calls of enter_estop.                                               *)
(***************************************************************************)
EXTENDS SysMode, TLAPS

-----------------------------------------------------------------------------
(* What strengthens the properties to inductive ones.                       *)

\* Every way to an enabled run goes through a sample of START released: the
\* previous level, once seeded, records one, and so does a pending edge.
RunHistory ==
    /\ seeded /\ ~prevStart => released
    /\ "start_rise" \in edges => released
    /\ RunNeedsStartCycle

\* SYS is in a mode it has been in, and a cause that is clear has been lifted.
Accounted ==
    /\ mode \in seen
    /\ run => "run" \in lifted
    /\ ~inhibited => "inhibit" \in lifted
    /\ ~latched => "latch" \in lifted

\* The causes of a block that this cycle has read already.
AlreadyRead ==
    (IF pc.mode \in {"read_inhibit", "read_latch", "send_mode", "send_power"}
        THEN {"run"} ELSE {})
    \cup (IF pc.mode \in {"read_latch", "send_mode", "send_power"}
              THEN {"inhibit"} ELSE {})
    \cup (IF pc.mode \in {"send_mode", "send_power"} THEN {"latch"} ELSE {})

\* What the frames are about to carry comes from a mode SYS has been in since
\* the last pair, and no cause read so far has blocked all that time.
SnapshotJustified ==
    pc.mode \in {"read_run", "read_inhibit", "read_latch", "send_mode", "send_power"} =>
        /\ snapshot.auto => "Auto" \in seen /\ AlreadyRead \subseteq lifted
        /\ snapshot.power => seen \ {"Estop"} # {} /\ AlreadyRead \subseteq lifted

-----------------------------------------------------------------------------
(* Types.                                                                   *)

\* The initial state is well typed.
LEMMA InitTypeOK == Init => TypeOK
  <1> SUFFICES ASSUME Init PROVE TypeOK
    OBVIOUS
  <1>1. /\ run \in BOOLEAN /\ latched \in BOOLEAN /\ sebL3 \in BOOLEAN
        /\ inhibited \in BOOLEAN /\ estopSeen \in BOOLEAN /\ mushroom \in BOOLEAN
        /\ prevMode \in BOOLEAN /\ prevStart \in BOOLEAN /\ seeded \in BOOLEAN
        /\ spent \in BOOLEAN /\ released \in BOOLEAN
    BY Zenon DEF Init
  <1>2. /\ snapshot \in [auto : BOOLEAN, power : BOOLEAN]
        /\ wire \in [auto : BOOLEAN, power : BOOLEAN]
        /\ lifted \subseteq Causes
    BY DEF Init, NoSnapshot, Causes
  <1>3. /\ pc \in [mode : ModeLabels, dispatch : DispatchLabels, safety : SafetyLabels]
        /\ call \in [Raisers -> CallLabels]
    BY DEF Init, ModeLabels, DispatchLabels, SafetyLabels, CallLabels
  <1> QED BY <1>1, <1>2, <1>3, SysModeAssumption DEF Init, TypeOK, Modes

\* A step of enter_estop or force_estop keeps the types.
LEMMA EnterEstopTypeOK ==
  ASSUME TypeOK, NEW t \in Raisers, EnterEstopStep(t)
  PROVE  TypeOK'
  <1>1. CASE EnterEstop(t)
    BY <1>1 DEF EnterEstop, TypeOK, CallLabels, atomics, world, buttons, output
  <1>2. CASE ForceEstop(t)
    BY <1>2 DEF ForceEstop, SetMode, TypeOK, CallLabels, Modes, world, buttons, output
  <1>3. CASE DropRun(t)
    <2>1. run' \in BOOLEAN
      BY <1>3, Zenon DEF DropRun
    <2> QED BY <1>3, <2>1 DEF DropRun, TypeOK, CallLabels, world, buttons, output
  <1> QED BY <1>1, <1>2, <1>3 DEF EnterEstopStep

\* A step of ModeManager::tick keeps the types.
LEMMA TickTypeOK ==
  ASSUME TypeOK, NEW pressed \in BOOLEAN, NEW started \in BOOLEAN,
         \/ TickGrantsReset(pressed, started)
         \/ TickDebounces(pressed, started)
         \/ TickSeesEdges(pressed, started)
  PROVE  TypeOK'
  <1>1. HoldCount(pressed) \in 0 .. LongPressTicks
    BY SysModeAssumption DEF HoldCount, TypeOK
  <1>2. SeededStart(started) \in BOOLEAN
    BY DEF SeededStart, TypeOK
  <1>3. CASE TickGrantsReset(pressed, started)
    <2>1. prevMode' \in BOOLEAN
      BY <1>3, Zenon DEF TickGrantsReset
    <2> QED
      BY <1>3, <2>1, SysModeAssumption
      DEF TickGrantsReset, Sampled, Goto, TypeOK, ModeLabels, atomics, world, output
  <1>4. CASE TickDebounces(pressed, started)
    BY <1>1, <1>2, <1>4, SysModeAssumption
    DEF TickDebounces, Sampled, Goto, TypeOK, ModeLabels, atomics, world, output
  <1>5. CASE TickSeesEdges(pressed, started)
    BY <1>1, <1>5 DEF TickSeesEdges, Sampled, ButtonEdges, Goto, TypeOK,
       ModeLabels, atomics, world, output
  <1> QED BY <1>3, <1>4, <1>5

\* The reads and the two sends at the end of a cycle keep the types.
LEMMA PublishingTypeOK == TypeOK /\ Publishing => TypeOK'
  <1> SUFFICES ASSUME TypeOK, Publishing PROVE TypeOK'
    OBVIOUS
  <1> USE DEF TypeOK, Goto, ModeLabels, NoSnapshot
  <1>1. CASE ReadMode
    <2>1. Resolved(mode) \in [auto : BOOLEAN, power : BOOLEAN]
      BY DEF Resolved
    <2> QED BY <1>1, <2>1 DEF ReadMode, atomics, world, buttons
  <1>2. CASE ReadRun
    BY <1>2 DEF ReadRun, ReadBlock, atomics, world, buttons
  <1>3. CASE ReadInhibit
    BY <1>3 DEF ReadInhibit, ReadBlock, atomics, world, buttons
  <1>4. CASE ReadLatch
    BY <1>4 DEF ReadLatch, ReadBlock, atomics, world, buttons
  <1>5. CASE SendMode
    BY <1>5 DEF SendMode, atomics, world, buttons
  <1>6. CASE SendPower
    BY <1>6 DEF SendPower, Causes, Modes, world, buttons
  <1> QED BY <1>1, <1>2, <1>3, <1>4, <1>5, <1>6 DEF Publishing

\* Every step of task_mode keeps the types.
LEMMA ModeTaskTypeOK == TypeOK /\ ModeTask => TypeOK'
  <1> SUFFICES ASSUME TypeOK, ModeTask PROVE TypeOK'
    OBVIOUS
  <1> USE DEF TypeOK, Goto, ModeLabels
  <1>1. CASE \E pressed, started \in BOOLEAN :
               \/ TickGrantsReset(pressed, started)
               \/ TickDebounces(pressed, started)
               \/ TickSeesEdges(pressed, started)
    BY <1>1, TickTypeOK
  <1>2. CASE ResetClearsLatch
    <2>1. latched' \in BOOLEAN
      BY <1>2, Zenon DEF ResetClearsLatch
    <2> QED BY <1>2, <2>1 DEF ResetClearsLatch, Lifts, Causes, world, buttons
  <1>3. CASE ResetEntersManual
    BY <1>3 DEF ResetEntersManual, SetMode, Modes, world, buttons, output
  <1>4. CASE StartRises
    BY <1>4 DEF StartRises, atomics, world, output
  <1>5. CASE RunStored
    BY <1>5 DEF RunStored, Lifts, Causes, world, buttons
  <1>6. CASE StartFalls
    <2>1. run' \in BOOLEAN
      BY <1>6, Zenon DEF StartFalls
    <2> QED BY <1>6, <2>1 DEF StartFalls, world, output
  <1>7. CASE ModeReleased
    BY <1>7 DEF ModeReleased, atomics, world, output
  <1>8. CASE ModeToggles
    BY <1>8 DEF ModeToggles, SetMode, Modes, world, buttons, output
  <1>9. CASE ToggleDebounces
    BY <1>9, SysModeAssumption DEF ToggleDebounces, atomics, world, output
  <1>10. CASE EdgesDone
    BY <1>10 DEF EdgesDone, atomics, world, buttons, output
  <1>11. CASE Publishing
    BY <1>11, PublishingTypeOK
  <1> QED
    BY <1>1, <1>2, <1>3, <1>4, <1>5, <1>6, <1>7, <1>8, <1>9, <1>10, <1>11
    DEF ModeTask

\* Every frame and every later step of task_dispatch keeps the types.
LEMMA DispatchTypeOK == TypeOK /\ (DispatchFrame \/ DispatchStep) => TypeOK'
  <1> SUFFICES ASSUME TypeOK, DispatchFrame \/ DispatchStep PROVE TypeOK'
    OBVIOUS
  <1> USE DEF TypeOK, Goto, DispatchLabels, world, buttons, output
  <1>1. CASE \E request \in {"auto_store", "manual_store"} : ReceiveHmiMode(request)
    BY <1>1 DEF ReceiveHmiMode, atomics
  <1>2. CASE ReceiveResetRequest
    BY <1>2 DEF ReceiveResetRequest, atomics
  <1>3. CASE ReceiveEstop
    BY <1>3 DEF ReceiveEstop, Invoke, Raisers, CallLabels, atomics
  <1>4. CASE ReceiveSebErrInfo
    BY <1>4 DEF ReceiveSebErrInfo
  <1>5. CASE \E valid, on \in BOOLEAN : ReceiveHmiPower(valid, on)
    BY <1>5 DEF ReceiveHmiPower
  <1>6. CASE \E l3 \in BOOLEAN : ReceiveSebStatus(l3)
    BY <1>6 DEF ReceiveSebStatus
  <1>7. CASE HmiModeStored
    BY <1>7 DEF HmiModeStored, SetMode, Modes
  <1>8. CASE RemoteResetChecksMode
    BY <1>8 DEF RemoteResetChecksMode, atomics
  <1>9. CASE RemoteResetClearsLatch
    <2>1. latched' \in BOOLEAN
      BY <1>9, Zenon DEF RemoteResetClearsLatch
    <2> QED BY <1>9, <2>1 DEF RemoteResetClearsLatch, Lifts, Causes
  <1>10. CASE RemoteResetEntersManual
    BY <1>10 DEF RemoteResetEntersManual, SetMode, Modes
  <1>11. CASE SebStatusLatches
    BY <1>11 DEF SebStatusLatches
  <1>12. CASE SebErrInfoStores
    BY <1>12 DEF SebErrInfoStores
  <1> QED
    BY <1>1, <1>2, <1>3, <1>4, <1>5, <1>6, <1>7, <1>8, <1>9, <1>10, <1>11, <1>12
    DEF DispatchFrame, DispatchStep

\* Every step of task_safety and of the environment keeps the types.
LEMMA SafetyTypeOK == TypeOK /\ (SafetyTask \/ Environment) => TypeOK'
  <1> SUFFICES ASSUME TypeOK, SafetyTask \/ Environment PROVE TypeOK'
    OBVIOUS
  <1> USE DEF TypeOK, Goto, SafetyLabels, CallLabels, Raisers, buttons, output
  <1>1. CASE SafetySamples
    BY <1>1 DEF SafetySamples, world
  <1>2. CASE \E lever \in BOOLEAN : TakeoverChecks(lever)
    BY <1>2 DEF TakeoverChecks, atomics, world
  <1>3. CASE TakeoverStored
    BY <1>3 DEF TakeoverStored, SetMode, Modes, world
  <1>4. CASE SafetyChecksHeartbeat
    BY <1>4 DEF SafetyChecksHeartbeat, atomics, world
  <1>5. CASE DiagRaises
    BY <1>5 DEF DiagRaises, Invoke, atomics, world
  <1>6. CASE SebCommsChange
    <2>1. inhibited' \in BOOLEAN
      BY <1>6, Zenon DEF SebCommsChange
    <2>2. UNCHANGED <<snapshot, wire>> /\ lifted' \in {lifted, lifted \cup {"inhibit"}}
      BY <1>6, Zenon DEF SebCommsChange, Lifts
    <2> QED BY <1>6, <2>1, <2>2 DEF SebCommsChange, Causes, world
  <1>7. CASE MushroomMoves
    BY <1>7 DEF MushroomMoves, atomics
  <1>8. CASE HeartbeatChanges
    BY <1>8 DEF HeartbeatChanges, atomics
  <1> QED
    BY <1>1, <1>2, <1>3, <1>4, <1>5, <1>6, <1>7, <1>8 DEF SafetyTask, Environment

\* TypeOK is inductive.
LEMMA StepTypeOK == TypeOK /\ [Next]_vars => TypeOK'
  <1>1. TypeOK /\ UNCHANGED vars => TypeOK'
    BY DEF TypeOK, vars, atomics, world, buttons, output
  <1> QED
    BY <1>1, ModeTaskTypeOK, DispatchTypeOK, SafetyTypeOK, EnterEstopTypeOK DEF Next

\* Every variable keeps its type (all of SysMode.tla).
THEOREM TypeCorrect == Spec => []TypeOK
  BY InitTypeOK, StepTypeOK, PTL DEF Spec

-----------------------------------------------------------------------------
(* The history of START.                                                    *)

\* A sample of START keeps the history, whatever the tick does with it.
LEMMA TickRunHistory ==
  ASSUME TypeOK, RunHistory, NEW pressed \in BOOLEAN, NEW started \in BOOLEAN,
         \/ TickGrantsReset(pressed, started)
         \/ TickDebounces(pressed, started)
         \/ TickSeesEdges(pressed, started)
  PROVE  RunHistory'
  <1>1. /\ released' = (released \/ ~started)
        /\ run' = run /\ pc'.mode # "run_store"
    BY DEF TickGrantsReset, TickDebounces, TickSeesEdges, Sampled, Goto, TypeOK, atomics
  <1>2. ~SeededStart(started) => released'
    BY <1>1 DEF SeededStart, RunHistory
  <1>3. prevStart' \in {started, SeededStart(started)}
    BY DEF TickGrantsReset, TickDebounces, TickSeesEdges
  <1>4. edges' \in {edges, ButtonEdges(pressed, started)}
    BY DEF TickGrantsReset, TickDebounces, TickSeesEdges
  <1>5. "start_rise" \in ButtonEdges(pressed, started) => ~SeededStart(started)
    BY DEF ButtonEdges
  <1> QED BY <1>1, <1>2, <1>3, <1>4, <1>5 DEF RunHistory, RunNeedsStartCycle

\* RunHistory is inductive: run is stored by StartRises alone, on an edge.
LEMMA StepRunHistory == TypeOK /\ RunHistory /\ [Next]_vars => RunHistory'
  <1> SUFFICES ASSUME TypeOK, RunHistory, [Next]_vars PROVE RunHistory'
    OBVIOUS
  <1> USE DEF RunHistory, RunNeedsStartCycle, Goto, TypeOK
  <1>1. CASE \E pressed, started \in BOOLEAN :
               \/ TickGrantsReset(pressed, started)
               \/ TickDebounces(pressed, started)
               \/ TickSeesEdges(pressed, started)
    BY <1>1, TickRunHistory
  <1>2. CASE StartRises
    BY <1>2 DEF StartRises, atomics
  <1>3. CASE RunStored \/ StartFalls
    BY <1>3 DEF RunStored, StartFalls, buttons
  <1>4. CASE ModeReleased \/ ToggleDebounces \/ ModeToggles
    BY <1>4 DEF ModeReleased, ToggleDebounces, ModeToggles, SetMode, atomics, buttons
  <1>5. CASE ResetClearsLatch \/ ResetEntersManual \/ EdgesDone \/ Publishing
    BY <1>5 DEF ResetClearsLatch, ResetEntersManual, EdgesDone, Publishing,
       ReadMode, ReadRun, ReadInhibit, ReadLatch, ReadBlock,
       SendMode, SendPower, SetMode, atomics, buttons
  <1>6. CASE DispatchFrame
    BY <1>6 DEF DispatchFrame, ReceiveHmiMode, ReceiveResetRequest, ReceiveEstop,
       ReceiveSebErrInfo, ReceiveHmiPower, ReceiveSebStatus, atomics, buttons
  <1>7. CASE DispatchStep
    BY <1>7 DEF DispatchStep, HmiModeStored, RemoteResetChecksMode,
       RemoteResetClearsLatch, RemoteResetEntersManual, SebStatusLatches,
       SebErrInfoStores, atomics, buttons
  <1>8. CASE SafetyTask
    BY <1>8 DEF SafetyTask, SafetySamples, TakeoverChecks, TakeoverStored,
       SafetyChecksHeartbeat, atomics, buttons
  <1>9. CASE Environment
    BY <1>9 DEF Environment, DiagRaises, SebCommsChange, MushroomMoves,
       HeartbeatChanges, atomics, buttons
  <1>10. CASE \E t \in Raisers : EnterEstopStep(t)
    BY <1>10 DEF EnterEstopStep, EnterEstop, ForceEstop, DropRun, atomics, buttons
  <1>11. CASE UNCHANGED vars
    BY <1>11 DEF vars, atomics, buttons
  <1> QED
    BY <1>1, <1>2, <1>3, <1>4, <1>5, <1>6, <1>7, <1>8, <1>9, <1>10, <1>11
    DEF Next, ModeTask

\* A START already latched at power-up never enables run by itself: a tick has
\* sampled it released before (mode_manager.cpp 19-25, 57-67).
THEOREM StartMustBeCycled == Spec => []RunNeedsStartCycle
  <1>1. Init => RunHistory
    BY DEF Init, RunHistory, RunNeedsStartCycle
  <1>2. RunHistory => RunNeedsStartCycle
    BY DEF RunHistory
  <1> QED BY <1>1, <1>2, StepRunHistory, TypeCorrect, PTL DEF Spec

-----------------------------------------------------------------------------
(* The remote reset.                                                        *)

\* Only task_dispatch latches a fault or stores the SEB status, and it does
\* neither while it is between the check and the clear of a remote reset.
LEMMA StepRemoteReset ==
  TypeOK /\ RemoteResetKeepsLiveFaults /\ [Next]_vars => RemoteResetKeepsLiveFaults'
  <1> SUFFICES ASSUME TypeOK, RemoteResetKeepsLiveFaults, [Next]_vars
               PROVE  RemoteResetKeepsLiveFaults'
    OBVIOUS
  <1> USE DEF RemoteResetKeepsLiveFaults, Clearable, Goto, TypeOK
  <1>1. CASE ModeTask
    <2>1. latched' = latched \/ ~latched'
      BY <1>1, Zenon DEF ModeTask, TickGrantsReset, TickDebounces, TickSeesEdges, ResetClearsLatch,
         ResetEntersManual, StartRises, RunStored, StartFalls, ModeReleased,
         ModeToggles, ToggleDebounces, EdgesDone, Publishing,
         ReadMode, ReadRun, ReadInhibit, ReadLatch, ReadBlock,
         SendMode, SendPower, atomics
    <2>2. sebL3' = sebL3 /\ pc'.dispatch = pc.dispatch
      BY <1>1 DEF ModeTask, TickGrantsReset, TickDebounces, TickSeesEdges, ResetClearsLatch,
         ResetEntersManual, StartRises, RunStored, StartFalls, ModeReleased,
         ModeToggles, ToggleDebounces, EdgesDone, Publishing,
         ReadMode, ReadRun, ReadInhibit, ReadLatch, ReadBlock,
         SendMode, SendPower, atomics
    <2> QED BY <2>1, <2>2
  <1>2. CASE DispatchFrame
    BY <1>2 DEF DispatchFrame, ReceiveHmiMode, ReceiveResetRequest, ReceiveEstop,
       ReceiveSebErrInfo, ReceiveHmiPower, ReceiveSebStatus, Receives, NoResetBlocker, atomics
  <1>3. CASE DispatchStep
    BY <1>3 DEF DispatchStep, HmiModeStored, RemoteResetChecksMode,
       RemoteResetClearsLatch, RemoteResetEntersManual, SebStatusLatches,
       SebErrInfoStores, atomics
  <1>4. CASE SafetyTask
    BY <1>4 DEF SafetyTask, SafetySamples, TakeoverChecks, TakeoverStored,
       SafetyChecksHeartbeat, atomics
  <1>5. CASE Environment
    BY <1>5 DEF Environment, DiagRaises, SebCommsChange, MushroomMoves,
       HeartbeatChanges, atomics
  <1>6. CASE \E t \in Raisers : EnterEstopStep(t)
    BY <1>6 DEF EnterEstopStep, EnterEstop, ForceEstop, DropRun, atomics
  <1>7. CASE UNCHANGED vars
    BY <1>7 DEF vars, atomics
  <1> QED BY <1>1, <1>2, <1>3, <1>4, <1>5, <1>6, <1>7 DEF Next

\* A 0x114 reset clears the SEB latch only while its cause is gone
\* (main.cpp 469-490, inhibit_state.h 118-149).
THEOREM RemoteResetIsValidated == Spec => []RemoteResetKeepsLiveFaults
  <1>1. Init => RemoteResetKeepsLiveFaults
    BY DEF Init, RemoteResetKeepsLiveFaults, Clearable
  <1> QED BY <1>1, StepRemoteReset, TypeCorrect, PTL DEF Spec

-----------------------------------------------------------------------------
(* The contract of 0x110 and 0x113.                                         *)

\* A step that accounts for what it lifts is, to the contract, a change of blocks.
LEMMA BlocksChange ==
  ASSUME TypeOK', Accounted', UNCHANGED <<mode, seen, wire>>,
         lifted \subseteq lifted', lifted' \subseteq lifted \cup (Causes \ Blocks')
  PROVE  Contract!ChangeBlocks
  <1>1. Blocks' \subseteq Causes
    BY DEF Blocks, Causes
  <1>2. Causes \ Blocks' \subseteq lifted'
    BY DEF Blocks, Causes, Accounted
  <1> QED BY <1>1, <1>2 DEF Contract!ChangeBlocks

\* Outside the publishing block a step is, in the contract's terms, a change of
\* the mode or of the blocks, and it keeps the accounts.
LEMMA StepAccounted ==
  ASSUME TypeOK, TypeOK', Accounted, [Next]_vars, ~Publishing
  PROVE  /\ Accounted'
         /\ seen \subseteq seen' /\ lifted \subseteq lifted' /\ snapshot' = snapshot
         /\ [Contract!ChangeMode \/ Contract!ChangeBlocks]_Contract!vars
  <1>1. CASE UNCHANGED <<atomics, wire, lifted, snapshot>>
    BY <1>1 DEF Accounted, Blocks, atomics, Contract!vars
  <1>2. CASE /\ mode' \in Modes /\ seen' = seen \cup {mode'}
             /\ UNCHANGED <<run, inhibited, latched, output>>
    BY <1>2 DEF Accounted, Blocks, output, Contract!vars, Contract!ChangeMode
  <1>3. CASE /\ UNCHANGED <<mode, seen, output>>
             /\ run' => run
             /\ inhibited => inhibited'
             /\ latched => latched'
    <2>1. Accounted' /\ lifted' = lifted
      BY <1>3 DEF Accounted, output
    <2> QED BY <1>3, <2>1, BlocksChange DEF output
  <1>4. CASE /\ UNCHANGED <<mode, seen, inhibited, latched>> /\ run' = TRUE
             /\ Lifts("run")
    <2>1. Accounted'
      BY <1>4 DEF Accounted, Lifts
    <2>2. "run" \in Causes \ Blocks'
      BY <1>4 DEF Causes, Blocks
    <2> QED BY <1>4, <2>1, <2>2, BlocksChange DEF Lifts
  <1>5. CASE /\ UNCHANGED <<mode, seen, run, latched>> /\ inhibited' = FALSE
             /\ Lifts("inhibit")
    <2>1. Accounted'
      BY <1>5 DEF Accounted, Lifts
    <2>2. "inhibit" \in Causes \ Blocks'
      BY <1>5 DEF Causes, Blocks
    <2> QED BY <1>5, <2>1, <2>2, BlocksChange DEF Lifts
  <1>6. CASE /\ UNCHANGED <<mode, seen, run, inhibited>> /\ latched' = FALSE
             /\ Lifts("latch")
    <2>1. Accounted'
      BY <1>6 DEF Accounted, Lifts
    <2>2. "latch" \in Causes \ Blocks'
      BY <1>6 DEF Causes, Blocks
    <2> QED BY <1>6, <2>1, <2>2, BlocksChange DEF Lifts
  <1>7. CASE ModeTask
    <2>1. CASE \E pressed, started \in BOOLEAN :
                 \/ TickGrantsReset(pressed, started)
                 \/ TickDebounces(pressed, started)
                 \/ TickSeesEdges(pressed, started)
      BY <1>1, <2>1 DEF TickGrantsReset, TickDebounces, TickSeesEdges, output
    <2>2. CASE StartRises \/ ModeReleased \/ ToggleDebounces \/ EdgesDone
      BY <1>1, <2>2 DEF StartRises, ModeReleased, ToggleDebounces, EdgesDone, output
    <2>3. CASE StartFalls
      BY <1>3, <2>3 DEF StartFalls
    <2>4. CASE RunStored
      BY <1>4, <2>4 DEF RunStored
    <2>5. CASE ResetClearsLatch
      BY <1>6, <2>5 DEF ResetClearsLatch
    <2>6. CASE ResetEntersManual \/ ModeToggles
      BY <1>2, <2>6 DEF ResetEntersManual, ModeToggles, SetMode, Modes
    <2> QED BY <1>7, <2>1, <2>2, <2>3, <2>4, <2>5, <2>6 DEF ModeTask
  <1>8. CASE DispatchFrame
    <2>1. CASE \E l3 \in BOOLEAN : ReceiveSebStatus(l3)
      BY <1>3, <2>1 DEF ReceiveSebStatus
    <2>2. CASE ReceiveSebErrInfo
      BY <1>3, <2>2 DEF ReceiveSebErrInfo
    <2>3. CASE \E valid, on \in BOOLEAN : ReceiveHmiPower(valid, on)
      BY <1>3, <2>3 DEF ReceiveHmiPower
    <2>4. CASE \/ ReceiveResetRequest \/ ReceiveEstop
               \/ \E request \in {"auto_store", "manual_store"} : ReceiveHmiMode(request)
      BY <1>1, <2>4 DEF ReceiveResetRequest, ReceiveEstop, ReceiveHmiMode, output
    <2> QED BY <1>8, <2>1, <2>2, <2>3, <2>4 DEF DispatchFrame
  <1>9. CASE DispatchStep
    <2>1. CASE HmiModeStored \/ RemoteResetEntersManual
      BY <1>2, <2>1 DEF HmiModeStored, RemoteResetEntersManual, SetMode, Modes
    <2>2. CASE RemoteResetChecksMode
      BY <1>1, <2>2 DEF RemoteResetChecksMode, output
    <2>3. CASE RemoteResetClearsLatch
      BY <1>6, <2>3 DEF RemoteResetClearsLatch
    <2>4. CASE SebStatusLatches \/ SebErrInfoStores
      BY <1>3, <2>4 DEF SebStatusLatches, SebErrInfoStores
    <2> QED BY <1>9, <2>1, <2>2, <2>3, <2>4 DEF DispatchStep
  <1>10. CASE SafetyTask
    <2>1. CASE SafetySamples
      BY <1>3, <2>1 DEF SafetySamples, output
    <2>2. CASE TakeoverStored
      BY <1>2, <2>2 DEF TakeoverStored, SetMode, Modes
    <2>3. CASE SafetyChecksHeartbeat \/ \E lever \in BOOLEAN : TakeoverChecks(lever)
      BY <1>1, <2>3 DEF SafetyChecksHeartbeat, TakeoverChecks, output
    <2> QED BY <1>10, <2>1, <2>2, <2>3 DEF SafetyTask
  <1>11. CASE Environment
    <2>1. CASE DiagRaises \/ MushroomMoves \/ HeartbeatChanges
      BY <1>1, <2>1 DEF DiagRaises, MushroomMoves, HeartbeatChanges, output
    <2>2. CASE SebCommsChange /\ inhibited
      BY <1>5, <2>2 DEF SebCommsChange
    <2>3. CASE SebCommsChange /\ ~inhibited
      BY <1>3, <2>3 DEF SebCommsChange
    <2> QED BY <1>11, <2>1, <2>2, <2>3 DEF Environment
  <1>12. CASE \E t \in Raisers : EnterEstopStep(t)
    <2> PICK t \in Raisers : EnterEstopStep(t)
      BY <1>12
    <2>1. CASE EnterEstop(t)
      BY <1>1, <2>1 DEF EnterEstop, output
    <2>2. CASE ForceEstop(t)
      BY <1>2, <2>2 DEF ForceEstop, SetMode, Modes
    <2>3. CASE DropRun(t)
      BY <1>3, <2>3 DEF DropRun
    <2> QED BY <2>1, <2>2, <2>3 DEF EnterEstopStep
  <1>13. CASE UNCHANGED vars
    BY <1>1, <1>13 DEF vars, output
  <1> QED BY <1>7, <1>8, <1>9, <1>10, <1>11, <1>12, <1>13 DEF Next

\* Outside the publishing block nothing is on its way to the wire, or it stays so.
LEMMA StepSnapshot ==
  ASSUME TypeOK, TypeOK', SnapshotJustified, [Next]_vars, ~Publishing,
         seen \subseteq seen', lifted \subseteq lifted', snapshot' = snapshot
  PROVE  SnapshotJustified'
  <1> DEFINE Sending == {"read_run", "read_inhibit", "read_latch", "send_mode", "send_power"}
  <1>1. pc'.mode = pc.mode \/ pc'.mode \notin Sending
    <2> USE DEF TypeOK, Goto
    <2>1. CASE ModeTask
      BY <2>1 DEF ModeTask, TickGrantsReset, TickDebounces, TickSeesEdges,
         ResetClearsLatch, ResetEntersManual, StartRises, RunStored, StartFalls,
         ModeReleased, ModeToggles, ToggleDebounces, EdgesDone
    <2>2. CASE DispatchFrame
      BY <2>2 DEF DispatchFrame, ReceiveHmiMode, ReceiveResetRequest, ReceiveEstop,
         ReceiveSebErrInfo, ReceiveHmiPower, ReceiveSebStatus
    <2>3. CASE DispatchStep
      BY <2>3 DEF DispatchStep, HmiModeStored, RemoteResetChecksMode,
         RemoteResetClearsLatch, RemoteResetEntersManual, SebStatusLatches, SebErrInfoStores
    <2>4. CASE SafetyTask
      BY <2>4 DEF SafetyTask, SafetySamples, TakeoverChecks, TakeoverStored,
         SafetyChecksHeartbeat
    <2>5. CASE Environment
      BY <2>5 DEF Environment, DiagRaises, SebCommsChange, MushroomMoves, HeartbeatChanges
    <2>6. CASE \E t \in Raisers : EnterEstopStep(t)
      BY <2>6 DEF EnterEstopStep, EnterEstop, ForceEstop, DropRun
    <2>7. CASE UNCHANGED vars
      BY <2>7 DEF vars
    <2> QED BY <2>1, <2>2, <2>3, <2>4, <2>5, <2>6, <2>7 DEF Next
  <1>2. CASE pc'.mode \notin Sending
    BY <1>2 DEF SnapshotJustified
  <1>3. CASE pc'.mode = pc.mode
    <2>1. AlreadyRead' = AlreadyRead
      BY <1>3 DEF AlreadyRead
    <2> QED BY <1>3, <2>1 DEF SnapshotJustified
  <1> QED BY <1>1, <1>2, <1>3

\* A read leaves the contract alone, and what passes it has been lifted.
LEMMA ReadsJustified ==
  ASSUME TypeOK, Accounted, SnapshotJustified,
         ReadMode \/ ReadRun \/ ReadInhibit \/ ReadLatch
  PROVE  Accounted' /\ SnapshotJustified' /\ UNCHANGED Contract!vars
  <1>1. Accounted' /\ UNCHANGED Contract!vars
    BY DEF ReadMode, ReadRun, ReadInhibit, ReadLatch, ReadBlock, atomics,
       Accounted, Blocks, Contract!vars
  <1>2. SnapshotJustified'
    <2> USE DEF SnapshotJustified, AlreadyRead, Accounted, ReadBlock, NoSnapshot,
            Goto, TypeOK, atomics
    <2>1. CASE ReadMode
      BY <2>1 DEF ReadMode, Resolved
    <2>2. CASE ReadRun
      BY <2>2 DEF ReadRun
    <2>3. CASE ReadInhibit
      BY <2>3 DEF ReadInhibit
    <2>4. CASE ReadLatch
      BY <2>4 DEF ReadLatch
    <2> QED BY <2>1, <2>2, <2>3, <2>4
  <1> QED BY <1>1, <1>2

\* Both frames of a cycle leave as the contract allows.
LEMMA SendsJustified ==
  ASSUME TypeOK, Accounted, SnapshotJustified, SendMode \/ SendPower
  PROVE  Accounted' /\ SnapshotJustified' /\ (Contract!SendMode \/ Contract!SendPower)
  <1>1. AlreadyRead = Causes
    BY DEF SendMode, SendPower, AlreadyRead, Causes
  <1>2. CASE SendMode
    <2>1. Accounted' /\ Blocks' = Blocks /\ AlreadyRead' = Causes
      BY <1>2 DEF SendMode, atomics, Accounted, Blocks, AlreadyRead, Goto, TypeOK, Causes
    <2>2. Contract!SendMode
      BY <1>1, <1>2, <2>1 DEF SendMode, SnapshotJustified, atomics, TypeOK, Contract!SendMode
    <2>3. SnapshotJustified'
      BY <1>1, <1>2, <2>1 DEF SendMode, SnapshotJustified, atomics, Goto, TypeOK
    <2> QED BY <2>1, <2>2, <2>3
  <1>3. CASE SendPower
    <2>1. Accounted' /\ Blocks' = Blocks
      BY <1>3 DEF SendPower, Accounted, Blocks, Causes
    <2>2. Contract!SendPower
      BY <1>1, <1>3, <2>1 DEF SendPower, SnapshotJustified, TypeOK, Contract!SendPower
    <2>3. SnapshotJustified'
      BY <1>3 DEF SendPower, SnapshotJustified, Goto, TypeOK
    <2> QED BY <2>1, <2>2, <2>3
  <1> QED BY <1>2, <1>3

\* SYS implements its contract: an ESTOP, an inhibit, a latched fault or a
\* released START that has lasted since the previous pair of frames is obeyed by
\* both frames of the next, whatever the other tasks store between the reads of
\* task_mode and its two sends (main.cpp 930-950).
THEOREM SysKeepsAuthorityContract == Spec => KeepsAuthorityContract
  <1>1. Init => Accounted /\ SnapshotJustified /\ Contract!Init
    BY DEF Init, Accounted, SnapshotJustified, Blocks, Causes, Contract!Init
  <1>2. TypeOK /\ TypeOK' /\ Accounted /\ SnapshotJustified /\ [Next]_vars
          => Accounted' /\ SnapshotJustified' /\ [Contract!Next]_Contract!vars
    <2> SUFFICES ASSUME TypeOK, TypeOK', Accounted, SnapshotJustified, [Next]_vars
                 PROVE  Accounted' /\ SnapshotJustified' /\ [Contract!Next]_Contract!vars
      OBVIOUS
    <2>1. CASE ~Publishing
      BY <2>1, StepAccounted, StepSnapshot DEF Contract!Next
    <2>2. CASE Publishing
      BY <2>2, ReadsJustified, SendsJustified DEF Publishing, Contract!Next
    <2> QED BY <2>1, <2>2
  <1> QED BY <1>1, <1>2, TypeCorrect, PTL DEF Spec, KeepsAuthorityContract, Contract!Spec

-----------------------------------------------------------------------------
(* The calls of enter_estop.                                                *)

\* task_safety raises one ESTOP at a time: it goes on past the mushroom only when
\* the call it made there is over.
SafetyCallsInTurn == pc.safety \in {"takeover_store", "heartbeat"} => call["safety"] = "none"

\* A call has still to look at the mode or to store ESTOP.
Calling(t) == call[t] \in {"enter", "force"}

\* Whatever the other tasks store in the meantime, a call of enter_estop gets
\* there: it ends in a step that leaves SYS in ESTOP (main.cpp 253-269).
CallsReachEstop ==
    [][\A t \in Raisers : Calling(t) /\ ~Calling(t)' => mode' = "Estop"]_vars

\* task_mode, the frames and the environment drop no call, and leave task_safety
\* where it is.
LEMMA OthersKeepCalls ==
  ASSUME TypeOK,
         ModeTask \/ DispatchFrame \/ DispatchStep \/ Environment \/ UNCHANGED vars
  PROVE  /\ pc'.safety = pc.safety /\ call'["safety"] = call["safety"]
         /\ \A t \in Raisers : Calling(t) => call'[t] \in {"enter", "force"}
  <1> USE DEF TypeOK, Calling, Goto, Invoke, Raisers
  <1>1. CASE ModeTask
    BY <1>1 DEF ModeTask, TickGrantsReset, TickDebounces, TickSeesEdges, ResetClearsLatch,
       ResetEntersManual, StartRises, RunStored, StartFalls, ModeReleased,
       ModeToggles, ToggleDebounces, EdgesDone, Publishing,
       ReadMode, ReadRun, ReadInhibit, ReadLatch, ReadBlock,
       SendMode, SendPower
  <1>2. CASE DispatchFrame
    BY <1>2 DEF DispatchFrame, ReceiveHmiMode, ReceiveResetRequest, ReceiveEstop,
       ReceiveSebErrInfo, ReceiveHmiPower, ReceiveSebStatus, Receives
  <1>3. CASE DispatchStep
    BY <1>3 DEF DispatchStep, HmiModeStored, RemoteResetChecksMode,
       RemoteResetClearsLatch, RemoteResetEntersManual, SebStatusLatches,
       SebErrInfoStores
  <1>4. CASE Environment
    BY <1>4 DEF Environment, DiagRaises, SebCommsChange, MushroomMoves, HeartbeatChanges
  <1>5. CASE UNCHANGED vars
    BY <1>5 DEF vars
  <1> QED BY <1>1, <1>2, <1>3, <1>4, <1>5

\* task_safety makes its next call only when the one before is over.
LEMMA SafetyKeepsCalls ==
  ASSUME TypeOK, SafetyCallsInTurn, SafetyTask
  PROVE  /\ SafetyCallsInTurn'
         /\ \A t \in Raisers : Calling(t) => call'[t] \in {"enter", "force"}
  <1> USE DEF TypeOK, SafetyCallsInTurn, Calling, Goto, Raisers
  <1>1. CASE SafetySamples
    BY <1>1 DEF SafetySamples
  <1>2. CASE \E lever \in BOOLEAN : TakeoverChecks(lever)
    BY <1>2 DEF TakeoverChecks
  <1>3. CASE TakeoverStored
    BY <1>3 DEF TakeoverStored
  <1>4. CASE SafetyChecksHeartbeat
    BY <1>4 DEF SafetyChecksHeartbeat
  <1> QED BY <1>1, <1>2, <1>3, <1>4 DEF SafetyTask

\* A step of a call of its own ends it in ESTOP only.
LEMMA CallSteps ==
  ASSUME TypeOK, SafetyCallsInTurn, NEW t \in Raisers, EnterEstopStep(t)
  PROVE  /\ SafetyCallsInTurn'
         /\ \A u \in Raisers : Calling(u) /\ call'[u] \notin {"enter", "force"} => mode' = "Estop"
  <1> USE DEF TypeOK, SafetyCallsInTurn, Calling
  <1>1. CASE EnterEstop(t)
    BY <1>1 DEF EnterEstop, atomics
  <1>2. CASE ForceEstop(t)
    BY <1>2 DEF ForceEstop, SetMode
  <1>3. CASE DropRun(t)
    BY <1>3 DEF DropRun
  <1> QED BY <1>1, <1>2, <1>3 DEF EnterEstopStep

\* No ESTOP that a task has asked for is dropped on the way, in whatever order the
\* three raisers and the other tasks run: the part of HeldMushroomRecaptures and
\* HeartbeatLossRecaptures that needs no fairness (main.cpp 253-269, 743-759).
THEOREM EstopCallsArrive == Spec => CallsReachEstop
  <1>1. Init => SafetyCallsInTurn
    BY DEF Init, SafetyCallsInTurn
  <1>2. TypeOK /\ SafetyCallsInTurn /\ [Next]_vars
          => /\ SafetyCallsInTurn'
             /\ \A t \in Raisers : Calling(t) /\ ~Calling(t)' => mode' = "Estop"
    <2> SUFFICES ASSUME TypeOK, SafetyCallsInTurn, [Next]_vars
                 PROVE  /\ SafetyCallsInTurn'
                        /\ \A t \in Raisers : Calling(t) /\ ~Calling(t)' => mode' = "Estop"
      OBVIOUS
    <2>1. CASE ModeTask \/ DispatchFrame \/ DispatchStep \/ Environment \/ UNCHANGED vars
      BY <2>1, OthersKeepCalls DEF SafetyCallsInTurn, Calling
    <2>2. CASE SafetyTask
      BY <2>2, SafetyKeepsCalls DEF Calling
    <2>3. CASE \E t \in Raisers : EnterEstopStep(t)
      BY <2>3, CallSteps DEF Calling
    <2> QED BY <2>1, <2>2, <2>3 DEF Next
  <1> QED BY <1>1, <1>2, TypeCorrect, PTL DEF Spec, CallsReachEstop
=============================================================================
