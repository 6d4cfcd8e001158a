------------------------- MODULE RtAuthorityProofs -------------------------
(***************************************************************************)
(* Theorems about RtAuthority, for every depth of the event queue, every   *)
(* timeout and every set of inputs.                                        *)
(***************************************************************************)
EXTENDS RtAuthority, TLAPS

-----------------------------------------------------------------------------
(* What strengthens the properties to inductive ones.                       *)

Queued(e) == \E i \in 1 .. Len(queue) : queue[i] = e

\* An ESTOP that counts has no clear in front of it or behind it.
EstopHeld ==
    /\ EstopNeverDropped
    /\ owed => ~clearFlag /\ ~Queued("SAFETY_CLEAR")

\* SAFETY is granted by control_task alone, in a cycle that has found the stream
\* acquired and no ESTOP latched; HOST is set by a 0x300 alone.
MaskBacked ==
    /\ pc.control = "store_mask" /\ verdict = "grant" => sup = "acquired" /\ ~pending
    /\ pc.control \in {"peek", "publish"} /\ "safety" \in ready => sup = "acquired" /\ ~pending
    /\ "host" \in ready => hostHeard
    /\ MotionOnlyUnderAuthority
    /\ MotionNeedsNewHostCommand

-----------------------------------------------------------------------------
(* Types.                                                                   *)

\* The initial state is well typed.
LEMMA InitTypeOK == Init => TypeOK
  <1> SUFFICES ASSUME Init PROVE TypeOK
    OBVIOUS
  <1>1. queue \in Seq(Events) /\ Len(queue) <= QueueDepth
    BY RtAssumption DEF Init
  <1>2. /\ post \in [Tasks -> Events \cup {"none"}]
        /\ full \in [Tasks -> BOOLEAN]
    BY DEF Init
  <1>3. pc \in [high : {"receive", "mailbox"}, control : ControlLabels]
    BY DEF Init, ControlLabels
  <1>4. stsAge \in 0 .. StsTimeout + 1
    BY RtAssumption DEF Init
  <1>5. mailbox \in Commands /\ hostSnap \in Commands /\ host \in Commands /\ out \in Commands
    BY DEF Init, Commands
  <1>6. /\ estopFlag \in BOOLEAN /\ clearFlag \in BOOLEAN /\ stsNew \in BOOLEAN
        /\ sstsLatched \in BOOLEAN /\ pending \in BOOLEAN /\ heard \in BOOLEAN
        /\ noAuthority \in BOOLEAN /\ owed \in BOOLEAN /\ hostHeard \in BOOLEAN
    BY Zenon DEF Init
  <1>7. /\ modeFlag \in Modes \cup {"none"} /\ curMode \in Modes /\ ready \subseteq Streams
        /\ verdict \in {"revoke", "grant", "withhold"} /\ confirmed \in 0 .. 1
        /\ sup \in {"unacquired", "acquired", "lost"} /\ frames \in 0 .. 2
        /\ credit \in 0 .. 2 /\ (sup = "unacquired" => credit < 2)
    BY DEF Init, Modes, Streams
  <1> QED BY <1>1, <1>2, <1>3, <1>4, <1>5, <1>6, <1>7 DEF TypeOK

\* Every step inside enqueue_safety_event keeps the types.
LEMMA EnqueueTypeOK ==
  ASSUME TypeOK, NEW t \in Tasks, Enqueue(t)
  PROVE  TypeOK'
  <1> USE DEF TypeOK, Idle, Post, stream, inHigh, inLow, latch, superv, motion
  <1>1. CASE EventQueued(t)
    <2>1. post[t] \in Events
      BY <1>1 DEF EventQueued
    <2>2. queue' \in Seq(Events) /\ Len(queue') <= QueueDepth
      BY <1>1, <2>1, RtAssumption DEF EventQueued, Room
    <2>3. owed' \in BOOLEAN
      BY <1>1, <2>1 DEF EventQueued, HandOver
    <2> QED BY <1>1, <2>2, <2>3 DEF EventQueued
  <1>2. CASE QueueFull(t)
    BY <1>2 DEF QueueFull, events
  <1>3. CASE FlagStored(t)
    <2>1. estopFlag' \in BOOLEAN /\ clearFlag' \in BOOLEAN
      BY <1>3, Zenon DEF FlagStored
    <2>2. owed' \in BOOLEAN
      BY <1>3 DEF FlagStored, HandOver
    <2> QED BY <1>3, <2>1, <2>2 DEF FlagStored
  <1> QED BY <1>1, <1>2, <1>3 DEF Enqueue

\* Every frame, the end of the 0x300 handler and the clock keep the types.
LEMMA FrameTypeOK == TypeOK /\ (Frame \/ HostStored \/ Tick) => TypeOK'
  <1> SUFFICES ASSUME TypeOK, Frame \/ HostStored \/ Tick PROVE TypeOK'
    OBVIOUS
  <1> USE DEF TypeOK, Idle, Post, HighReceives, events, stream, inHigh, inLow, latch, superv, motion
  <1>1. CASE \E c \in Commands : HostCommand(c)
    BY <1>1 DEF HostCommand, Streams
  <1>2. CASE HostSteerOrObstacle
    BY <1>2 DEF HostSteerOrObstacle
  <1>3. CASE \E t \in CanTasks : SafetyEstop(t)
    BY <1>3 DEF SafetyEstop, Tasks, CanTasks, Events
  <1>4. ASSUME NEW asserted \in BOOLEAN, NEW advances \in BOOLEAN, SysSafetySts(asserted, advances)
        PROVE  TypeOK'
    <2>1. post' \in [Tasks -> Events \cup {"none"}]
      BY <1>4 DEF SysSafetySts, Events
    <2>2. stsAge' \in 0 .. StsTimeout + 1 /\ frames' \in 0 .. 2 /\ confirmed' \in 0 .. 1
      BY <1>4, RtAssumption DEF SysSafetySts
    <2>3. sstsLatched' \in BOOLEAN /\ stsNew' \in BOOLEAN
      BY <1>4, Zenon DEF SysSafetySts
    <2> QED BY <1>4, <2>1, <2>2, <2>3 DEF SysSafetySts
  <1>5. ASSUME NEW m \in Modes, SysModeCmd(m) PROVE TypeOK'
    <2>1. post' \in [Tasks -> Events \cup {"none"}]
      BY <1>5 DEF SysModeCmd, Events
    <2> QED BY <1>5, <2>1 DEF SysModeCmd, Streams
  <1>6. CASE HostStored
    BY <1>6 DEF HostStored
  <1>7. CASE Tick
    BY <1>7, RtAssumption DEF Tick
  <1> QED BY <1>1, <1>2, <1>3, <1>4, <1>5, <1>6, <1>7 DEF Frame

\* Every step of control_task keeps the types.
LEMMA ControlTypeOK == TypeOK /\ Control => TypeOK'
  <1> SUFFICES ASSUME TypeOK, Control PROVE TypeOK'
    OBVIOUS
  <1> USE DEF TypeOK, At, Idle, Goto, Post, ControlLabels,
              events, stream, inHigh, inLow, latch, superv, motion
  <1>1. CASE TakeEstopFlag
    <2>1. pending' = Latched /\ estopFlag' = FALSE
      BY <1>1 DEF TakeEstopFlag
    <2>2. pending' \in BOOLEAN
      <3> HIDE DEF TypeOK, ControlLabels
      <3>1. pending \in BOOLEAN /\ estopFlag \in BOOLEAN
        BY Zenon DEF TypeOK
      <3> QED BY <2>1, <3>1, Zenon DEF Latched
    <2>3. pc' \in [high : {"receive", "mailbox"}, control : ControlLabels]
      BY <1>1 DEF TakeEstopFlag
    <2>4. /\ UNCHANGED <<queue, clearFlag, modeFlag, owed, curMode, ready, mailbox, stream>>
          /\ UNCHANGED <<post, full, inHigh, inLow, superv, motion>>
      <3> HIDE DEF TypeOK
      <3> QED BY <1>1, Zenon DEF TakeEstopFlag
    <2>5. estopFlag' \in BOOLEAN
      BY <2>1, Zenon
    <2> QED BY <2>2, <2>3, <2>4, <2>5
  <1>2. CASE TakeModeFlag
    BY <1>2 DEF TakeModeFlag
  <1>3. CASE TakeClearFlag
    <2>1. CASE clearFlag
      <3>1. ApplyClear
        BY <1>3, <2>1, Zenon DEF TakeClearFlag
      <3>2. pc' \in [high : {"receive", "mailbox"}, control : ControlLabels]
        BY <3>1 DEF ApplyClear
      <3>3. ready' \subseteq Streams
        BY <3>1 DEF ApplyClear, MaskAfterClear
      <3>4. /\ pending' \in BOOLEAN /\ hostHeard' \in BOOLEAN
            /\ UNCHANGED <<curMode, hostSnap>>
        BY <3>1, Zenon DEF ApplyClear
      <3>5. clearFlag' \in BOOLEAN
        BY <1>3, Zenon DEF TakeClearFlag
      <3>6. /\ UNCHANGED <<queue, estopFlag, modeFlag, owed, mailbox, stream, post, full>>
            /\ UNCHANGED <<inLow, superv, motion>>
        BY <1>3, Zenon DEF TakeClearFlag
      <3> QED BY <3>2, <3>3, <3>4, <3>5, <3>6
    <2>2. CASE ~clearFlag
      <3>1. pc' \in [high : {"receive", "mailbox"}, control : ControlLabels]
        BY <1>3, <2>2 DEF TakeClearFlag
      <3>2. clearFlag' \in BOOLEAN /\ UNCHANGED <<pending, curMode, ready, hostSnap, hostHeard>>
        BY <1>3, <2>2, Zenon DEF TakeClearFlag
      <3>3. /\ UNCHANGED <<queue, estopFlag, modeFlag, owed, mailbox, stream, post, full>>
            /\ UNCHANGED <<inLow, superv, motion>>
        BY <1>3, Zenon DEF TakeClearFlag
      <3> QED BY <3>1, <3>2, <3>3
    <2> QED BY <2>1, <2>2
  <1>4. CASE DrainEvent
    <2>1. queue' \in Seq(Events) /\ Len(queue') <= QueueDepth
      BY <1>4, RtAssumption DEF DrainEvent
    <2>2. /\ UNCHANGED <<estopFlag, clearFlag, modeFlag, owed, mailbox, stream, post, full>>
          /\ UNCHANGED <<inLow, superv, motion>>
      BY <1>4, Zenon DEF DrainEvent
    <2>3. CASE Head(queue) = "ESTOP"
      <3>1. /\ pending' = TRUE
            /\ UNCHANGED <<curMode, ready, hostSnap, hostHeard, pc>>
        BY <1>4, <2>3 DEF DrainEvent, Modes
      <3> QED BY <2>1, <2>2, <3>1
    <2>4. CASE Head(queue) \in Modes
      BY <1>4, <2>1, <2>4 DEF DrainEvent, Modes
    <2>5. CASE Head(queue) = "SAFETY_CLEAR"
      <3>1. ApplyClear
        BY <1>4, <2>5 DEF DrainEvent, Modes
      <3>2. pc' \in [high : {"receive", "mailbox"}, control : ControlLabels]
        BY <3>1 DEF ApplyClear
      <3>3. ready' \subseteq Streams
        BY <3>1 DEF ApplyClear, MaskAfterClear
      <3>4. /\ pending' \in BOOLEAN /\ hostHeard' \in BOOLEAN
            /\ UNCHANGED <<curMode, hostSnap>>
        BY <3>1, Zenon DEF ApplyClear
      <3> QED BY <2>1, <2>2, <3>2, <3>3, <3>4
    <2> QED BY <1>4, <2>3, <2>4, <2>5 DEF DrainEvent
  <1>5. CASE DrainDone
    BY <1>5 DEF DrainDone
  <1>6. ASSUME NEW late \in BOOLEAN, Supervise(late) PROVE TypeOK'
    <2>1. Acquisition \in 0 .. 2
      BY DEF Acquisition
    <2>2. NextState \in {"unacquired", "acquired", "lost"}
      BY DEF NextState
    <2>3. NextState = "unacquired" => Acquisition < 2
      BY <2>1 DEF NextState
    <2>4. heard' \in BOOLEAN /\ stsNew' \in BOOLEAN
      BY <1>6, Zenon DEF Supervise
    <2>5. frames' \in 0 .. 2 /\ verdict' \in {"revoke", "grant", "withhold"}
      BY <1>6 DEF Supervise
    <2> QED BY <1>6, <2>1, <2>2, <2>3, <2>4, <2>5 DEF Supervise
  <1>7. CASE StoreMask
    <2>1. ready' \subseteq Streams
      BY <1>7 DEF StoreMask, MaskAfterVerdict, Streams
    <2>2. noAuthority' \in BOOLEAN
      BY <1>7, Zenon DEF StoreMask
    <2> QED BY <1>7, <2>1, <2>2 DEF StoreMask
  <1>8. CASE PeekHost
    BY <1>8 DEF PeekHost
  <1>9. CASE \E tripped, driving \in BOOLEAN : Publish(tripped, driving)
    BY <1>9 DEF Publish, Commands
  <1>10. CASE LowBusOff
    BY <1>10 DEF LowBusOff, Events, Tasks
  <1>11. CASE HighBusOff \/ HostStale \/ CycleEnds
    BY <1>11 DEF HighBusOff, HostStale, CycleEnds, Checks
  <1>12. CASE ZeroMailbox
    BY <1>12 DEF ZeroMailbox, AfterZero, Commands
  <1> QED
    BY <1>1, <1>2, <1>3, <1>4, <1>5, <1>6, <1>7, <1>8, <1>9, <1>10, <1>11, <1>12
    DEF Control

\* TypeOK is inductive.
LEMMA StepTypeOK == TypeOK /\ [Next]_vars => TypeOK'
  <1> SUFFICES ASSUME TypeOK, [Next]_vars PROVE TypeOK'
    OBVIOUS
  <1>1. CASE Next
    BY <1>1, EnqueueTypeOK, FrameTypeOK, ControlTypeOK DEF Next
  <1>2. CASE UNCHANGED vars
    BY <1>2 DEF TypeOK, vars, events, stream, inHigh, inLow, latch, superv, motion
  <1> QED BY <1>1, <1>2

\* Every variable keeps its type; in particular the queue keeps its depth
\* (main.cpp 219-231) and the supervisor's credit its bound.
THEOREM TypeCorrect == Spec => []TypeOK
  BY InitTypeOK, StepTypeOK, PTL DEF Spec

-----------------------------------------------------------------------------
(* The latch: an ESTOP that was enqueued is not lost.                       *)

Holds(q, e) == \E i \in 1 .. Len(q) : q[i] = e

\* What a sequence holds after an Append.
LEMMA AppendHolds ==
  ASSUME NEW q \in Seq(Events), NEW x \in Events, NEW e
  PROVE  Holds(Append(q, x), e) <=> Holds(q, e) \/ x = e
  <1> DEFINE r == Append(q, x)
  <1>1. /\ Len(r) = Len(q) + 1 /\ r[Len(q) + 1] = x
        /\ \A i \in 1 .. Len(q) : r[i] = q[i]
    OBVIOUS
  <1>2. Len(q) \in Nat
    OBVIOUS
  <1> HIDE DEF r
  <1>3. Holds(r, e) => Holds(q, e) \/ x = e
    BY <1>1, <1>2 DEF Holds
  <1>4. Holds(q, e) => Holds(r, e)
    BY <1>1, <1>2 DEF Holds
  <1>5. x = e => Holds(r, e)
    BY <1>1, <1>2 DEF Holds
  <1> QED BY <1>3, <1>4, <1>5 DEF r

\* What a sequence holds is its head or in its tail.
LEMMA TailHolds ==
  ASSUME NEW q \in Seq(Events), q # <<>>, NEW e
  PROVE  Holds(q, e) <=> Holds(Tail(q), e) \/ Head(q) = e
  <1> DEFINE r == Tail(q)
  <1>1. /\ Len(r) = Len(q) - 1 /\ Head(q) = q[1]
        /\ \A i \in 1 .. Len(r) : r[i] = q[i + 1]
    OBVIOUS
  <1>2. Len(q) \in Nat \ {0}
    OBVIOUS
  <1> HIDE DEF r
  <1>3. ASSUME Holds(q, e), q[1] # e PROVE Holds(r, e)
    <2>1. PICK i \in 1 .. Len(q) : q[i] = e
      BY <1>3 DEF Holds
    <2>2. i - 1 \in 1 .. Len(r) /\ r[i - 1] = e
      BY <1>1, <1>2, <1>3, <2>1
    <2> QED BY <2>2 DEF Holds
  <1>4. ASSUME Holds(r, e) PROVE Holds(q, e)
    <2>1. PICK i \in 1 .. Len(r) : r[i] = e
      BY <1>4 DEF Holds
    <2>2. i + 1 \in 1 .. Len(q) /\ q[i + 1] = e
      BY <1>1, <1>2, <2>1
    <2> QED BY <2>2 DEF Holds
  <1>5. Head(q) = e => Holds(q, e)
    BY <1>1, <1>2 DEF Holds
  <1> QED BY <1>1, <1>3, <1>4, <1>5 DEF r

\* A step inside enqueue_safety_event keeps the ESTOP that counts.
LEMMA EnqueueKeepsEstop ==
  ASSUME TypeOK, EstopHeld, NEW t \in Tasks, Enqueue(t)
  PROVE  EstopHeld'
  <1> USE DEF EstopHeld, EstopNeverDropped, Queued
  <1>1. CASE EventQueued(t)
    <2>1. /\ post[t] \in Events /\ queue \in Seq(Events) /\ queue' = Append(queue, post[t])
          /\ UNCHANGED <<pending, estopFlag, clearFlag>> /\ HandOver(post[t])
      BY <1>1 DEF EventQueued, TypeOK, Idle, latch
    <2>2. \A e : Holds(queue', e) <=> Holds(queue, e) \/ post[t] = e
      BY <2>1, AppendHolds
    <2>3. CASE post[t] = "ESTOP"
      <3>1. owed' = (owed \/ ~(clearFlag \/ Holds(queue, "SAFETY_CLEAR")))
        BY <2>1, <2>3, Zenon DEF HandOver, ClearUnderWay, Holds
      <3>2. Holds(queue', "ESTOP") /\ (Holds(queue', "SAFETY_CLEAR") => Holds(queue, "SAFETY_CLEAR"))
        BY <2>2, <2>3
      <3> QED BY <2>1, <3>1, <3>2, Zenon DEF Holds
    <2>4. CASE post[t] = "SAFETY_CLEAR"
      BY <2>1, <2>4 DEF HandOver
    <2>5. CASE post[t] \in Modes
      <3>1. owed' = owed
        BY <2>1, <2>5 DEF HandOver, Modes
      <3>2. \A e \in {"ESTOP", "SAFETY_CLEAR"} : Holds(queue', e) <=> Holds(queue, e)
        BY <2>2, <2>5 DEF Modes
      <3> QED BY <2>1, <3>1, <3>2, Zenon DEF Holds
    <2> QED BY <2>1, <2>3, <2>4, <2>5 DEF Events
  <1>2. CASE QueueFull(t)
    BY <1>2 DEF QueueFull, events, latch
  <1>3. CASE FlagStored(t)
    <2>1. /\ UNCHANGED <<pending, queue>> /\ HandOver(post[t])
          /\ estopFlag' = (estopFlag \/ post[t] = "ESTOP")
          /\ clearFlag' = (clearFlag \/ post[t] = "SAFETY_CLEAR")
      BY <1>3, Zenon DEF FlagStored, latch
    <2>2. CASE post[t] = "ESTOP"
      <3>1. owed' = (owed \/ ~ClearUnderWay)
        BY <2>1, <2>2, Zenon DEF HandOver
      <3>2. post[t] # "SAFETY_CLEAR"
        BY <2>2
      <3> QED BY <2>1, <2>2, <3>1, <3>2, Zenon DEF ClearUnderWay
    <2>3. CASE post[t] = "SAFETY_CLEAR"
      BY <2>1, <2>3 DEF HandOver
    <2>4. CASE post[t] # "ESTOP" /\ post[t] # "SAFETY_CLEAR"
      <3>1. owed' = owed
        BY <2>1, <2>4 DEF HandOver
      <3> QED BY <2>1, <2>4, <3>1, Zenon
    <2> QED BY <2>2, <2>3, <2>4
  <1> QED BY <1>1, <1>2, <1>3 DEF Enqueue

\* A step of control_task keeps the ESTOP that counts.
LEMMA ControlKeepsEstop ==
  ASSUME TypeOK, EstopHeld, Control
  PROVE  EstopHeld'
  <1> USE DEF EstopHeld, EstopNeverDropped, Queued
  <1>1. CASE TakeEstopFlag
    BY <1>1, Zenon DEF TakeEstopFlag, Latched
  <1>2. CASE TakeClearFlag
    <2>1. CASE clearFlag
      BY <1>2, <2>1, Zenon DEF TakeClearFlag
    <2>2. CASE ~clearFlag
      BY <1>2, <2>2, Zenon DEF TakeClearFlag, latch
    <2> QED BY <2>1, <2>2
  <1>3. CASE DrainEvent
    <2>1. /\ queue \in Seq(Events) /\ queue # <<>> /\ queue' = Tail(queue)
          /\ UNCHANGED <<estopFlag, clearFlag, owed>>
      BY <1>3 DEF DrainEvent, TypeOK
    <2>2. \A e : Holds(queue, e) <=> Holds(queue', e) \/ Head(queue) = e
      BY <2>1, TailHolds
    <2>3. CASE Head(queue) = "ESTOP"
      <3>1. pending'
        BY <1>3, <2>3 DEF DrainEvent, Modes
      <3> QED BY <2>1, <2>2, <3>1, Zenon DEF Holds
    <2>4. CASE Head(queue) \in Modes
      <3>1. pending' = pending
        BY <1>3, <2>4 DEF DrainEvent, Modes
      <3>2. Head(queue) # "ESTOP"
        BY <2>4 DEF Modes
      <3> QED BY <2>1, <2>2, <3>1, <3>2, Zenon DEF Holds
    <2>5. CASE Head(queue) = "SAFETY_CLEAR"
      BY <2>1, <2>2, <2>5, Zenon DEF Holds
    <2> QED BY <1>3, <2>3, <2>4, <2>5 DEF DrainEvent
  <1>4. CASE \/ TakeModeFlag \/ DrainDone \/ StoreMask \/ PeekHost
             \/ LowBusOff \/ HighBusOff \/ HostStale \/ CycleEnds \/ ZeroMailbox
             \/ \E late \in BOOLEAN : Supervise(late)
             \/ \E tripped, driving \in BOOLEAN : Publish(tripped, driving)
    <2>1. UNCHANGED <<queue, estopFlag, clearFlag, owed, pending>>
      BY <1>4 DEF TakeModeFlag, DrainDone, StoreMask, PeekHost, LowBusOff, HighBusOff,
                  HostStale, CycleEnds, ZeroMailbox, Supervise, Publish, events, latch
    <2> QED BY <2>1
  <1> QED BY <1>1, <1>2, <1>3, <1>4 DEF Control

\* The initial state owes nothing, and every step keeps the ESTOP that counts.
LEMMA StepKeepsEstop == TypeOK /\ EstopHeld /\ [Next]_vars => EstopHeld'
  <1> SUFFICES ASSUME TypeOK, EstopHeld, [Next]_vars PROVE EstopHeld'
    OBVIOUS
  <1>1. CASE Frame \/ HostStored \/ Tick \/ UNCHANGED vars
    <2>1. UNCHANGED <<queue, estopFlag, clearFlag, owed, pending>>
      BY <1>1 DEF Frame, HostStored, Tick, vars, HostCommand, HostSteerOrObstacle,
                  SafetyEstop, SysSafetySts, SysModeCmd, events, latch
    <2> QED BY <2>1 DEF EstopHeld, EstopNeverDropped, Queued
  <1>2. CASE Control
    BY <1>2, ControlKeepsEstop
  <1>3. CASE \E t \in Tasks : Enqueue(t)
    BY <1>3, EnqueueKeepsEstop
  <1> QED BY <1>1, <1>2, <1>3 DEF Next

\* EstopNeverDropped for every depth of g_safety_evt_q (main.cpp 219-231,
\* 1227-1266): no overflow, drain order or race of the tasks loses an ESTOP.
THEOREM NoEstopIsDropped == Spec => []EstopNeverDropped
  <1>1. Init => EstopHeld
    BY DEF Init, EstopHeld, EstopNeverDropped, Queued
  <1>2. EstopHeld => EstopNeverDropped
    BY DEF EstopHeld
  <1> QED BY <1>1, <1>2, StepKeepsEstop, TypeCorrect, PTL DEF Spec

-----------------------------------------------------------------------------
(* The mask: what moves the vehicle.                                        *)

\* A step outside control_task takes no bit it does not own, and a HOST bit it
\* sets is a 0x300.
LEMMA OtherStepsKeepMask ==
  ASSUME TypeOK, MaskBacked,
         Frame \/ HostStored \/ Tick \/ (\E t \in Tasks : Enqueue(t)) \/ UNCHANGED vars
  PROVE  MaskBacked'
  <1> USE DEF TypeOK, MaskBacked, MotionOnlyUnderAuthority, MotionNeedsNewHostCommand, Published, Checks
  <1>1. UNCHANGED <<pc.control, verdict, sup, pending, curMode, out>>
    BY DEF Frame, HostStored, Tick, Enqueue, EventQueued, QueueFull, FlagStored, vars,
           HostCommand, HostSteerOrObstacle, SafetyEstop, SysSafetySts, SysModeCmd,
           latch, superv, motion
  <1>2. /\ "safety" \in ready' => "safety" \in ready
        /\ hostHeard => hostHeard'
        /\ "host" \in ready' => hostHeard'
    BY DEF Frame, HostStored, Tick, Enqueue, EventQueued, QueueFull, FlagStored, vars,
           HostCommand, HostSteerOrObstacle, SafetyEstop, SysSafetySts, SysModeCmd, inHigh
  <1> QED BY <1>1, <1>2

\* A step of control_task grants SAFETY only under authority, and what it
\* publishes moves only with all three bits set.
LEMMA ControlKeepsMask ==
  ASSUME TypeOK, MaskBacked, Control
  PROVE  MaskBacked'
  <1> USE DEF TypeOK, MaskBacked, MotionOnlyUnderAuthority, MotionNeedsNewHostCommand, Published, Checks,
              At, Goto, inHigh, latch, superv, motion
  <1>1. CASE TakeEstopFlag \/ TakeModeFlag \/ DrainDone
    BY <1>1 DEF TakeEstopFlag, TakeModeFlag, DrainDone
  <1>2. CASE TakeClearFlag
    BY <1>2 DEF TakeClearFlag, ApplyClear, MaskAfterClear
  <1>3. CASE DrainEvent
    BY <1>3 DEF DrainEvent, ApplyClear, MaskAfterClear
  <1>4. ASSUME NEW late \in BOOLEAN, Supervise(late) PROVE MaskBacked'
    BY <1>4 DEF Supervise
  <1>5. CASE StoreMask
    BY <1>5 DEF StoreMask, MaskAfterVerdict
  <1>6. CASE PeekHost
    BY <1>6 DEF PeekHost
  <1>7. ASSUME NEW tripped \in BOOLEAN, NEW driving \in BOOLEAN, Publish(tripped, driving)
        PROVE  MaskBacked'
    BY <1>7 DEF Publish, DriveAllowed, Streams
  <1>8. CASE LowBusOff \/ HighBusOff \/ HostStale \/ CycleEnds
    BY <1>8 DEF LowBusOff, HighBusOff, HostStale, CycleEnds
  <1>9. CASE ZeroMailbox
    BY <1>9 DEF ZeroMailbox, AfterZero
  <1> QED BY <1>1, <1>2, <1>3, <1>4, <1>5, <1>6, <1>7, <1>8, <1>9 DEF Control

\* MaskBacked is an invariant.
THEOREM MaskIsBacked == Spec => []MaskBacked
  <1>1. Init => MaskBacked
    BY DEF Init, MaskBacked, MotionOnlyUnderAuthority, MotionNeedsNewHostCommand
  <1>2. TypeOK /\ MaskBacked /\ [Next]_vars => MaskBacked'
    BY OtherStepsKeepMask, ControlKeepsMask DEF Next
  <1> QED BY <1>1, <1>2, TypeCorrect, PTL DEF Spec

\* MotionOnlyUnderAuthority for every depth of the queue and every timeout:
\* control_task (main.cpp 1246-1328, 1421-1496) moves in AUTO only, with the 0x011
\* stream acquired and no ESTOP latched.
THEOREM NoMotionWithoutAuthority == Spec => []MotionOnlyUnderAuthority
  <1>1. MaskBacked => MotionOnlyUnderAuthority
    BY DEF MaskBacked
  <1> QED BY <1>1, MaskIsBacked, PTL

\* MotionNeedsNewHostCommand likewise: the HOST bit that moves was set by a 0x300
\* that came after the last clear (main.cpp 442-456, 1239-1261).
THEOREM NoMotionWithoutNewCommand == Spec => []MotionNeedsNewHostCommand
  <1>1. MaskBacked => MotionNeedsNewHostCommand
    BY DEF MaskBacked
  <1> QED BY <1>1, MaskIsBacked, PTL

=============================================================================
