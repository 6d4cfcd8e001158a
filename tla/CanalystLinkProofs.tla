------------------------- MODULE CanalystLinkProofs -------------------------
(***************************************************************************)
(* Theorems about CanalystLink: a failure always reaches Bench TX, a bus   *)
(* is written to only by the Bench TX of its own epoch, and a recording    *)
(* learns of the loss it lives through, for every number of senders and of *)
(* faults.                                                                 *)
(***************************************************************************)
EXTENDS CanalystLink, TLAPS

-----------------------------------------------------------------------------
(* Types, one part of the state at a time                                   *)

FlagsTyped ==
    /\ device \in BOOLEAN /\ broken \in BOOLEAN /\ requested \in BOOLEAN
    /\ notified \in BOOLEAN /\ settled \in BOOLEAN /\ bench \in BOOLEAN
    /\ sound \in BOOLEAN

AdapterTyped ==
    /\ health \in {"up", "degraded", "recovering", "absent"}
    /\ beat \in {"fresh", "late", "lost"}
    /\ worker \in {"top", "wait", "recv", "check", "finish", "drop"}
    /\ monitor \in {"idle", "fresh", "late", "lost"}

NumbersTyped ==
    /\ faults \in 0..MaxFaults /\ bus \in Nat /\ epoch \in Nat \ {Closed}
    /\ benchEpoch \in Nat /\ requestEpoch \in Nat /\ recorded \in SUBSET Nat

SendersTyped ==
    /\ sender \in [Senders -> {"idle", "gated", "sending"}]
    /\ hand \in [Senders -> Nat] /\ armed \in [Senders -> Nat]
    /\ sent \in [bus : Nat, armed : Nat]

ReportsTyped ==
    /\ post \in [Threads -> {"none", "failed", "recovered"}]
    /\ callbacks \in Seq({"failed", "recovered"})

SessionTyped ==
    /\ told \in {"connected", "failed", "recovered"}
    /\ request \in {"idle", "checked"} /\ rec \in {"none", "complete", "degraded"}

Typed ==
    /\ FlagsTyped /\ AdapterTyped /\ NumbersTyped
    /\ SendersTyped /\ ReportsTyped /\ SessionTyped

LEMMA TypedInit == Init => Typed
<1>1. Init => FlagsTyped /\ AdapterTyped /\ SessionTyped
  BY DEF Init, FlagsTyped, AdapterTyped, SessionTyped
<1>2. Init => NumbersTyped
  BY LinkAssumption DEF Init, NumbersTyped, Closed
<1>3. Init => SendersTyped
  BY DEF Init, SendersTyped, Closed
<1>4. Init => ReportsTyped
  BY DEF Init, ReportsTyped
<1>q. QED
  BY <1>1, <1>2, <1>3, <1>4 DEF Typed

LEMMA FlagsTypedStep ==
    ASSUME Typed, [Next]_vars
    PROVE  FlagsTyped'
<1>1. CASE Environment \/ WindowPasses
  BY <1>1 DEF FlagsTyped, Typed, Environment, Fault, Unplugged, Plugged, Stalls,
  WindowPasses, adapter, senders, session, record, vars
<1>2. CASE Disconnects \/ StartsReceive \/ Receives \/ NotRequested
  BY <1>2 DEF FlagsTyped, Typed, Disconnects, StartsReceive, Receives, NotRequested,
  WorkerAt, adapter, senders, session, record, vars
<1>3. CASE ReceiveFails
  BY <1>3 DEF FlagsTyped, Typed, ReceiveFails, SignalFailure, WorkerAt, adapter,
  senders, session, record, vars
<1>4. CASE FinishesRecovery \/ KeepsReceiving
  BY <1>4 DEF FlagsTyped, Typed, FinishesRecovery, KeepsReceiving, Observed, WorkerAt,
  adapter, senders, session, record, vars
<1>5. CASE StartsRetry \/ RetryFails \/ Reconnects
  BY <1>5 DEF FlagsTyped, Typed, StartsRetry, RetryFails, AfterFailedRetry,
  Reconnects, WorkerAt, adapter, senders, session, record, vars
<1>6. CASE Monitor
  BY <1>6 DEF FlagsTyped, Typed, Monitor, MonitorReads, MonitorMarks, MonitorFails,
  SignalFailure, adapter, senders, session, record, vars
<1>7. ASSUME NEW s \in Senders, Gated(s) \/ Submits(s)
     PROVE  FlagsTyped'
  BY <1>7 DEF FlagsTyped, Typed, Gated, Submits, TakesBus, SendRejected, Sends,
  SendFails, Leaves, SignalFailure, adapter, senders, session, record, vars
<1>8. CASE Operator \/ BenchEnabled \/ Handles
  BY <1>8 DEF FlagsTyped, Typed, Operator, BenchChecked, BenchDisabled,
  RecordingStarts, RecordingStops, BenchEnabled, Handles, adapter, senders, session,
  record, vars
<1>9. ASSUME NEW t \in Threads, Posts(t)
     PROVE  FlagsTyped'
  BY <1>9 DEF FlagsTyped, Typed, Posts, adapter, senders, session, record, vars
<1>10. CASE UNCHANGED vars
  BY <1>10 DEF FlagsTyped, Typed, adapter, senders, session, record, vars
<1>q. QED
  BY <1>1, <1>2, <1>3, <1>4, <1>5, <1>6, <1>7, <1>8, <1>9, <1>10 DEF Next, Worker

LEMMA AdapterTypedStep ==
    ASSUME Typed, [Next]_vars
    PROVE  AdapterTyped'
<1>1. CASE Environment \/ WindowPasses
  BY <1>1 DEF AdapterTyped, Typed, Environment, Fault, Unplugged, Plugged, Stalls,
  WindowPasses, adapter, senders, session, record, vars
<1>2. CASE Disconnects \/ StartsReceive \/ Receives \/ NotRequested
  BY <1>2 DEF AdapterTyped, Typed, Disconnects, StartsReceive, Receives, NotRequested,
  WorkerAt, adapter, senders, session, record, vars
<1>3. CASE ReceiveFails
  BY <1>3 DEF AdapterTyped, Typed, ReceiveFails, SignalFailure, WorkerAt, adapter,
  senders, session, record, vars
<1>4. CASE FinishesRecovery \/ KeepsReceiving
  BY <1>4 DEF AdapterTyped, Typed, FinishesRecovery, KeepsReceiving, Observed,
  WorkerAt, adapter, senders, session, record, vars
<1>5. CASE StartsRetry \/ RetryFails \/ Reconnects
  BY <1>5 DEF AdapterTyped, Typed, StartsRetry, RetryFails, AfterFailedRetry,
  Reconnects, WorkerAt, adapter, senders, session, record, vars
<1>6. CASE Monitor
  BY <1>6 DEF AdapterTyped, Typed, Monitor, MonitorReads, MonitorMarks, MonitorFails,
  SignalFailure, adapter, senders, session, record, vars
<1>7. ASSUME NEW s \in Senders, Gated(s) \/ Submits(s)
     PROVE  AdapterTyped'
  BY <1>7 DEF AdapterTyped, Typed, Gated, Submits, TakesBus, SendRejected, Sends,
  SendFails, Leaves, SignalFailure, adapter, senders, session, record, vars
<1>8. CASE Operator \/ BenchEnabled \/ Handles
  BY <1>8 DEF AdapterTyped, Typed, Operator, BenchChecked, BenchDisabled,
  RecordingStarts, RecordingStops, BenchEnabled, Handles, adapter, senders, session,
  record, vars
<1>9. ASSUME NEW t \in Threads, Posts(t)
     PROVE  AdapterTyped'
  BY <1>9 DEF AdapterTyped, Typed, Posts, adapter, senders, session, record, vars
<1>10. CASE UNCHANGED vars
  BY <1>10 DEF AdapterTyped, Typed, adapter, senders, session, record, vars
<1>q. QED
  BY <1>1, <1>2, <1>3, <1>4, <1>5, <1>6, <1>7, <1>8, <1>9, <1>10 DEF Next, Worker

LEMMA NumbersTypedStep ==
    ASSUME Typed, [Next]_vars
    PROVE  NumbersTyped'
<1>1. CASE Environment \/ WindowPasses
  <2>1. /\ UNCHANGED <<bus, epoch, benchEpoch, requestEpoch, recorded>>
        /\ faults' = faults \/ (faults < MaxFaults /\ faults' = faults + 1)
    BY <1>1 DEF Environment, Fault, Unplugged, Plugged, Stalls, WindowPasses, adapter,
    senders, session, record, vars
  <2>2. NumbersTyped /\ MaxFaults \in Nat
    BY LinkAssumption DEF Typed
  <2>q. QED
    BY <2>1, <2>2 DEF NumbersTyped, Closed
<1>2. CASE Disconnects \/ StartsReceive \/ Receives \/ NotRequested
  <2>1. /\ UNCHANGED <<faults, epoch, benchEpoch, requestEpoch, recorded>>
        /\ bus' \in {bus, Closed}
    BY <1>2 DEF Disconnects, StartsReceive, Receives, NotRequested, WorkerAt, adapter,
    senders, session, record, vars
  <2>2. NumbersTyped
    BY DEF Typed
  <2>q. QED
    BY <2>1, <2>2 DEF NumbersTyped, Closed
<1>3. CASE ReceiveFails
  BY <1>3, LinkAssumption DEF NumbersTyped, Closed, Typed, ReceiveFails,
  SignalFailure, WorkerAt, adapter, senders, session, record, vars
<1>4. CASE FinishesRecovery \/ KeepsReceiving
  BY <1>4, LinkAssumption DEF NumbersTyped, Closed, Typed, FinishesRecovery,
  KeepsReceiving, Observed, WorkerAt, adapter, senders, session, record, vars
<1>5. CASE StartsRetry \/ RetryFails \/ Reconnects
  <2>1. /\ UNCHANGED <<faults, benchEpoch, requestEpoch, recorded>>
        /\ <<bus', epoch'>> \in {<<bus, epoch>>, <<epoch + 1, epoch + 1>>}
    BY <1>5 DEF StartsRetry, RetryFails, AfterFailedRetry, Reconnects, WorkerAt,
    adapter, senders, session, record, vars
  <2>2. NumbersTyped
    BY DEF Typed
  <2>q. QED
    BY <2>1, <2>2 DEF NumbersTyped, Closed
<1>6. CASE Monitor
  BY <1>6, LinkAssumption DEF NumbersTyped, Closed, Typed, Monitor, MonitorReads,
  MonitorMarks, MonitorFails, SignalFailure, adapter, senders, session, record, vars
<1>7. ASSUME NEW s \in Senders, Gated(s) \/ Submits(s)
     PROVE  NumbersTyped'
  BY <1>7, LinkAssumption DEF NumbersTyped, Closed, Typed, Gated, Submits, TakesBus,
  SendRejected, Sends, SendFails, Leaves, SignalFailure, adapter, senders, session,
  record, vars
<1>8. CASE Operator \/ BenchEnabled \/ Handles
  <2>1. /\ UNCHANGED <<faults, bus, epoch>>
        /\ benchEpoch' \in {benchEpoch, requestEpoch, Closed}
        /\ requestEpoch' \in {requestEpoch, epoch, Closed} /\ recorded' \in {recorded, {}}
    BY <1>8 DEF Operator, BenchChecked, BenchDisabled, RecordingStarts,
    RecordingStops, BenchEnabled, Handles, adapter, senders, session, record, vars
  <2>2. NumbersTyped
    BY DEF Typed
  <2>q. QED
    BY <2>1, <2>2 DEF NumbersTyped, Closed
<1>9. ASSUME NEW t \in Threads, Posts(t)
     PROVE  NumbersTyped'
  BY <1>9, LinkAssumption DEF NumbersTyped, Closed, Typed, Posts, adapter, senders,
  session, record, vars
<1>10. CASE UNCHANGED vars
  BY <1>10, LinkAssumption DEF NumbersTyped, Closed, Typed, adapter, senders, session,
  record, vars
<1>q. QED
  BY <1>1, <1>2, <1>3, <1>4, <1>5, <1>6, <1>7, <1>8, <1>9, <1>10 DEF Next, Worker

LEMMA SendersTypedStep ==
    ASSUME Typed, [Next]_vars
    PROVE  SendersTyped'
<1>1. CASE Environment \/ WindowPasses
  BY <1>1 DEF NumbersTyped, SendersTyped, Closed, Typed, Environment, Fault,
  Unplugged, Plugged, Stalls, WindowPasses, adapter, senders, session, record, vars
<1>2. CASE Disconnects \/ StartsReceive \/ Receives \/ NotRequested
  BY <1>2 DEF NumbersTyped, SendersTyped, Closed, Typed, Disconnects, StartsReceive,
  Receives, NotRequested, WorkerAt, adapter, senders, session, record, vars
<1>3. CASE ReceiveFails
  BY <1>3 DEF NumbersTyped, SendersTyped, Closed, Typed, ReceiveFails, SignalFailure,
  WorkerAt, adapter, senders, session, record, vars
<1>4. CASE FinishesRecovery \/ KeepsReceiving
  BY <1>4 DEF NumbersTyped, SendersTyped, Closed, Typed, FinishesRecovery,
  KeepsReceiving, Observed, WorkerAt, adapter, senders, session, record, vars
<1>5. CASE StartsRetry \/ RetryFails \/ Reconnects
  BY <1>5 DEF NumbersTyped, SendersTyped, Closed, Typed, StartsRetry, RetryFails,
  AfterFailedRetry, Reconnects, WorkerAt, adapter, senders, session, record, vars
<1>6. CASE Monitor
  BY <1>6 DEF NumbersTyped, SendersTyped, Closed, Typed, Monitor, MonitorReads,
  MonitorMarks, MonitorFails, SignalFailure, adapter, senders, session, record, vars
<1>7. ASSUME NEW s \in Senders, Gated(s) \/ Submits(s)
     PROVE  SendersTyped'
  BY <1>7 DEF NumbersTyped, SendersTyped, Closed, Typed, Gated, Submits, TakesBus,
  SendRejected, Sends, SendFails, Leaves, SignalFailure, adapter, senders, session,
  record, vars
<1>8. CASE Operator \/ BenchEnabled \/ Handles
  BY <1>8 DEF NumbersTyped, SendersTyped, Closed, Typed, Operator, BenchChecked,
  BenchDisabled, RecordingStarts, RecordingStops, BenchEnabled, Handles, adapter,
  senders, session, record, vars
<1>9. ASSUME NEW t \in Threads, Posts(t)
     PROVE  SendersTyped'
  BY <1>9 DEF NumbersTyped, SendersTyped, Closed, Typed, Posts, adapter, senders,
  session, record, vars
<1>10. CASE UNCHANGED vars
  BY <1>10 DEF NumbersTyped, SendersTyped, Closed, Typed, adapter, senders, session,
  record, vars
<1>q. QED
  BY <1>1, <1>2, <1>3, <1>4, <1>5, <1>6, <1>7, <1>8, <1>9, <1>10 DEF Next, Worker

LEMMA ReportsTypedStep ==
    ASSUME Typed, [Next]_vars
    PROVE  ReportsTyped'
<1>1. CASE Environment \/ WindowPasses
  BY <1>1 DEF ReportsTyped, Threads, Typed, Environment, Fault, Unplugged, Plugged,
  Stalls, WindowPasses, adapter, senders, session, record, vars
<1>2. CASE Disconnects \/ StartsReceive \/ Receives \/ NotRequested
  BY <1>2 DEF ReportsTyped, Threads, Typed, Disconnects, StartsReceive, Receives,
  NotRequested, WorkerAt, adapter, senders, session, record, vars
<1>3. CASE ReceiveFails
  BY <1>3 DEF ReportsTyped, Threads, Typed, ReceiveFails, SignalFailure, WorkerAt,
  adapter, senders, session, record, vars
<1>4. CASE FinishesRecovery \/ KeepsReceiving
  BY <1>4 DEF ReportsTyped, Threads, Typed, FinishesRecovery, KeepsReceiving,
  Observed, WorkerAt, adapter, senders, session, record, vars
<1>5. CASE StartsRetry \/ RetryFails \/ Reconnects
  BY <1>5 DEF ReportsTyped, Threads, Typed, StartsRetry, RetryFails, AfterFailedRetry,
  Reconnects, WorkerAt, adapter, senders, session, record, vars
<1>6. CASE Monitor
  BY <1>6 DEF ReportsTyped, Threads, Typed, Monitor, MonitorReads, MonitorMarks,
  MonitorFails, SignalFailure, adapter, senders, session, record, vars
<1>7. ASSUME NEW s \in Senders, Gated(s) \/ Submits(s)
     PROVE  ReportsTyped'
  BY <1>7 DEF ReportsTyped, Threads, Typed, Gated, Submits, TakesBus, SendRejected,
  Sends, SendFails, Leaves, SignalFailure, adapter, senders, session, record, vars
<1>8. CASE Operator \/ BenchEnabled \/ Handles
  BY <1>8 DEF ReportsTyped, Threads, Typed, Operator, BenchChecked, BenchDisabled,
  RecordingStarts, RecordingStops, BenchEnabled, Handles, adapter, senders, session,
  record, vars
<1>9. ASSUME NEW t \in Threads, Posts(t)
     PROVE  ReportsTyped'
  BY <1>9 DEF ReportsTyped, Threads, Typed, Posts, adapter, senders, session, record,
  vars
<1>10. CASE UNCHANGED vars
  BY <1>10 DEF ReportsTyped, Threads, Typed, adapter, senders, session, record, vars
<1>q. QED
  BY <1>1, <1>2, <1>3, <1>4, <1>5, <1>6, <1>7, <1>8, <1>9, <1>10 DEF Next, Worker

LEMMA SessionTypedStep ==
    ASSUME Typed, [Next]_vars
    PROVE  SessionTyped'
<1>1. CASE Environment \/ WindowPasses
  BY <1>1 DEF ReportsTyped, SessionTyped, Typed, Environment, Fault, Unplugged,
  Plugged, Stalls, WindowPasses, adapter, senders, session, record, vars
<1>2. CASE Disconnects \/ StartsReceive \/ Receives \/ NotRequested
  BY <1>2 DEF ReportsTyped, SessionTyped, Typed, Disconnects, StartsReceive, Receives,
  NotRequested, WorkerAt, adapter, senders, session, record, vars
<1>3. CASE ReceiveFails
  BY <1>3 DEF ReportsTyped, SessionTyped, Typed, ReceiveFails, SignalFailure,
  WorkerAt, adapter, senders, session, record, vars
<1>4. CASE FinishesRecovery \/ KeepsReceiving
  BY <1>4 DEF ReportsTyped, SessionTyped, Typed, FinishesRecovery, KeepsReceiving,
  Observed, WorkerAt, adapter, senders, session, record, vars
<1>5. CASE StartsRetry \/ RetryFails \/ Reconnects
  BY <1>5 DEF ReportsTyped, SessionTyped, Typed, StartsRetry, RetryFails,
  AfterFailedRetry, Reconnects, WorkerAt, adapter, senders, session, record, vars
<1>6. CASE Monitor
  BY <1>6 DEF ReportsTyped, SessionTyped, Typed, Monitor, MonitorReads, MonitorMarks,
  MonitorFails, SignalFailure, adapter, senders, session, record, vars
<1>7. ASSUME NEW s \in Senders, Gated(s) \/ Submits(s)
     PROVE  SessionTyped'
  BY <1>7 DEF ReportsTyped, SessionTyped, Typed, Gated, Submits, TakesBus,
  SendRejected, Sends, SendFails, Leaves, SignalFailure, adapter, senders, session,
  record, vars
<1>8. CASE Operator \/ BenchEnabled \/ Handles
  BY <1>8 DEF ReportsTyped, SessionTyped, Typed, Operator, BenchChecked,
  BenchDisabled, RecordingStarts, RecordingStops, BenchEnabled, Handles, adapter,
  senders, session, record, vars
<1>9. ASSUME NEW t \in Threads, Posts(t)
     PROVE  SessionTyped'
  BY <1>9 DEF ReportsTyped, SessionTyped, Typed, Posts, adapter, senders, session,
  record, vars
<1>10. CASE UNCHANGED vars
  BY <1>10 DEF ReportsTyped, SessionTyped, Typed, adapter, senders, session, record,
  vars
<1>q. QED
  BY <1>1, <1>2, <1>3, <1>4, <1>5, <1>6, <1>7, <1>8, <1>9, <1>10 DEF Next, Worker

LEMMA TypedStep ==
    ASSUME Typed, [Next]_vars
    PROVE  Typed'
  BY FlagsTypedStep, AdapterTypedStep, NumbersTypedStep, SendersTypedStep,
     ReportsTypedStep, SessionTypedStep DEF Typed

-----------------------------------------------------------------------------
(* What the flags of the adapter say about each other                       *)

Flags ==
    /\ requested => notified
    /\ health = "up" => ~notified
    /\ health \in {"recovering", "absent"} => notified
    /\ health = "recovering" /\ bus # Closed => ~requested
    /\ bus = Closed => notified
    /\ worker = "drop" => notified
    /\ bus \in {Closed, epoch}
    /\ worker \in {"recv", "check", "finish", "drop"} => bus # Closed
    /\ worker = "wait" => bus = Closed

LEMMA FlagsStep ==
    ASSUME Typed, Flags, [Next]_vars
    PROVE  Flags'
<1>1. CASE Environment \/ WindowPasses
  BY <1>1 DEF Flags, Typed, FlagsTyped, AdapterTyped, NumbersTyped, Closed,
  Environment, Fault, Unplugged, Plugged, Stalls, WindowPasses, adapter, senders,
  session, record, vars
<1>2. CASE Disconnects \/ StartsReceive \/ Receives \/ NotRequested
  BY <1>2 DEF Flags, Typed, FlagsTyped, AdapterTyped, NumbersTyped, Closed,
  Disconnects, StartsReceive, Receives, NotRequested, WorkerAt, adapter, senders,
  session, record, vars
<1>3. CASE ReceiveFails
  BY <1>3 DEF Flags, Typed, FlagsTyped, AdapterTyped, NumbersTyped, Closed,
  ReceiveFails, SignalFailure, WorkerAt, adapter, senders, session, record, vars
<1>4. CASE FinishesRecovery \/ KeepsReceiving
  BY <1>4 DEF Flags, Typed, FlagsTyped, AdapterTyped, NumbersTyped, Closed,
  FinishesRecovery, KeepsReceiving, Observed, WorkerAt, adapter, senders, session,
  record, vars
<1>5. CASE StartsRetry \/ RetryFails \/ Reconnects
  BY <1>5 DEF Flags, Typed, FlagsTyped, AdapterTyped, NumbersTyped, Closed,
  StartsRetry, RetryFails, AfterFailedRetry, Reconnects, WorkerAt, adapter, senders,
  session, record, vars
<1>6. CASE Monitor
  BY <1>6 DEF Flags, Typed, FlagsTyped, AdapterTyped, NumbersTyped, Closed, Monitor,
  MonitorReads, MonitorMarks, MonitorFails, SignalFailure, adapter, senders, session,
  record, vars
<1>7. ASSUME NEW s \in Senders, Gated(s) \/ Submits(s)
     PROVE  Flags'
  BY <1>7 DEF Flags, Typed, FlagsTyped, AdapterTyped, NumbersTyped, Closed, Gated,
  Submits, TakesBus, SendRejected, Sends, SendFails, Leaves, SignalFailure, adapter,
  senders, session, record, vars
<1>8. CASE Operator \/ BenchEnabled \/ Handles
  BY <1>8 DEF Flags, Typed, FlagsTyped, AdapterTyped, NumbersTyped, Closed, Operator,
  BenchChecked, BenchDisabled, RecordingStarts, RecordingStops, BenchEnabled, Handles,
  adapter, senders, session, record, vars
<1>9. ASSUME NEW t \in Threads, Posts(t)
     PROVE  Flags'
  BY <1>9 DEF Flags, Typed, FlagsTyped, AdapterTyped, NumbersTyped, Closed, Posts,
  adapter, senders, session, record, vars
<1>10. CASE UNCHANGED vars
  BY <1>10 DEF Flags, Typed, FlagsTyped, AdapterTyped, NumbersTyped, Closed, adapter,
  senders, session, record, vars
<1>q. QED
  BY <1>1, <1>2, <1>3, <1>4, <1>5, <1>6, <1>7, <1>8, <1>9, <1>10 DEF Next, Worker

LEMMA FlagsInit == Init => Flags
  BY DEF Init, Flags, Closed

-----------------------------------------------------------------------------
(* A loss is pursued                                                        *)

\* No step takes the last means of recovery away: only a reconnect clears the request,
\* and it leaves the link in recovery.
LEMMA PursuedStep ==
    ASSUME Typed, Flags, LossIsPursued, [Next]_vars
    PROVE  LossIsPursued'
<1>1. CASE Environment \/ WindowPasses
  BY <1>1 DEF LossIsPursued, Flags, Typed, FlagsTyped, AdapterTyped, NumbersTyped, Closed,
  Environment, Fault, Unplugged, Plugged, Stalls, WindowPasses, adapter, senders,
  session, record, vars
<1>2. CASE Disconnects \/ StartsReceive \/ Receives \/ NotRequested
  BY <1>2 DEF LossIsPursued, Flags, Typed, FlagsTyped, AdapterTyped, NumbersTyped, Closed,
  Disconnects, StartsReceive, Receives, NotRequested, WorkerAt, adapter, senders,
  session, record, vars
<1>3. CASE ReceiveFails
  BY <1>3 DEF LossIsPursued, Flags, Typed, FlagsTyped, AdapterTyped, NumbersTyped, Closed,
  ReceiveFails, SignalFailure, WorkerAt, adapter, senders, session, record, vars
<1>4. CASE FinishesRecovery \/ KeepsReceiving
  BY <1>4 DEF LossIsPursued, Flags, Typed, FlagsTyped, AdapterTyped, NumbersTyped, Closed,
  FinishesRecovery, KeepsReceiving, Observed, WorkerAt, adapter, senders, session,
  record, vars
<1>5. CASE StartsRetry \/ RetryFails \/ Reconnects
  BY <1>5 DEF LossIsPursued, Flags, Typed, FlagsTyped, AdapterTyped, NumbersTyped, Closed,
  StartsRetry, RetryFails, AfterFailedRetry, Reconnects, WorkerAt, adapter, senders,
  session, record, vars
<1>6. CASE Monitor
  BY <1>6 DEF LossIsPursued, Flags, Typed, FlagsTyped, AdapterTyped, NumbersTyped, Closed, Monitor,
  MonitorReads, MonitorMarks, MonitorFails, SignalFailure, adapter, senders, session,
  record, vars
<1>7. ASSUME NEW s \in Senders, Gated(s) \/ Submits(s)
     PROVE  LossIsPursued'
  BY <1>7 DEF LossIsPursued, Flags, Typed, FlagsTyped, AdapterTyped, NumbersTyped, Closed, Gated,
  Submits, TakesBus, SendRejected, Sends, SendFails, Leaves, SignalFailure, adapter,
  senders, session, record, vars
<1>8. CASE Operator \/ BenchEnabled \/ Handles
  BY <1>8 DEF LossIsPursued, Flags, Typed, FlagsTyped, AdapterTyped, NumbersTyped, Closed, Operator,
  BenchChecked, BenchDisabled, RecordingStarts, RecordingStops, BenchEnabled, Handles,
  adapter, senders, session, record, vars
<1>9. ASSUME NEW t \in Threads, Posts(t)
     PROVE  LossIsPursued'
  BY <1>9 DEF LossIsPursued, Flags, Typed, FlagsTyped, AdapterTyped, NumbersTyped, Closed, Posts,
  adapter, senders, session, record, vars
<1>10. CASE UNCHANGED vars
  BY <1>10 DEF LossIsPursued, Flags, Typed, FlagsTyped, AdapterTyped, NumbersTyped, Closed, adapter,
  senders, session, record, vars
<1>q. QED
  BY <1>1, <1>2, <1>3, <1>4, <1>5, <1>6, <1>7, <1>8, <1>9, <1>10 DEF Next, Worker

-----------------------------------------------------------------------------
(* What becomes of a report                                                 *)

LEMMA SignalledIsPending ==
    ASSUME Typed, NEW t \in Threads, SignalFailure(t), UNCHANGED callbacks,
           FailurePending \/ ~notified
    PROVE  FailurePending'
<1>1. CASE ~notified
  <2>1. post' = [post EXCEPT ![t] = "failed"]
    BY <1>1 DEF SignalFailure
  <2>2. post'[t] = "failed"
    BY <2>1 DEF Typed, ReportsTyped
  <2>q. QED
    BY <2>2 DEF FailurePending, Pending
<1>2. CASE notified
  <2>1. UNCHANGED post
    BY <1>2 DEF SignalFailure
  <2>q. QED
    BY <1>2, <2>1 DEF FailurePending, Pending
<1>q. QED
  BY <1>1, <1>2 DEF Typed, FlagsTyped

\* Posting moves a report from its thread to the loop, and neither loses nor makes one.
LEMMA PostedIsPending ==
    ASSUME Typed, NEW t \in Threads, Posts(t), NEW report \in {"failed", "recovered"}
    PROVE  Pending(report)' <=> Pending(report)
<1>1. /\ callbacks \in Seq({"failed", "recovered"}) /\ callbacks' = Append(callbacks, post[t])
      /\ post \in [Threads -> {"none", "failed", "recovered"}]
      /\ post' = [post EXCEPT ![t] = "none"] /\ post[t] # "none"
  BY DEF Posts, Typed, ReportsTyped
<1>2. ASSUME NEW u \in Threads, post[u] = report
      PROVE  Pending(report)'
  <2>1. CASE u = t
    <3>1. Len(callbacks) + 1 \in DOMAIN callbacks' /\ callbacks'[Len(callbacks) + 1] = report
      BY <1>1, <1>2, <2>1
    <3>q. QED
      BY <3>1 DEF Pending
  <2>2. CASE u # t
    <3>1. post'[u] = report
      BY <1>1, <1>2, <2>2
    <3>q. QED
      BY <3>1 DEF Pending
  <2>q. QED
    BY <2>1, <2>2
<1>3. ASSUME NEW i \in DOMAIN callbacks, callbacks[i] = report
      PROVE  Pending(report)'
  <2>1. i \in DOMAIN callbacks' /\ callbacks'[i] = report
    BY <1>1, <1>3
  <2>q. QED
    BY <2>1 DEF Pending
<1>4. ASSUME NEW u \in Threads, post'[u] = report
      PROVE  Pending(report)
  <2>1. post[u] = report
    BY <1>1, <1>4
  <2>q. QED
    BY <2>1 DEF Pending
<1>5. ASSUME NEW i \in DOMAIN callbacks', callbacks'[i] = report
      PROVE  Pending(report)
  <2>1. CASE i \in DOMAIN callbacks
    <3>1. callbacks[i] = report
      BY <1>1, <1>5, <2>1
    <3>q. QED
      BY <2>1, <3>1 DEF Pending
  <2>2. CASE i \notin DOMAIN callbacks
    <3>1. post[t] = report
      BY <1>1, <1>5, <2>2
    <3>q. QED
      BY <3>1 DEF Pending
  <2>q. QED
    BY <2>1, <2>2
<1>q. QED
  BY <1>2, <1>3, <1>4, <1>5 DEF Pending

\* A recovery adds its own report to those under way.
LEMMA RecoveredIsPending ==
    ASSUME Typed, FinishesRecovery
    PROVE  (FailurePending' <=> FailurePending) /\ RecoveryPending'
<1>1. /\ post["worker"] = "none" /\ post' = [post EXCEPT !["worker"] = "recovered"]
      /\ UNCHANGED callbacks /\ "worker" \in Threads
  BY DEF FinishesRecovery, WorkerAt, Threads
<1>2. \A t \in Threads : post[t] = "failed" <=> post'[t] = "failed"
  BY <1>1 DEF Typed, ReportsTyped
<1>3. post'["worker"] = "recovered"
  BY <1>1 DEF Typed, ReportsTyped
<1>q. QED
  BY <1>1, <1>2, <1>3 DEF FailurePending, RecoveryPending, Pending

\* Handling takes the oldest report, and leaves the others under way.
LEMMA HandledIsPending ==
    ASSUME Typed, Handles, NEW report \in {"failed", "recovered"}
    PROVE  /\ Pending(report) /\ Head(callbacks) # report => Pending(report)'
           /\ Pending(report)' => Pending(report)
           /\ Pending(Head(callbacks))
<1>1. /\ callbacks \in Seq({"failed", "recovered"}) /\ callbacks # <<>>
      /\ callbacks' = Tail(callbacks) /\ UNCHANGED post
  BY DEF Handles, Typed, ReportsTyped
<1>2. ASSUME NEW i \in DOMAIN callbacks, callbacks[i] = report, Head(callbacks) # report
      PROVE  Pending(report)'
  <2>1. i # 1
    BY <1>1, <1>2
  <2>2. i - 1 \in DOMAIN callbacks' /\ callbacks'[i - 1] = report
    BY <1>1, <1>2, <2>1
  <2>q. QED
    BY <2>2 DEF Pending
<1>3. ASSUME NEW i \in DOMAIN callbacks', callbacks'[i] = report
      PROVE  Pending(report)
  <2>1. i + 1 \in DOMAIN callbacks /\ callbacks[i + 1] = report
    BY <1>1, <1>3
  <2>q. QED
    BY <2>1 DEF Pending
<1>4. 1 \in DOMAIN callbacks /\ callbacks[1] = Head(callbacks)
  BY <1>1
<1>q. QED
  BY <1>1, <1>2, <1>3, <1>4 DEF Pending

\* A report is pending from the failure until it is handled.
LEMMA PendingStep ==
    ASSUME Typed, [Next]_vars
    PROVE  /\ ~notified /\ notified' => FailurePending'
           /\ FailurePending => FailurePending' \/ (Handles /\ Head(callbacks) = "failed")
<1>0. DEFINE Kept == (~notified /\ notified' => FailurePending')
                     /\ (FailurePending => FailurePending' \/ (Handles /\ Head(callbacks) = "failed"))
<1>1. CASE UNCHANGED <<post, callbacks>> /\ (notified' => notified)
  BY <1>1 DEF FailurePending, Pending
<1>2. ASSUME NEW t \in Threads, SignalFailure(t), UNCHANGED callbacks
      PROVE  Kept
  BY <1>2, SignalledIsPending
<1>3. ASSUME NEW t \in Threads, Posts(t)
      PROVE  Kept
  BY <1>3, PostedIsPending DEF Posts, adapter, FailurePending
<1>4. CASE FinishesRecovery
  BY <1>4, RecoveredIsPending DEF FinishesRecovery
<1>5. CASE Handles
  BY <1>5, HandledIsPending DEF Handles, adapter, FailurePending
<1>6. CASE Environment \/ WindowPasses
  BY <1>1, <1>6 DEF Environment, Unplugged, Plugged, Stalls, WindowPasses, adapter
<1>7. CASE Disconnects \/ StartsReceive \/ Receives \/ NotRequested \/ KeepsReceiving
  BY <1>1, <1>7 DEF Disconnects, StartsReceive, Receives, NotRequested, KeepsReceiving, adapter
<1>8. CASE StartsRetry \/ RetryFails \/ Reconnects
  BY <1>1, <1>8 DEF StartsRetry, RetryFails, Reconnects, adapter
<1>9. CASE ReceiveFails \/ MonitorFails
  BY <1>2, <1>9 DEF ReceiveFails, MonitorFails, Threads
<1>10. CASE MonitorReads \/ MonitorMarks
  BY <1>1, <1>10 DEF MonitorReads, MonitorMarks, adapter
<1>11. ASSUME NEW s \in Senders, SendFails(s)
       PROVE  Kept
  BY <1>2, <1>11 DEF SendFails, Threads
<1>12. ASSUME NEW s \in Senders, Gated(s) \/ TakesBus(s) \/ SendRejected(s) \/ Sends(s)
       PROVE  Kept
  BY <1>1, <1>12 DEF Gated, TakesBus, SendRejected, Sends, adapter
<1>13. CASE Operator \/ BenchEnabled \/ UNCHANGED vars
  BY <1>1, <1>13 DEF Operator, BenchChecked, BenchDisabled, RecordingStarts, RecordingStops,
                     BenchEnabled, adapter, vars
<1>q. QED
  BY <1>3, <1>4, <1>5, <1>6, <1>7, <1>8, <1>9, <1>10, <1>11, <1>12, <1>13
  DEF Next, Worker, Monitor, Submits

\* A failure is reported only by the step that puts it on record, and a recovery is
\* under way until it is handled or the next failure.
LEMMA ReportsStep ==
    ASSUME Typed, [Next]_vars
    PROVE  /\ FailurePending' => FailurePending \/ (~notified /\ notified')
           /\ RecoveryPending /\ ~notified' =>
                 RecoveryPending' \/ (Handles /\ Head(callbacks) = "recovered")
<1>0. DEFINE Sound == /\ FailurePending' => FailurePending \/ (~notified /\ notified')
                      /\ RecoveryPending /\ ~notified' =>
                            RecoveryPending' \/ (Handles /\ Head(callbacks) = "recovered")
<1>1. CASE UNCHANGED <<post, callbacks>>
  BY <1>1 DEF FailurePending, RecoveryPending, Pending
<1>2. ASSUME NEW t \in Threads, SignalFailure(t), UNCHANGED callbacks
      PROVE  Sound
  <2>1. notified' /\ (notified => UNCHANGED post)
    BY <1>2 DEF SignalFailure
  <2>2. CASE notified
    BY <1>1, <1>2, <2>1, <2>2
  <2>3. CASE ~notified
    BY <2>1, <2>3
  <2>q. QED
    BY <2>2, <2>3
<1>3. ASSUME NEW t \in Threads, Posts(t)
      PROVE  Sound
  BY <1>3, PostedIsPending DEF FailurePending, RecoveryPending
<1>4. CASE FinishesRecovery
  BY <1>4, RecoveredIsPending
<1>5. CASE Handles
  BY <1>5, HandledIsPending DEF FailurePending, RecoveryPending
<1>6. CASE Environment \/ WindowPasses
  BY <1>1, <1>6 DEF Environment, Unplugged, Plugged, Stalls, WindowPasses
<1>7. CASE Disconnects \/ StartsReceive \/ Receives \/ NotRequested \/ KeepsReceiving
  BY <1>1, <1>7 DEF Disconnects, StartsReceive, Receives, NotRequested, KeepsReceiving
<1>8. CASE StartsRetry \/ RetryFails \/ Reconnects
  BY <1>1, <1>8 DEF StartsRetry, RetryFails, Reconnects
<1>9. CASE ReceiveFails \/ MonitorFails
  BY <1>2, <1>9 DEF ReceiveFails, MonitorFails, Threads
<1>10. CASE MonitorReads \/ MonitorMarks
  BY <1>1, <1>10 DEF MonitorReads, MonitorMarks
<1>11. ASSUME NEW s \in Senders, SendFails(s)
       PROVE  Sound
  BY <1>2, <1>11 DEF SendFails, Threads
<1>12. ASSUME NEW s \in Senders, Gated(s) \/ TakesBus(s) \/ SendRejected(s) \/ Sends(s)
       PROVE  Sound
  BY <1>1, <1>12 DEF Gated, TakesBus, SendRejected, Sends
<1>13. CASE Operator \/ BenchEnabled \/ UNCHANGED vars
  BY <1>1, <1>13 DEF Operator, BenchChecked, BenchDisabled, RecordingStarts, RecordingStops,
                     BenchEnabled, vars
<1>q. QED
  BY <1>3, <1>4, <1>5, <1>6, <1>7, <1>8, <1>9, <1>10, <1>11, <1>12, <1>13
  DEF Next, Worker, Monitor, Submits

LEMMA QuiescentHasNoReport == Quiescent => ~FailurePending
<1>1. SUFFICES ASSUME Quiescent, FailurePending
               PROVE  FALSE
  OBVIOUS
<1>2. \A t \in Threads : post[t] # "failed"
  BY <1>1 DEF Quiescent
<1>3. DOMAIN callbacks = {}
  BY <1>1 DEF Quiescent
<1>q. QED
  BY <1>1, <1>2, <1>3 DEF FailurePending, Pending, Pending

-----------------------------------------------------------------------------
(* Failures reach Bench TX                                                  *)

LEMMA ReachesStep ==
    ASSUME Typed, Flags, FailureReachesBench, [Next]_vars
    PROVE  FailureReachesBench'
<1>1. CASE BenchChecked
  <2>1. ~notified'
    BY <1>1 DEF BenchChecked, Flags, adapter
  <2>q. QED
    BY <2>1 DEF FailureReachesBench
<1>2. CASE Handles
  <2>1. bench' = FALSE /\ request' # "checked"
    BY <1>2 DEF Handles
  <2>q. QED
    BY <2>1 DEF FailureReachesBench
<1>3. CASE ~BenchChecked /\ ~Handles
  <2>1. bench' \/ request' = "checked" => bench \/ request = "checked"
    <3>1. CASE BenchEnabled \/ BenchDisabled
      BY <3>1 DEF BenchEnabled, BenchDisabled
    <3>2. CASE UNCHANGED <<bench, request>>
      BY <3>2
    <3>3. CASE Environment \/ WindowPasses \/ Monitor
      BY <3>2, <3>3 DEF Environment, Unplugged, Plugged, Stalls, WindowPasses, Monitor,
                        MonitorReads, MonitorMarks, MonitorFails, session
    <3>4. CASE Worker
      BY <3>2, <3>4 DEF Worker, Disconnects, StartsReceive, Receives, ReceiveFails, NotRequested,
                        FinishesRecovery, KeepsReceiving, StartsRetry, RetryFails, Reconnects, session
    <3>5. CASE RecordingStarts \/ RecordingStops \/ UNCHANGED vars
      BY <3>2, <3>5 DEF RecordingStarts, RecordingStops, vars, session
    <3>6. ASSUME NEW s \in Senders, Gated(s) \/ Submits(s)
          PROVE  UNCHANGED <<bench, request>>
      BY <3>6 DEF Gated, Submits, TakesBus, SendRejected, Sends, SendFails, session
    <3>7. ASSUME NEW t \in Threads, Posts(t)
          PROVE  UNCHANGED <<bench, request>>
      BY <3>7 DEF Posts, session
    <3>q. QED
      BY <1>3, <3>1, <3>2, <3>3, <3>4, <3>5, <3>6, <3>7 DEF Next, Operator
  <2>q. QED
    BY <1>3, <2>1, PendingStep DEF FailureReachesBench, Typed, FlagsTyped
<1>q. QED
  BY <1>1, <1>2, <1>3

-----------------------------------------------------------------------------
(* A bus is written to by the Bench TX of its own epoch                     *)

\* While no failure is on record, what was enabled or let through is of this epoch.
InEpoch ==
    ~notified => /\ bench => benchEpoch = epoch
                 /\ request = "checked" => requestEpoch = epoch
                 /\ \A s \in Senders : sender[s] # "idle" => armed[s] = epoch

\* The window closes on nothing that is older than the reconnect.
WindowQuiet ==
    settled /\ health = "recovering" /\ bus # Closed =>
        ~bench /\ request = "idle" /\ \A s \in Senders : sender[s] = "idle"

HandIsArmed == \A s \in Senders : sender[s] = "sending" => hand[s] = armed[s]

EpochInv == InEpoch /\ WindowQuiet /\ HandIsArmed /\ StaleBenchNeverSends

LEMMA InEpochStep ==
    ASSUME Prompt, Typed, Flags, FailureReachesBench, EpochInv, [Next]_vars
    PROVE  InEpoch'
<1>1. CASE Environment \/ WindowPasses
  BY <1>1 DEF EpochInv, InEpoch, WindowQuiet, Flags, Typed, FlagsTyped, SendersTyped,
  SessionTyped, Closed, WorkerAt, Environment, Fault, Unplugged, Plugged, Stalls,
  WindowPasses, adapter, senders, session, record, vars
<1>2. CASE Disconnects \/ StartsReceive \/ Receives \/ NotRequested
  BY <1>2 DEF EpochInv, InEpoch, WindowQuiet, Flags, Typed, FlagsTyped, SendersTyped,
  SessionTyped, Closed, WorkerAt, Disconnects, StartsReceive, Receives, NotRequested,
  WorkerAt, adapter, senders, session, record, vars
<1>3. CASE ReceiveFails
  BY <1>3 DEF EpochInv, InEpoch, WindowQuiet, Flags, Typed, FlagsTyped, SendersTyped,
  SessionTyped, Closed, WorkerAt, ReceiveFails, SignalFailure, WorkerAt, adapter,
  senders, session, record, vars
<1>4. CASE FinishesRecovery \/ KeepsReceiving
  BY <1>4 DEF EpochInv, InEpoch, WindowQuiet, Flags, Typed, FlagsTyped, SendersTyped,
  SessionTyped, Closed, WorkerAt, FinishesRecovery, KeepsReceiving, Observed,
  WorkerAt, adapter, senders, session, record, vars
<1>5. CASE StartsRetry \/ RetryFails \/ Reconnects
  BY <1>5 DEF EpochInv, InEpoch, WindowQuiet, Flags, Typed, FlagsTyped, SendersTyped,
  SessionTyped, Closed, WorkerAt, StartsRetry, RetryFails, AfterFailedRetry,
  Reconnects, WorkerAt, adapter, senders, session, record, vars
<1>6. CASE Monitor
  BY <1>6 DEF EpochInv, InEpoch, WindowQuiet, Flags, Typed, FlagsTyped, SendersTyped,
  SessionTyped, Closed, WorkerAt, Monitor, MonitorReads, MonitorMarks, MonitorFails,
  SignalFailure, adapter, senders, session, record, vars
<1>7. ASSUME NEW s \in Senders, Gated(s) \/ Submits(s)
     PROVE  InEpoch'
  BY <1>7 DEF EpochInv, InEpoch, WindowQuiet, Flags, Typed, FlagsTyped, SendersTyped,
  SessionTyped, Closed, WorkerAt, Gated, Submits, TakesBus, SendRejected, Sends,
  SendFails, Leaves, SignalFailure, adapter, senders, session, record, vars
<1>8. CASE Operator \/ BenchEnabled \/ Handles
  BY <1>8 DEF EpochInv, InEpoch, WindowQuiet, Flags, Typed, FlagsTyped, SendersTyped,
  SessionTyped, Closed, WorkerAt, Operator, BenchChecked, BenchDisabled,
  RecordingStarts, RecordingStops, BenchEnabled, Handles, adapter, senders, session,
  record, vars
<1>9. ASSUME NEW t \in Threads, Posts(t)
     PROVE  InEpoch'
  BY <1>9 DEF EpochInv, InEpoch, WindowQuiet, Flags, Typed, FlagsTyped, SendersTyped,
  SessionTyped, Closed, WorkerAt, Posts, adapter, senders, session, record, vars
<1>10. CASE UNCHANGED vars
  BY <1>10 DEF EpochInv, InEpoch, WindowQuiet, Flags, Typed, FlagsTyped, SendersTyped,
  SessionTyped, Closed, WorkerAt, adapter, senders, session, record, vars
<1>q. QED
  BY <1>1, <1>2, <1>3, <1>4, <1>5, <1>6, <1>7, <1>8, <1>9, <1>10 DEF Next, Worker

LEMMA HandIsArmedStep ==
    ASSUME Prompt, Typed, Flags, FailureReachesBench, EpochInv, [Next]_vars
    PROVE  HandIsArmed'
<1>1. CASE Environment \/ WindowPasses
  BY <1>1 DEF EpochInv, HandIsArmed, InEpoch, Flags, Sendable, Typed, SendersTyped,
  Closed, Environment, Fault, Unplugged, Plugged, Stalls, WindowPasses, adapter,
  senders, session, record, vars
<1>2. CASE Disconnects \/ StartsReceive \/ Receives \/ NotRequested
  BY <1>2 DEF EpochInv, HandIsArmed, InEpoch, Flags, Sendable, Typed, SendersTyped,
  Closed, Disconnects, StartsReceive, Receives, NotRequested, WorkerAt, adapter,
  senders, session, record, vars
<1>3. CASE ReceiveFails
  BY <1>3 DEF EpochInv, HandIsArmed, InEpoch, Flags, Sendable, Typed, SendersTyped,
  Closed, ReceiveFails, SignalFailure, WorkerAt, adapter, senders, session, record,
  vars
<1>4. CASE FinishesRecovery \/ KeepsReceiving
  BY <1>4 DEF EpochInv, HandIsArmed, InEpoch, Flags, Sendable, Typed, SendersTyped,
  Closed, FinishesRecovery, KeepsReceiving, Observed, WorkerAt, adapter, senders,
  session, record, vars
<1>5. CASE StartsRetry \/ RetryFails \/ Reconnects
  BY <1>5 DEF EpochInv, HandIsArmed, InEpoch, Flags, Sendable, Typed, SendersTyped,
  Closed, StartsRetry, RetryFails, AfterFailedRetry, Reconnects, WorkerAt, adapter,
  senders, session, record, vars
<1>6. CASE Monitor
  BY <1>6 DEF EpochInv, HandIsArmed, InEpoch, Flags, Sendable, Typed, SendersTyped,
  Closed, Monitor, MonitorReads, MonitorMarks, MonitorFails, SignalFailure, adapter,
  senders, session, record, vars
<1>7. ASSUME NEW s \in Senders, Gated(s) \/ Submits(s)
     PROVE  HandIsArmed'
  BY <1>7 DEF EpochInv, HandIsArmed, InEpoch, Flags, Sendable, Typed, SendersTyped,
  Closed, Gated, Submits, TakesBus, SendRejected, Sends, SendFails, Leaves,
  SignalFailure, adapter, senders, session, record, vars
<1>8. CASE Operator \/ BenchEnabled \/ Handles
  BY <1>8 DEF EpochInv, HandIsArmed, InEpoch, Flags, Sendable, Typed, SendersTyped,
  Closed, Operator, BenchChecked, BenchDisabled, RecordingStarts, RecordingStops,
  BenchEnabled, Handles, adapter, senders, session, record, vars
<1>9. ASSUME NEW t \in Threads, Posts(t)
     PROVE  HandIsArmed'
  BY <1>9 DEF EpochInv, HandIsArmed, InEpoch, Flags, Sendable, Typed, SendersTyped,
  Closed, Posts, adapter, senders, session, record, vars
<1>10. CASE UNCHANGED vars
  BY <1>10 DEF EpochInv, HandIsArmed, InEpoch, Flags, Sendable, Typed, SendersTyped,
  Closed, adapter, senders, session, record, vars
<1>q. QED
  BY <1>1, <1>2, <1>3, <1>4, <1>5, <1>6, <1>7, <1>8, <1>9, <1>10 DEF Next, Worker

LEMMA WindowQuietStep ==
    ASSUME Prompt, Typed, Flags, FailureReachesBench, EpochInv, [Next]_vars
    PROVE  WindowQuiet'
<1>1. CASE Environment \/ WindowPasses
  <2>1. CASE WindowPasses
    <3>1. notified /\ Quiescent
      BY <2>1 DEF WindowPasses, Flags
    <3>2. ~bench
      BY <3>1, QuiescentHasNoReport DEF FailureReachesBench
    <3>q. QED
      BY <2>1, <3>1, <3>2 DEF WindowPasses, WindowQuiet, Quiescent, senders, session
  <2>2. CASE Environment
    BY <2>2 DEF EpochInv, WindowQuiet, Environment, Unplugged, Plugged, Stalls, adapter,
                senders, session
  <2>q. QED
    BY <1>1, <2>1, <2>2
<1>2. CASE Disconnects \/ StartsReceive \/ Receives \/ NotRequested
  BY <1>2 DEF EpochInv, WindowQuiet, Flags, FailureReachesBench, FailurePending,
  Quiescent, Typed, FlagsTyped, SendersTyped, SessionTyped, Closed, Disconnects,
  StartsReceive, Receives, NotRequested, WorkerAt, adapter, senders, session, record,
  vars
<1>3. CASE ReceiveFails
  BY <1>3 DEF EpochInv, WindowQuiet, Flags, FailureReachesBench, FailurePending,
  Quiescent, Typed, FlagsTyped, SendersTyped, SessionTyped, Closed, ReceiveFails,
  SignalFailure, WorkerAt, adapter, senders, session, record, vars
<1>4. CASE FinishesRecovery \/ KeepsReceiving
  BY <1>4 DEF EpochInv, WindowQuiet, Flags, FailureReachesBench, FailurePending,
  Quiescent, Typed, FlagsTyped, SendersTyped, SessionTyped, Closed, FinishesRecovery,
  KeepsReceiving, Observed, WorkerAt, adapter, senders, session, record, vars
<1>5. CASE StartsRetry \/ RetryFails \/ Reconnects
  BY <1>5 DEF EpochInv, WindowQuiet, Flags, FailureReachesBench, FailurePending,
  Quiescent, Typed, FlagsTyped, SendersTyped, SessionTyped, Closed, StartsRetry,
  RetryFails, AfterFailedRetry, Reconnects, WorkerAt, adapter, senders, session,
  record, vars
<1>6. CASE Monitor
  BY <1>6 DEF EpochInv, WindowQuiet, Flags, FailureReachesBench, FailurePending,
  Quiescent, Typed, FlagsTyped, SendersTyped, SessionTyped, Closed, Monitor,
  MonitorReads, MonitorMarks, MonitorFails, SignalFailure, adapter, senders, session,
  record, vars
<1>7. ASSUME NEW s \in Senders, Gated(s) \/ Submits(s)
     PROVE  WindowQuiet'
  BY <1>7 DEF EpochInv, WindowQuiet, Flags, FailureReachesBench, FailurePending,
  Quiescent, Typed, FlagsTyped, SendersTyped, SessionTyped, Closed, Gated, Submits,
  TakesBus, SendRejected, Sends, SendFails, Leaves, SignalFailure, adapter, senders,
  session, record, vars
<1>8. CASE Operator \/ BenchEnabled \/ Handles
  BY <1>8 DEF EpochInv, WindowQuiet, Flags, FailureReachesBench, FailurePending,
  Quiescent, Typed, FlagsTyped, SendersTyped, SessionTyped, Closed, Operator,
  BenchChecked, BenchDisabled, RecordingStarts, RecordingStops, BenchEnabled, Handles,
  adapter, senders, session, record, vars
<1>9. ASSUME NEW t \in Threads, Posts(t)
     PROVE  WindowQuiet'
  BY <1>9 DEF EpochInv, WindowQuiet, Flags, FailureReachesBench, FailurePending,
  Quiescent, Typed, FlagsTyped, SendersTyped, SessionTyped, Closed, Posts, adapter,
  senders, session, record, vars
<1>10. CASE UNCHANGED vars
  BY <1>10 DEF EpochInv, WindowQuiet, Flags, FailureReachesBench, FailurePending,
  Quiescent, Typed, FlagsTyped, SendersTyped, SessionTyped, Closed, adapter, senders,
  session, record, vars
<1>q. QED
  BY <1>1, <1>2, <1>3, <1>4, <1>5, <1>6, <1>7, <1>8, <1>9, <1>10 DEF Next, Worker

LEMMA StaleBenchNeverSendsStep ==
    ASSUME Prompt, Typed, Flags, FailureReachesBench, EpochInv, [Next]_vars
    PROVE  StaleBenchNeverSends'
<1>1. CASE Environment \/ WindowPasses
  BY <1>1 DEF EpochInv, StaleBenchNeverSends, HandIsArmed, Typed, SendersTyped,
  Environment, Fault, Unplugged, Plugged, Stalls, WindowPasses, adapter, senders,
  session, record, vars
<1>2. CASE Disconnects \/ StartsReceive \/ Receives \/ NotRequested
  BY <1>2 DEF EpochInv, StaleBenchNeverSends, HandIsArmed, Typed, SendersTyped,
  Disconnects, StartsReceive, Receives, NotRequested, WorkerAt, adapter, senders,
  session, record, vars
<1>3. CASE ReceiveFails
  BY <1>3 DEF EpochInv, StaleBenchNeverSends, HandIsArmed, Typed, SendersTyped,
  ReceiveFails, SignalFailure, WorkerAt, adapter, senders, session, record, vars
<1>4. CASE FinishesRecovery \/ KeepsReceiving
  BY <1>4 DEF EpochInv, StaleBenchNeverSends, HandIsArmed, Typed, SendersTyped,
  FinishesRecovery, KeepsReceiving, Observed, WorkerAt, adapter, senders, session,
  record, vars
<1>5. CASE StartsRetry \/ RetryFails \/ Reconnects
  BY <1>5 DEF EpochInv, StaleBenchNeverSends, HandIsArmed, Typed, SendersTyped,
  StartsRetry, RetryFails, AfterFailedRetry, Reconnects, WorkerAt, adapter, senders,
  session, record, vars
<1>6. CASE Monitor
  BY <1>6 DEF EpochInv, StaleBenchNeverSends, HandIsArmed, Typed, SendersTyped,
  Monitor, MonitorReads, MonitorMarks, MonitorFails, SignalFailure, adapter, senders,
  session, record, vars
<1>7. ASSUME NEW s \in Senders, Gated(s) \/ Submits(s)
     PROVE  StaleBenchNeverSends'
  BY <1>7 DEF EpochInv, StaleBenchNeverSends, HandIsArmed, Typed, SendersTyped, Gated,
  Submits, TakesBus, SendRejected, Sends, SendFails, Leaves, SignalFailure, adapter,
  senders, session, record, vars
<1>8. CASE Operator \/ BenchEnabled \/ Handles
  BY <1>8 DEF EpochInv, StaleBenchNeverSends, HandIsArmed, Typed, SendersTyped,
  Operator, BenchChecked, BenchDisabled, RecordingStarts, RecordingStops,
  BenchEnabled, Handles, adapter, senders, session, record, vars
<1>9. ASSUME NEW t \in Threads, Posts(t)
     PROVE  StaleBenchNeverSends'
  BY <1>9 DEF EpochInv, StaleBenchNeverSends, HandIsArmed, Typed, SendersTyped, Posts,
  adapter, senders, session, record, vars
<1>10. CASE UNCHANGED vars
  BY <1>10 DEF EpochInv, StaleBenchNeverSends, HandIsArmed, Typed, SendersTyped,
  adapter, senders, session, record, vars
<1>q. QED
  BY <1>1, <1>2, <1>3, <1>4, <1>5, <1>6, <1>7, <1>8, <1>9, <1>10 DEF Next, Worker

-----------------------------------------------------------------------------
(* A recording learns of the loss it lives through                          *)

Evidence ==
    rec = "complete" /\ sound /\ ~FailurePending => ~notified /\ recorded \subseteq {epoch}

\* What a step may do to a recording that goes on.
RecordingGoesOn ==
    /\ rec' = "complete" => rec = "complete"
    /\ sound' => sound
    /\ notified \/ epoch' = epoch
    /\ recorded' \subseteq recorded \cup {epoch}

LEMMA RecordingStep ==
    ASSUME Typed, Flags, [Next]_vars
    PROVE  RecordingStarts \/ RecordingGoesOn
<1>1. CASE Environment \/ WindowPasses
  BY <1>1 DEF RecordingGoesOn, Flags, Typed, FlagsTyped, Closed, Environment, Fault,
  Unplugged, Plugged, Stalls, WindowPasses, adapter, senders, session, record, vars
<1>2. CASE Disconnects \/ StartsReceive \/ Receives \/ NotRequested
  BY <1>2 DEF RecordingGoesOn, Flags, Typed, FlagsTyped, Closed, Disconnects,
  StartsReceive, Receives, NotRequested, WorkerAt, adapter, senders, session, record,
  vars
<1>3. CASE ReceiveFails
  BY <1>3 DEF RecordingGoesOn, Flags, Typed, FlagsTyped, Closed, ReceiveFails,
  SignalFailure, WorkerAt, adapter, senders, session, record, vars
<1>4. CASE FinishesRecovery \/ KeepsReceiving
  BY <1>4 DEF RecordingGoesOn, Flags, Typed, FlagsTyped, Closed, FinishesRecovery,
  KeepsReceiving, Observed, WorkerAt, adapter, senders, session, record, vars
<1>5. CASE StartsRetry \/ RetryFails \/ Reconnects
  BY <1>5 DEF RecordingGoesOn, Flags, Typed, FlagsTyped, Closed, StartsRetry,
  RetryFails, AfterFailedRetry, Reconnects, WorkerAt, adapter, senders, session,
  record, vars
<1>6. CASE Monitor
  BY <1>6 DEF RecordingGoesOn, Flags, Typed, FlagsTyped, Closed, Monitor,
  MonitorReads, MonitorMarks, MonitorFails, SignalFailure, adapter, senders, session,
  record, vars
<1>7. ASSUME NEW s \in Senders, Gated(s) \/ Submits(s)
     PROVE  RecordingStarts \/ RecordingGoesOn
  BY <1>7 DEF RecordingGoesOn, Flags, Typed, FlagsTyped, Closed, Gated, Submits,
  TakesBus, SendRejected, Sends, SendFails, Leaves, SignalFailure, adapter, senders,
  session, record, vars
<1>8. CASE Operator \/ BenchEnabled \/ Handles
  BY <1>8 DEF RecordingGoesOn, Flags, Typed, FlagsTyped, Closed, Operator,
  BenchChecked, BenchDisabled, RecordingStarts, RecordingStops, BenchEnabled, Handles,
  adapter, senders, session, record, vars
<1>9. ASSUME NEW t \in Threads, Posts(t)
     PROVE  RecordingStarts \/ RecordingGoesOn
  BY <1>9 DEF RecordingGoesOn, Flags, Typed, FlagsTyped, Closed, Posts, adapter,
  senders, session, record, vars
<1>10. CASE UNCHANGED vars
  BY <1>10 DEF RecordingGoesOn, Flags, Typed, FlagsTyped, Closed, adapter, senders,
  session, record, vars
<1>q. QED
  BY <1>1, <1>2, <1>3, <1>4, <1>5, <1>6, <1>7, <1>8, <1>9, <1>10 DEF Next, Worker

LEMMA HandledFailureDegrades ==
    Handles /\ Head(callbacks) = "failed" => rec' # "complete"
  BY DEF Handles

LEMMA EvidenceStep ==
    ASSUME Typed, Flags, Evidence, [Next]_vars
    PROVE  Evidence'
<1>1. CASE RecordingStarts
  <2>1. sound' = ~notified /\ recorded' = {} /\ notified' = notified
    BY <1>1 DEF RecordingStarts, adapter
  <2>q. QED
    BY <2>1 DEF Evidence
<1>2. CASE RecordingGoesOn
  <2>1. SUFFICES ASSUME rec' = "complete", sound', ~FailurePending'
                 PROVE  ~notified' /\ recorded' \subseteq {epoch'}
    BY DEF Evidence
  <2>2. rec = "complete" /\ sound
    BY <1>2, <2>1 DEF RecordingGoesOn
  <2>3. ~FailurePending
    BY <2>1, PendingStep, HandledFailureDegrades
  <2>4. ~notified /\ recorded \subseteq {epoch}
    BY <2>2, <2>3 DEF Evidence
  <2>5. ~notified'
    BY <2>1, <2>4, PendingStep
  <2>q. QED
    BY <1>2, <2>4, <2>5 DEF RecordingGoesOn
<1>q. QED
  BY <1>1, <1>2, RecordingStep

-----------------------------------------------------------------------------
(* Recoveries reach the session                                             *)

\* While no failure is on record none is under way, and a window that is over ended
\* on none.
NoOldReport ==
    /\ ~notified => ~FailurePending
    /\ settled => notified /\ ~FailurePending

RecoveryInv == NoOldReport /\ RecoveryReachesSession

\* The flags a report depends on, step by step.
LEMMA RecordStep ==
    ASSUME Typed, [Next]_vars
    PROVE  /\ notified /\ ~notified' => FinishesRecovery
           /\ settled' => settled \/ WindowPasses
           /\ told' = told \/ Handles
<1>1. CASE Environment \/ WindowPasses \/ Operator \/ BenchEnabled \/ Handles \/ UNCHANGED vars
  BY <1>1 DEF Environment, Unplugged, Plugged, Stalls, WindowPasses, Operator, BenchChecked,
  BenchDisabled, RecordingStarts, RecordingStops, BenchEnabled, Handles, adapter, session, vars
<1>2. CASE Disconnects \/ StartsReceive \/ Receives \/ ReceiveFails \/ NotRequested
  BY <1>2 DEF Disconnects, StartsReceive, Receives, ReceiveFails, SignalFailure, NotRequested,
  adapter, session
<1>3. CASE FinishesRecovery \/ KeepsReceiving
  BY <1>3 DEF FinishesRecovery, KeepsReceiving, adapter, session
<1>4. CASE StartsRetry \/ RetryFails \/ Reconnects
  BY <1>4 DEF StartsRetry, RetryFails, Reconnects, session
<1>5. CASE Monitor
  BY <1>5 DEF Monitor, MonitorReads, MonitorMarks, MonitorFails, SignalFailure, adapter, session
<1>6. ASSUME NEW s \in Senders, Gated(s) \/ Submits(s)
      PROVE  UNCHANGED <<settled, told>> /\ (notified => notified')
  BY <1>6 DEF Gated, Submits, TakesBus, SendRejected, Sends, SendFails, SignalFailure, adapter,
  session
<1>7. ASSUME NEW t \in Threads, Posts(t)
      PROVE  UNCHANGED <<settled, told, notified>>
  BY <1>7 DEF Posts, adapter, session
<1>q. QED
  BY <1>1, <1>2, <1>3, <1>4, <1>5, <1>6, <1>7 DEF Next, Worker

LEMMA NoOldReportStep ==
    ASSUME Prompt, Typed, Flags, NoOldReport, [Next]_vars
    PROVE  NoOldReport'
<1>1. CASE FinishesRecovery
  <2>1. settled /\ ~settled'
    BY <1>1 DEF FinishesRecovery
  <2>q. QED
    BY <1>1, <2>1, RecoveredIsPending DEF NoOldReport
<1>2. CASE WindowPasses
  <2>1. notified /\ notified' /\ ~FailurePending
    BY <1>2, QuiescentHasNoReport DEF WindowPasses, Flags
  <2>q. QED
    BY <2>1, ReportsStep DEF NoOldReport
<1>3. CASE ~FinishesRecovery /\ ~WindowPasses
  <2>1. (notified => notified') /\ (settled' => settled)
    BY <1>3, RecordStep
  <2>q. QED
    BY <2>1, ReportsStep DEF NoOldReport
<1>q. QED
  BY <1>1, <1>2, <1>3

LEMMA RecoveryReachesStep ==
    ASSUME Typed, NoOldReport, RecoveryReachesSession, [Next]_vars
    PROVE  RecoveryReachesSession'
<1>1. SUFFICES ASSUME told' = "failed", ~notified'
               PROVE  RecoveryPending'
  BY DEF RecoveryReachesSession
<1>2. CASE FinishesRecovery
  BY <1>2, RecoveredIsPending
<1>3. CASE Handles
  <2>1. Head(callbacks) = "failed" /\ ~notified
    BY <1>1, <1>3 DEF Handles, adapter
  <2>2. FailurePending
    BY <1>3, <2>1, HandledIsPending DEF FailurePending
  <2>q. QED
    BY <2>1, <2>2 DEF NoOldReport
<1>4. CASE ~FinishesRecovery /\ ~Handles
  <2>1. told = "failed" /\ ~notified
    BY <1>1, <1>4, RecordStep
  <2>2. RecoveryPending
    BY <2>1 DEF RecoveryReachesSession
  <2>q. QED
    BY <1>1, <1>4, <2>2, ReportsStep
<1>q. QED
  BY <1>2, <1>3, <1>4

-----------------------------------------------------------------------------

LinkInv == Typed /\ Flags /\ FailureReachesBench /\ Evidence

LEMMA LinkInvInit == Init => LinkInv
<1>1. Init => FailureReachesBench /\ Evidence
  BY DEF Init, FailureReachesBench, Evidence
<1>q. QED
  BY <1>1, TypedInit, FlagsInit DEF LinkInv

LEMMA LinkInvStep == LinkInv /\ [Next]_vars => LinkInv'
  BY TypedStep, FlagsStep, ReachesStep, EvidenceStep DEF LinkInv

LEMMA Invariance == Spec => []LinkInv
  BY LinkInvInit, LinkInvStep, PTL DEF Spec

\* Every reachable state of the link is well typed (canalyst.py).
THEOREM TypeCorrect == Spec => []TypeOK
<1>1. LinkInv => TypeOK
  BY Zenon DEF LinkInv, Typed, FlagsTyped, AdapterTyped, NumbersTyped, SendersTyped,
               ReportsTyped, SessionTyped, TypeOK
<1>q. QED
  BY <1>1, Invariance, PTL

\* No failure that Bench TX must hear of is lost by reporting once only
\* (canalyst.py 500-513).
THEOREM FailuresReachBench == Spec => []FailureReachesBench
<1>1. LinkInv => FailureReachesBench
  BY DEF LinkInv
<1>q. QED
  BY <1>1, Invariance, PTL

\* No verdict of the monitor and no late failure of a sender takes a failure on record
\* out of the worker's sight (canalyst.py 358-498): the safe half of LinkComesBack.
THEOREM LossesArePursued == Spec => []LossIsPursued
<1>1. Init => LossIsPursued
  BY DEF Init, LossIsPursued
<1>2. LinkInv /\ LossIsPursued /\ [Next]_vars => LossIsPursued'
  BY PursuedStep DEF LinkInv
<1>q. QED
  BY <1>1, <1>2, Invariance, PTL DEF Spec

\* A recording begun on a sound link is complete only while its frames are of one
\* epoch (recording.py 217-223).
THEOREM CompleteRecordings == Spec => []CompleteIsOneEpoch
<1>1. LinkInv => CompleteIsOneEpoch
  BY DEF LinkInv, Evidence, CompleteIsOneEpoch
<1>q. QED
  BY <1>1, Invariance, PTL

\* If the stability window outlasts what was in flight, a bus is written to only by
\* the Bench TX of its own epoch (architecture-control-toolkit.md 393).
THEOREM NoStaleBench ==
    ASSUME Prompt
    PROVE  Spec => []StaleBenchNeverSends
<1>1. Init => EpochInv
  BY DEF Init, EpochInv, InEpoch, WindowQuiet, HandIsArmed, StaleBenchNeverSends
<1>2. LinkInv /\ EpochInv /\ [Next]_vars => EpochInv'
  <2>1. SUFFICES ASSUME LinkInv, EpochInv, [Next]_vars
                 PROVE  EpochInv'
    OBVIOUS
  <2>2. Typed /\ Flags /\ FailureReachesBench
    BY <2>1 DEF LinkInv
  <2>q. QED
    BY <2>1, <2>2, InEpochStep, WindowQuietStep, HandIsArmedStep, StaleBenchNeverSendsStep
    DEF EpochInv
<1>3. EpochInv => StaleBenchNeverSends
  BY DEF EpochInv
<1>q. QED
  BY <1>1, <1>2, <1>3, Invariance, PTL DEF Spec

\* Under the same assumption a session that was told of a failure has its recovery on
\* the way from the moment the adapter forgets the failure (canalyst.py 474-513).
THEOREM RecoveriesReachSession ==
    ASSUME Prompt
    PROVE  Spec => []RecoveryReachesSession
<1>1. Init => RecoveryInv
  <2>1. Init => \A t \in Threads : post[t] # "failed"
    BY DEF Init
  <2>2. Init => callbacks = <<>> /\ ~settled /\ told = "connected"
    BY DEF Init
  <2>3. Init => ~FailurePending
    BY <2>1, <2>2 DEF FailurePending, Pending
  <2>q. QED
    BY <2>2, <2>3 DEF RecoveryInv, NoOldReport, RecoveryReachesSession
<1>2. LinkInv /\ RecoveryInv /\ [Next]_vars => RecoveryInv'
  BY NoOldReportStep, RecoveryReachesStep DEF LinkInv, RecoveryInv
<1>3. RecoveryInv => RecoveryReachesSession
  BY DEF RecoveryInv
<1>q. QED
  BY <1>1, <1>2, <1>3, Invariance, PTL DEF Spec
=============================================================================
