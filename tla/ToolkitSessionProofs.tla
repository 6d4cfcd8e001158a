------------------------ MODULE ToolkitSessionProofs ------------------------
(***************************************************************************)
(* Theorems about ToolkitSession, for every number of sources, channels    *)
(* and jobs: the control service can cancel every job it scheduled, the    *)
(* jobs of the two control methods never run together, the service keeps   *)
(* ControlContract, and a silent client's channels stay stopped.           *)
(***************************************************************************)
EXTENDS ToolkitSession, TLAPS

JobsTyped == jobs \subseteq Job /\ held \in [Frames -> Ids \cup {NoId}]

\* The heartbeat is held only beside the drive: what preempts kinematics looks at
\* the drive alone.
HeartbeatWithDrive == held["heartbeat"] # NoId => held["drive"] # NoId

\* The jobs of the two methods never run together, whatever stop, failure or
\* conflict removes some of them (control_intent.py 151-153, 216-219).
OneMethod ==
    ~ \E j, k \in jobs : j.frame \in Kinematics /\ k.frame \in Channels

\* The inductive invariant behind Tracked and OneMethod.
JobsInv == JobsTyped /\ Tracked /\ OneMethod /\ HeartbeatWithDrive

-----------------------------------------------------------------------------
(* What an operation does to the jobs                                       *)

\* Jobs go, the service still holds their ids: cancel_all, a conflict.
LEMMA JobsGo ==
    ASSUME JobsInv, jobs' \subseteq jobs, held' = held
    PROVE  JobsInv'
<1>1. JobsTyped'
  BY DEF JobsInv, JobsTyped
<1>2. Tracked' /\ OneMethod'
  BY DEF JobsInv, Tracked, OneMethod
<1>3. HeartbeatWithDrive'
  BY DEF JobsInv, HeartbeatWithDrive
<1>q. QED
  BY <1>1, <1>2, <1>3 DEF JobsInv

\* The service cancels what it holds for some frames.
LEMMA FramesCancelled ==
    ASSUME JobsInv, NEW fs, "drive" \in fs => "heartbeat" \in fs,
           jobs' = Without(fs), held' = Forgotten(fs)
    PROVE  /\ JobsInv'
           /\ \A j \in jobs' : j \in jobs /\ j.frame \notin fs
<1>0. "heartbeat" \in Frames /\ "drive" \in Frames
  BY DEF Frames, Kinematics
<1>1. \A j \in jobs' : j \in jobs /\ j.frame \notin fs
  BY DEF JobsInv, Tracked, Without
<1>2. JobsTyped'
  BY <1>1 DEF JobsInv, JobsTyped, Forgotten
<1>3. \A j \in jobs : j.frame \in Frames
  BY DEF JobsInv, JobsTyped, Job
<1>4. Tracked' /\ OneMethod'
  BY <1>1, <1>3 DEF JobsInv, Tracked, OneMethod, Forgotten
<1>5. HeartbeatWithDrive'
  BY <1>0 DEF JobsInv, HeartbeatWithDrive, Forgotten
<1>q. QED
  BY <1>1, <1>2, <1>4, <1>5 DEF JobsInv

\* Two frames that no channel is.
LEMMA KinematicsFrames ==
    /\ "heartbeat" \in Frames /\ "drive" \in Frames
    /\ \A c \in Channels : c \in Frames /\ c # "heartbeat" /\ c # "drive"
  BY ToolkitAssumption DEF Frames, Kinematics

\* An id is never the one that means none.
LEMMA IdsAreIds == \A n \in Ids : n # NoId
  BY ToolkitAssumption

\* No job of kinematics is left when the drive is not held.
LEMMA NoDriveNoKinematics ==
    ASSUME JobsInv, held["drive"] = NoId
    PROVE  \A j \in jobs : j.frame \notin Kinematics
<1>1. \A j \in jobs : j.id # NoId
  BY IdsAreIds DEF JobsInv, JobsTyped, Job
<1>2. held["heartbeat"] = NoId
  BY DEF JobsInv, HeartbeatWithDrive
<1>q. QED
  BY <1>1, <1>2 DEF JobsInv, Tracked, Kinematics

-----------------------------------------------------------------------------
(* The requests that schedule                                               *)

\* An intent keeps the invariant, whether a cancel falls inside its section or not.
LEMMA IntentKeepsJobs ==
    ASSUME JobsInv, NEW s \in Sources, NEW cut, IntentRuns(s, cut)
    PROVE  JobsInv'
<1> DEFINE left   == Without(Preempted(s))
           ids    == Forgotten(Preempted(s))
           starts == Starts(left, ids)
<1>1. PICK n \in Ids :
        /\ jobs' \subseteq left \cup {[frame |-> f, id |-> n, owner |-> s] : f \in starts}
        /\ held' = [f \in Frames |-> IF f \in starts THEN n ELSE ids[f]]
  BY DEF IntentRuns
<1>2. /\ ids \in [Frames -> Ids \cup {NoId}]
      /\ starts \subseteq Kinematics
      /\ s \in Owners
  BY DEF JobsInv, JobsTyped, Forgotten, Starts, Owners
<1>3. \A j \in left : /\ j \in jobs /\ j \in Job /\ j.frame \notin Preempted(s)
                      /\ ids[j.frame] = j.id
  <2>1. \A j \in left : j \in jobs /\ j \in Job /\ j.frame \notin Preempted(s)
    BY DEF JobsInv, JobsTyped, Tracked, Without
  <2>2. \A j \in left : held[j.frame] = j.id /\ j.frame \in Frames
    BY <2>1 DEF JobsInv, Tracked, Job
  <2>q. QED
    BY <2>1, <2>2 DEF Forgotten
<1>4. \A j \in left : j.frame \notin starts
  <2>1. \A j \in left : j.id # NoId
    BY <1>3, IdsAreIds DEF Job
  <2>2. \A f \in starts : /\ f = "heartbeat" => ids[f] = NoId
                          /\ f = "drive" => \A j \in left : j.frame = f => j.id # ids[f]
    BY DEF Starts
  <2>q. QED
    BY <1>2, <1>3, <2>1, <2>2 DEF Kinematics
<1>5. JobsTyped'
  <2>1. \A f \in starts : [frame |-> f, id |-> n, owner |-> s] \in Job
    BY <1>2 DEF Job, Frames
  <2>2. jobs' \subseteq Job
    BY <1>1, <1>3, <2>1
  <2>q. QED
    BY <1>1, <1>2, <2>2 DEF JobsTyped
<1>6. Tracked'
  <2>1. SUFFICES ASSUME NEW j \in jobs'
                 PROVE  held'[j.frame] = j.id
    BY DEF Tracked
  <2>2. CASE j \in left
    <3>1. j.frame \in Frames
      BY <1>3, <2>2 DEF Job
    <3>q. QED
      BY <1>1, <1>3, <1>4, <2>2, <3>1
  <2>3. CASE j \notin left
    <3>1. PICK f \in starts : j = [frame |-> f, id |-> n, owner |-> s]
      BY <1>1, <2>3
    <3>2. f \in Frames
      BY <1>2, <3>1 DEF Frames
    <3>q. QED
      BY <1>1, <3>1, <3>2
  <2>q. QED
    BY <2>2, <2>3
<1>7. OneMethod'
  <2>1. \A j \in left : j.frame \notin Channels
    BY <1>3 DEF Preempted
  <2>2. \A j \in jobs' : j \in left \/ j.frame \in Kinematics
    BY <1>1, <1>2
  <2>3. \A j \in jobs' : j.frame \notin Channels
    BY <2>1, <2>2, KinematicsFrames DEF Kinematics
  <2>q. QED
    BY <2>3 DEF OneMethod
<1>8. HeartbeatWithDrive'
  <2>1. ids["drive"] = NoId => "drive" \in starts
    BY <1>3, IdsAreIds DEF Starts, Kinematics, Job
  <2>q. QED
    BY <1>1, <2>1, KinematicsFrames, IdsAreIds DEF HeartbeatWithDrive
<1>q. QED
  BY <1>5, <1>6, <1>7, <1>8 DEF JobsInv

\* Switching a direct channel on keeps the invariant.
LEMMA DirectKeepsJobs ==
    ASSUME JobsInv, NEW c \in Channels, DirectStarts(c)
    PROVE  JobsInv'
<1> DEFINE drops == IF held["drive"] # NoId THEN Kinematics ELSE {}
           left  == Without(drops)
<1>0. drops \subseteq Kinematics /\ c \notin drops /\ ("drive" \in drops => "heartbeat" \in drops)
  BY KinematicsFrames DEF Kinematics
<1>1. \A j \in left : /\ j \in jobs /\ j \in Job /\ j.frame \in Frames /\ j.frame \notin Kinematics
                      /\ held[j.frame] = j.id
  <2>1. \A j \in left : j \in jobs /\ j.frame \notin drops
    BY DEF JobsInv, Tracked, Without
  <2>2. CASE held["drive"] # NoId
    BY <2>1, <2>2 DEF JobsInv, JobsTyped, Tracked, Job
  <2>3. CASE held["drive"] = NoId
    <3>1. \A j \in jobs : j.frame \notin Kinematics
      BY <2>3, NoDriveNoKinematics
    <3>q. QED
      BY <2>1, <3>1 DEF JobsInv, JobsTyped, Tracked, Job
  <2>q. QED
    BY <2>2, <2>3
<1>2. CASE \E j \in jobs : j.frame = c /\ j.id = held[c]
  <2>1. jobs' = Without(drops) /\ held' = Forgotten(drops)
    BY <1>2 DEF DirectStarts
  <2>q. QED
    BY <1>0, <2>1, FramesCancelled
<1>3. CASE ~ \E j \in jobs : j.frame = c /\ j.id = held[c]
  <2>1. PICK n \in Ids : /\ jobs' = left \cup {[frame |-> c, id |-> n, owner |-> "direct"]}
                         /\ held' = [Forgotten(drops) EXCEPT ![c] = n]
    BY <1>3 DEF DirectStarts
  <2>2. /\ held' \in [Frames -> Ids \cup {NoId}]
        /\ \A f \in Frames : held'[f] = IF f = c THEN n ELSE IF f \in drops THEN NoId ELSE held[f]
    BY <2>1 DEF JobsInv, JobsTyped, Forgotten
  <2>3. [frame |-> c, id |-> n, owner |-> "direct"] \in Job
    BY KinematicsFrames DEF Job, Owners
  <2>4. \A j \in left : j.frame # c
    BY <1>1, <1>3
  <2>5. JobsTyped'
    BY <1>1, <2>1, <2>2, <2>3 DEF JobsTyped
  <2>6. Tracked'
    <3>1. \A j \in left : held'[j.frame] = j.id
      BY <1>0, <1>1, <2>2, <2>4
    <3>2. held'[c] = n
      BY <2>2, KinematicsFrames
    <3>q. QED
      BY <2>1, <3>1, <3>2 DEF Tracked
  <2>7. OneMethod'
    <3>1. \A j \in jobs' : j.frame \notin Kinematics
      BY <1>1, <2>1, KinematicsFrames DEF Kinematics
    <3>q. QED
      BY <3>1 DEF OneMethod
  <2>8. HeartbeatWithDrive'
    BY <1>0, <2>2, KinematicsFrames DEF HeartbeatWithDrive, JobsInv, Kinematics
  <2>q. QED
    BY <2>5, <2>6, <2>7, <2>8 DEF JobsInv
<1>q. QED
  BY <1>2, <1>3

-----------------------------------------------------------------------------
(* The invariant                                                            *)

LEMMA JobsInit == Init => JobsInv
  BY KinematicsFrames DEF Init, JobsInv, JobsTyped, Tracked, OneMethod, HeartbeatWithDrive

\* ControlIntentService.release cancels every frame.
LEMMA ReleasedKeepsJobs ==
    ASSUME JobsInv, Released
    PROVE  JobsInv'
<1>1. jobs' = Without(Frames) /\ held' = Forgotten(Frames)
  BY DEF Released
<1>q. QED
  BY <1>1, KinematicsFrames, FramesCancelled

LEMMA ClientKeepsJobs ==
    ASSUME JobsInv, Client
    PROVE  JobsInv'
<1>1. ASSUME NEW s \in Sources, IntentApplies(s) \/ IntentCut(s)
      PROVE  JobsInv'
  BY <1>1, IntentKeepsJobs DEF IntentApplies, IntentCut
<1>2. ASSUME NEW s \in Sources, IntentRejected(s)
      PROVE  JobsInv'
  <2> DEFINE drops == IF held["drive"] # NoId /\ owner # s THEN Kinematics ELSE {}
  <2>1. jobs' = Without(drops) /\ held' = Forgotten(drops)
    BY <1>2 DEF IntentRejected
  <2>2. "drive" \in drops => "heartbeat" \in drops
    BY DEF Kinematics
  <2>q. QED
    BY <2>1, <2>2, FramesCancelled
<1>3. ASSUME NEW c \in Channels, DirectStarts(c)
      PROVE  JobsInv'
  BY <1>3, DirectKeepsJobs
<1>4. ASSUME NEW c \in Channels, DirectStops(c)
      PROVE  JobsInv'
  <2>1. jobs' = Without({c}) /\ held' = Forgotten({c})
    BY <1>4 DEF DirectStops
  <2>2. "drive" \notin {c}
    BY KinematicsFrames
  <2>q. QED
    BY <2>1, <2>2, FramesCancelled
<1>5. CASE Release
  BY <1>5, ReleasedKeepsJobs DEF Release
<1>q. QED
  BY <1>1, <1>2, <1>3, <1>4, <1>5 DEF Client, Applies

LEMMA SessionKeepsJobs ==
    ASSUME JobsInv, Operator \/ SessionStep
    PROVE  JobsInv'
<1>1. CASE \/ \E p \in Profiles : Create(p) \/ ChangeProfile(p)
           \/ StopAll \/ Close \/ BenchOn \/ BenchOff \/ BenchDropped \/ CancelAll
           \/ OpenFails \/ Opened \/ StopEnds
  <2>1. held' = held /\ (jobs' = jobs \/ jobs' = {})
    BY <1>1 DEF Create, ChangeProfile, StopAll, Close, BenchOn, BenchOff, BenchDropped,
                CancelAll, OpenFails, Opened, StopEnds, Neutralised, control
  <2>q. QED
    BY <2>1, JobsGo
<1>2. CASE Callback
  BY <1>2, ReleasedKeepsJobs DEF Callback
<1>q. QED
  BY <1>1, <1>2 DEF Operator, SessionStep

LEMMA LoopKeepsJobs ==
    ASSUME JobsInv, LoopStep \/ Watchdog \/ AdapterFails
    PROVE  JobsInv'
<1>1. CASE PassBegins \/ PassEnds \/ Gated \/ AdapterFails
  <2>1. held' = held /\ (jobs' = jobs \/ jobs' = {})
    BY <1>1 DEF PassBegins, PassEnds, Gated, AdapterFails, Neutralised, control
  <2>q. QED
    BY <2>1, JobsGo
<1>2. ASSUME NEW j \in due, Refused(j) \/ Sent(j) \/ Conflicts(j)
      PROVE  JobsInv'
  <2>1. held' = held /\ jobs' \subseteq jobs
    BY <1>2 DEF Refused, Sent, Conflicts, control
  <2>q. QED
    BY <2>1, JobsGo
<1>3. CASE FailureHandled
  BY <1>3, ReleasedKeepsJobs DEF FailureHandled
<1>4. CASE Watchdog
  <2>1. jobs' = Without(Frames) /\ held' = Forgotten(Frames)
    BY <1>4 DEF Watchdog, StoppedByWatchdog
  <2>q. QED
    BY <2>1, KinematicsFrames, FramesCancelled
<1>q. QED
  BY <1>1, <1>2, <1>3, <1>4 DEF LoopStep, Pass

LEMMA NextKeepsJobs == JobsInv /\ [Next]_vars => JobsInv'
<1> SUFFICES ASSUME JobsInv, [Next]_vars
             PROVE  JobsInv'
  OBVIOUS
<1>1. CASE Client
  BY <1>1, ClientKeepsJobs
<1>2. CASE Operator \/ SessionStep
  BY <1>2, SessionKeepsJobs
<1>3. CASE LoopStep \/ Watchdog \/ AdapterFails
  BY <1>3, LoopKeepsJobs
<1>4. CASE Arrives \/ GoesStale \/ (\E f \in Frames : LeaseExpires(f)) \/ UNCHANGED vars
  <2>1. held' = held /\ jobs' = jobs
    BY <1>4 DEF Arrives, Checked, GoesStale, LeaseExpires, control, vars
  <2>q. QED
    BY <2>1, JobsGo
<1>q. QED
  BY <1>1, <1>2, <1>3, <1>4 DEF Next

\* The job ids of ControlIntentService and the scheduler's table agree for good.
THEOREM Invariance == Spec => []JobsInv
<1>1. Init => JobsInv
  BY JobsInit
<1>2. JobsInv /\ [Next]_vars => JobsInv'
  BY NextKeepsJobs
<1>q. QED
  BY <1>1, <1>2, PTL DEF Spec

-----------------------------------------------------------------------------
(* What the invariant shows                                                 *)

\* Whatever stop, failure, conflict or thread gets in between, every job of the
\* control service is one it holds the id of, and so can cancel.
THEOREM JobsAreTracked == Spec => []Tracked
  BY Invariance, PTL DEF JobsInv

\* Kinematics and the direct channels never run together: what preempts the other
\* method looks at ids, and the invariant ties the ids to the jobs.
THEOREM MethodsExclude == Spec => []OneMethod
  BY Invariance, PTL DEF JobsInv

-----------------------------------------------------------------------------
(* The contract: ToolkitSession implements ControlContract                  *)

\* Every job of kinematics is of the source heard last, and the others are direct.
LeaderInv ==
    \A j \in jobs : j.owner = IF j.frame \in Kinematics THEN owner ELSE "direct"

\* Jobs that only go are producers that only go.
LEMMA FewerProducers ==
    ASSUME LeaderInv, jobs' \subseteq jobs, owner' = owner
    PROVE  LeaderInv' /\ Contract!Next
<1>1. LeaderInv'
  BY DEF LeaderInv
<1>2. Contract!Stops
  BY DEF Contract!Stops
<1>q. QED
  BY <1>1, <1>2 DEF Contract!Next

\* What is cancelled is gone: no job is left whose id the service does not hold.
LEMMA WithoutIs ==
    ASSUME JobsInv, NEW fs
    PROVE  Without(fs) = {j \in jobs : j.frame \notin fs}
  BY DEF JobsInv, Tracked, Without

\* A source takes kinematics over by ending that of another, so what it leaves is none
\* or its own.
LEMMA TakenOver ==
    ASSUME JobsInv, LeaderInv, NEW s,
           NEW drops, drops = IF held["drive"] # NoId /\ owner # s THEN Kinematics ELSE {}
    PROVE  Without(drops) = {j \in jobs : j.frame \in Kinematics => j.owner = s}
<1>1. CASE held["drive"] # NoId /\ owner # s
  BY <1>1, WithoutIs DEF LeaderInv
<1>2. CASE owner = s
  BY <1>2, WithoutIs DEF LeaderInv
<1>3. CASE held["drive"] = NoId
  BY <1>3, WithoutIs, NoDriveNoKinematics
<1>q. QED
  BY <1>1, <1>2, <1>3

LEMMA IntentIsLeads ==
    ASSUME JobsInv, LeaderInv, NEW s \in Sources, NEW cut, IntentRuns(s, cut)
    PROVE  LeaderInv' /\ Contract!Next
<1> DEFINE left   == Without(Preempted(s))
           ids    == Forgotten(Preempted(s))
           starts == Starts(left, ids)
<1>1. PICK n \in Ids : jobs' \subseteq left \cup {[frame |-> f, id |-> n, owner |-> s] : f \in starts}
  BY DEF IntentRuns
<1>2. owner' = s
  BY DEF IntentRuns
<1>3. starts \subseteq Kinematics
  BY DEF Starts
<1>4. \A j \in left : j \in jobs /\ j.frame \in Kinematics /\ j.owner = s
  <2> DEFINE drops == IF held["drive"] # NoId /\ owner # s THEN Kinematics ELSE {}
  <2>1. Preempted(s) = Channels \cup drops
    BY DEF Preempted
  <2>2. left = {j \in jobs : j.frame \notin Channels /\ j.frame \notin drops}
    BY <2>1, WithoutIs
  <2>3. Without(drops) = {j \in jobs : j.frame \notin drops}
    BY WithoutIs
  <2>4. Without(drops) = {j \in jobs : j.frame \in Kinematics => j.owner = s}
    BY TakenOver
  <2>5. \A j \in jobs : j.frame \in Kinematics \/ j.frame \in Channels
    BY DEF JobsInv, JobsTyped, Job, Frames
  <2>q. QED
    BY <2>2, <2>3, <2>4, <2>5
<1>5. \A j \in jobs' : j.frame \in Kinematics /\ j.owner = s
  BY <1>1, <1>3, <1>4
<1>6. LeaderInv'
  BY <1>2, <1>5 DEF LeaderInv
<1>7. Contract!Leads(s)
  <2>1. {[frame |-> j.frame, owner |-> j.owner] : j \in jobs'} \subseteq [frame : Kinematics, owner : {s}]
    BY <1>5
  <2>q. QED
    BY <1>2, <2>1 DEF Contract!Leads
<1>q. QED
  BY <1>6, <1>7 DEF Contract!Next

LEMMA RejectionIsRefused ==
    ASSUME JobsInv, LeaderInv, NEW s \in Sources, IntentRejected(s)
    PROVE  LeaderInv' /\ Contract!Next
<1>1. owner' = s /\ jobs' = {j \in jobs : j.frame \in Kinematics => j.owner = s}
  BY TakenOver DEF IntentRejected
<1>2. LeaderInv'
  BY <1>1 DEF LeaderInv
<1>3. Contract!Refused(s)
  BY <1>1 DEF Contract!Refused
<1>q. QED
  BY <1>2, <1>3 DEF Contract!Next

LEMMA DirectIsDirects ==
    ASSUME JobsInv, LeaderInv, NEW c \in Channels, DirectStarts(c)
    PROVE  LeaderInv' /\ Contract!Next
<1> DEFINE drops == IF held["drive"] # NoId THEN Kinematics ELSE {}
           left  == {j \in jobs : j.frame \notin Kinematics}
<1>1. Without(drops) = left
  <2>1. CASE held["drive"] # NoId
    BY <2>1, WithoutIs
  <2>2. CASE held["drive"] = NoId
    BY <2>2, WithoutIs, NoDriveNoKinematics
  <2>q. QED
    BY <2>1, <2>2
<1>2. c \notin Kinematics /\ owner' = owner
  BY KinematicsFrames DEF DirectStarts, Kinematics
<1>3. /\ \A j \in jobs' : j \in left \/ (j.frame = c /\ j.owner = "direct")
      /\ left \subseteq jobs'
      /\ \E j \in jobs' : j.frame = c /\ j.owner = "direct"
  <2>1. CASE \E j \in jobs : j.frame = c /\ j.id = held[c]
    <3>1. jobs' = left
      BY <1>1, <2>1 DEF DirectStarts
    <3>2. PICK j \in jobs : j.frame = c
      BY <2>1
    <3>3. j \in left /\ j.owner = "direct"
      BY <1>2, <3>2 DEF LeaderInv
    <3>q. QED
      BY <3>1, <3>2, <3>3
  <2>2. CASE ~ \E j \in jobs : j.frame = c /\ j.id = held[c]
    <3>1. PICK n \in Ids : jobs' = left \cup {[frame |-> c, id |-> n, owner |-> "direct"]}
      BY <1>1, <2>2 DEF DirectStarts
    <3> DEFINE new == [frame |-> c, id |-> n, owner |-> "direct"]
    <3>2. new.frame = c /\ new.owner = "direct"
      OBVIOUS
    <3>3. new \in jobs' /\ left \subseteq jobs' /\ \A j \in jobs' : j \in left \/ j = new
      BY <3>1
    <3> HIDE DEF new, left
    <3>q. QED
      BY <3>2, <3>3
  <2>q. QED
    BY <2>1, <2>2
<1>4. LeaderInv'
  BY <1>2, <1>3 DEF LeaderInv
<1>5. Contract!Directs(c)
  BY <1>2, <1>3 DEF Contract!Directs
<1>q. QED
  BY <1>4, <1>5 DEF Contract!Next

\* A step of the session maps to a step of the contract or to none.
LEMMA StepIsContract ==
    ASSUME JobsInv, LeaderInv, [Next]_vars
    PROVE  LeaderInv' /\ [Contract!Next]_(Contract!vars)
<1>1. ASSUME NEW s \in Sources, IntentApplies(s) \/ IntentCut(s) \/ IntentRejected(s)
      PROVE  LeaderInv' /\ Contract!Next
  BY <1>1, IntentIsLeads, RejectionIsRefused DEF IntentApplies, IntentCut
<1>2. ASSUME NEW c \in Channels, DirectStarts(c)
      PROVE  LeaderInv' /\ Contract!Next
  BY <1>2, DirectIsDirects
<1>3. ASSUME NEW c \in Channels, DirectStops(c)
      PROVE  owner' = owner /\ jobs' \subseteq jobs
  BY <1>3 DEF DirectStops, Without
<1>4. CASE Release \/ Callback \/ FailureHandled
  BY <1>4, FewerProducers DEF Release, Callback, FailureHandled, Released, Without
<1>5. CASE Operator \/ OpenFails \/ Opened \/ StopEnds
  <2>1. owner' = owner /\ jobs' \subseteq jobs
    BY <1>5 DEF Operator, Create, ChangeProfile, StopAll, Close, BenchOn, BenchOff, BenchDropped,
                CancelAll, OpenFails, Opened, StopEnds, Neutralised, control
  <2>q. QED
    BY <2>1, FewerProducers
<1>6. CASE Pass \/ Watchdog \/ AdapterFails
  <2>1. owner' = owner /\ jobs' \subseteq jobs
    BY <1>6 DEF Pass, PassBegins, PassEnds, Gated, Refused, Sent, Conflicts, Watchdog,
                StoppedByWatchdog, Without, AdapterFails, Neutralised, control
  <2>q. QED
    BY <2>1, FewerProducers
<1>7. CASE Arrives \/ GoesStale \/ (\E f \in Frames : LeaseExpires(f)) \/ UNCHANGED vars
  <2>1. owner' = owner /\ jobs' = jobs
    BY <1>7 DEF Arrives, Checked, GoesStale, LeaseExpires, control, vars
  <2>q. QED
    BY <2>1, FewerProducers
<1>q. QED
  BY <1>1, <1>2, <1>3, <1>4, <1>5, <1>6, <1>7, FewerProducers
  DEF Next, Client, Applies, SessionStep, LoopStep

LEMMA LeaderHolds == Spec => []LeaderInv
<1>1. Init => LeaderInv
  BY DEF Init, LeaderInv
<1>2. JobsInv /\ LeaderInv /\ [Next]_vars => LeaderInv'
  BY StepIsContract
<1>q. QED
  BY <1>1, <1>2, Invariance, PTL DEF Spec

\* The session implements ControlContract: whatever ids a stop, a conflict or a cancel
\* left stale, a frame gains a producer only from a request that leaves no other source
\* and no other method beside it (control_intent.py 130-219, 377-449).
THEOREM SessionKeepsContract == Spec => KeepsControlContract
<1>1. Init => Contract!Init
  BY DEF Init, Contract!Init
<1>2. JobsInv /\ LeaderInv /\ [Next]_vars => [Contract!Next]_(Contract!vars)
  BY StepIsContract
<1>q. QED
  BY <1>1, <1>2, Invariance, LeaderHolds, PTL DEF Spec, KeepsControlContract, Contract!Spec

\* So no frame has two producers, and all of kinematics has one leader, the source
\* under whose name the service also sends its zero command (control_intent.py 312-336).
THEOREM ProducersAgree == Spec => []Contract!OneProducer
<1>1. JobsInv /\ LeaderInv => Contract!OneProducer
  <2> SUFFICES ASSUME JobsInv, LeaderInv, NEW j \in jobs, NEW k \in jobs
               PROVE  /\ j.frame = k.frame => j.owner = k.owner
                      /\ j.frame \in Kinematics => j.owner = owner /\ k.frame \in Kinematics
    BY DEF Contract!OneProducer
  <2>1. j.frame \in Frames /\ k.frame \in Frames
    BY DEF JobsInv, JobsTyped, Job
  <2>2. j.frame \in Kinematics => k.frame \notin Channels
    BY DEF JobsInv, OneMethod
  <2>q. QED
    BY <2>1, <2>2 DEF LeaderInv, Frames
<1>q. QED
  BY <1>1, Invariance, LeaderHolds, PTL

-----------------------------------------------------------------------------
(* The watchdog of the direct channels                                      *)

\* A direct channel that runs is one the watchdog looks at.
WatchdogArmed ==
    (\E j \in jobs : j.frame \in Channels) => active \/ \E c \in Channels : held[c] # NoId

\* While the client stays silent nothing starts a job.
SilenceOnlyStops == [][stale /\ stale' => jobs' \subseteq jobs]_vars

\* A request of the client feeds the watchdog, all the others only stop jobs.
LEMMA SilentStep ==
    ASSUME [Next]_vars, stale, stale'
    PROVE  jobs' \subseteq jobs
<1>1. CASE Applies
  BY <1>1 DEF Applies, IntentApplies, IntentCut, IntentRuns, IntentRejected, DirectStarts
<1>2. CASE Release \/ Callback \/ FailureHandled
  BY <1>2 DEF Release, Callback, FailureHandled, Released, Without
<1>3. CASE \E c \in Channels : DirectStops(c)
  BY <1>3 DEF DirectStops
<1>4. CASE Arrives
  BY <1>4 DEF Arrives, Checked
<1>5. CASE Operator
  BY <1>5 DEF Operator, Create, ChangeProfile, StopAll, Close, Neutralised, BenchOn,
              BenchOff, BenchDropped, CancelAll
<1>6. CASE OpenFails \/ Opened \/ StopEnds
  BY <1>6 DEF OpenFails, Opened, StopEnds
<1>7. CASE Pass
  BY <1>7 DEF Pass, PassBegins, PassEnds, Gated, Refused, Sent, Conflicts
<1>8. CASE Watchdog
  BY <1>8 DEF Watchdog, Without
<1>9. CASE AdapterFails \/ GoesStale \/ (\E f \in Frames : LeaseExpires(f)) \/ UNCHANGED vars
  BY <1>9 DEF AdapterFails, Neutralised, GoesStale, LeaseExpires, vars
<1>q. QED
  BY <1>1, <1>2, <1>3, <1>4, <1>5, <1>6, <1>7, <1>8, <1>9
  DEF Next, Client, SessionStep, LoopStep

\* The part of DirectSilenceStops that needs no fairness: as long as a channel of a
\* silent client runs the watchdog's test holds, and once it has run nothing starts
\* another (control_intent.py 293-312).  The drive has no such theorem: a channel
\* switched off disarms its watchdog (KinematicsSilenceStops fails).
THEOREM SilentChannelsStayStopped == Spec => []WatchdogArmed /\ SilenceOnlyStops
<1>1. JobsInv => WatchdogArmed
  BY IdsAreIds DEF JobsInv, JobsTyped, Tracked, Job, WatchdogArmed
<1>2. [Next]_vars => [stale /\ stale' => jobs' \subseteq jobs]_vars
  BY SilentStep
<1>q. QED
  BY <1>1, <1>2, Invariance, PTL DEF Spec, SilenceOnlyStops

-----------------------------------------------------------------------------
(* Type correctness, one part of the state at a time                        *)

Flags == sid \in BOOLEAN /\ bench \in BOOLEAN /\ active \in BOOLEAN /\ stale \in BOOLEAN

SessionTyped ==
    /\ phase \in {"stopped", "preparing", "running"} /\ profile \in Profiles /\ op \in Ops
    /\ previous \in [phase : {"preparing", "running"}, profile : Profiles]

LoopTyped ==
    /\ due \subseteq Job /\ loop \in {"idle", "pass", "gated", "failed"}
    /\ lease \in [Frames -> Owners \cup {"none"}]

ControlTyped == owner \in Sources /\ req \in Requests

Typed == Flags /\ SessionTyped /\ LoopTyped /\ ControlTyped

LEMMA TypedInit == Init => Typed
<1> SUFFICES ASSUME Init PROVE Typed
  OBVIOUS
<1>1. Flags
  BY Zenon DEF Init, Flags
<1>2. SessionTyped
  BY DEF Init, SessionTyped, NoPrevious, Profiles, Ops
<1>3. LoopTyped
  BY DEF Init, LoopTyped
<1>4. ControlTyped
  BY DEF Init, ControlTyped, Requests
<1>q. QED
  BY <1>1, <1>2, <1>3, <1>4 DEF Typed

LEMMA FlagsStep ==
    ASSUME Typed, [Next]_vars
    PROVE  Flags'
<1> USE DEF Typed, Flags, session, control
<1>1. CASE Arrives
  BY <1>1, Zenon DEF Arrives, Checked
<1>2. CASE Client
  <2>1. ASSUME NEW s \in Sources, IntentApplies(s) \/ IntentCut(s) \/ IntentRejected(s)
        PROVE  Flags'
    BY <2>1, Zenon DEF IntentApplies, IntentCut, IntentRuns, IntentRejected
  <2>2. ASSUME NEW c \in Channels, DirectStarts(c)
        PROVE  Flags'
    BY <2>2, Zenon DEF DirectStarts
  <2>3. ASSUME NEW c \in Channels, DirectStops(c)
        PROVE  Flags'
    BY <2>3, Zenon DEF DirectStops
  <2>4. CASE Release
    BY <2>4, Zenon DEF Release, Released
  <2>q. QED
    BY <1>2, <2>1, <2>2, <2>3, <2>4 DEF Client, Applies
<1>3. CASE Operator
  BY <1>3, Zenon DEF Operator, Create, ChangeProfile, StopAll, Close, BenchOn, BenchOff,
                     BenchDropped, CancelAll, Neutralised
<1>4. CASE SessionStep
  BY <1>4, Zenon DEF SessionStep, Callback, OpenFails, Opened, StopEnds, Released
<1>5. CASE LoopStep
  BY <1>5, Zenon DEF LoopStep, Pass, PassBegins, PassEnds, Gated, Refused, Sent, Conflicts,
                     FailureHandled, Released
<1>6. CASE Watchdog \/ AdapterFails \/ GoesStale \/ \E f \in Frames : LeaseExpires(f)
  BY <1>6, Zenon DEF Watchdog, AdapterFails, GoesStale, LeaseExpires, Neutralised
<1>7. CASE UNCHANGED vars
  BY <1>7, Zenon DEF vars
<1>q. QED
  BY <1>1, <1>2, <1>3, <1>4, <1>5, <1>6, <1>7 DEF Next

LEMMA SessionTypedStep ==
    ASSUME Typed, [Next]_vars
    PROVE  SessionTyped'
<1>1. CASE UNCHANGED <<phase, profile, op, previous>>
  BY <1>1 DEF Typed, SessionTyped
<1>2. ASSUME NEW p \in Profiles, Create(p) \/ ChangeProfile(p)
      PROVE  SessionTyped'
  BY <1>2 DEF Typed, SessionTyped, Create, ChangeProfile, Ops
<1>3. CASE StopAll \/ Close \/ OpenFails \/ Opened \/ StopEnds
  BY <1>3 DEF Typed, SessionTyped, StopAll, Close, OpenFails, Opened, StopEnds, NoPrevious,
              Profiles, Ops, session
<1>4. CASE Callback
  BY <1>4 DEF Typed, SessionTyped, Callback, AfterCallback, Ops, session
<1>5. CASE BenchOn \/ BenchOff \/ BenchDropped \/ CancelAll
  BY <1>1, <1>5 DEF BenchOn, BenchOff, BenchDropped, CancelAll, session
<1>6. CASE Arrives \/ Client
  BY <1>1, <1>6 DEF Arrives, Checked, Client, Applies, IntentApplies, IntentCut, IntentRuns,
                    IntentRejected,
                    DirectStarts, DirectStops, Release, session
<1>7. CASE LoopStep \/ Watchdog \/ AdapterFails
  BY <1>1, <1>7 DEF LoopStep, Pass, PassBegins, PassEnds, Gated, Refused, Sent, Conflicts,
                    FailureHandled, Watchdog, AdapterFails, session
<1>8. CASE GoesStale \/ (\E f \in Frames : LeaseExpires(f)) \/ UNCHANGED vars
  BY <1>1, <1>8 DEF GoesStale, LeaseExpires, vars, session
<1>q. QED
  BY <1>2, <1>3, <1>4, <1>5, <1>6, <1>7, <1>8 DEF Next, Operator, SessionStep

LEMMA LoopTypedStep ==
    ASSUME Typed, JobsInv, [Next]_vars
    PROVE  LoopTyped'
<1>1. CASE UNCHANGED <<due, loop, lease>>
  BY <1>1 DEF Typed, LoopTyped
<1>2. ASSUME Released, UNCHANGED due, loop' \in {"idle", loop}
      PROVE  LoopTyped'
  BY <1>2 DEF Released, Typed, LoopTyped
<1>3. CASE Arrives \/ Applies \/ (\E c \in Channels : DirectStops(c))
  BY <1>1, <1>3 DEF Arrives, Checked, Applies, IntentApplies, IntentCut, IntentRuns, IntentRejected,
                    DirectStarts, DirectStops
<1>4. CASE Release \/ Callback
  BY <1>2, <1>4 DEF Release, Callback
<1>5. ASSUME lease' = NoLeases, UNCHANGED <<due, loop>>
      PROVE  LoopTyped'
  BY <1>5 DEF NoLeases, Typed, LoopTyped
<1>6. ASSUME NEW p \in Profiles, Create(p) \/ ChangeProfile(p)
      PROVE  LoopTyped'
  BY <1>1, <1>5, <1>6 DEF Create, ChangeProfile, Neutralised
<1>7. CASE StopAll \/ Close
  BY <1>5, <1>7 DEF StopAll, Close, Neutralised
<1>8. CASE BenchOn \/ BenchOff \/ BenchDropped \/ CancelAll \/ OpenFails \/ Opened \/ StopEnds
  BY <1>1, <1>8 DEF BenchOn, BenchOff, BenchDropped, CancelAll, OpenFails, Opened, StopEnds
<1>9. CASE PassBegins \/ PassEnds \/ Gated
  BY <1>9 DEF PassBegins, PassEnds, Gated, Typed, LoopTyped, JobsInv, JobsTyped
<1>10. ASSUME NEW j \in due, Refused(j) \/ Sent(j) \/ Conflicts(j)
       PROVE  LoopTyped'
  <2>1. due' \subseteq due /\ loop' \in {loop, "pass"}
        /\ lease' \in {lease, [lease EXCEPT ![j.frame] = j.owner]}
    BY <1>10 DEF Refused, Sent, Conflicts
  <2>2. j.frame \in Frames /\ j.owner \in Owners
    BY DEF Typed, LoopTyped, Job
  <2>q. QED
    BY <2>1, <2>2 DEF Typed, LoopTyped
<1>11. CASE FailureHandled
  BY <1>2, <1>11 DEF FailureHandled
<1>12. CASE Watchdog
  <2>1. UNCHANGED <<due, loop>> /\ lease' \in {lease, [lease EXCEPT !["drive"] = owner]}
    BY <1>12 DEF Watchdog
  <2>2. owner \in Owners
    BY DEF Typed, ControlTyped, Owners
  <2>q. QED
    BY <2>1, <2>2 DEF Typed, LoopTyped
<1>13. CASE AdapterFails
  BY <1>13 DEF AdapterFails, Neutralised, NoLeases, Typed, LoopTyped
<1>14. CASE GoesStale \/ UNCHANGED vars
  BY <1>1, <1>14 DEF GoesStale, vars
<1>15. ASSUME NEW f \in Frames, LeaseExpires(f)
       PROVE  LoopTyped'
  BY <1>15 DEF LeaseExpires, Typed, LoopTyped
<1>q. QED
  BY <1>3, <1>4, <1>6, <1>7, <1>8, <1>9, <1>10, <1>11, <1>12, <1>13, <1>14, <1>15
  DEF Next, Client, Operator, SessionStep, LoopStep, Pass

LEMMA ControlTypedStep ==
    ASSUME Typed, [Next]_vars
    PROVE  ControlTyped'
<1>1. CASE UNCHANGED <<owner, req>>
  BY <1>1 DEF Typed, ControlTyped
<1>2. ASSUME NEW kind \in {"intent", "rejected"}, NEW s \in Sources, Checked(kind, s)
      PROVE  ControlTyped'
  BY <1>2 DEF Checked, control, Typed, ControlTyped, Requests
<1>3. ASSUME NEW c \in Channels, Checked("direct_on", c)
      PROVE  ControlTyped'
  BY <1>3 DEF Checked, control, Typed, ControlTyped, Requests
<1>4. ASSUME NEW s \in Sources, IntentApplies(s) \/ IntentCut(s) \/ IntentRejected(s)
      PROVE  ControlTyped'
  BY <1>4 DEF IntentApplies, IntentCut, IntentRuns, IntentRejected, ControlTyped, Requests
<1>5. ASSUME NEW c \in Channels, DirectStarts(c)
      PROVE  ControlTyped'
  BY <1>5 DEF DirectStarts, Typed, ControlTyped, Requests
<1>6. CASE (\E c \in Channels : DirectStops(c)) \/ Release \/ Callback \/ FailureHandled
  BY <1>1, <1>6 DEF DirectStops, Release, Callback, FailureHandled, Released
<1>7. CASE Operator \/ OpenFails \/ Opened \/ StopEnds
  BY <1>1, <1>7 DEF Operator, Create, ChangeProfile, StopAll, Close, BenchOn, BenchOff,
                    BenchDropped, CancelAll, OpenFails, Opened, StopEnds, control
<1>8. CASE Pass \/ Watchdog \/ AdapterFails
  BY <1>1, <1>8 DEF Pass, PassBegins, PassEnds, Gated, Refused, Sent, Conflicts,
                    Watchdog, AdapterFails, control
<1>9. CASE GoesStale \/ (\E f \in Frames : LeaseExpires(f)) \/ UNCHANGED vars
  BY <1>1, <1>9 DEF GoesStale, LeaseExpires, vars, control
<1>q. QED
  BY <1>2, <1>3, <1>4, <1>5, <1>6, <1>7, <1>8, <1>9
  DEF Next, Arrives, Client, Applies, SessionStep, LoopStep

\* Every reachable state of the toolkit is well typed.
THEOREM TypeCorrect == Spec => []TypeOK
<1>1. Init => Typed
  BY TypedInit
<1>2. Typed /\ JobsInv /\ [Next]_vars => Typed'
  BY FlagsStep, SessionTypedStep, LoopTypedStep, ControlTypedStep DEF Typed
<1>3. Typed /\ JobsInv => TypeOK
  BY Zenon DEF Typed, Flags, SessionTyped, LoopTyped, ControlTyped, JobsInv, JobsTyped, TypeOK
<1>q. QED
  BY <1>1, <1>2, <1>3, Invariance, PTL DEF Spec
=============================================================================
