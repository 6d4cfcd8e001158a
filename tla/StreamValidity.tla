--------------------------- MODULE StreamValidity ---------------------------
(***************************************************************************)
(* The supervisor of a rolling-counter CAN stream: StreamValidity          *)
(* (shared/stream_validity.h) over CounterTracker and FreshnessTracker     *)
(* (protocol/core/supervision.hpp).  SYS runs one for each of 0x111, 0x112 *)
(* and 0x114, RT for 0x011 and 0x110, MTR for its three command streams.   *)
(*                                                                         *)
(* StreamContract is what it promises to the code that uses it.            *)
(*                                                                         *)
(* Abstracted: an entry that is fresh and one whose reset is pending both  *)
(* take the next frame as a baseline, so both are NoFrame; the degraded    *)
(* and stale marks and the duplicate count only choose between events that *)
(* StreamValidity treats alike.  Time is the age of the last refresh,      *)
(* saturating past the timeout; the clock never runs backwards.            *)
(***************************************************************************)
EXTENDS Integers

CONSTANTS
    Modulus, MaxForward, Timeout,     \* set_key's configuration of the trackers
    DefaultModulus, DefaultForward    \* the trackers' own, before set_key

ASSUME StreamAssumption ==
    /\ Modulus \in Nat /\ DefaultModulus \in 1 .. Modulus
    /\ MaxForward \in 1 .. Modulus - 1
    /\ DefaultForward \in 1 .. DefaultModulus - 1
    /\ Timeout \in Nat \ {0}

Counters == 0 .. Modulus - 1
NoFrame  == -1
Never    == -1

VARIABLES
    keyed,     \* set_key has been called
    valid,     \* valid_, the authority of the stream
    last,      \* CounterTracker: the last counter taken, or NoFrame
    age,       \* FreshnessTracker: time since the last refresh, or Never
    received,  \* history: the counter of the last frame, whatever became of it
    silence,   \* history: time since the counter of the stream last moved
    clean,     \* history: frames in a row that each counted one on, up to two
    overdue,   \* history: the last frame repeated a counter past its timeout
    steady     \* the producer counts one on, frame by frame, none of them later
               \* than the timeout, from now on

vars == <<keyed, valid, last, age, received, silence, clean, overdue, steady>>

TypeOK ==
    /\ keyed \in BOOLEAN /\ valid \in BOOLEAN /\ steady \in BOOLEAN
    /\ last \in Counters \cup {NoFrame}
    /\ received \in Counters \cup {NoFrame}
    /\ age \in (0 .. Timeout + 1) \cup {Never}
    /\ silence \in 0 .. Timeout + 1
    /\ clean \in 0 .. 2 /\ overdue \in BOOLEAN

\* RT and MTR bind their streams before the first frame; SYS binds 0x112 only
\* when the first 0x111 arrives.
Init ==
    /\ keyed \in BOOLEAN
    /\ valid = FALSE /\ last = NoFrame /\ age = Never
    /\ received = NoFrame /\ silence = 0 /\ clean = 0 /\ overdue = FALSE
    /\ steady = FALSE

Range   == IF keyed THEN Modulus ELSE DefaultModulus
Forward == IF keyed THEN MaxForward ELSE DefaultForward

-----------------------------------------------------------------------------
(* CounterTracker::observe                                                  *)

\* Mutant: the distance is not taken modulo the range.
DeltaNoWrap(from, to) == to - from

Delta(from, to) == (to + Range - from) % Range

InvalidValue(c) == c >= Range
Baseline(c)     == ~InvalidValue(c) /\ last = NoFrame
Duplicate(c)    == ~InvalidValue(c) /\ last # NoFrame /\ c = last

\* Mutant: a repeated counter passes for an advance.
AdvanceOrRepeat(c) ==
    ~InvalidValue(c) /\ last # NoFrame /\ Delta(last, c) \in 0 .. Forward

\* Increment, Wrap, Gap or Recovery.
Advance(c) ==
    ~InvalidValue(c) /\ last # NoFrame /\ Delta(last, c) \in 1 .. Forward

Reorder(c) ==
    ~InvalidValue(c) /\ last # NoFrame /\ c # last /\ ~Advance(c)

-----------------------------------------------------------------------------
(* StreamValidity::observe: one action per branch.                          *)

Plus1(from, to) == from # NoFrame /\ to = (from + 1) % Modulus

\* A frame with counter c arrives.
Receive(c) ==
    /\ steady => Plus1(received, c)
    /\ received' = c
    /\ silence' = IF c = received THEN silence ELSE 0
    /\ clean' = IF ~Plus1(received, c) THEN 0 ELSE IF clean < 2 THEN clean + 1 ELSE clean
    /\ overdue' = (c = received /\ silence > Timeout)
    /\ UNCHANGED <<keyed, steady>>

\* Mutant: the baseline restores authority at once.
ReacquireAtOnce(c) ==
    /\ Receive(c)
    /\ ~valid
    /\ last' = IF Baseline(c) \/ Advance(c) THEN c ELSE last
    /\ valid' = (Baseline(c) \/ Advance(c))
    /\ UNCHANGED age

\* Not valid: a baseline or a jump keeps it so, an advancing frame restores it.
Reacquire(c) ==
    /\ Receive(c)
    /\ ~valid
    /\ last' = IF Baseline(c) \/ Advance(c) THEN c ELSE last
    /\ valid' = Advance(c)
    /\ UNCHANGED age

\* The age a refresh leaves: without a timeout the tracker records nothing.
Refreshed == IF keyed THEN 0 ELSE age

\* Mutant: the expected counter is counted on and never wraps.
AcceptCounting(c) ==
    /\ Receive(c)
    /\ valid
    /\ Advance(c) \/ InvalidValue(c)
    /\ last' = IF Advance(c) THEN last + 1 ELSE last
    /\ age' = Refreshed
    /\ UNCHANGED valid

\* An advancing frame, or one out of the tracker's range, refreshes.
Accept(c) ==
    /\ Receive(c)
    /\ valid
    /\ Advance(c) \/ InvalidValue(c)
    /\ last' = IF Advance(c) THEN c ELSE last
    /\ age' = Refreshed
    /\ UNCHANGED valid

\* A repeated counter is rejected; it invalidates once the refresh has expired.
RejectDuplicate(c) ==
    /\ Receive(c)
    /\ valid
    /\ Duplicate(c)
    /\ IF keyed /\ age > Timeout
       THEN valid' = FALSE /\ last' = NoFrame /\ age' = Never
       ELSE UNCHANGED <<valid, last, age>>

\* Mutant: a jump is ignored like a duplicate.
IgnoreJump(c) ==
    /\ Receive(c)
    /\ valid
    /\ Reorder(c)
    /\ UNCHANGED <<valid, last, age>>

\* A jump past the tolerated gap invalidates.
SequenceFault(c) ==
    /\ Receive(c)
    /\ valid
    /\ Reorder(c)
    /\ valid' = FALSE /\ last' = NoFrame /\ age' = Never

Observe(c) == Reacquire(c) \/ Accept(c) \/ RejectDuplicate(c) \/ SequenceFault(c)

-----------------------------------------------------------------------------
(* set_key, invalidate_now, time and the producer.                          *)

SetKey ==
    /\ ~keyed
    /\ keyed' = TRUE
    /\ valid' = FALSE /\ last' = NoFrame /\ age' = Never
    /\ clean' = 0
    /\ UNCHANGED <<received, silence, overdue, steady>>

InvalidateNow ==
    /\ ~steady
    /\ valid' = FALSE /\ last' = NoFrame /\ age' = Never
    /\ clean' = 0
    /\ UNCHANGED <<keyed, received, silence, overdue, steady>>

Older(a) == IF a = Never \/ a > Timeout THEN a ELSE a + 1

\* A settled producer is never later than the timeout; any other may be.
TimePasses ==
    /\ steady => silence < Timeout
    /\ age' = Older(age) /\ silence' = Older(silence)
    /\ UNCHANGED <<keyed, valid, last, received, clean, overdue, steady>>

ProducerSettles ==
    /\ received # NoFrame /\ keyed /\ silence <= Timeout
    /\ steady' = TRUE
    /\ UNCHANGED <<keyed, valid, last, age, received, silence, clean, overdue>>

Next ==
    \/ \E c \in Counters : Observe(c)
    \/ SetKey \/ InvalidateNow \/ TimePasses \/ ProducerSettles

Spec == Init /\ [][Next]_vars

\* Once the producer is steady its frames keep coming.
FairSpec == Spec /\ WF_vars(steady /\ \E c \in Counters : Observe(c))

-----------------------------------------------------------------------------
(* Properties                                                               *)

\* A frame equal to the one before it never restores authority: a producer
\* stuck on one counter stays without (stream_validity.h 44-52).
RepeatNeverRestores == [][~valid /\ valid' => received' # received]_vars

\* While authority is held, no frame of the tracker's range that was received
\* is far from the last one taken: what was missed is at most the gap the
\* stream tolerates (stream_validity.h 54-73).
ValidFollowsTheWire ==
    valid /\ ~InvalidValue(received) => last = received

\* A producer that counts on, frame by frame and within the timeout, regains
\* authority for good, after one turn of the counter at most: what an earlier
\* fault left in the trackers never costs it a valid frame
\* (supervision.hpp 96-127, stream_validity.h 44-73).
SteadyProducerHeld == steady ~> [](valid /\ steady)

\* The frames that a producer which counts on is still short of authority: a baseline
\* and one more, or those until its counter comes round to the one that is held.
FramesToGo ==
    IF valid THEN 0
    ELSE IF last = NoFrame THEN 2
    ELSE IF last = received THEN 1
    ELSE (Modulus + 1) - ((received + Modulus - last) % Modulus)

\* Of a producer that counts on in time every frame counts: it brings authority one
\* frame nearer, whatever counter an earlier fault left behind, and nothing else moves the
\* stream away from it or takes it back (supervision.hpp 96-127, stream_validity.h 44-73).
EveryFrameCounts ==
    [][steady => FramesToGo' = IF received' = received \/ valid
                               THEN FramesToGo ELSE FramesToGo - 1]_vars

\* How far a bound stream is trusted, and the counter of its last frame.
TrustIn ==
    IF ~keyed \/ last = NoFrame THEN "none" ELSE IF valid THEN "valid" ELSE "baseline"

Contract == INSTANCE StreamContract
    WITH trust <- TrustIn, counter <- IF TrustIn = "none" THEN NoFrame ELSE received

\* A bound stream gives, keeps and withdraws authority as its users rely on,
\* although the counter it holds may be older than the wire's and its timeout
\* is looked at only when a counter repeats (stream_validity.h 41-74).
KeepsStreamContract == Contract!Spec

\* After a jump, the next frames that count on restore authority: a baseline
\* and one more (stream_validity.h 9-11).
CleanFramesRestore == keyed /\ clean = 2 => valid

\* A counter that moves on after its last refresh expired costs the authority: it
\* is the first frame of a reacquisition (stream_validity.h 9-11, 67-72).
LateFrameLosesAuthority ==
    [][keyed /\ valid /\ age > Timeout /\ received' # received => ~valid']_vars

\* A repeated counter costs the authority once the timeout has passed since
\* the counter last moved (stream_validity.h 7, 58-65).
FrozenLosesAuthority == keyed /\ overdue => ~valid
=============================================================================
