------------------------ MODULE StreamValidityProofs ------------------------
(***************************************************************************)
(* Theorems about StreamValidity, for every range of the counter, every    *)
(* tolerated gap and every timeout.                                        *)
(***************************************************************************)
EXTENDS StreamValidity, TLAPS

\* A frame arrives through one branch of observe.
LEMMA ObserveCases ==
  ASSUME NEW c, Observe(c)
  PROVE  Reacquire(c) \/ Accept(c) \/ RejectDuplicate(c) \/ SequenceFault(c)
  BY DEF Observe

-----------------------------------------------------------------------------
(* Types.                                                                   *)

\* Time saturates past the timeout.
LEMMA OlderType ==
  /\ \A a \in 0 .. Timeout + 1 : Older(a) \in 0 .. Timeout + 1
  /\ Older(Never) = Never
  BY StreamAssumption DEF Older, Never

\* What a frame does to the history keeps its types.
LEMMA ReceiveType ==
  ASSUME TypeOK, NEW c \in Counters, Receive(c)
  PROVE  /\ received' \in Counters /\ silence' \in 0 .. Timeout + 1
         /\ clean' \in 0 .. 2 /\ overdue' \in BOOLEAN
         /\ keyed' \in BOOLEAN /\ steady' \in BOOLEAN
  BY StreamAssumption DEF TypeOK, Receive

\* Every branch of observe keeps the types.
LEMMA ObserveTypeOK ==
  ASSUME TypeOK, NEW c \in Counters, Observe(c)
  PROVE  TypeOK'
  <1>1. Receive(c)
    BY DEF Observe, Reacquire, Accept, RejectDuplicate, SequenceFault
  <1>2. valid' \in BOOLEAN
    <2>1. CASE Reacquire(c)
      BY <2>1, Zenon DEF Reacquire, Advance
    <2>2. CASE Accept(c)
      BY <2>2 DEF Accept, TypeOK
    <2>3. CASE RejectDuplicate(c)
      <3>1. CASE keyed /\ age > Timeout
        BY <2>3, <3>1, Zenon DEF RejectDuplicate
      <3>2. CASE ~(keyed /\ age > Timeout)
        BY <2>3, <3>2 DEF RejectDuplicate, TypeOK
      <3> QED BY <3>1, <3>2
    <2>4. CASE SequenceFault(c)
      BY <2>4, Zenon DEF SequenceFault
    <2> QED BY <2>1, <2>2, <2>3, <2>4, ObserveCases
  <1>3. /\ last' \in Counters \cup {NoFrame}
        /\ age' \in (0 .. Timeout + 1) \cup {Never}
    BY StreamAssumption
    DEF Observe, Reacquire, Accept, RejectDuplicate, SequenceFault, Refreshed, TypeOK
  <1> QED BY <1>1, <1>2, <1>3, ReceiveType DEF TypeOK

\* TypeOK is inductive.
LEMMA StepTypeOK == TypeOK /\ [Next]_vars => TypeOK'
  <1> SUFFICES ASSUME TypeOK, [Next]_vars PROVE TypeOK'
    OBVIOUS
  <1>1. CASE \E c \in Counters : Observe(c)
    BY <1>1, ObserveTypeOK
  <1>2. CASE SetKey \/ InvalidateNow
    <2>1. valid' \in BOOLEAN /\ keyed' \in BOOLEAN
      BY <1>2, Zenon DEF SetKey, InvalidateNow, TypeOK
    <2> QED BY <1>2, <2>1 DEF SetKey, InvalidateNow, TypeOK
  <1>3. CASE TimePasses
    BY <1>3, OlderType DEF TimePasses, TypeOK
  <1>4. CASE ProducerSettles
    BY <1>4 DEF ProducerSettles, TypeOK
  <1>5. CASE UNCHANGED vars
    BY <1>5 DEF vars, TypeOK
  <1> QED BY <1>1, <1>2, <1>3, <1>4, <1>5 DEF Next

\* Every variable keeps its type (stream_validity.h, supervision.hpp).
THEOREM TypeCorrect == Spec => []TypeOK
  <1>1. Init => TypeOK
    <2> SUFFICES ASSUME Init PROVE TypeOK
      OBVIOUS
    <2>1. keyed \in BOOLEAN /\ valid \in BOOLEAN /\ steady \in BOOLEAN /\ overdue \in BOOLEAN
      BY Zenon DEF Init
    <2> QED BY <2>1, StreamAssumption DEF Init, TypeOK
  <1> QED BY <1>1, StepTypeOK, PTL DEF Spec

-----------------------------------------------------------------------------
(* The stream and the wire.                                                 *)

\* What strengthens ValidFollowsTheWire: without authority the last counter
\* received is the baseline itself or does not follow it, or it would have
\* restored the authority.
WireHistory ==
    /\ ValidFollowsTheWire
    /\ ~valid /\ last # NoFrame => last = received \/ ~Advance(received)

\* Every branch of observe leaves the wire's history in order.
LEMMA ObserveWireHistory ==
  ASSUME TypeOK, WireHistory, NEW c \in Counters, Observe(c)
  PROVE  WireHistory'
  <1> USE DEF WireHistory, ValidFollowsTheWire, InvalidValue, Advance, Duplicate,
          Reorder, Baseline, Delta, Range, Forward
  <1>1. received' = c /\ keyed' = keyed /\ c # NoFrame
    BY StreamAssumption DEF Observe, Reacquire, Accept, RejectDuplicate, SequenceFault,
       Receive, Counters, NoFrame
  <1>2. CASE Reacquire(c)
    BY <1>1, <1>2 DEF Reacquire
  <1>3. CASE Accept(c)
    BY <1>1, <1>3 DEF Accept
  <1>4. CASE RejectDuplicate(c)
    BY <1>1, <1>4 DEF RejectDuplicate
  <1>5. CASE SequenceFault(c)
    BY <1>1, <1>5 DEF SequenceFault
  <1> QED BY <1>2, <1>3, <1>4, <1>5, ObserveCases

\* WireHistory is inductive.
LEMMA StepWireHistory == TypeOK /\ WireHistory /\ [Next]_vars => WireHistory'
  <1> SUFFICES ASSUME TypeOK, WireHistory, [Next]_vars PROVE WireHistory'
    OBVIOUS
  <1> USE DEF WireHistory, ValidFollowsTheWire
  <1>1. CASE \E c \in Counters : Observe(c)
    BY <1>1, ObserveWireHistory
  <1>2. CASE SetKey \/ InvalidateNow
    BY <1>2 DEF SetKey, InvalidateNow
  <1>3. CASE TimePasses \/ ProducerSettles \/ UNCHANGED vars
    BY <1>3 DEF TimePasses, ProducerSettles, vars, InvalidValue, Advance, Delta,
       Range, Forward
  <1> QED BY <1>1, <1>2, <1>3 DEF Next

\* WireHistory holds from the start on.
LEMMA WireHistoryHolds == Spec => []WireHistory
  <1>1. Init => WireHistory
    BY DEF Init, WireHistory, ValidFollowsTheWire
  <1> QED BY <1>1, StepWireHistory, TypeCorrect, PTL DEF Spec

\* While authority is held the last counter taken is the one on the wire, so
\* two frames in a row are never further apart than the tolerated gap
\* (stream_validity.h 54-73).
THEOREM AuthorityFollowsTheWire == Spec => []ValidFollowsTheWire
  <1>1. WireHistory => ValidFollowsTheWire
    BY DEF WireHistory
  <1> QED BY <1>1, WireHistoryHolds, PTL

\* A producer stuck on one counter never regains authority
\* (stream_validity.h 44-52).
THEOREM StuckProducerStaysInvalid == Spec => RepeatNeverRestores
  <1>1. ASSUME TypeOK, WireHistory, [Next]_vars, ~valid, valid'
        PROVE  received' # received
    <2>1. PICK c \in Counters : Observe(c)
      BY <1>1 DEF Next, SetKey, InvalidateNow, TimePasses, ProducerSettles, vars
    <2>2. received' = c /\ Advance(c) /\ last # NoFrame
      BY <1>1, <2>1 DEF Observe, Reacquire, Accept, RejectDuplicate, SequenceFault,
         Receive, Advance
    <2>3. c # last
      BY <1>1, <2>2, StreamAssumption
      DEF Advance, Delta, Range, Forward, TypeOK, Counters, InvalidValue, NoFrame
    <2> QED BY <1>1, <2>2, <2>3 DEF WireHistory
  <1>2. TypeOK /\ WireHistory /\ [Next]_vars
          => [~valid /\ valid' => received' # received]_vars
    BY <1>1
  <1> QED BY <1>2, TypeCorrect, WireHistoryHolds, PTL DEF Spec, RepeatNeverRestores
-----------------------------------------------------------------------------
(* The contract: StreamValidity implements StreamContract.                  *)

\* A step that leaves a stream unbound or empty withdraws or changes nothing.
LEMMA WithdrawnIsNext ==
  ASSUME TrustIn' = "none" PROVE Contract!Next
  BY DEF Contract!Next, Contract!Withdraw, Contract!NoFrame, NoFrame

\* What a bound stream that held no counter makes of a frame.
LEMMA BaselineIsNext ==
  ASSUME TypeOK, WireHistory, NEW c \in Counters, Reacquire(c), keyed, last = NoFrame
  PROVE  Contract!Next
  <1>1. Baseline(c) /\ ~Advance(c)
    BY StreamAssumption DEF Baseline, Advance, InvalidValue, Range, Counters
  <1>2. keyed' /\ received' = c /\ last' = c /\ ~valid'
    BY <1>1 DEF Reacquire, Receive
  <1>3. TrustIn = "none" /\ TrustIn' = "baseline"
    BY <1>2 DEF TrustIn, Counters, NoFrame
  <1>4. Contract!Frame(c)
    BY <1>2, <1>3 DEF Contract!Frame, Contract!Observed
  <1> QED BY <1>4 DEF Contract!Next, Counters

\* How a bound stream that holds a counter judges a frame: by the distance from it.
LEMMA Distances ==
  ASSUME TypeOK, NEW c \in Counters, keyed, last # NoFrame
  PROVE  /\ ~InvalidValue(c)
         /\ Advance(c) <=> (c + Modulus - last) % Modulus \in 1 .. MaxForward
         /\ c = last => ~Advance(c)
  <1>1. /\ ~InvalidValue(c)
        /\ Advance(c) <=> (c + Modulus - last) % Modulus \in 1 .. MaxForward
    BY StreamAssumption DEF InvalidValue, Advance, Delta, Range, Forward, Counters
  <1>2. c = last => (c + Modulus - last) % Modulus = 0
    BY StreamAssumption DEF Counters, TypeOK, NoFrame
  <1> QED BY <1>1, <1>2

\* A stream that has a baseline: a repeated frame never gives authority.
LEMMA ReacquireIsNext ==
  ASSUME TypeOK, WireHistory, NEW c \in Counters, Reacquire(c), keyed, last # NoFrame
  PROVE  Contract!Next
  <1>1. keyed' /\ received' = c /\ last' \in Counters /\ ~valid
    BY DEF Reacquire, Receive, TypeOK
  <1>2. TrustIn = "baseline" /\ TrustIn' \in {"baseline", "valid"}
    BY <1>1 DEF TrustIn, Counters, NoFrame
  <1>3. c = received => TrustIn' = "baseline"
    <2>1. SUFFICES ASSUME c = received PROVE ~valid'
      BY <1>2 DEF TrustIn
    <2>2. last = received \/ ~Advance(received)
      BY <1>1 DEF WireHistory
    <2> QED BY <2>1, <2>2, Distances DEF Reacquire
  <1>4. received \in Counters \cup {NoFrame} /\ (received = NoFrame => c # received)
    BY DEF TypeOK, Counters, NoFrame
  <1>5. Contract!Kind(c) = "repeat" => c = received
    BY <1>2 DEF Contract!Kind
  <1>6. TrustIn' \in Contract!Observed(TrustIn, Contract!Kind(c))
    BY <1>2, <1>3, <1>5 DEF Contract!Observed
  <1>7. Contract!Frame(c)
    BY <1>1, <1>2, <1>6 DEF Contract!Frame
  <1> QED BY <1>7 DEF Contract!Next, Counters

\* A stream with authority: the counter it holds is the wire's, so it judges a
\* frame by the counter before.
LEMMA ValidIsNext ==
  ASSUME TypeOK, WireHistory, NEW c \in Counters, keyed, valid, last # NoFrame,
         Accept(c) \/ RejectDuplicate(c) \/ SequenceFault(c)
  PROVE  Contract!Next
  <1>1. received \in Counters /\ last = received /\ TrustIn = "valid" /\ received # NoFrame
    BY StreamAssumption
    DEF WireHistory, ValidFollowsTheWire, InvalidValue, Range, TypeOK, Counters, NoFrame, TrustIn
  <1>2. keyed' /\ received' = c
    BY DEF Accept, RejectDuplicate, SequenceFault, Receive
  <1>3. CASE Accept(c)
    <2>1. Advance(c) /\ TrustIn' = "valid"
      BY <1>2, <1>3, Distances DEF Accept, TrustIn, Counters, NoFrame
    <2>2. Contract!Kind(c) \in {"next", "skip"}
      BY <1>1, <2>1, Distances, StreamAssumption
      DEF Contract!Kind, Contract!Distance, Contract!NoFrame, NoFrame, Counters
    <2>3. Contract!Frame(c)
      BY <1>1, <1>2, <2>1, <2>2 DEF Contract!Frame, Contract!Observed
    <2> QED BY <2>3 DEF Contract!Next, Counters
  <1>4. CASE RejectDuplicate(c)
    <2>1. c = received /\ TrustIn' \in {"valid", "none"}
      BY <1>1, <1>2, <1>4 DEF RejectDuplicate, Duplicate, TrustIn
    <2>2. Contract!Kind(c) = "repeat"
      BY <1>1, <2>1 DEF Contract!Kind, Contract!NoFrame, NoFrame
    <2>3. Contract!Frame(c)
      BY <1>1, <1>2, <2>1, <2>2 DEF Contract!Frame, Contract!Observed, Contract!NoFrame, NoFrame
    <2> QED BY <2>3 DEF Contract!Next, Counters
  <1>5. CASE SequenceFault(c)
    BY <1>5, WithdrawnIsNext DEF SequenceFault, TrustIn
  <1> QED BY <1>3, <1>4, <1>5

LEMMA StepIsContract ==
  ASSUME TypeOK, WireHistory, [Next]_vars
  PROVE  [Contract!Next]_(Contract!vars)
  <1>1. CASE TrustIn' = "none"
    BY <1>1, WithdrawnIsNext
  <1>2. CASE TrustIn' # "none" /\ (SetKey \/ InvalidateNow)
    BY <1>2 DEF SetKey, InvalidateNow, TrustIn
  <1>3. CASE TimePasses \/ ProducerSettles \/ UNCHANGED vars
    BY <1>3 DEF TimePasses, ProducerSettles, vars, Contract!vars, TrustIn
  <1>4. ASSUME NEW c \in Counters, Observe(c), TrustIn' # "none" PROVE Contract!Next
    <2>1. keyed
      BY <1>4 DEF TrustIn, Observe, Reacquire, Accept, RejectDuplicate, SequenceFault, Receive
    <2>2. CASE Reacquire(c)
      BY <1>4, <2>1, <2>2, BaselineIsNext, ReacquireIsNext
    <2>3. CASE ~Reacquire(c)
      <3>1. valid /\ (Accept(c) \/ RejectDuplicate(c) \/ SequenceFault(c))
        BY <1>4, <2>3 DEF Observe, Accept, RejectDuplicate, SequenceFault
      <3>2. last # NoFrame
        <4>1. ~InvalidValue(c)
          BY <1>4, <2>1, StreamAssumption
          DEF InvalidValue, Range, Counters, Observe, Reacquire, Accept, RejectDuplicate,
              SequenceFault, Receive
        <4> QED BY <3>1, <4>1 DEF Accept, RejectDuplicate, SequenceFault, Advance, Duplicate, Reorder
      <3> QED BY <1>4, <2>1, <3>1, <3>2, ValidIsNext
    <2> QED BY <2>2, <2>3
  <1> QED BY <1>1, <1>2, <1>3, <1>4 DEF Next

\* StreamValidity implements StreamContract: its users may take authority for
\* what StreamTrust says of it (stream_validity.h 41-74).
THEOREM StreamKeepsContract == Spec => KeepsStreamContract
  <1>1. Init => Contract!Init
    BY DEF Init, Contract!Init, Contract!NoFrame, NoFrame, TrustIn
  <1>2. TypeOK /\ WireHistory /\ [Next]_vars => [Contract!Next]_(Contract!vars)
    BY StepIsContract
  <1> QED
    BY <1>1, <1>2, TypeCorrect, WireHistoryHolds, PTL DEF Spec, KeepsStreamContract, Contract!Spec

-----------------------------------------------------------------------------
(* A producer that counts on.                                               *)

\* A remainder of what one turn of the counter covers twice.
LEMMA TwoTurns ==
  ASSUME NEW n \in 0 .. 2 * Modulus - 1
  PROVE  n % Modulus = IF n < Modulus THEN n ELSE n - Modulus
  BY StreamAssumption

\* The distance from the counter that is held to the next one of the wire.
LEMMA NextDistance ==
  ASSUME NEW from \in Counters, NEW to \in Counters
  PROVE  LET d == (to + Modulus - from) % Modulus
             n == (to + 1) % Modulus
         IN  /\ d \in Counters /\ n \in Counters /\ n # to
             /\ d = 0 <=> to = from
             /\ (n + Modulus - from) % Modulus = IF d = Modulus - 1 THEN 0 ELSE d + 1
  <1>1. /\ Modulus \in Nat /\ Modulus >= 2
        /\ from \in Nat /\ from < Modulus /\ to \in Nat /\ to < Modulus
    BY StreamAssumption DEF Counters
  <1>2. (to + Modulus - from) % Modulus = IF to < from THEN to + Modulus - from ELSE to - from
    BY <1>1, TwoTurns
  <1>3. (to + 1) % Modulus = IF to = Modulus - 1 THEN 0 ELSE to + 1
    BY <1>1, TwoTurns
  <1>4. CASE to = Modulus - 1
    <2>1. (0 + Modulus - from) % Modulus = IF from = 0 THEN 0 ELSE Modulus - from
      BY <1>1, TwoTurns
    <2> QED BY <1>1, <1>2, <1>3, <1>4, <2>1 DEF Counters
  <1>5. CASE to # Modulus - 1
    <2>1. ((to + 1) + Modulus - from) % Modulus
            = IF to + 1 < from THEN (to + 1) + Modulus - from ELSE (to + 1) - from
      BY <1>1, <1>5, TwoTurns
    <2> QED BY <1>1, <1>2, <1>3, <1>5, <2>1 DEF Counters
  <1> QED BY <1>4, <1>5

\* A producer counts on once its frames are there and its stream is bound.
SteadyBound == steady => keyed /\ received # NoFrame

LEMMA SteadyBoundHolds == Spec => []SteadyBound
  <1>1. Init => SteadyBound
    BY DEF Init, SteadyBound
  <1>2. TypeOK /\ SteadyBound /\ [Next]_vars => SteadyBound'
    <2> SUFFICES ASSUME TypeOK, SteadyBound, [Next]_vars PROVE SteadyBound'
      OBVIOUS
    <2>1. ASSUME NEW c \in Counters, Observe(c) PROVE SteadyBound'
      <3>1. Receive(c)
        BY <2>1 DEF Observe, Reacquire, Accept, RejectDuplicate, SequenceFault
      <3>2. UNCHANGED <<keyed, steady>> /\ received' # NoFrame
        BY <3>1 DEF Receive, Counters, NoFrame
      <3> QED BY <3>2 DEF SteadyBound
    <2>2. CASE SetKey \/ InvalidateNow \/ TimePasses \/ ProducerSettles \/ UNCHANGED vars
      BY <2>2 DEF SteadyBound, SetKey, InvalidateNow, TimePasses, ProducerSettles, vars
    <2> QED BY <2>1, <2>2 DEF Next
  <1> QED BY <1>1, <1>2, TypeCorrect, PTL DEF Spec

\* A frame of such a producer, by what the stream holds.
LEMMA SteadyFrame ==
  ASSUME TypeOK, WireHistory, SteadyBound, steady, NEW c \in Counters, Observe(c)
  PROVE  /\ received' # received
         /\ FramesToGo' = IF valid THEN FramesToGo ELSE FramesToGo - 1
  <1>1. /\ keyed /\ keyed' /\ received \in Counters /\ received # NoFrame
        /\ received' = c /\ c = (received + 1) % Modulus
    BY DEF SteadyBound, TypeOK, Observe, Reacquire, Accept, RejectDuplicate, SequenceFault,
       Receive, Plus1, NoFrame
  <1>2. c # received /\ c # NoFrame
    BY <1>1, NextDistance DEF Counters, NoFrame
  <1>3. /\ Modulus \in Nat /\ MaxForward \in 1 .. Modulus - 1 /\ ~InvalidValue(c)
    BY <1>1, StreamAssumption DEF InvalidValue, Range, Counters
  <1> DEFINE D(to, from) == (to + Modulus - from) % Modulus
  <1>6. \A from \in Counters :
           D(c, from) = IF D(received, from) = Modulus - 1 THEN 0 ELSE D(received, from) + 1
    BY <1>1, NextDistance
  <1>4. CASE valid
    <2>1. last = received
      BY <1>1, <1>4, StreamAssumption DEF WireHistory, ValidFollowsTheWire, InvalidValue, Range, Counters
    <2>2. last \in Counters /\ last # NoFrame /\ (received + Modulus - last) % Modulus = 0
      BY <1>1, <2>1, NextDistance
    <2>3. (c + Modulus - last) % Modulus = 1
      BY <1>3, <1>6, <2>2
    <2>4. Advance(c)
      BY <1>1, <1>3, <2>2, <2>3, Distances
    <2>5. valid'
      BY <1>2, <1>4, <2>1, <2>4 DEF Observe, Reacquire, Accept, RejectDuplicate, SequenceFault,
         Duplicate, Reorder
    <2> QED BY <1>1, <1>2, <1>4, <2>5 DEF FramesToGo
  <1>5. CASE ~valid
    <2>0. Reacquire(c)
      BY <1>5 DEF Observe, Accept, RejectDuplicate, SequenceFault
    <2>1. CASE last = NoFrame
      <3>1. last' = c /\ ~valid'
        BY <1>3, <2>0, <2>1 DEF Reacquire, Baseline, Advance
      <3> QED BY <1>1, <1>2, <1>5, <2>1, <3>1 DEF FramesToGo
    <2>2. CASE last = received
      <3>1. last \in Counters /\ last # NoFrame /\ (received + Modulus - last) % Modulus = 0
        BY <1>1, <2>2, NextDistance
      <3>2. (c + Modulus - last) % Modulus = 1
        BY <1>3, <1>6, <3>1
      <3>3. Advance(c)
        BY <1>1, <1>3, <3>1, <3>2, Distances
      <3>4. valid'
        BY <2>0, <3>3 DEF Reacquire
      <3> QED BY <1>1, <1>2, <1>5, <2>2, <3>1, <3>4 DEF FramesToGo
    <2>3. CASE last # NoFrame /\ last # received
      <3> DEFINE d == (received + Modulus - last) % Modulus
                 e == (c + Modulus - last) % Modulus
      <3>1. last \in Counters /\ d \in Counters /\ d # 0
        BY <1>1, <2>3, NextDistance DEF TypeOK
      <3>2. d > MaxForward
        BY <1>1, <1>3, <1>5, <2>3, <3>1, Distances DEF WireHistory, Counters
      <3>3. e = IF d = Modulus - 1 THEN 0 ELSE d + 1
        BY <1>1, <3>1, NextDistance
      <3>4. ~Advance(c) /\ ~Baseline(c)
        BY <1>1, <1>3, <2>3, <3>1, <3>2, <3>3, Distances DEF Baseline, Counters
      <3>5. last' = last /\ ~valid'
        BY <2>0, <3>4 DEF Reacquire
      <3>6. FramesToGo = (Modulus + 1) - d
        BY <1>5, <2>3 DEF FramesToGo
      <3>7. CASE e = 0
        <4>1. c = last
          BY <3>1, <3>7, NextDistance
        <4> QED BY <1>1, <1>2, <1>3, <1>5, <3>1, <3>3, <3>5, <3>6, <3>7, <4>1 DEF FramesToGo, Counters
      <3>8. CASE e # 0
        <4>1. c # last
          BY <3>1, <3>8, NextDistance
        <4>2. FramesToGo' = (Modulus + 1) - e
          BY <1>1, <2>3, <3>5, <4>1 DEF FramesToGo
        <4> QED BY <1>1, <1>2, <1>3, <1>5, <3>1, <3>3, <3>6, <3>8, <4>2 DEF Counters
      <3> QED BY <3>7, <3>8
    <2> QED BY <2>1, <2>2, <2>3
  <1> QED BY <1>4, <1>5

\* Every frame of a producer that counts on in time brings its authority nearer and none
\* takes it back, and it was never further than a turn of the counter less the gap
\* the stream tolerates, or two frames: the bounded half of SteadyProducerHeld
\* (supervision.hpp 96-127, stream_validity.h 44-73).
THEOREM SteadyProducerCountsDown ==
    Spec => /\ EveryFrameCounts
            /\ [](steady => FramesToGo \in 0 .. 2 \/ FramesToGo \in 0 .. Modulus - MaxForward)
  <1>1. ASSUME TypeOK, WireHistory, SteadyBound, [Next]_vars, steady
        PROVE  FramesToGo' = IF received' = received \/ valid THEN FramesToGo ELSE FramesToGo - 1
    <2>1. ASSUME NEW c \in Counters, Observe(c)
          PROVE  FramesToGo' = IF received' = received \/ valid THEN FramesToGo ELSE FramesToGo - 1
      BY <1>1, <2>1, SteadyFrame
    <2>2. CASE SetKey \/ InvalidateNow
      BY <1>1, <2>2 DEF SteadyBound, SetKey, InvalidateNow
    <2>3. CASE TimePasses \/ ProducerSettles \/ UNCHANGED vars
      BY <2>3 DEF TimePasses, ProducerSettles, vars, FramesToGo
    <2> QED BY <1>1, <2>1, <2>2, <2>3 DEF Next
  <1>2. TypeOK /\ WireHistory /\ SteadyBound /\ [Next]_vars
          => [steady => FramesToGo' = IF received' = received \/ valid
                                      THEN FramesToGo ELSE FramesToGo - 1]_vars
    BY <1>1
  <1>3. ASSUME TypeOK, WireHistory, SteadyBound, steady
        PROVE  FramesToGo \in 0 .. 2 \/ FramesToGo \in 0 .. Modulus - MaxForward
    <2>1. CASE valid \/ last = NoFrame \/ last = received
      BY <2>1 DEF FramesToGo
    <2>2. CASE ~valid /\ last # NoFrame /\ last # received
      <3> DEFINE d == (received + Modulus - last) % Modulus
      <3>1. keyed /\ last \in Counters /\ received \in Counters
        BY <1>3, <2>2 DEF SteadyBound, TypeOK
      <3>2. d \in Counters /\ d # 0
        BY <2>2, <3>1, NextDistance
      <3>3. d > MaxForward
        BY <1>3, <2>2, <3>1, <3>2, Distances, StreamAssumption DEF WireHistory, Counters
      <3>4. FramesToGo = (Modulus + 1) - d
        BY <2>2 DEF FramesToGo
      <3> QED BY <3>2, <3>3, <3>4, StreamAssumption DEF Counters
    <2> QED BY <2>1, <2>2
  <1> QED
    BY <1>2, <1>3, TypeCorrect, WireHistoryHolds, SteadyBoundHolds, PTL DEF Spec, EveryFrameCounts
=============================================================================
