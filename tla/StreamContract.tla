--------------------------- MODULE StreamContract ---------------------------
(***************************************************************************)
(* What StreamValidity promises to the nodes that gate motion on a stream: *)
(* authority comes and goes only as StreamTrust says, by the counters of   *)
(* the frames on the wire, or is withdrawn.  MtrManager relies on it for   *)
(* its three command streams.                                              *)
(***************************************************************************)
EXTENDS Integers, StreamTrust

CONSTANTS Modulus, MaxForward

NoFrame == -1

VARIABLES
    trust,
    counter   \* that of the last frame, or NoFrame while nothing is held

vars == <<trust, counter>>

Init == trust = "none" /\ counter = NoFrame

Distance(c) == (c + Modulus - counter) % Modulus

Kind(c) ==
    CASE counter = NoFrame       -> "jump"
      [] c = counter             -> "repeat"
      [] OTHER -> IF Distance(c) = 1 THEN "next"
                  ELSE IF Distance(c) <= MaxForward THEN "skip" ELSE "jump"

Frame(c) ==
    /\ trust' \in Observed(trust, Kind(c))
    /\ counter' = IF trust' = "none" THEN NoFrame ELSE c

Withdraw == trust' = "none" /\ counter' = NoFrame

Next == Withdraw \/ \E c \in 0 .. Modulus - 1 : Frame(c)

Spec == Init /\ [][Next]_vars
=============================================================================
