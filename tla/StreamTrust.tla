----------------------------- MODULE StreamTrust -----------------------------
(***************************************************************************)
(* A supervised stream of rolling counters, seen by the code that relies   *)
(* on it: how far it is trusted, and what a frame may make of that trust   *)
(* by the way its counter follows the counter of the frame before.         *)
(***************************************************************************)

\* Nothing is held, a first counter is, the stream has authority.
Trust == {"none", "baseline", "valid"}

\* One on, on within the tolerated gap, the same again, anything else.
CounterKinds == {"next", "skip", "repeat", "jump"}

\* Where a frame may leave the stream.  Without authority the counter held may be
\* an older one than that of the frame before; with it, a repeat is rejected, or
\* costs the authority once it comes too late.
Observed(stream, kind) ==
    CASE stream = "none" -> {"baseline"}
      [] stream = "baseline" -> IF kind = "repeat" THEN {"baseline"} ELSE {"baseline", "valid"}
      [] stream = "valid" /\ kind \in {"next", "skip"} -> {"valid"}
      [] stream = "valid" /\ kind = "repeat" -> {"valid", "none"}
      [] stream = "valid" /\ kind = "jump" -> {"none"}
=============================================================================
