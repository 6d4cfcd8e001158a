------------------------- MODULE AuthorityContract -------------------------
(***************************************************************************)
(* What SYS promises to the receivers of 0x110 SYS_MODE_CMD and 0x113      *)
(* SYS_PWR_CMD (RT and MTR), whatever its tasks do inside.  The mode and   *)
(* the causes of a block are read one after another and the two frames     *)
(* leave after that, so a frame may still carry an authority withdrawn     *)
(* since the reads.  What a pair of frames never does is to outlive the    *)
(* pair before it: a stop that was there when the previous pair had gone   *)
(* and has not been lifted for a moment since is obeyed by both frames.    *)
(***************************************************************************)
CONSTANTS Modes, Causes

VARIABLES
    mode,    \* the operating mode of SYS
    blocks,  \* the causes that block traction: inhibit, latched fault, START
    seen,    \* the modes SYS has been in since its last pair of frames
    lifted,  \* the causes that have been clear at some time since then
    wire     \* the authority carried by the last frame of each kind

vars == <<mode, blocks, seen, lifted, wire>>

Init ==
    /\ mode = "Manual" /\ seen = {"Manual"}
    /\ blocks = {"run"} /\ lifted = Causes \ {"run"}
    /\ wire = [auto |-> FALSE, power |-> FALSE]

ChangeMode ==
    /\ mode' \in Modes
    /\ seen' = seen \cup {mode'}
    /\ UNCHANGED <<blocks, lifted, wire>>

ChangeBlocks ==
    /\ blocks' \subseteq Causes
    /\ lifted' = lifted \cup (Causes \ blocks')
    /\ UNCHANGED <<mode, seen, wire>>

SendMode ==
    /\ wire' \in {[wire EXCEPT !.auto = auto] : auto \in BOOLEAN}
    /\ wire'.auto => "Auto" \in seen /\ lifted = Causes
    /\ UNCHANGED <<mode, blocks, seen, lifted>>

\* The second frame of a pair: the next pair is accounted for from here on.
SendPower ==
    /\ wire' \in {[wire EXCEPT !.power = power] : power \in BOOLEAN}
    /\ wire'.power => seen \ {"Estop"} # {} /\ lifted = Causes
    /\ seen' = {mode}
    /\ lifted' = Causes \ blocks
    /\ UNCHANGED <<mode, blocks>>

Next == ChangeMode \/ ChangeBlocks \/ SendMode \/ SendPower

Spec == Init /\ [][Next]_vars
=============================================================================
