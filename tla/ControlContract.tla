--------------------------- MODULE ControlContract ---------------------------
(***************************************************************************)
(* What the control service of the toolkit promises about the producers of *)
(* control frames: a source that is let in leads kinematics alone, and a   *)
(* direct channel runs beside no kinematics, of whatever source.           *)
(***************************************************************************)

CONSTANTS Sources, Kinematics, Channels

VARIABLES
    producers, \* who produces which frame
    leader     \* the source heard last

vars == <<producers, leader>>

Init == producers = {} /\ leader \in Sources

\* A stop, a failure, a conflict: producers only go.
Stops == producers' \subseteq producers /\ UNCHANGED leader

\* A source whose intent is accepted: drive and heartbeat are its own, those that
\* a stop which ran beside the intent has left, and every channel is off.
Leads(s) ==
    /\ leader' = s
    /\ producers' \subseteq [frame : Kinematics, owner : {s}]

\* A source whose intent is refused ends the kinematics of another.
Refused(s) ==
    /\ leader' = s
    /\ producers' = {p \in producers : p.frame \in Kinematics => p.owner = s}

Directs(c) ==
    /\ producers' = {p \in producers : p.frame \notin Kinematics}
                        \cup {[frame |-> c, owner |-> "direct"]}
    /\ UNCHANGED leader

Next ==
    \/ Stops
    \/ \E s \in Sources : Leads(s) \/ Refused(s)
    \/ \E c \in Channels : Directs(c)

Spec == Init /\ [][Next]_vars

\* No frame has two producers, and those of kinematics are the leader's.
OneProducer ==
    \A p, q \in producers :
        /\ p.frame = q.frame => p = q
        /\ p.frame \in Kinematics => p.owner = leader /\ q.frame \in Kinematics
=============================================================================
