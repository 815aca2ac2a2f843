------------------------------- MODULE Mutex -------------------------------
(***************************************************************************)
(* What a shared resource with one user at a time promises: calls ask for  *)
(* it, at most one call has it, a call may give up while it waits, and the *)
(* resource goes back when its user is done.                               *)
(***************************************************************************)

CONSTANT Calls

VARIABLES
    waiting,    \* the calls that asked and have not been answered
    holder      \* the calls that have the resource

vars == <<waiting, holder>>

Init ==
    /\ waiting = {}
    /\ holder = {}

Ask(c) ==
    /\ c \notin waiting \cup holder
    /\ waiting' = waiting \cup {c}
    /\ UNCHANGED holder

Grant(c) ==
    /\ c \in waiting
    /\ holder = {}
    /\ holder' = {c}
    /\ waiting' = waiting \ {c}

GiveUp(c) ==
    /\ c \in waiting
    /\ waiting' = waiting \ {c}
    /\ UNCHANGED holder

Return(c) ==
    /\ c \in holder
    /\ holder' = holder \ {c}
    /\ UNCHANGED waiting

Next == \E c \in Calls : Ask(c) \/ Grant(c) \/ GiveUp(c) \/ Return(c)

Spec == Init /\ [][Next]_vars
=============================================================================
