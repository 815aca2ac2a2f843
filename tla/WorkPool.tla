------------------------------ MODULE WorkPool ------------------------------
(***************************************************************************)
(* What a scheduler of company work promises: a job is put in the queue    *)
(* once, is worked on only while it waits there, by at most Workers at a   *)
(* time, and is not touched again once it is settled.  Work that is        *)
(* interrupted waits again.  A queue that is closed drops its records and  *)
(* gives no job out; work in progress then settles, or is forgotten.       *)
(***************************************************************************)
EXTENDS Naturals, FiniteSets

CONSTANTS Jobs, Workers

VARIABLES
    known,      \* the jobs that were ever put in the queue
    waiting, working, settled,
    closed

vars == <<known, waiting, working, settled, closed>>

Init ==
    /\ known = {} /\ waiting = {} /\ working = {} /\ settled = {}
    /\ closed = FALSE

(* A turn of the scheduler: some jobs are put in the queue, and of those   *)
(* that wait some are started and some are settled without being started.  *)
Dispatch(new, started, dropped) ==
    /\ ~closed
    /\ new \cap known = {}
    /\ started \cup dropped \subseteq waiting \cup new /\ started \cap dropped = {}
    /\ Cardinality(working \cup started) <= Workers
    /\ known' = known \cup new
    /\ waiting' = (waiting \cup new) \ (started \cup dropped)
    /\ working' = working \cup started
    /\ settled' = settled \cup dropped
    /\ UNCHANGED closed

Settle(j) ==
    /\ j \in working
    /\ working' = working \ {j}
    /\ settled' = settled \cup {j}
    /\ UNCHANGED <<known, waiting, closed>>

Interrupt(S) ==
    /\ S \subseteq working
    /\ working' = working \ S
    /\ waiting' = IF closed THEN waiting ELSE waiting \cup S
    /\ UNCHANGED <<known, settled, closed>>

Close ==
    /\ ~closed /\ closed' = TRUE
    /\ waiting' = {} /\ settled' = {}
    /\ UNCHANGED <<known, working>>

Next ==
    \/ \E new \in SUBSET (Jobs \ known) :
       \E started \in SUBSET (waiting \cup new) :
       \E dropped \in SUBSET ((waiting \cup new) \ started) : Dispatch(new, started, dropped)
    \/ \E j \in working : Settle(j)
    \/ \E S \in SUBSET working : Interrupt(S)
    \/ Close

Spec == Init /\ [][Next]_vars
=============================================================================
