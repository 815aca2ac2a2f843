---------------------------- MODULE BrowserLease ----------------------------
(***************************************************************************)
(* CoworkBrowserLease: the chain of promises that hands the one shared     *)
(* desktop browser from teammate to teammate.                              *)
(*                                                                         *)
(* Every call of acquire() makes a promise `held` of its own, which only   *)
(* its release() resolves, and puts it at the end of the chain:            *)
(* tail = previous.then(() => held).  A promise of the chain is therefore  *)
(* represented by the set of `held` promises it waits for, and it is       *)
(* resolved when all of them are.                                          *)
(***************************************************************************)

CONSTANT Calls              \* the calls of acquire(), each made once

VARIABLES
    pc,         \* where each call is in the body of acquire()
    tail,       \* this.tail: the calls whose held promises it waits for
    previous,   \* the value of this.tail each call captured
    resolved,   \* the calls whose held promise is resolved
    aborted     \* the calls whose AbortSignal has fired

vars == <<pc, tail, previous, resolved, aborted>>

Waiting == {"waiting", "woken"}
Finished == {"released", "cancelled"}

TypeOK ==
    /\ pc \in [Calls -> {"idle", "holding"} \cup Waiting \cup Finished]
    /\ tail \in SUBSET Calls
    /\ previous \in [Calls -> SUBSET Calls]
    /\ resolved \in SUBSET Calls
    /\ aborted \in SUBSET Calls

Init ==
    /\ pc = [c \in Calls |-> "idle"]
    /\ tail = {}
    /\ previous = [c \in Calls |-> {}]
    /\ resolved = {}
    /\ aborted = {}

-----------------------------------------------------------------------------
(* Slip: the new tail waits for the newcomer alone. *)
AcquireForgetting(c) ==
    /\ pc[c] = "idle"
    /\ c \notin aborted
    /\ pc' = [pc EXCEPT ![c] = "waiting"]
    /\ previous' = [previous EXCEPT ![c] = tail]
    /\ tail' = {c}
    /\ UNCHANGED <<resolved, aborted>>

(* The synchronous part of acquire(): capture the tail, become the tail. *)
Acquire(c) ==
    /\ pc[c] = "idle"
    /\ c \notin aborted
    /\ pc' = [pc EXCEPT ![c] = "waiting"]
    /\ previous' = [previous EXCEPT ![c] = tail]
    /\ tail' = tail \cup {c}
    /\ UNCHANGED <<resolved, aborted>>

(* signal.throwIfAborted() before the chain is touched. *)
Refuse(c) ==
    /\ pc[c] = "idle"
    /\ c \in aborted
    /\ pc' = [pc EXCEPT ![c] = "cancelled"]
    /\ UNCHANGED <<tail, previous, resolved, aborted>>

(* Slip: a predecessor whose signal fired is not waited for. *)
WakeSkippingAborted(c) ==
    /\ pc[c] = "waiting"
    /\ previous[c] \subseteq resolved \cup aborted
    /\ pc' = [pc EXCEPT ![c] = "woken"]
    /\ UNCHANGED <<tail, previous, resolved, aborted>>

(* Promise.race settles with `previous`; the continuation is still to run. *)
Wake(c) ==
    /\ pc[c] = "waiting"
    /\ previous[c] \subseteq resolved
    /\ pc' = [pc EXCEPT ![c] = "woken"]
    /\ UNCHANGED <<tail, previous, resolved, aborted>>

(* The continuation finds the signal quiet and returns release. *)
Enter(c) ==
    /\ pc[c] = "woken"
    /\ c \notin aborted
    /\ pc' = [pc EXCEPT ![c] = "holding"]
    /\ UNCHANGED <<tail, previous, resolved, aborted>>

(* Slip: the catch block rethrows without calling release(). *)
CancelSilently(c) ==
    /\ pc[c] \in Waiting
    /\ c \in aborted
    /\ pc' = [pc EXCEPT ![c] = "cancelled"]
    /\ UNCHANGED <<tail, previous, resolved, aborted>>

(* The abort wins the race, or is seen after it: catch, release(), rethrow. *)
Cancel(c) ==
    /\ pc[c] \in Waiting
    /\ c \in aborted
    /\ pc' = [pc EXCEPT ![c] = "cancelled"]
    /\ resolved' = resolved \cup {c}
    /\ UNCHANGED <<tail, previous, aborted>>

(* The caller runs the release function it was given. *)
Release(c) ==
    /\ pc[c] = "holding"
    /\ pc' = [pc EXCEPT ![c] = "released"]
    /\ resolved' = resolved \cup {c}
    /\ UNCHANGED <<tail, previous, aborted>>

(* The owner of the signals in S aborts them. *)
Abort(S) ==
    /\ aborted' = aborted \cup S
    /\ UNCHANGED <<pc, tail, previous, resolved>>

Step(c) ==
    \/ Acquire(c)
    \/ Refuse(c)
    \/ Wake(c)
    \/ Enter(c)
    \/ Cancel(c)
    \/ Release(c)
    \/ (c \notin aborted /\ Abort({c}))

Next == \E c \in Calls : Step(c)

Spec == Init /\ [][Next]_vars

(* Promise reactions run, and a holder's finally block runs its release.  *)
(* Nobody has to ask for the browser, and nobody has to abort.            *)
FairSpec ==
    /\ Spec
    /\ \A c \in Calls : WF_vars(Wake(c) \/ Enter(c) \/ Cancel(c) \/ Release(c))

-----------------------------------------------------------------------------
(* At most one caller has the browser, however waiters are cancelled       *)
(* between two holders: a cancelled waiter resolves its own promise while  *)
(* its predecessors still hold theirs.                                     *)
MutualExclusion ==
    \A c, d \in Calls : pc[c] = "holding" /\ pc[d] = "holding" => c = d

(* Why it is so: calls that reached the chain are ordered by it, and a     *)
(* call past the race finds everything before it resolved, itself not.     *)
ChainInv ==
    /\ TypeOK
    /\ resolved \subseteq tail
    /\ \A c \in Calls : pc[c] = "idle" => c \notin tail
    /\ \A c, d \in tail : c # d => c \in previous[d] \/ d \in previous[c]
    /\ \A c \in Calls : pc[c] \in {"woken", "holding"} => previous[c] \subseteq resolved
    /\ \A c \in Calls : pc[c] \in {"holding"} \cup Waiting => c \in tail /\ c \notin resolved

(* The chain never waits for itself: while a call waits, some call of the  *)
(* chain has the browser or needs nobody before it.                        *)
ChainMoves ==
    \A c \in Calls : pc[c] \in Waiting =>
        \E d \in tail \ resolved : pc[d] = "holding" \/ (pc[d] \in Waiting /\ previous[d] \subseteq resolved)

(* Every call in the chain is answered: it gets the browser, or it was     *)
(* cancelled.  A cancelled waiter must not hold up the ones behind it.     *)
EveryCallAnswered ==
    \A c \in Calls : pc[c] = "waiting" ~> pc[c] \in {"holding"} \cup Finished

(* The chain of promises is a lock. *)
Lock == INSTANCE Mutex WITH
            waiting <- {c \in Calls : pc[c] \in Waiting},
            holder <- {c \in Calls : pc[c] = "holding"}
IsLock == Lock!Spec
=============================================================================
