--------------------------- MODULE MemoryFileLock ---------------------------
(***************************************************************************)
(* withMemoryFileLock: calls of one process queue behind each other, and   *)
(* the first of each process competes for the lock file with those of the  *)
(* other processes.  The file is created, filled, read and removed in      *)
(* steps of their own, so processes interleave between them; a process may *)
(* die between any two.                                                    *)
(***************************************************************************)
EXTENDS Naturals, Sequences

CONSTANTS
    Process,
    Call,           \* bound: the calls of withMemoryFileLock, each made once
    Home,           \* the process of each call
    Dying,          \* the processes that may die
    None            \* no lock file, no claim

ASSUME LockAssumption ==
    Home \in [Call -> Process] /\ Dying \subseteq Process /\ None \notin Call

VARIABLES
    alive,      \* the processes that run
    pc,         \* where each call is
    queue,      \* acquisitionChains: the calls of each process that are not released
    claim,      \* heldClaims
    file,       \* the call that created the lock file, which its token names
    written,    \* has its body been written?
    old,        \* is a file without a body older than its 30 seconds of grace?
    seen        \* the body that each call judged stale

lockfile == <<file, written, old>>
vars == <<alive, pc, queue, claim, lockfile, seen>>

Seeking == {"trying", "looking", "rereading", "unlinking", "delayed", "writing"}
Waiting == {"queued"} \cup Seeking
Releasing == {"releasing", "freeing"}
InTurn == Seeking \cup {"holding"} \cup Releasing
Ended == {"done", "failed"}

TypeOK ==
    /\ alive \in SUBSET Process
    /\ pc \in [Call -> {"idle", "queued"} \cup InTurn \cup Ended]
    /\ queue \in [Process -> Seq(Call)]
    /\ claim \in [Process -> Call \cup {None}]
    /\ file \in Call \cup {None}
    /\ written \in BOOLEAN /\ old \in BOOLEAN
    /\ seen \in [Call -> Call \cup {None}]

Init ==
    /\ alive = Process
    /\ pc = [c \in Call |-> "idle"]
    /\ queue = [p \in Process |-> <<>>]
    /\ claim = [p \in Process |-> None]
    /\ file = None /\ written = FALSE /\ old = FALSE
    /\ seen = [c \in Call |-> None]

-----------------------------------------------------------------------------
(* What reading the file gives: "pid|token", or nothing yet. *)
Body == IF written THEN file ELSE None

(* MUTANT of IsStaleHolder: whoever answers the signal counts as dead. *)
IsStaleSignalled(p) ==
    IF ~written THEN old
    ELSE IF Home[file] = p THEN claim[p] # file
    ELSE Home[file] \in alive

(* The judgement of process p on the present file. *)
IsStaleHolder(p) ==
    IF ~written THEN old
    ELSE IF Home[file] = p THEN claim[p] # file
    ELSE Home[file] \notin alive

(* MUTANT of Go: a call that fails leaves the chain as it is. *)
GoHolding(c, where) ==
    /\ pc' = [pc EXCEPT ![c] = where]
    /\ queue' = IF where = "done" THEN [queue EXCEPT ![Home[c]] = Tail(@)] ELSE queue

(* The finally block opens the gate for the next call of the process. *)
Go(c, where) ==
    /\ pc' = [pc EXCEPT ![c] = where]
    /\ queue' = IF where \in Ended THEN [queue EXCEPT ![Home[c]] = Tail(@)] ELSE queue

-----------------------------------------------------------------------------
Enqueue(c) ==
    /\ pc[c] = "idle"
    /\ pc' = [pc EXCEPT ![c] = "queued"]
    /\ queue' = [queue EXCEPT ![Home[c]] = Append(@, c)]
    /\ UNCHANGED <<alive, claim, lockfile, seen>>

(* await chain *)
Begin(c) ==
    /\ pc[c] = "queued"
    /\ queue[Home[c]] # <<>> /\ Head(queue[Home[c]]) = c
    /\ Go(c, "trying")
    /\ UNCHANGED <<alive, claim, lockfile, seen>>

(* openSync(lock, 'wx') *)
Open(c) ==
    /\ pc[c] = "trying"
    /\ IF file = None
       THEN file' = c /\ written' = FALSE /\ old' = FALSE /\ Go(c, "writing")
       ELSE Go(c, "looking") /\ UNCHANGED lockfile
    /\ UNCHANGED <<alive, claim, seen>>

(* The body goes to the file that was opened, linked or not. *)
Write(c) ==
    /\ pc[c] = "writing"
    /\ written' = (written \/ file = c)
    /\ claim' = [claim EXCEPT ![Home[c]] = c]
    /\ Go(c, "holding")
    /\ UNCHANGED <<alive, file, old, seen>>

(* stealStaleLock: the body is read and judged, ... *)
Look(c) ==
    /\ pc[c] = "looking"
    /\ IF file # None /\ IsStaleHolder(Home[c])
       THEN seen' = [seen EXCEPT ![c] = Body] /\ Go(c, "rereading")
       ELSE Go(c, "delayed") /\ UNCHANGED seen
    /\ UNCHANGED <<alive, claim, lockfile>>

(* ... read again, ... *)
Reread(c) ==
    /\ pc[c] = "rereading"
    /\ Go(c, IF file # None /\ Body = seen[c] THEN "unlinking" ELSE "delayed")
    /\ UNCHANGED <<alive, claim, lockfile, seen>>

(* ... and whatever is there by then is removed. *)
Unlink(c) ==
    /\ pc[c] = "unlinking"
    /\ Go(c, IF file # None THEN "trying" ELSE "delayed")
    /\ file' = None /\ written' = FALSE /\ old' = FALSE
    /\ UNCHANGED <<alive, claim, seen>>

Retry(c) ==
    /\ pc[c] = "delayed"
    /\ Go(c, "trying")
    /\ UNCHANGED <<alive, claim, lockfile, seen>>

(* The five seconds have passed. *)
TimeOut(c) ==
    /\ pc[c] = "delayed"
    /\ Go(c, "failed")
    /\ UNCHANGED <<alive, claim, lockfile, seen>>

(* The action returns or throws: releaseLock gives up the claim, ... *)
EndAction(c) ==
    /\ pc[c] = "holding"
    /\ claim' = [claim EXCEPT ![Home[c]] = None]
    /\ Go(c, "releasing")
    /\ UNCHANGED <<alive, lockfile, seen>>

(* ... looks for its own token, ... *)
Verify(c) ==
    /\ pc[c] = "releasing"
    /\ Go(c, IF file = c /\ written THEN "freeing" ELSE "done")
    /\ UNCHANGED <<alive, claim, lockfile, seen>>

(* ... and removes the file; ... *)
Free(c) ==
    /\ pc[c] = "freeing"
    /\ file' = None /\ written' = FALSE /\ old' = FALSE
    /\ Go(c, "done")
    /\ UNCHANGED <<alive, claim, seen>>

(* ... or leaves it, when the file cannot be read or removed a hundred     *)
(* times.                                                                  *)
LeaveBehind(c) ==
    /\ pc[c] \in Releasing
    /\ Go(c, "done")
    /\ UNCHANGED <<alive, claim, lockfile, seen>>

(* What a process leaves behind by dying is also what a process of an      *)
(* earlier day has left, so Init begins without a file.                    *)
Die(p) ==
    /\ p \in alive \cap Dying
    /\ alive' = alive \ {p}
    /\ UNCHANGED <<pc, queue, claim, lockfile, seen>>

(* Thirty seconds pass over a file without a body: nobody alive is between *)
(* creating and filling it, since both happen in one turn of the loop.     *)
Age ==
    /\ file # None /\ ~written /\ ~old
    /\ Home[file] \notin alive
    /\ old' = TRUE
    /\ UNCHANGED <<alive, pc, queue, claim, file, written, seen>>

Step(c) ==
    /\ Home[c] \in alive
    /\ \/ Begin(c) \/ Open(c) \/ Write(c) \/ Look(c) \/ Reread(c) \/ Unlink(c)
       \/ Retry(c) \/ EndAction(c) \/ Verify(c) \/ Free(c)

Next ==
    \/ \E c \in Call :
          \/ Step(c)
          \/ Home[c] \in alive /\ (Enqueue(c) \/ TimeOut(c) \/ LeaveBehind(c))
    \/ \E p \in Process : Die(p)
    \/ Age

Spec == Init /\ [][Next]_vars

(* Sleeps and actions end, and a call that is still refused after its five *)
(* seconds finds the deadline passed, at the latest the next time it looks.*)
FairSpec ==
    /\ Spec
    /\ \A c \in Call : WF_vars(Step(c)) /\ SF_vars(Home[c] \in alive /\ TimeOut(c))

-----------------------------------------------------------------------------
Holders == {c \in Call : pc[c] = "holding" /\ Home[c] \in alive}

(* At most one call is inside its action, in whatever process, also when a *)
(* holder dies, dies between creating and filling the file, or cannot      *)
(* remove it, and another call takes the lock over.                        *)
MutualExclusion == \A c, d \in Holders : c = d

(* The file and the chains together are a lock; dying gives it back.       *)
Lock == INSTANCE Mutex WITH
            Calls <- Call,
            waiting <- {c \in Call : pc[c] \in Waiting},
            holder <- Holders
IsLock == Lock!Spec

(* Every call runs its action or is told that it timed out, whatever the   *)
(* calls before it did: one failed holder does not block the queue, as the *)
(* comment on the gate promises, and a dead one only for a while.          *)
CallsEnd == \A c \in Call : pc[c] = "queued" ~> pc[c] \in Ended \/ Home[c] \notin alive
=============================================================================
