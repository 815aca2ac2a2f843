------------------------ MODULE MemoryFileLockProofs ------------------------
(***************************************************************************)
(* The memory lock for any number of processes and calls, any of which may *)
(* die at any step.                                                        *)
(*                                                                         *)
(* A call past the chain is the head of its queue, so each living process  *)
(* has one at most, and the file belongs to the call that created it until *)
(* that call is done or dead.  The lock can only be lost by the removal of *)
(* a file that is not stale any more when it is removed, and that takes    *)
(* two living rivals.                                                      *)
(***************************************************************************)
EXTENDS MemoryFileLock, TLAPS

Owning == {"writing", "holding"} \cup Releasing

HeadOfQueue ==
    \A c \in Call : pc[c] \in InTurn => queue[Home[c]] # <<>> /\ Head(queue[Home[c]]) = c

(* The file belongs to the call that created it until the call is done, or *)
(* leaves it behind, or dies.                                              *)
Ownership ==
    /\ file = None => ~written
    /\ file # None => /\ pc[file] \in {"done"} \cup Owning
                      /\ written <=> pc[file] # "writing"
    /\ \A c \in Call : Home[c] \in alive /\ pc[c] \in Owning => file = c
    /\ \A c \in Call : pc[c] = "holding" => claim[Home[c]] = c
    /\ old => file # None /\ Home[file] \notin alive

LockInv ==
    /\ TypeOK
    /\ Process \ alive \subseteq Dying
    /\ HeadOfQueue /\ Ownership

(* What stealStaleLock looks twice for: a lock is stale when it is removed. *)
StillStale ==
    \A c \in Call : Home[c] \in alive /\ Unlink(c) /\ file # None => IsStaleHolder(Home[c])
RemovesStale == [][StillStale]_vars

(* Behind a process that may die there is one other process at most.       *)
OneRival == \A d \in Dying : \A p, q \in Process \ {d} : p = q

-----------------------------------------------------------------------------
LEMMA Excludes == LockInv => MutualExclusion
BY DEF LockInv, Ownership, Owning, MutualExclusion, Holders

LEMMA LockInit == Init => LockInv
<1> SUFFICES ASSUME Init PROVE LockInv
  OBVIOUS
<1>1. \A c \in Call : pc[c] = "idle"
  BY DEF Init
<1>2. HeadOfQueue /\ Ownership
  BY <1>1 DEF Init, HeadOfQueue, Ownership, Owning, InTurn, Seeking, Releasing
<1>3. queue \in [Process -> Seq(Call)]
  BY DEF Init
<1>4. TypeOK
  BY <1>3 DEF Init, TypeOK
<1>5. QED
  BY <1>2, <1>4 DEF Init, LockInv

(* Two calls of one process are never both past the chain. *)
LEMMA OneInTurn ==
    ASSUME LockInv, NEW c \in Call, NEW d \in Call,
           pc[c] \in InTurn, pc[d] \in InTurn, Home[c] = Home[d]
    PROVE  c = d
BY DEF LockInv, HeadOfQueue

(* What a move in the chain leaves of types and queues. *)
LEMMA Moves ==
    ASSUME LockInv, NEW c \in Call, NEW where \in InTurn \cup Ended, Go(c, where),
           \/ pc[c] \in InTurn
           \/ pc[c] = "queued" /\ Head(queue[Home[c]]) = c /\ queue[Home[c]] # <<>>
    PROVE  /\ pc' \in [Call -> {"idle", "queued"} \cup InTurn \cup Ended]
           /\ queue' \in [Process -> Seq(Call)]
           /\ HeadOfQueue'
           /\ pc'[c] = where
           /\ \A d \in Call : d # c => pc'[d] = pc[d]
<1>1. queue[Home[c]] # <<>> /\ Head(queue[Home[c]]) = c
  BY DEF LockInv, HeadOfQueue
<1>2. Home[c] \in Process /\ queue[Home[c]] \in Seq(Call)
  BY LockAssumption DEF LockInv, TypeOK
<1>3. pc' \in [Call -> {"idle", "queued"} \cup InTurn \cup Ended]
  BY DEF LockInv, TypeOK, Go
<1>4. pc'[c] = where /\ \A d \in Call : d # c => pc'[d] = pc[d]
  BY DEF LockInv, TypeOK, Go
<1>5. queue' \in [Process -> Seq(Call)]
  <2>1. Tail(queue[Home[c]]) \in Seq(Call)
    BY <1>1, <1>2
  <2>2. QED
    BY <2>1, <1>2 DEF LockInv, TypeOK, Go
<1>6. HeadOfQueue'
  <2>1. SUFFICES ASSUME NEW d \in Call, pc'[d] \in InTurn
                 PROVE  queue'[Home[d]] # <<>> /\ Head(queue'[Home[d]]) = d
    BY DEF HeadOfQueue
  <2>2. CASE d = c
    <3>1. where \notin Ended
      BY <2>1, <2>2, <1>4 DEF InTurn, Seeking, Releasing, Ended
    <3>2. QED
      BY <3>1, <2>2, <1>1 DEF Go
  <2>3. CASE d # c
    <3>1. pc[d] \in InTurn
      BY <2>1, <2>3, <1>4
    <3>2. queue[Home[d]] # <<>> /\ Head(queue[Home[d]]) = d
      BY <3>1 DEF LockInv, HeadOfQueue
    <3>3. Home[d] # Home[c]
      BY <3>2, <1>1, <2>3
    <3>4. Home[d] \in Process
      BY LockAssumption
    <3>5. queue'[Home[d]] = queue[Home[d]]
      BY <3>3, <3>4 DEF Go, LockInv, TypeOK
    <3>6. QED
      BY <3>2, <3>5
  <2>4. QED
    BY <2>2, <2>3
<1>7. QED
  BY <1>3, <1>4, <1>5, <1>6

(* A call that only moves, and does not come to own or give up the file,   *)
(* keeps the invariant.                                                    *)
LEMMA Walks ==
    ASSUME LockInv, NEW c \in Call, NEW where \in InTurn \cup Ended, Go(c, where),
           pc[c] \notin {"idle", "writing", "holding"} \cup Ended,
           pc[c] = "queued" => queue[Home[c]] # <<>> /\ Head(queue[Home[c]]) = c,
           where \notin {"writing", "holding", "releasing"},
           where = "freeing" => pc[c] = "releasing",
           pc[c] \in Releasing => where \in {"freeing", "done"},
           UNCHANGED <<alive, claim, lockfile>>, seen' \in [Call -> Call \cup {None}]
    PROVE  LockInv'
<1>0. pc[c] \in {"queued"} \cup InTurn
  BY DEF LockInv, TypeOK
<1>1. /\ pc' \in [Call -> {"idle", "queued"} \cup InTurn \cup Ended]
      /\ queue' \in [Process -> Seq(Call)]
      /\ HeadOfQueue'
      /\ pc'[c] = where
      /\ \A d \in Call : d # c => pc'[d] = pc[d]
  BY <1>0, Moves
<1>2. TypeOK' /\ (Process \ alive \subseteq Dying)'
  BY <1>1 DEF LockInv, TypeOK, lockfile
<1>3. file \in Call => (file = c => pc[c] \in Releasing)
  BY LockAssumption DEF LockInv, Ownership, Owning, Releasing, Ended
<1>4. Ownership'
  BY <1>1, <1>3 DEF LockInv, TypeOK, Ownership, Owning, lockfile, Releasing
<1>5. QED
  BY <1>1, <1>2, <1>4 DEF LockInv

LEMMA EnqueueKeeps == ASSUME LockInv, NEW c \in Call, Enqueue(c) PROVE LockInv'
<1>0. Home[c] \in Process /\ queue[Home[c]] \in Seq(Call)
  BY LockAssumption DEF LockInv, TypeOK
<1>1. /\ pc' = [pc EXCEPT ![c] = "queued"] /\ pc[c] = "idle"
      /\ queue' = [queue EXCEPT ![Home[c]] = Append(@, c)]
      /\ UNCHANGED <<alive, claim, lockfile, seen>>
  BY DEF Enqueue
<1>2. queue' \in [Process -> Seq(Call)]
  <2>1. Append(queue[Home[c]], c) \in Seq(Call)
    BY <1>0
  <2>2. QED
    BY <2>1, <1>0, <1>1 DEF LockInv, TypeOK
<1>3. TypeOK' /\ (Process \ alive \subseteq Dying)'
  BY <1>1, <1>2 DEF LockInv, TypeOK, lockfile
<1>4. \A d \in Call : pc'[d] = IF d = c THEN "queued" ELSE pc[d]
  BY <1>1 DEF LockInv, TypeOK
<1>5. HeadOfQueue'
  <2>1. SUFFICES ASSUME NEW d \in Call, pc'[d] \in InTurn
                 PROVE  queue'[Home[d]] # <<>> /\ Head(queue'[Home[d]]) = d
    BY DEF HeadOfQueue
  <2>2. pc[d] \in InTurn
    BY <2>1, <1>4 DEF InTurn, Seeking, Releasing
  <2>3. Home[d] \in Process /\ queue[Home[d]] \in Seq(Call)
        /\ queue[Home[d]] # <<>> /\ Head(queue[Home[d]]) = d
    BY <2>2, LockAssumption DEF LockInv, TypeOK, HeadOfQueue
  <2>4. Append(queue[Home[d]], c) # <<>> /\ Head(Append(queue[Home[d]], c)) = d
    BY <2>3
  <2>5. QED
    BY <2>3, <2>4, <1>1, <1>0 DEF LockInv, TypeOK
<1>6. Ownership'
  BY <1>1, <1>4 DEF LockInv, TypeOK, Ownership, Owning, lockfile, Releasing
<1>7. QED
  BY <1>3, <1>5, <1>6 DEF LockInv

LEMMA OpenKeeps ==
    ASSUME LockInv, NEW c \in Call, Home[c] \in alive, Open(c) PROVE LockInv'
<1>1. CASE file # None
  BY <1>1, Walks DEF Open, InTurn, Seeking, Releasing, Ended, LockInv, TypeOK
<1>2. CASE file = None
  <2>1. /\ pc[c] = "trying" /\ Go(c, "writing") /\ file' = c /\ written' = FALSE /\ old' = FALSE
        /\ UNCHANGED <<alive, claim, seen>>
    BY <1>2 DEF Open
  <2>2. /\ pc' \in [Call -> {"idle", "queued"} \cup InTurn \cup Ended]
        /\ queue' \in [Process -> Seq(Call)]
        /\ HeadOfQueue'
        /\ pc'[c] = "writing"
        /\ \A d \in Call : d # c => pc'[d] = pc[d]
    BY <2>1, Moves DEF InTurn, Seeking
  <2>3. TypeOK' /\ (Process \ alive \subseteq Dying)'
    BY <2>1, <2>2 DEF LockInv, TypeOK
  <2>4. \A d \in Call : Home[d] \in alive => pc[d] \notin Owning
    BY <1>2, LockAssumption DEF LockInv, Ownership
  <2>5. \A d \in Call : (Home[d] \in alive /\ pc[d] \in Owning)' => d = c
    BY <2>1, <2>2, <2>4
  <2>6. Ownership'
    BY <2>1, <2>2, <2>5, LockAssumption DEF LockInv, Ownership, Owning
  <2>8. QED
    BY <2>2, <2>3, <2>6 DEF LockInv
<1>3. QED
  BY <1>1, <1>2

LEMMA WriteKeeps ==
    ASSUME LockInv, NEW c \in Call, Home[c] \in alive, Write(c) PROVE LockInv'
<1>1. /\ pc[c] = "writing" /\ file = c /\ Go(c, "holding") /\ written' = TRUE
      /\ claim' = [claim EXCEPT ![Home[c]] = c]
      /\ UNCHANGED <<alive, file, old, seen>>
  BY DEF Write, LockInv, Ownership, Owning
<1>2. /\ pc' \in [Call -> {"idle", "queued"} \cup InTurn \cup Ended]
      /\ queue' \in [Process -> Seq(Call)]
      /\ HeadOfQueue'
      /\ pc'[c] = "holding"
      /\ \A d \in Call : d # c => pc'[d] = pc[d]
  BY <1>1, Moves DEF InTurn, Seeking
<1>3. TypeOK' /\ (Process \ alive \subseteq Dying)'
  BY <1>1, <1>2 DEF LockInv, TypeOK
<1>4. /\ claim'[Home[c]] = c
      /\ \A d \in Call : Home[d] # Home[c] => claim'[Home[d]] = claim[Home[d]]
  BY <1>1, LockAssumption DEF LockInv, TypeOK
<1>5. \A d \in Call : Home[d] \in alive /\ d # c => pc[d] \notin Owning
  BY <1>1 DEF LockInv, Ownership
<1>6. \A d \in Call : pc'[d] = "holding" => claim'[Home[d]] = d
  <2>1. SUFFICES ASSUME NEW d \in Call, pc'[d] = "holding", d # c PROVE claim'[Home[d]] = d
    BY <1>4
  <2>2. pc[d] = "holding" /\ Home[d] # Home[c]
    BY <1>1, <1>2, <1>5, <2>1 DEF Owning
  <2>3. QED
    BY <1>4, <2>2 DEF LockInv, Ownership
<1>7. Ownership'
  BY <1>1, <1>2, <1>5, <1>6, LockAssumption DEF LockInv, Ownership, Owning, Releasing
<1>8. QED
  BY <1>2, <1>3, <1>7 DEF LockInv

(* The file that is removed is of nobody who lives and still needs it. *)
LEMMA RemovalKeeps ==
    ASSUME LockInv, NEW c \in Call, NEW where \in {"trying", "done"}, Go(c, where),
           pc[c] \in {"unlinking", "freeing"},
           \A d \in Call : Home[d] \in alive /\ pc[d] \in Owning => d = c,
           file' = None, written' = FALSE, old' = FALSE, UNCHANGED <<alive, claim, seen>>
    PROVE  LockInv'
<1>1. /\ pc' \in [Call -> {"idle", "queued"} \cup InTurn \cup Ended]
      /\ queue' \in [Process -> Seq(Call)]
      /\ HeadOfQueue'
      /\ pc'[c] = where
      /\ \A d \in Call : d # c => pc'[d] = pc[d]
  BY Moves DEF InTurn, Seeking, Releasing, Ended
<1>2. TypeOK' /\ (Process \ alive \subseteq Dying)'
  BY <1>1 DEF LockInv, TypeOK
<1>3. where \notin Owning /\ where # "holding"
  BY DEF Owning, Releasing
<1>4. \A d \in Call : ~(Home[d] \in alive /\ pc[d] \in Owning)'
  BY <1>1, <1>3
<1>5. \A d \in Call : pc'[d] = "holding" => claim'[Home[d]] = d
  BY <1>1, <1>3 DEF LockInv, Ownership
<1>6. Ownership'
  BY <1>4, <1>5 DEF Ownership
<1>7. QED
  BY <1>1, <1>2, <1>6 DEF LockInv

LEMMA UnlinkKeeps ==
    ASSUME LockInv, StillStale, NEW c \in Call, Home[c] \in alive, Unlink(c)
    PROVE  LockInv'
<1>1. CASE file = None
  <2>1. UNCHANGED <<alive, claim, lockfile, seen>> /\ Go(c, "delayed")
    BY <1>1 DEF Unlink, lockfile, LockInv, TypeOK, Ownership
  <2>2. QED
    BY <2>1, Walks DEF Unlink, InTurn, Seeking, Releasing, Ended, LockInv, TypeOK
<1>2. CASE file # None
  <2>1. file \in Call /\ pc[c] = "unlinking" /\ IsStaleHolder(Home[c])
    BY <1>2 DEF StillStale, Unlink, LockInv, TypeOK
  <2>2. ASSUME Home[file] \in alive, pc[file] \in Owning PROVE FALSE
    <3>1. written /\ Home[file] = Home[c] /\ claim[Home[c]] # file
      BY <2>1, <2>2 DEF IsStaleHolder, LockInv, Ownership
    <3>2. pc[file] # "holding" /\ pc[file] # "writing"
      BY <1>2, <2>1, <3>1 DEF LockInv, Ownership
    <3>3. pc[file] \in InTurn /\ pc[c] \in InTurn
      BY <2>1, <2>2, <3>2 DEF Owning, InTurn, Seeking
    <3>4. file = c
      BY <2>1, <3>1, <3>3, OneInTurn
    <3>5. QED
      BY <2>1, <2>2, <3>4 DEF Owning, Releasing
  <2>3. \A d \in Call : Home[d] \in alive /\ pc[d] \in Owning => d = c
    BY <2>2 DEF LockInv, Ownership
  <2>4. QED
    BY <1>2, <2>1, <2>3, RemovalKeeps DEF Unlink
<1>3. QED
  BY <1>1, <1>2

LEMMA FreeKeeps ==
    ASSUME LockInv, NEW c \in Call, Home[c] \in alive, Free(c) PROVE LockInv'
<1>1. \A d \in Call : Home[d] \in alive /\ pc[d] \in Owning => d = c
  BY DEF Free, LockInv, Ownership, Owning, Releasing
<1>2. QED
  BY <1>1, RemovalKeeps DEF Free

LEMMA EndActionKeeps ==
    ASSUME LockInv, NEW c \in Call, Home[c] \in alive, EndAction(c) PROVE LockInv'
<1>1. /\ pc[c] = "holding" /\ file = c /\ Go(c, "releasing")
      /\ claim' = [claim EXCEPT ![Home[c]] = None]
      /\ UNCHANGED <<alive, lockfile, seen>>
  BY DEF EndAction, LockInv, Ownership, Owning
<1>2. /\ pc' \in [Call -> {"idle", "queued"} \cup InTurn \cup Ended]
      /\ queue' \in [Process -> Seq(Call)]
      /\ HeadOfQueue'
      /\ pc'[c] = "releasing"
      /\ \A d \in Call : d # c => pc'[d] = pc[d]
  BY <1>1, Moves DEF InTurn, Releasing
<1>3. TypeOK' /\ (Process \ alive \subseteq Dying)'
  BY <1>1, <1>2 DEF LockInv, TypeOK, lockfile
<1>4. \A d \in Call : Home[d] # Home[c] => claim'[Home[d]] = claim[Home[d]]
  BY <1>1, LockAssumption DEF LockInv, TypeOK
<1>5. \A d \in Call : pc'[d] = "holding" => claim'[Home[d]] = d
  <2>1. SUFFICES ASSUME NEW d \in Call, pc'[d] = "holding" PROVE claim'[Home[d]] = d
    OBVIOUS
  <2>2. pc[d] = "holding" /\ d # c
    BY <1>2, <2>1
  <2>3. Home[d] # Home[c]
    BY <1>1, <2>2, OneInTurn DEF InTurn
  <2>4. QED
    BY <1>4, <2>2, <2>3 DEF LockInv, Ownership
<1>6. Ownership'
  BY <1>1, <1>2, <1>5, LockAssumption DEF LockInv, Ownership, Owning, Releasing, lockfile
<1>7. QED
  BY <1>2, <1>3, <1>6 DEF LockInv

(* Dying leaves the file, and what is not needed any more, behind. *)
LEMMA DeathKeeps ==
    ASSUME LockInv, (\E p \in Process : Die(p)) \/ Age \/ UNCHANGED vars
    PROVE  LockInv'
<1>1. ASSUME NEW p \in Process, Die(p) PROVE LockInv'
  BY <1>1 DEF Die, LockInv, TypeOK, HeadOfQueue, Ownership, lockfile
<1>2. CASE Age
  BY <1>2 DEF Age, LockInv, TypeOK, HeadOfQueue, Ownership
<1>3. CASE UNCHANGED vars
  BY <1>3 DEF vars, lockfile, LockInv, TypeOK, HeadOfQueue, Ownership
<1>4. QED
  BY <1>1, <1>2, <1>3

LEMMA StepKeeps == ASSUME LockInv, [Next]_vars, StillStale PROVE LockInv'
<1>1. ASSUME NEW c \in Call, Step(c) PROVE LockInv'
  <2>0. Home[c] \in alive /\ seen \in [Call -> Call \cup {None}] /\ file \in Call \cup {None}
    BY <1>1 DEF Step, LockInv, TypeOK
  <2>1. CASE Begin(c) \/ Retry(c) \/ Verify(c) \/ Reread(c)
    BY <2>0, <2>1, Walks DEF Begin, Retry, Verify, Reread, InTurn, Seeking, Releasing, Ended
  <2>2. CASE Look(c)
    <3>1. seen' \in [Call -> Call \cup {None}]
      BY <2>0, <2>2 DEF Look, Body
    <3>2. QED
      BY <2>2, <3>1, Walks DEF Look, InTurn, Seeking, Releasing, Ended
  <2>3. QED
    BY <1>1, <2>0, <2>1, <2>2, OpenKeeps, WriteKeeps, UnlinkKeeps, FreeKeeps, EndActionKeeps DEF Step
<1>2. ASSUME NEW c \in Call, TimeOut(c) \/ LeaveBehind(c) PROVE LockInv'
  BY <1>2, Walks DEF TimeOut, LeaveBehind, InTurn, Seeking, Releasing, Ended, LockInv, TypeOK
<1>3. QED
  BY <1>1, <1>2, EnqueueKeeps, DeathKeeps DEF Next

(* The lock excludes, in any number of processes that die as they please,  *)
(* for as long as no removal hits a lock that is not stale any more: the   *)
(* gap between the second read and the unlink of stealStaleLock is the     *)
(* only one.                                                               *)
THEOREM OnlyTheGap == Spec /\ RemovesStale => []MutualExclusion
<1>1. LockInv /\ [Next]_vars /\ [StillStale]_vars => LockInv'
  <2>1. LockInv /\ UNCHANGED vars => LockInv'
    BY DeathKeeps
  <2>2. QED
    BY <2>1, StepKeeps
<1>2. QED
  BY LockInit, Excludes, <1>1, PTL DEF Spec, RemovesStale

-----------------------------------------------------------------------------
(* A call of a living process that goes to remove the lock has it stale.   *)
Thieves ==
    \A c \in Call :
        Home[c] \in alive /\ pc[c] \in {"rereading", "unlinking"} => file # None /\ IsStaleHolder(Home[c])

(* A stale lock is of a dead process, or of an earlier call of one's own.  *)
LEMMA StaleMeans ==
    ASSUME LockInv, file # None, NEW p \in Process, IsStaleHolder(p)
    PROVE  /\ file \in Call /\ Home[file] \in Process
           /\ Home[file] \notin alive \/ (written /\ Home[file] = p /\ claim[p] # file)
BY LockAssumption DEF LockInv, TypeOK, Ownership, IsStaleHolder

(* With one rival, two calls never go to remove the same lock. *)
LEMMA OneThief ==
    ASSUME OneRival, LockInv, file # None, NEW c \in Call, NEW d \in Call,
           Home[c] \in alive, Home[d] \in alive, pc[c] \in InTurn, pc[d] \in InTurn,
           IsStaleHolder(Home[c]), IsStaleHolder(Home[d])
    PROVE  c = d
<1>1. Home[c] \in Process /\ Home[d] \in Process
  BY LockAssumption
<1>2. CASE Home[file] \notin alive
  <2>1. Home[file] \in Dying
    BY <1>1, <1>2, StaleMeans DEF LockInv
  <2>2. Home[c] = Home[d]
    BY <1>1, <1>2, <2>1 DEF OneRival
  <2>3. QED
    BY <2>2, OneInTurn
<1>3. CASE Home[file] \in alive
  <2>1. Home[c] = Home[d]
    BY <1>1, <1>3, StaleMeans
  <2>2. QED
    BY <2>1, OneInTurn
<1>4. QED
  BY <1>2, <1>3

(* The owner's call, alive, is nobody's prey. *)
LEMMA OwnerIsSafe ==
    ASSUME LockInv, file # None, Home[file] \in alive, pc[file] \in Owning,
           NEW d \in Call, pc[d] \in {"rereading", "unlinking"}, IsStaleHolder(Home[d])
    PROVE  FALSE
<1>1. file \in Call /\ written /\ Home[file] = Home[d] /\ claim[Home[d]] # file
  BY LockAssumption, StaleMeans
<1>2. pc[file] # "writing" /\ pc[file] # "holding"
  BY <1>1 DEF LockInv, Ownership
<1>3. pc[file] \in InTurn /\ pc[d] \in InTurn
  BY <1>2 DEF Owning, InTurn, Seeking
<1>4. file = d
  BY <1>1, <1>3, OneInTurn
<1>5. QED
  BY <1>4 DEF Owning, Releasing

LEMMA ThievesGiveStale == LockInv /\ Thieves => StillStale
BY DEF Thieves, StillStale, Unlink

LEMMA ThievesStep ==
    ASSUME OneRival, LockInv, Thieves, [Next]_vars PROVE Thieves'
<1>1. SUFFICES ASSUME NEW d \in Call, Home[d] \in alive', pc'[d] \in {"rereading", "unlinking"}
               PROVE  file' # None /\ IsStaleHolder(Home[d])'
  BY DEF Thieves
<1>a. Home[d] \in alive /\ pc \in [Call -> {"idle", "queued"} \cup InTurn \cup Ended]
  BY <1>1 DEF Next, Step, Begin, Open, Write, Look, Reread, Unlink, Retry, EndAction, Verify, Free,
              Enqueue, TimeOut, LeaveBehind, Die, Age, vars, LockInv, TypeOK
<1>b. ASSUME UNCHANGED <<alive, claim, lockfile>>, file # None /\ IsStaleHolder(Home[d])
      PROVE  file' # None /\ IsStaleHolder(Home[d])'
  BY <1>b DEF lockfile, IsStaleHolder
<1>c. ASSUME pc[d] \in {"rereading", "unlinking"} PROVE file # None /\ IsStaleHolder(Home[d])
  BY <1>a, <1>c DEF Thieves
<1>2. ASSUME NEW c \in Call, Home[c] \in alive,
             \/ Begin(c) \/ Retry(c) \/ Verify(c) \/ Reread(c) \/ Look(c)
             \/ Enqueue(c) \/ TimeOut(c) \/ LeaveBehind(c)
      PROVE  file' # None /\ IsStaleHolder(Home[d])'
  <2>1. UNCHANGED <<alive, claim, lockfile>>
    BY <1>2 DEF Begin, Retry, Verify, Reread, Look, Enqueue, TimeOut, LeaveBehind
  <2>2. CASE pc[d] \in {"rereading", "unlinking"}
    BY <1>b, <1>c, <2>1, <2>2
  <2>3. CASE pc[d] \notin {"rereading", "unlinking"}
    <3>1. Look(c) /\ c = d /\ pc'[d] = "rereading"
      BY <1>1, <1>2, <1>a, <2>3 DEF Begin, Retry, Verify, Reread, Look, Enqueue, TimeOut, LeaveBehind, Go
    <3>2. file # None /\ IsStaleHolder(Home[d])
      BY <3>1, <1>a DEF Look, Go
    <3>3. QED
      BY <1>b, <2>1, <3>2
  <2>4. QED
    BY <2>2, <2>3
<1>3. ASSUME NEW c \in Call, Home[c] \in alive,
             Open(c) \/ Write(c) \/ Unlink(c) \/ Free(c) \/ EndAction(c)
      PROVE  file' # None /\ IsStaleHolder(Home[d])'
  <2>1. d # c /\ pc[d] \in {"rereading", "unlinking"}
    BY <1>1, <1>3, <1>a DEF Open, Write, Unlink, Free, EndAction, Go
  <2>2. file # None /\ IsStaleHolder(Home[d]) /\ pc[d] \in InTurn
    BY <1>c, <2>1 DEF InTurn, Seeking
  <2>3. CASE Open(c)
    BY <1>b, <2>2, <2>3 DEF Open
  <2>4. CASE Unlink(c)
    <3>1. pc[c] \in InTurn /\ IsStaleHolder(Home[c])
      BY <1>3, <2>4 DEF Unlink, Thieves, InTurn, Seeking
    <3>2. QED
      BY <1>3, <1>a, <2>1, <2>2, <3>1, OneThief
  <2>5. CASE Write(c) \/ Free(c) \/ EndAction(c)
    <3>1. pc[c] \in Owning /\ file = c
      BY <1>3, <2>5 DEF Write, Free, EndAction, LockInv, Ownership, Owning, Releasing
    <3>2. QED
      BY <1>3, <2>1, <2>2, <3>1, OwnerIsSafe
  <2>6. QED
    BY <1>3, <2>3, <2>4, <2>5
<1>4. ASSUME NEW p \in Process, Die(p) PROVE file' # None /\ IsStaleHolder(Home[d])'
  <2>1. file # None /\ IsStaleHolder(Home[d])
    BY <1>1, <1>4, <1>c DEF Die
  <2>2. QED
    BY <1>4, <2>1 DEF Die, lockfile, IsStaleHolder
<1>5. CASE Age
  BY <1>1, <1>5, <1>c DEF Age, IsStaleHolder
<1>6. CASE UNCHANGED vars
  BY <1>1, <1>6, <1>b, <1>c DEF vars
<1>7. QED
  BY <1>2, <1>3, <1>4, <1>5, <1>6 DEF Next, Step

(* Of two processes, either of which may die, no step removes a lock that  *)
(* is not stale any more.                                                  *)
LEMMA NoRivalNoGap == ASSUME OneRival PROVE Spec => [](LockInv /\ Thieves)
<1>1. Init => LockInv /\ Thieves
  BY LockInit DEF Init, Thieves
<1>2. LockInv /\ Thieves /\ [Next]_vars => (LockInv /\ Thieves)'
  BY StepKeeps, ThievesStep, ThievesGiveStale
<1>3. QED
  BY <1>1, <1>2, PTL DEF Spec

(* Between two processes withMemoryFileLock excludes, whichever of them    *)
(* dies at whichever step, also one that leaves a lock behind and lives.   *)
THEOREM MemoryLockExcludes == ASSUME OneRival PROVE Spec => []MutualExclusion
BY NoRivalNoGap, Excludes, PTL

-----------------------------------------------------------------------------
LEMMA MapsInit == Init => Lock!Init
BY DEF Init, Lock!Init, Holders, Waiting, Seeking

(* Every step is one of the Mutex or leaves it alone: a call has the lock  *)
(* from the write of its body to the end of its action.                    *)
LEMMA MapsStep == ASSUME LockInv, [Next]_vars PROVE [Lock!Next]_(Lock!vars)
<1> DEFINE W == {c \in Call : pc[c] \in Waiting}
<1>0. pc \in [Call -> {"idle", "queued"} \cup InTurn \cup Ended] /\ lockfile = <<file, written, old>>
  BY DEF LockInv, TypeOK, lockfile
<1>2. Holders = {c \in Call : pc[c] = "holding" /\ Home[c] \in alive}
      /\ Holders' = {c \in Call : pc'[c] = "holding" /\ Home[c] \in alive'}
  BY DEF Holders
<1>3. ASSUME NEW c \in Call, pc' = [pc EXCEPT ![c] = pc'[c]],
             pc[c] \in Waiting <=> pc'[c] \in Waiting, pc[c] # "holding", pc'[c] # "holding",
             alive' = alive
      PROVE  UNCHANGED <<W, Holders>>
  <2>1. \A d \in Call : d # c => pc'[d] = pc[d]
    BY <1>0, <1>3
  <2>2. QED
    BY <2>1, <1>2, <1>3
<1>4. ASSUME NEW c \in Call, Enqueue(c), alive' = alive PROVE Lock!Ask(c)
  <2>1. \A d \in Call : pc'[d] = IF d = c THEN "queued" ELSE pc[d]
    BY <1>0, <1>4 DEF Enqueue
  <2>2. W' = W \cup {c} /\ Holders' = Holders /\ c \notin W \cup Holders
    BY <2>1, <1>2, <1>4, <1>4 DEF Enqueue, Waiting, Seeking
  <2>3. QED
    BY <2>2 DEF Lock!Ask
<1>5. ASSUME NEW c \in Call, Write(c), Home[c] \in alive, alive' = alive PROVE Lock!Grant(c)
  <2>1. pc[c] = "writing" /\ \A d \in Call : pc'[d] = IF d = c THEN "holding" ELSE pc[d]
    BY <1>0, <1>5 DEF Write, Go
  <2>2. Holders = {}
    BY <2>1, <1>2, <1>5 DEF LockInv, Ownership, Owning
  <2>3. W' = W \ {c} /\ Holders' = {c} /\ c \in W
    BY <2>1, <2>2, <1>2, <1>5 DEF Waiting, Seeking
  <2>4. QED
    BY <2>2, <2>3 DEF Lock!Grant
<1>6. ASSUME NEW c \in Call, TimeOut(c), alive' = alive PROVE Lock!GiveUp(c)
  <2>1. pc[c] = "delayed" /\ \A d \in Call : pc'[d] = IF d = c THEN "failed" ELSE pc[d]
    BY <1>0, <1>6 DEF TimeOut, Go
  <2>2. W' = W \ {c} /\ Holders' = Holders /\ c \in W
    BY <2>1, <1>2, <1>6 DEF Waiting, Seeking
  <2>3. QED
    BY <2>2 DEF Lock!GiveUp
<1>7. ASSUME NEW c \in Call, EndAction(c), Home[c] \in alive, alive' = alive PROVE Lock!Return(c)
  <2>1. pc[c] = "holding" /\ \A d \in Call : pc'[d] = IF d = c THEN "releasing" ELSE pc[d]
    BY <1>0, <1>7 DEF EndAction, Go
  <2>2. W' = W /\ Holders' = Holders \ {c} /\ c \in Holders
    BY <2>1, <1>2, <1>7 DEF Waiting, Seeking
  <2>3. QED
    BY <2>2 DEF Lock!Return
<1>8. ASSUME NEW c \in Call, alive' = alive,
             Begin(c) \/ Open(c) \/ Look(c) \/ Reread(c) \/ Unlink(c) \/ Retry(c)
      PROVE  UNCHANGED <<W, Holders>>
  BY <1>8, <1>3, <1>0 DEF Begin, Open, Look, Reread, Unlink, Retry, Go, Waiting, Seeking
<1>9. ASSUME NEW c \in Call, alive' = alive, Verify(c) \/ Free(c) \/ LeaveBehind(c)
      PROVE  UNCHANGED <<W, Holders>>
  BY <1>9, <1>3, <1>0 DEF Verify, Free, LeaveBehind, Go, Releasing, Waiting, Seeking
<1>10. ASSUME UNCHANGED <<pc, alive>> PROVE UNCHANGED <<W, Holders>>
  BY <1>10, <1>2
<1>11. CASE UNCHANGED vars
  BY <1>11, <1>10 DEF vars, Lock!vars
<1>12. ASSUME NEW c \in Call, Home[c] \in alive, Step(c) PROVE [Lock!Next]_(Lock!vars)
  <2>1. alive' = alive
    BY <1>12 DEF Step, Begin, Open, Write, Look, Reread, Unlink, Retry, EndAction, Verify, Free
  <2>2. QED
    BY <2>1, <1>12, <1>5, <1>7, <1>8, <1>9 DEF Step, Lock!Next, Lock!vars
<1>13. ASSUME NEW c \in Call, Enqueue(c) \/ TimeOut(c) \/ LeaveBehind(c)
       PROVE  [Lock!Next]_(Lock!vars)
  <2>1. alive' = alive
    BY <1>13 DEF Enqueue, TimeOut, LeaveBehind
  <2>2. QED
    BY <2>1, <1>13, <1>4, <1>6, <1>9 DEF Lock!Next, Lock!vars
<1>14. ASSUME NEW p \in Process, Die(p) PROVE [Lock!Next]_(Lock!vars)
  <2>1. alive' = alive \ {p} /\ pc' = pc /\ W' = W
    BY <1>14 DEF Die
  <2>2. CASE \E c \in Holders : Home[c] = p
    <3>1. PICK c \in Holders : Home[c] = p
      BY <2>2
    <3>2. Holders = {c}
      BY <3>1, Excludes DEF MutualExclusion
    <3>3. Holders' = {}
      BY <1>2, <2>1, <3>1, <3>2
    <3>4. c \in Call
      BY <3>1 DEF Holders
    <3>5. Lock!Return(c)
      BY <2>1, <3>2, <3>3 DEF Lock!Return
    <3>6. QED
      BY <3>4, <3>5 DEF Lock!Next
  <2>3. CASE ~\E c \in Holders : Home[c] = p
    <3>1. Holders' = Holders
      BY <1>2, <2>1, <2>3
    <3>2. QED
      BY <2>1, <3>1 DEF Lock!vars
  <2>4. QED
    BY <2>2, <2>3
<1>15. CASE Age
  BY <1>15, <1>10 DEF Age, Lock!vars
<1>16. QED
  BY <1>11, <1>12, <1>13, <1>14, <1>15 DEF Next, Step

(* The lock file with the chains implements the Mutex that the browser     *)
(* lease implements, in any number of processes, but for the gap.          *)
THEOREM LockButForTheGap == Spec /\ RemovesStale => IsLock
<1>1. LockInv /\ [Next]_vars /\ [StillStale]_vars => LockInv'
  BY StepKeeps, DeathKeeps
<1>2. LockInv /\ [Next]_vars => [Lock!Next]_(Lock!vars)
  BY MapsStep
<1>3. QED
  BY LockInit, MapsInit, <1>1, <1>2, PTL DEF Spec, RemovesStale, IsLock, Lock!Spec

(* Between two processes, which die as they please, it implements it: the  *)
(* dead holder's lock is given back, and nobody takes a living one's.      *)
THEOREM MemoryLockIsLock == ASSUME OneRival PROVE Spec => IsLock
<1>1. LockInv /\ [Next]_vars => [Lock!Next]_(Lock!vars)
  BY MapsStep
<1>2. QED
  BY NoRivalNoGap, MapsInit, <1>1, PTL DEF Spec, IsLock, Lock!Spec
=============================================================================
