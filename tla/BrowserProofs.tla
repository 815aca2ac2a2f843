--------------------------- MODULE BrowserProofs ---------------------------
(***************************************************************************)
(* The shared browser: first its lease by itself, then the turns and       *)
(* helpers that use it.                                                    *)
(*                                                                         *)
(* For any set of calls, the promise chain of CoworkBrowserLease is a      *)
(* mutual-exclusion lock, and implements Mutex step by step; that part     *)
(* makes no use of TurnCalls.  The turns take other steps than the lease   *)
(* alone, for a stop aborts two calls at once, but keep its invariant, and *)
(* their tool loops leave nothing behind.                                  *)
(***************************************************************************)
EXTENDS CoworkTurns, TLAPS

(* A fresh lease satisfies the chain invariant. *)
LEMMA InitChain == Init => ChainInv
BY DEF Init, ChainInv, TypeOK, Waiting, Finished

(* Whatever a call does, and whoever aborts, the chain invariant is kept.  *)
LEMMA CallKeepsChain ==
    ASSUME ChainInv, NEW c \in Calls,
           Acquire(c) \/ Refuse(c) \/ Wake(c) \/ Enter(c) \/ Cancel(c) \/ Release(c)
    PROVE  ChainInv'
<1> USE DEF ChainInv, TypeOK, Waiting, Finished
<1>1. CASE Acquire(c)
  BY <1>1 DEF Acquire
<1>2. CASE Refuse(c)
  BY <1>2 DEF Refuse
<1>3. CASE Wake(c)
  BY <1>3 DEF Wake
<1>4. CASE Enter(c)
  BY <1>4 DEF Enter
<1>5. CASE Cancel(c)
  BY <1>5 DEF Cancel
<1>6. CASE Release(c)
  BY <1>6 DEF Release
<1> QED
  BY <1>1, <1>2, <1>3, <1>4, <1>5, <1>6

LEMMA AbortKeepsChain ==
    ASSUME ChainInv, NEW S \in SUBSET Calls, Abort(S)
    PROVE  ChainInv'
BY DEF Abort, ChainInv, TypeOK

LEMMA QuietKeepsChain == ChainInv /\ UNCHANGED vars => ChainInv'
BY DEF vars, ChainInv, TypeOK

(* Every step of acquire() and release() preserves the chain invariant. *)
LEMMA StepChain == ChainInv /\ [Next]_vars => ChainInv'
<1>1. ASSUME ChainInv, NEW c \in Calls, Step(c) PROVE ChainInv'
  BY <1>1, CallKeepsChain, AbortKeepsChain DEF Step
<1> QED
  BY <1>1, QuietKeepsChain DEF Next

(* Two holders would each have found the other's promise resolved. *)
LEMMA ChainExcludes == ChainInv => MutualExclusion
<1> SUFFICES ASSUME ChainInv,
                    NEW c \in Calls, NEW d \in Calls,
                    pc[c] = "holding", pc[d] = "holding", c # d
             PROVE  FALSE
  BY DEF MutualExclusion
<1>1. c \in tail /\ d \in tail /\ c \notin resolved /\ d \notin resolved
  BY DEF ChainInv
<1>2. previous[c] \subseteq resolved /\ previous[d] \subseteq resolved
  BY DEF ChainInv
<1>3. c \in previous[d] \/ d \in previous[c]
  BY <1>1 DEF ChainInv
<1> QED
  BY <1>1, <1>2, <1>3

(* The chain invariant holds in every reachable state. *)
THEOREM Chain == Spec => []ChainInv
<1>1. Init => ChainInv
  BY InitChain
<1>2. ChainInv /\ [Next]_vars => ChainInv'
  BY StepChain
<1> QED
  BY <1>1, <1>2, PTL DEF Spec

(* Never two teammates in the shared browser, whatever is aborted when. *)
THEOREM Exclusion == Spec => []MutualExclusion
BY Chain, ChainExcludes, PTL

-----------------------------------------------------------------------------
(* The promises of the chain are ordered: each waits for promises of the   *)
(* chain, and every group of them has one that waits for none of the       *)
(* group.  Those not resolved belong to calls that wait or hold.           *)
ChainOrder ==
    /\ \A c \in tail : previous[c] \subseteq tail
    /\ \A S \in SUBSET tail : S # {} => \E c \in S : previous[c] \cap S = {}
    /\ \A c \in tail \ resolved : pc[c] \in {"holding"} \cup Waiting

(* A newcomer comes after the whole chain, and nobody else moves in it. *)
LEMMA OrderStep == ChainInv /\ ChainOrder /\ [Next]_vars => ChainOrder'
<1> SUFFICES ASSUME ChainInv, ChainOrder, [Next]_vars PROVE ChainOrder'
  OBVIOUS
<1> USE DEF Waiting
<1>t. pc \in [Calls -> {"idle", "holding"} \cup Waiting \cup Finished] /\ previous \in [Calls -> SUBSET Calls]
  BY DEF ChainInv, TypeOK
<1>1. ASSUME NEW c \in Calls, Acquire(c) PROVE ChainOrder'
  <2>1. /\ tail' = tail \cup {c} /\ c \notin tail /\ tail \subseteq Calls
        /\ previous' = [previous EXCEPT ![c] = tail]
        /\ pc' = [pc EXCEPT ![c] = "waiting"] /\ resolved' = resolved
    BY <1>1 DEF Acquire, ChainInv, TypeOK
  <2>2. \A x \in tail : previous'[x] = previous[x] /\ x # c
    BY <1>t, <2>1
  <2>3. previous'[c] = tail
    BY <1>t, <2>1
  <2>4. (\A x \in tail : previous[x] \subseteq tail)'
    BY <2>1, <2>2, <2>3 DEF ChainOrder
  <2>5. ASSUME NEW S \in SUBSET tail', S # {} PROVE \E x \in S : previous'[x] \cap S = {}
    <3>1. CASE S \ {c} = {}
      <4>1. S = {c}
        BY <2>5, <3>1
      <4> QED
        BY <2>1, <2>3, <4>1
    <3>2. CASE S \ {c} # {}
      <4>1. S \ {c} \in SUBSET tail
        BY <2>1, <2>5
      <4>2. PICK x \in S \ {c} : previous[x] \cap (S \ {c}) = {}
        BY <3>2, <4>1 DEF ChainOrder
      <4>3. previous'[x] = previous[x] /\ previous[x] \subseteq tail /\ c \notin tail
        BY <2>1, <2>2, <4>1, <4>2 DEF ChainOrder
      <4> QED
        BY <4>2, <4>3
    <3> QED
      BY <3>1, <3>2
  <2>6. (\A x \in tail \ resolved : pc[x] \in {"holding"} \cup Waiting)'
    BY <1>t, <2>1 DEF ChainOrder
  <2> QED
    BY <2>4, <2>5, <2>6 DEF ChainOrder
<1>2. ASSUME NEW c \in Calls, Refuse(c) \/ Wake(c) \/ Enter(c) PROVE ChainOrder'
  <2>1. /\ UNCHANGED <<tail, previous, resolved>>
        /\ \E p \in {"cancelled", "woken", "holding"} :
              pc' = [pc EXCEPT ![c] = p] /\ (p = "cancelled" => pc[c] = "idle")
    BY <1>2 DEF Refuse, Wake, Enter
  <2>2. pc[c] = "idle" => c \notin tail
    BY DEF ChainInv
  <2>3. (\A x \in tail \ resolved : pc[x] \in {"holding"} \cup Waiting)'
    BY <1>t, <2>1, <2>2 DEF ChainOrder
  <2> QED
    BY <2>1, <2>3 DEF ChainOrder
<1>3. ASSUME NEW c \in Calls, Cancel(c) \/ Release(c) PROVE ChainOrder'
  <2>1. /\ UNCHANGED <<tail, previous>> /\ resolved' = resolved \cup {c}
        /\ \A x \in Calls \ {c} : pc'[x] = pc[x]
    BY <1>t, <1>3 DEF Cancel, Release
  <2>2. (\A x \in tail \ resolved : pc[x] \in {"holding"} \cup Waiting)'
    BY <2>1 DEF ChainOrder, ChainInv, TypeOK
  <2> QED
    BY <2>1, <2>2 DEF ChainOrder
<1>4. ASSUME NEW c \in Calls, Abort({c}) PROVE ChainOrder'
  BY <1>4 DEF Abort, ChainOrder
<1>5. CASE UNCHANGED vars
  BY <1>5 DEF vars, ChainOrder
<1> QED
  BY <1>1, <1>2, <1>3, <1>4, <1>5 DEF Next, Step

(* The chain cannot lock up, whoever is aborted when: while a call waits,  *)
(* the first promise of the chain that is not resolved is a holder's, or   *)
(* of a call the browser is free for.                                      *)
THEOREM NoLockUp == Spec => []ChainMoves
<1>1. Init => ChainOrder
  BY DEF Init, ChainOrder
<1>2. ChainInv /\ ChainOrder => ChainMoves
  <2> SUFFICES ASSUME ChainInv, ChainOrder, NEW c \in Calls, pc[c] \in Waiting
               PROVE  \E d \in tail \ resolved :
                        pc[d] = "holding" \/ (pc[d] \in Waiting /\ previous[d] \subseteq resolved)
    BY DEF ChainMoves
  <2>1. c \in tail \ resolved
    BY DEF ChainInv
  <2>2. PICK d \in tail \ resolved : previous[d] \cap (tail \ resolved) = {}
    BY <2>1 DEF ChainOrder
  <2>3. previous[d] \subseteq resolved
    BY <2>2 DEF ChainOrder
  <2> QED
    BY <2>2, <2>3 DEF ChainOrder
<1> QED
  BY <1>1, <1>2, OrderStep, Chain, PTL DEF Spec

-----------------------------------------------------------------------------
(* The lease in its initial state is an unused lock. *)
LEMMA InitIsLock == Init => Lock!Init
BY DEF Init, Lock!Init, Waiting

(* Every step of the lease is a step of the lock or leaves it alone. *)
LEMMA StepIsLock == ChainInv /\ ChainInv' /\ [Next]_vars => [Lock!Next]_Lock!vars
<1> SUFFICES ASSUME ChainInv, ChainInv', [Next]_vars PROVE [Lock!Next]_Lock!vars
  OBVIOUS
<1> USE DEF Waiting, Lock!vars
<1>t. pc \in [Calls -> {"idle", "holding"} \cup Waiting \cup Finished]
  BY DEF ChainInv, TypeOK
<1>1. ASSUME NEW c \in Calls, Acquire(c) PROVE Lock!Ask(c)
  BY <1>t, <1>1 DEF Acquire, Lock!Ask
<1>2. ASSUME NEW c \in Calls, Refuse(c) PROVE UNCHANGED Lock!vars
  BY <1>t, <1>2 DEF Refuse
<1>3. ASSUME NEW c \in Calls, Wake(c) PROVE UNCHANGED Lock!vars
  BY <1>t, <1>3 DEF Wake
<1>4. ASSUME NEW c \in Calls, Enter(c) PROVE Lock!Grant(c)
  <2>1. pc' = [pc EXCEPT ![c] = "holding"] /\ pc[c] = "woken"
    BY <1>4 DEF Enter
  <2>2. \A d \in Calls : pc[d] # "holding"
    <3> SUFFICES ASSUME NEW d \in Calls, pc[d] = "holding" PROVE FALSE
      OBVIOUS
    <3>1. d # c /\ pc'[d] = "holding" /\ pc'[c] = "holding"
      BY <1>t, <2>1
    <3>2. MutualExclusion'
      BY ChainExcludes, PTL
    <3> QED
      BY <3>1, <3>2 DEF MutualExclusion
  <2> QED
    BY <1>t, <2>1, <2>2 DEF Lock!Grant
<1>5. ASSUME NEW c \in Calls, Cancel(c) PROVE Lock!GiveUp(c)
  BY <1>t, <1>5 DEF Cancel, Lock!GiveUp
<1>6. ASSUME NEW c \in Calls, Release(c) PROVE Lock!Return(c)
  BY <1>t, <1>6 DEF Release, Lock!Return
<1>7. ASSUME NEW c \in Calls, Abort({c}) PROVE UNCHANGED Lock!vars
  BY <1>7 DEF Abort
<1>8. CASE UNCHANGED vars
  BY <1>8 DEF vars
<1> QED
  BY <1>1, <1>2, <1>3, <1>4, <1>5, <1>6, <1>7, <1>8 DEF Next, Step, Lock!Next

(* The promise chain implements the lock. *)
THEOREM LeaseIsLock == Spec => IsLock
<1>1. Init => Lock!Init
  BY InitIsLock
<1>2. ChainInv /\ ChainInv' /\ [Next]_vars => [Lock!Next]_Lock!vars
  BY StepIsLock
<1> QED
  BY <1>1, <1>2, Chain, PTL DEF Spec, IsLock, Lock!Spec

-----------------------------------------------------------------------------
(* The tool loop of an actor has begun and not ended. *)
Underway(x) ==
    IF x[2] = "turn" THEN turn[x[1]] \in {"working", "delegating"} ELSE helper[x[1]] = "working"

(* What of the chain is not resolved belongs to calls that wait or hold,   *)
(* and those to tool loops under way; a turn delegates while its helper    *)
(* works.                                                                  *)
TurnsInv ==
    /\ TurnsTypeOK
    /\ ChainInv
    /\ \A x \in tail \ resolved : pc[x] \in {"holding"} \cup Waiting
    /\ \A x \in Calls : pc[x] \in {"holding"} \cup Waiting => Underway(x)
    /\ \A a \in Agents : helper[a] = "working" <=> turn[a] = "delegating"

LEMMA TurnsInitInv == TurnsInit => TurnsInv
BY InitChain DEF TurnsInit, Init, TurnsInv, TurnsTypeOK, TypeOK, ChainInv, Waiting

(* Every actor is a turn or a helper, and its call of acquire() is one.    *)
LEMMA ActorCalls ==
    /\ \A a \in Agents : Turn(a) \in Calls /\ Helper(a) \in Calls
    /\ \A x \in Calls : x[1] \in Agents /\ (x = Turn(x[1]) \/ x = Helper(x[1]))
    /\ \A a, b : Turn(a) # Helper(b) /\ (Turn(a) = Turn(b) \/ Helper(a) = Helper(b) => a = b)
    /\ \A a : Turn(a)[1] = a /\ Turn(a)[2] = "turn" /\ Helper(a)[1] = a /\ Helper(a)[2] = "helper"
BY TurnCalls DEF Actor, Turn, Helper

(* The finally block leaves nothing of its call in the chain. *)
LEMMA ScopeReleased ==
    ASSUME TurnsInv, NEW x \in Calls, ~Blocked(x), ReleaseScope(x)
    PROVE  /\ ChainInv'
           /\ \A y \in (tail \ resolved)' : pc'[y] \in {"holding"} \cup Waiting
           /\ pc'[x] \notin {"holding"} \cup Waiting
           /\ \A y \in Calls : y # x => pc'[y] = pc[y]
<1>1. CASE pc[x] = "holding"
  BY <1>1, CallKeepsChain DEF ReleaseScope, Release, TurnsInv, TurnsTypeOK, TypeOK, Waiting
<1>2. CASE pc[x] # "holding"
  BY <1>2, QuietKeepsChain DEF ReleaseScope, leaseVars, vars, Blocked, TurnsInv
<1> QED
  BY <1>1, <1>2

LEMMA TurnsStep == TurnsInv /\ [TurnsNext]_turnsVars => TurnsInv'
<1> SUFFICES ASSUME TurnsInv, [TurnsNext]_turnsVars PROVE TurnsInv'
  OBVIOUS
<1> USE ActorCalls
<1>1. /\ turn \in [Agents -> {"idle", "working", "delegating", "ended"}]
      /\ helper \in [Agents -> {"none", "working", "completed", "terminated"}]
      /\ expired \in SUBSET Agents /\ TypeOK /\ ChainInv
      /\ \A x \in tail \ resolved : pc[x] \in {"holding"} \cup Waiting
      /\ \A x \in Calls : pc[x] \in {"holding"} \cup Waiting => Underway(x)
      /\ \A a \in Agents : helper[a] = "working" <=> turn[a] = "delegating"
  BY DEF TurnsInv, TurnsTypeOK
<1>2. ASSUME UNCHANGED leaseVars
      PROVE  /\ ChainInv'
             /\ \A x \in (tail \ resolved)' : pc'[x] \in {"holding"} \cup Waiting
             /\ pc' = pc
  BY <1>1, <1>2, QuietKeepsChain DEF leaseVars, vars
<1>3. ASSUME ChainInv' PROVE TypeOK'
  BY <1>3 DEF ChainInv
<1>4. ASSUME NEW a \in Agents, StartTurn(a) PROVE TurnsInv'
  BY <1>1, <1>2, <1>3, <1>4 DEF StartTurn, TurnsInv, TurnsTypeOK, Underway
<1>5. ASSUME NEW a \in Agents, Spawn(a) PROVE TurnsInv'
  BY <1>1, <1>2, <1>3, <1>5 DEF Spawn, TurnsInv, TurnsTypeOK, Underway
<1>6. ASSUME NEW a \in Agents, TimeLimit(a) PROVE TurnsInv'
  BY <1>1, <1>2, <1>3, <1>6 DEF TimeLimit, TurnsInv, TurnsTypeOK, Underway
<1>7. ASSUME NEW a \in Agents, HelperReturns(a) PROVE TurnsInv'
  <2>1. /\ helper[a] = "working" /\ turn[a] = "delegating" /\ ~Blocked(Helper(a))
        /\ ReleaseScope(Helper(a)) /\ turn' = [turn EXCEPT ![a] = "working"] /\ expired' = expired
    BY <1>1, <1>7 DEF HelperReturns
  <2>2. PICK r \in {"completed", "terminated"} : helper' = [helper EXCEPT ![a] = r]
    BY <1>7 DEF HelperReturns
  <2>3. /\ ChainInv'
        /\ \A y \in (tail \ resolved)' : pc'[y] \in {"holding"} \cup Waiting
        /\ pc'[Helper(a)] \notin {"holding"} \cup Waiting
        /\ \A y \in Calls : y # Helper(a) => pc'[y] = pc[y]
    BY <2>1, ScopeReleased
  <2>4. \A x \in Calls : x # Helper(a) /\ Underway(x) => Underway(x)'
    BY <1>1, <2>1, <2>2 DEF Underway
  <2> QED
    BY <1>1, <1>3, <2>1, <2>2, <2>3, <2>4 DEF TurnsInv, TurnsTypeOK
<1>8. ASSUME NEW a \in Agents, EndTurn(a) PROVE TurnsInv'
  <2>1. /\ turn[a] = "working" /\ ~Blocked(Turn(a)) /\ ReleaseScope(Turn(a))
        /\ turn' = [turn EXCEPT ![a] = "ended"] /\ UNCHANGED <<helper, expired>>
    BY <1>8 DEF EndTurn
  <2>2. /\ ChainInv'
        /\ \A y \in (tail \ resolved)' : pc'[y] \in {"holding"} \cup Waiting
        /\ pc'[Turn(a)] \notin {"holding"} \cup Waiting
        /\ \A y \in Calls : y # Turn(a) => pc'[y] = pc[y]
    BY <2>1, ScopeReleased
  <2>3. \A x \in Calls : x # Turn(a) /\ Underway(x) => Underway(x)'
    BY <1>1, <2>1 DEF Underway
  <2> QED
    BY <1>1, <1>3, <2>1, <2>2, <2>3 DEF TurnsInv, TurnsTypeOK
<1>9. ASSUME NEW a \in Agents, Stop(a) PROVE TurnsInv'
  <2>1. Abort({Turn(a), Helper(a)}) /\ UNCHANGED <<turn, helper, expired>>
    BY <1>9 DEF Stop
  <2>2. ChainInv'
    BY <1>1, <2>1, AbortKeepsChain
  <2> QED
    BY <1>1, <1>3, <2>1, <2>2 DEF Abort, TurnsInv, TurnsTypeOK, Underway
<1>10. ASSUME NEW x \in Calls, Browse(x) PROVE TurnsInv'
  <2>1. Acquire(x) /\ UNCHANGED <<turn, helper, expired>> /\ Underway(x)
    BY <1>10 DEF Browse, Running, Underway
  <2>2. ChainInv'
    BY <1>1, <2>1, CallKeepsChain
  <2> QED
    BY <1>1, <1>3, <2>1, <2>2 DEF Acquire, TypeOK, Waiting, TurnsInv, TurnsTypeOK, Underway
<1>11. ASSUME NEW x \in Calls, Answer(x) PROVE TurnsInv'
  <2>1. (Wake(x) \/ Enter(x) \/ Cancel(x)) /\ UNCHANGED <<turn, helper, expired>>
    BY <1>11 DEF Answer
  <2>2. ChainInv'
    BY <1>1, <2>1, CallKeepsChain
  <2> QED
    BY <1>1, <1>3, <2>1, <2>2
       DEF Wake, Enter, Cancel, TypeOK, Waiting, TurnsInv, TurnsTypeOK, Underway
<1>12. CASE UNCHANGED turnsVars
  BY <1>1, <1>2, <1>3, <1>12 DEF turnsVars, TurnsInv, TurnsTypeOK, Underway
<1> QED
  BY <1>4, <1>5, <1>6, <1>7, <1>8, <1>9, <1>10, <1>11, <1>12, TurnCalls DEF TurnsNext

(* The invariant of the turns holds in every reachable state. *)
THEOREM TurnsHold == TurnsSpec => []TurnsInv
BY TurnsInitInv, TurnsStep, PTL DEF TurnsSpec

(* A turn that was stopped has told its helper's call, and the promises of *)
(* the chain stay ordered under the turns' steps too.                      *)
TurnsOrder ==
    /\ ChainOrder
    /\ \A a \in Agents : Stopped(a) => Helper(a) \in aborted

(* To the chain, a step of the turns is one of the lease, or a stop.       *)
LEMMA TurnsMoveLease ==
    ASSUME [TurnsNext]_turnsVars
    PROVE  \/ [Next]_vars /\ aborted' = aborted
           \/ \E a \in Agents : Abort({Turn(a), Helper(a)})
<1>1. ASSUME NEW a \in Agents, StartTurn(a) \/ Spawn(a) \/ TimeLimit(a)
      PROVE  UNCHANGED vars /\ aborted' = aborted
  BY <1>1 DEF StartTurn, Spawn, TimeLimit, leaseVars, vars
<1>2. ASSUME NEW x \in Calls, ReleaseScope(x)
      PROVE  [Next]_vars /\ aborted' = aborted
  BY <1>2 DEF ReleaseScope, Release, leaseVars, vars, Next, Step
<1>3. ASSUME NEW a \in Agents, HelperReturns(a) \/ EndTurn(a)
      PROVE  [Next]_vars /\ aborted' = aborted
  BY <1>2, <1>3, ActorCalls DEF HelperReturns, EndTurn
<1>4. ASSUME NEW a \in Agents, Stop(a) PROVE Abort({Turn(a), Helper(a)})
  BY <1>4 DEF Stop
<1>5. ASSUME NEW x \in Calls, Browse(x) \/ Answer(x)
      PROVE  [Next]_vars /\ aborted' = aborted
  BY <1>5 DEF Browse, Answer, Acquire, Wake, Enter, Cancel, Next, Step
<1>6. CASE UNCHANGED turnsVars
  BY <1>6 DEF turnsVars, leaseVars, vars
<1> QED
  BY <1>1, <1>3, <1>4, <1>5, <1>6, TurnCalls DEF TurnsNext

LEMMA TurnsOrderStep == TurnsInv /\ TurnsOrder /\ [TurnsNext]_turnsVars => TurnsOrder'
<1> SUFFICES ASSUME TurnsInv, TurnsOrder, [TurnsNext]_turnsVars PROVE TurnsOrder'
  OBVIOUS
<1>1. CASE [Next]_vars /\ aborted' = aborted
  BY <1>1, OrderStep DEF TurnsInv, TurnsOrder, Stopped
<1>2. ASSUME NEW a \in Agents, Abort({Turn(a), Helper(a)}) PROVE TurnsOrder'
  <2>1. ChainOrder'
    BY <1>2 DEF Abort, TurnsOrder, ChainOrder
  <2>2. aborted' = aborted \cup {Turn(a), Helper(a)}
    BY <1>2 DEF Abort
  <2>3. ASSUME NEW b \in Agents, Turn(b) \in aborted' PROVE Helper(b) \in aborted'
    BY <2>2, <2>3, ActorCalls DEF TurnsOrder, Stopped
  <2> QED
    BY <2>1, <2>3 DEF TurnsOrder, Stopped
<1> QED
  BY <1>1, <1>2, TurnsMoveLease

(* The first unresolved promise of the chain gets on, or it is a turn's    *)
(* that has the browser, awaits its helper and was not stopped.            *)
LEMMA FirstGetsOn == TurnsInv /\ TurnsOrder => OnlyNestedLockUp
<1> SUFFICES ASSUME TurnsInv, TurnsOrder, NEW x \in Calls, Blocked(x)
             PROVE  \/ \E y \in tail \ resolved : GetsOn(y)
                    \/ \E a \in Agents : pc[Turn(a)] = "holding" /\ Blocked(Helper(a)) /\ ~Stopped(a)
  BY TurnCalls DEF OnlyNestedLockUp
<1>1. /\ \A c \in Calls : pc[c] \in Waiting => c \in tail \ resolved
      /\ tail \subseteq Calls
  BY DEF TurnsInv, ChainInv, TypeOK
<1>2. x \in tail \ resolved
  BY <1>1 DEF Blocked
<1>3. PICK y \in tail \ resolved : previous[y] \cap (tail \ resolved) = {}
  BY <1>2 DEF TurnsOrder, ChainOrder
<1>4. previous[y] \subseteq resolved
  BY <1>3 DEF TurnsOrder, ChainOrder
<1>5. CASE Blocked(y)
  BY <1>4, <1>5 DEF GetsOn
<1>6. CASE ~Blocked(y) /\ Running(y)
  BY <1>6 DEF GetsOn
<1>7. CASE ~Blocked(y) /\ ~Running(y)
  <2>1. y \in Calls /\ pc[y] = "holding" /\ Underway(y)
    BY <1>1, <1>7 DEF TurnsInv, Blocked
  <2>2. PICK a \in Agents : y = Turn(a) /\ turn[a] = "delegating"
    BY <1>7, <2>1, ActorCalls DEF Underway, Running
  <2>3. CASE ~Blocked(Helper(a))
    BY <2>2, <2>3 DEF GetsOn
  <2>4. CASE Blocked(Helper(a)) /\ Stopped(a)
    <3>1. Helper(a) \in Calls /\ Helper(a) \in aborted
      BY <2>4, ActorCalls DEF TurnsOrder
    <3>2. Helper(a) \in tail \ resolved
      BY <1>1, <2>4, <3>1 DEF Blocked
    <3> QED
      BY <2>4, <3>1, <3>2 DEF GetsOn
  <2>5. CASE Blocked(Helper(a)) /\ ~Stopped(a)
    BY <2>1, <2>2, <2>5
  <2> QED
    BY <2>3, <2>4, <2>5
<1> QED
  BY <1>5, <1>6, <1>7

(* Loops that wait for the browser wait for each other for ever only where *)
(* a turn holds it while its own helper asks for it (cowork/tools.ts), and *)
(* then only until the turn is stopped.                                    *)
THEOREM LockUpIsNested == TurnsSpec => []OnlyNestedLockUp
<1>1. TurnsInit => TurnsOrder
  BY DEF TurnsInit, Init, TurnsOrder, ChainOrder, Stopped
<1> QED
  BY <1>1, TurnsHold, TurnsOrderStep, FirstGetsOn, PTL DEF TurnsSpec

(* The finally block of a tool loop: a loop that ended leaves nobody       *)
(* waiting behind it, however it ended.                                    *)
THEOREM NothingLeftBehind == TurnsSpec => []NothingHeldAfterLoop
<1>1. TurnsInv => NothingHeldAfterLoop
  BY TurnCalls DEF TurnsInv, NothingHeldAfterLoop, Underway
<1> QED
  BY <1>1, TurnsHold, PTL
=============================================================================
