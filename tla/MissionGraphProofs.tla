------------------------- MODULE MissionGraphProofs -------------------------
(***************************************************************************)
(* For any set of leaves, scopes, criteria and branches: the graph keeps   *)
(* its types, scopes in flight are disjoint, and the dependencies stay     *)
(* acyclic when leaves are defined after what they depend on, so that      *)
(* waiting leads somewhere.  What was given up stays so, and what was      *)
(* integrated too, but for the cases the theorems name.                    *)
(***************************************************************************)
EXTENDS MissionGraph, TLAPS

USE RequiredAssumption, OverlapAssumption, ChildrenAssumption, BoundsAssumption

(* recomputeReadiness only turns WAITING leaves into READY ones. *)
LEMMA RecomputedStates ==
    ASSUME NEW s \in [Leaf -> LeafState], NEW d \in [Leaf -> SUBSET Leaf]
    PROVE  /\ Recomputed(s, d) \in [Leaf -> LeafState]
           /\ \A l \in Leaf : \/ Recomputed(s, d)[l] = s[l]
                              \/ s[l] = "WAITING" /\ Recomputed(s, d)[l] = "READY"
BY DEF Recomputed, LeafState

(* Crediting a criterion keeps the table of satisfied criteria well typed. *)
LEMMA CreditType ==
    ASSUME TypeOK, NEW l \in Leaf, NEW c \in Criterion, NEW o \in Outcome
    PROVE  /\ Credit(l, c, o) \in [Leaf -> [Criterion -> {"no", "current", "obsolete"}]]
           /\ Answered(l, c, o) \in Check
<1>1. checking[l] \in Check
  BY DEF TypeOK
<1>2. Answered(l, c, o) \in Check
  BY <1>1 DEF Answered, Check, Outcome
<1>3. Credit(l, c, o) \in [Leaf -> [Criterion -> {"no", "current", "obsolete"}]]
  BY DEF TypeOK, Credit, Outcome
<1> QED
  BY <1>2, <1>3

(* Every step keeps the types. *)
LEMMA TypeStep == TypeOK /\ [Next]_vars => TypeOK'
<1> SUFFICES ASSUME TypeOK, [Next]_vars PROVE TypeOK'
  OBVIOUS
<1>n. NoCheck \in Check
  BY DEF NoCheck, Check
<1>1. ASSUME NEW l \in Leaf, NEW D \in SUBSET Leaf, DefineLeaf(l, D) PROVE TypeOK'
  <2>1. [state EXCEPT ![l] = "WAITING"] \in [Leaf -> LeafState] /\ deps' \in [Leaf -> SUBSET Leaf]
    BY <1>1 DEF TypeOK, DefineLeaf, LeafState
  <2> QED
    BY <1>1, <2>1, RecomputedStates DEF TypeOK, DefineLeaf
<1>2. ASSUME NEW l \in Leaf, NEW d \in Leaf, AddDependency(l, d) PROVE TypeOK'
  <2> DEFINE back == state[d] \notin Verified /\ state[l] \in {"READY", "WAITING"}
             s == IF back THEN [state EXCEPT ![l] = "WAITING"] ELSE state
  <2>1. s \in [Leaf -> LeafState] /\ deps' \in [Leaf -> SUBSET Leaf]
    BY <1>2 DEF TypeOK, AddDependency, LeafState
  <2>2. state' = Recomputed(s, deps')
    BY <1>2 DEF AddDependency
  <2>3. state' \in [Leaf -> LeafState]
    <3> HIDE DEF s
    <3> QED
      BY <2>1, <2>2, RecomputedStates
  <2> QED
    BY <1>2, <2>1, <2>3 DEF TypeOK, AddDependency
<1>3. ASSUME NEW l \in Leaf, StartLeaf(l) \/ SelfVerify(l) PROVE TypeOK'
  BY <1>3 DEF TypeOK, StartLeaf, SelfVerify, Move, LeafState
<1>4. ASSUME NEW l \in Leaf, BeginReverify(l) PROVE TypeOK'
  BY <1>4, <1>n, CriteriaAssumption DEF TypeOK, BeginReverify, Check
<1>5. ASSUME NEW l \in Leaf, NEW c \in Criterion, NEW o \in Outcome, ReverifyCriterion(l, c, o)
      PROVE TypeOK'
  BY <1>5, CreditType DEF TypeOK, ReverifyCriterion
<1>6. ASSUME NEW l \in Leaf, NEW c \in Criterion, NEW o \in Outcome, ReverifyConcludes(l, c, o)
      PROVE TypeOK'
  <2>1. [state EXCEPT ![l] = "PARENT_REVERIFIED"] \in [Leaf -> LeafState]
    BY DEF TypeOK, LeafState, Verified
  <2>2. Recomputed([state EXCEPT ![l] = "PARENT_REVERIFIED"], deps) \in [Leaf -> LeafState]
    BY <2>1, RecomputedStates DEF TypeOK
  <2>3. state' \in [Leaf -> LeafState] /\ inFlight' \in SUBSET Leaf
    BY <1>6, <2>2 DEF TypeOK, ReverifyConcludes, Move, LeafState, Unhappy
  <2> QED
    BY <1>6, <1>n, <2>3, CreditType DEF TypeOK, ReverifyConcludes
<1>7. ASSUME NEW x \in Branch, \/ IntegrateAtOnce(x) \/ BeginIntegration(x)
                               \/ \E passed \in BOOLEAN : IntegrationAnswer(x, passed)
      PROVE TypeOK'
  <2>1. Promoted(x) \in [Leaf -> LeafState]
    BY DEF TypeOK, Promoted, LeafState, Verified
  <2>2. ASSUME IntegrationPasses(x) \/ IntegrationFails(x)
        PROVE  /\ integration' \in [Branch -> {"PENDING", "VERIFIED", "FAILED"}]
               /\ state' \in [Leaf -> LeafState]
    BY <2>1, <2>2 DEF TypeOK, IntegrationPasses, IntegrationFails
  <2>3. CASE IntegrateAtOnce(x)
    BY <2>2, <2>3 DEF TypeOK, IntegrateAtOnce
  <2>4. CASE BeginIntegration(x)
    BY <2>4 DEF TypeOK, BeginIntegration
  <2>5. ASSUME NEW passed \in BOOLEAN, IntegrationAnswer(x, passed) PROVE TypeOK'
    <3>1. IntegrationPasses(x) \/ IntegrationFails(x)
      BY <2>5 DEF IntegrationAnswer
    <3> QED
      BY <3>1, <2>2, <2>5 DEF TypeOK, IntegrationAnswer
  <2> QED
    BY <1>7, <2>3, <2>4, <2>5
<1>8. ASSUME NEW l \in Leaf, Abandon(l) \/ Fail(l) \/ Block(l) PROVE TypeOK'
  BY <1>8 DEF TypeOK, Abandon, Fail, Block, GiveUpOn, Move, LeafState, Unhappy
<1>9. ASSUME NEW l \in Leaf, RecordUnproductive(l) \/ RecordProgress(l) PROVE TypeOK'
  <2>1. CASE RecordProgress(l)
    BY <2>1 DEF TypeOK, RecordProgress
  <2>2. CASE RecordUnproductive(l)
    <3>1. Move(l, "ABANDONED") \/ Move(l, "BLOCKED") \/ UNCHANGED <<state, inFlight>>
      BY <2>2 DEF RecordUnproductive
    <3>2. state' \in [Leaf -> LeafState] /\ inFlight' \in SUBSET Leaf
      BY <3>1 DEF TypeOK, Move, LeafState, Unhappy
    <3>3. /\ attempts' = [attempts EXCEPT ![l] = @ + 1]
          /\ UNCHANGED <<deps, satisfied, checking, integration, integrating, amendments>>
      BY <2>2 DEF RecordUnproductive
    <3> QED
      BY <3>2, <3>3 DEF TypeOK
  <2> QED
    BY <1>9, <2>1, <2>2
<1>10. ASSUME NEW A \in SUBSET Defined, Amend(A) PROVE TypeOK'
  <2> DEFINE back == {l \in A \cap Defined : state[l] \notin Unhappy}
             s == [l \in Leaf |-> IF l \in back THEN "WAITING" ELSE state[l]]
  <2>1. s \in [Leaf -> LeafState]
    BY DEF TypeOK, LeafState
  <2>2. state' = Recomputed(s, deps)
    BY <1>10 DEF Amend
  <2>3. state' \in [Leaf -> LeafState]
    <3> HIDE DEF s
    <3> QED
      BY <2>1, <2>2, RecomputedStates DEF TypeOK
  <2>4. checking' \in [Leaf -> Check]
    BY <1>10 DEF TypeOK, Amend, Check
  <2> QED
    BY <1>10, <2>3, <2>4 DEF TypeOK, Amend
<1>11. CASE UNCHANGED vars
  BY <1>11 DEF TypeOK, vars
<1> QED
  BY <1>1, <1>2, <1>3, <1>4, <1>5, <1>6, <1>7, <1>8, <1>9, <1>10, <1>11
  DEF Next, Reverify, Defined

-----------------------------------------------------------------------------
(* A move keeps the record of scopes in flight exact, and a move that does *)
(* not start a leaf cannot make two of them overlap.                       *)
LEMMA MoveOwnership ==
    ASSUME TypeOK, OwnershipInv, NEW l \in Leaf, NEW to \in LeafState \ {"IN_FLIGHT"}, Move(l, to)
    PROVE  OwnershipInv'
BY DEF TypeOK, OwnershipInv, Move

(* Recomputing readiness neither starts nor stops a leaf. *)
LEMMA RecomputedFlight ==
    ASSUME NEW s \in [Leaf -> LeafState], NEW d \in [Leaf -> SUBSET Leaf]
    PROVE  {l \in Leaf : Recomputed(s, d)[l] = "IN_FLIGHT"} = {l \in Leaf : s[l] = "IN_FLIGHT"}
BY RecomputedStates

(* Every step keeps the scopes in flight disjoint. *)
LEMMA OwnershipStep == TypeOK /\ OwnershipInv /\ [Next]_vars => OwnershipInv'
<1> SUFFICES ASSUME TypeOK, OwnershipInv, [Next]_vars PROVE OwnershipInv'
  OBVIOUS
<1>0. ASSUME inFlight' \subseteq inFlight, inFlight' = {l \in Leaf : state'[l] = "IN_FLIGHT"}
      PROVE  OwnershipInv'
  BY <1>0 DEF OwnershipInv
<1>1. ASSUME NEW l \in Leaf, NEW D \in SUBSET Leaf, DefineLeaf(l, D) PROVE OwnershipInv'
  <2>1. [state EXCEPT ![l] = "WAITING"] \in [Leaf -> LeafState] /\ deps' \in [Leaf -> SUBSET Leaf]
    BY <1>1 DEF TypeOK, DefineLeaf, LeafState
  <2>2. {x \in Leaf : [state EXCEPT ![l] = "WAITING"][x] = "IN_FLIGHT"} = inFlight
    BY <1>1 DEF TypeOK, OwnershipInv, DefineLeaf, Defined
  <2> QED
    BY <1>0, <1>1, <2>1, <2>2, RecomputedFlight DEF DefineLeaf
<1>2. ASSUME NEW l \in Leaf, NEW d \in Leaf, AddDependency(l, d) PROVE OwnershipInv'
  <2> DEFINE back == state[d] \notin Verified /\ state[l] \in {"READY", "WAITING"}
             s == IF back THEN [state EXCEPT ![l] = "WAITING"] ELSE state
  <2>1. s \in [Leaf -> LeafState] /\ deps' \in [Leaf -> SUBSET Leaf]
    BY <1>2 DEF TypeOK, AddDependency, LeafState
  <2>2. state' = Recomputed(s, deps')
    BY <1>2 DEF AddDependency
  <2>3. {x \in Leaf : s[x] = "IN_FLIGHT"} = inFlight
    BY DEF TypeOK, OwnershipInv
  <2>4. {x \in Leaf : state'[x] = "IN_FLIGHT"} = inFlight
    <3> HIDE DEF s
    <3> QED
      BY <2>1, <2>2, <2>3, RecomputedFlight
  <2> QED
    BY <1>0, <1>2, <2>4 DEF AddDependency
<1>3. ASSUME NEW l \in Leaf, StartLeaf(l) PROVE OwnershipInv'
  <2>1. inFlight' = inFlight \cup {l} /\ inFlight' = {x \in Leaf : state'[x] = "IN_FLIGHT"}
    BY <1>3 DEF TypeOK, OwnershipInv, StartLeaf, Move
  <2>2. \A other \in inFlight : <<l, other>> \notin Overlap /\ <<other, l>> \notin Overlap
    BY <1>3 DEF StartLeaf, OwnershipInv
  <2> QED
    BY <2>1, <2>2 DEF OwnershipInv
<1>4. ASSUME NEW l \in Leaf, SelfVerify(l) PROVE OwnershipInv'
  BY <1>4, MoveOwnership DEF SelfVerify, LeafState
<1>5. ASSUME NEW l \in Leaf, NEW c \in Criterion, NEW o \in Outcome, ReverifyConcludes(l, c, o)
      PROVE OwnershipInv'
  <2>1. CASE Move(l, "FAILED") \/ Move(l, "BLOCKED")
    BY <2>1, MoveOwnership DEF LeafState, Unhappy
  <2>2. CASE /\ state' = Recomputed([state EXCEPT ![l] = "PARENT_REVERIFIED"], deps)
             /\ inFlight' = inFlight \ {l}
    <3>1. [state EXCEPT ![l] = "PARENT_REVERIFIED"] \in [Leaf -> LeafState]
      BY DEF TypeOK, LeafState, Verified
    <3>2. {x \in Leaf : [state EXCEPT ![l] = "PARENT_REVERIFIED"][x] = "IN_FLIGHT"} = inFlight \ {l}
      BY DEF TypeOK, OwnershipInv
    <3> QED
      BY <1>0, <2>2, <3>1, <3>2, RecomputedFlight DEF TypeOK
  <2> QED
    BY <1>5, <2>1, <2>2 DEF ReverifyConcludes
<1>6. ASSUME NEW x \in Branch, \/ IntegrateAtOnce(x) \/ BeginIntegration(x)
                               \/ \E passed \in BOOLEAN : IntegrationAnswer(x, passed)
      PROVE OwnershipInv'
  <2>1. inFlight' = inFlight /\ (state' = state \/ state' = Promoted(x))
    BY <1>6 DEF IntegrateAtOnce, BeginIntegration, IntegrationAnswer, IntegrationPasses, IntegrationFails
  <2>2. {l \in Leaf : Promoted(x)[l] = "IN_FLIGHT"} = {l \in Leaf : state[l] = "IN_FLIGHT"}
    BY DEF TypeOK, Promoted
  <2> QED
    BY <1>0, <2>1, <2>2 DEF OwnershipInv
<1>7. ASSUME NEW l \in Leaf, Abandon(l) \/ Fail(l) \/ Block(l) PROVE OwnershipInv'
  BY <1>7, MoveOwnership DEF Abandon, Fail, Block, GiveUpOn, LeafState, Unhappy
<1>8. ASSUME NEW l \in Leaf, RecordUnproductive(l) PROVE OwnershipInv'
  <2>1. Move(l, "ABANDONED") \/ Move(l, "BLOCKED") \/ UNCHANGED <<state, inFlight>>
    BY <1>8 DEF RecordUnproductive
  <2> QED
    BY <2>1, MoveOwnership DEF LeafState, Unhappy, OwnershipInv
<1>9. ASSUME NEW A \in SUBSET Defined, Amend(A) PROVE OwnershipInv'
  <2> DEFINE back == {l \in A \cap Defined : state[l] \notin Unhappy}
             s == [l \in Leaf |-> IF l \in back THEN "WAITING" ELSE state[l]]
  <2>1. s \in [Leaf -> LeafState]
    BY DEF TypeOK, LeafState
  <2>2. state' = Recomputed(s, deps) /\ inFlight' = inFlight \ back
    BY <1>9 DEF Amend
  <2>3. {x \in Leaf : s[x] = "IN_FLIGHT"} = inFlight \ back
    BY DEF OwnershipInv
  <2>4. {x \in Leaf : state'[x] = "IN_FLIGHT"} = inFlight \ back
    <3> HIDE DEF s, back
    <3> QED
      BY <2>1, <2>2, <2>3, RecomputedFlight DEF TypeOK
  <2> QED
    BY <1>0, <2>2, <2>4
<1>10. CASE UNCHANGED <<state, inFlight>>
  BY <1>10 DEF OwnershipInv
<1> QED
  BY <1>1, <1>2, <1>3, <1>4, <1>5, <1>6, <1>7, <1>8, <1>9, <1>10
  DEF Next, Reverify, BeginReverify, ReverifyCriterion, RecordProgress, Defined, vars

-----------------------------------------------------------------------------
(* Dependencies name defined leaves only. *)
KnownDeps == \A l \in Leaf : deps[l] \subseteq Defined

DepsInv == TypeOK /\ KnownDeps /\ Acyclic

(* Adding an edge that wouldCycle() lets pass keeps the graph acyclic: a   *)
(* group in which everyone waited for the group would, intersected with    *)
(* what the new dependency reaches, be such a group without the new edge.  *)
LEMMA AddKeepsAcyclic ==
    ASSUME DepsInv, NEW l \in Leaf, NEW d \in Leaf, AddDependency(l, d)
    PROVE  Acyclic'
<1>1. deps' = [deps EXCEPT ![l] = @ \cup {d}] /\ deps \in [Leaf -> SUBSET Leaf]
  BY DEF AddDependency, DepsInv, TypeOK
<1>2. PICK C \in SUBSET Leaf : d \in C /\ ClosedUnderDeps(C) /\ l \notin C
  BY DEF AddDependency, WouldCycle
<1> SUFFICES ASSUME NEW S \in SUBSET Leaf, S # {}, \A x \in S : deps'[x] \cap S # {}
             PROVE  FALSE
  BY DEF Acyclic
<1>3. PICK y \in S : deps[y] \cap S = {}
  BY DEF DepsInv, Acyclic
<1>4. y = l /\ d \in S
  BY <1>1, <1>3
<1>5. PICK x \in S \cap C : deps[x] \cap (S \cap C) = {}
  BY <1>2, <1>4 DEF DepsInv, Acyclic
<1>6. x # l /\ deps[x] \cap S # {} /\ deps[x] \subseteq C
  BY <1>1, <1>2, <1>5 DEF ClosedUnderDeps
<1> QED
  BY <1>5, <1>6

(* A leaf defined after its dependencies has nobody waiting for it yet. *)
LEMMA DefineKeepsAcyclic ==
    ASSUME DepsInv, NEW l \in Leaf, NEW D \in SUBSET Defined, DefineLeaf(l, D)
    PROVE  Acyclic'
<1>1. /\ deps' = [deps EXCEPT ![l] = D]
      /\ deps \in [Leaf -> SUBSET Leaf]
      /\ l \notin Defined
      /\ \A x \in Leaf : l \notin deps[x]
  BY DEF DefineLeaf, DepsInv, TypeOK, KnownDeps
<1> SUFFICES ASSUME NEW S \in SUBSET Leaf, S # {}, \A x \in S : deps'[x] \cap S # {}
             PROVE  FALSE
  BY DEF Acyclic
<1>2. CASE S \ {l} = {}
  BY <1>1, <1>2
<1>3. CASE S \ {l} # {}
  <2>1. PICK x \in S \ {l} : deps[x] \cap (S \ {l}) = {}
    BY <1>3 DEF DepsInv, Acyclic
  <2> QED
    BY <1>1, <2>1
<1> QED
  BY <1>2, <1>3

(* Only these two operations touch the dependencies, and nothing undefines *)
(* a leaf.                                                                 *)
LEMMA DefinedStep ==
    ASSUME TypeOK, [Next]_vars, ~ForwardReferences
    PROVE  /\ Defined \subseteq Defined'
           /\ \/ UNCHANGED deps
              \/ \E l, d \in Leaf : AddDependency(l, d)
              \/ \E l \in Leaf, D \in SUBSET Defined : DefineLeaf(l, D)
<1>0. ASSUME NEW s \in [Leaf -> LeafState], NEW d \in [Leaf -> SUBSET Leaf], state' = Recomputed(s, d),
             \A x \in Defined : s[x] # "undefined"
      PROVE  Defined \subseteq Defined'
  BY <1>0, RecomputedStates DEF Defined
<1>m. ASSUME NEW l \in Leaf, NEW to \in LeafState \ {"undefined"}, Move(l, to)
      PROVE  Defined \subseteq Defined'
  BY <1>m DEF Defined, Move, TypeOK
<1>1. ASSUME NEW l \in Leaf, NEW D \in SUBSET Leaf, DefineLeaf(l, D) PROVE Defined \subseteq Defined'
  <2>1. [state EXCEPT ![l] = "WAITING"] \in [Leaf -> LeafState] /\ deps' \in [Leaf -> SUBSET Leaf]
    BY <1>1 DEF TypeOK, DefineLeaf, LeafState
  <2>2. \A x \in Defined : [state EXCEPT ![l] = "WAITING"][x] # "undefined"
    BY DEF TypeOK, Defined
  <2> QED
    BY <1>0, <1>1, <2>1, <2>2 DEF DefineLeaf
<1>2. ASSUME NEW l \in Leaf, NEW d \in Leaf, AddDependency(l, d) PROVE Defined \subseteq Defined'
  <2> DEFINE back == state[d] \notin Verified /\ state[l] \in {"READY", "WAITING"}
             s == IF back THEN [state EXCEPT ![l] = "WAITING"] ELSE state
  <2>1. s \in [Leaf -> LeafState] /\ deps' \in [Leaf -> SUBSET Leaf]
    BY <1>2 DEF TypeOK, AddDependency, LeafState
  <2>2. state' = Recomputed(s, deps')
    BY <1>2 DEF AddDependency
  <2>3. \A x \in Defined : s[x] # "undefined"
    BY DEF TypeOK, Defined
  <2> HIDE DEF s
  <2> QED
    BY <1>0, <2>1, <2>2, <2>3
<1>3. ASSUME NEW l \in Leaf, StartLeaf(l) \/ SelfVerify(l) PROVE Defined \subseteq Defined' /\ UNCHANGED deps
  BY <1>3, <1>m DEF StartLeaf, SelfVerify, LeafState
<1>4. ASSUME NEW l \in Leaf, NEW c \in Criterion, NEW o \in Outcome, ReverifyConcludes(l, c, o)
      PROVE  Defined \subseteq Defined' /\ UNCHANGED deps
  <2>1. CASE Move(l, "FAILED") \/ Move(l, "BLOCKED")
    BY <1>4, <2>1, <1>m DEF LeafState, Unhappy, ReverifyConcludes
  <2>2. CASE state' = Recomputed([state EXCEPT ![l] = "PARENT_REVERIFIED"], deps)
    <3>1. [state EXCEPT ![l] = "PARENT_REVERIFIED"] \in [Leaf -> LeafState]
      BY DEF TypeOK, LeafState, Verified
    <3>2. \A x \in Defined : [state EXCEPT ![l] = "PARENT_REVERIFIED"][x] # "undefined"
      BY DEF TypeOK, Defined
    <3> QED
      BY <1>0, <1>4, <2>2, <3>1, <3>2 DEF TypeOK, ReverifyConcludes
  <2> QED
    BY <1>4, <2>1, <2>2 DEF ReverifyConcludes
<1>5. ASSUME NEW x \in Branch, \/ IntegrateAtOnce(x) \/ BeginIntegration(x)
                               \/ \E passed \in BOOLEAN : IntegrationAnswer(x, passed)
      PROVE  Defined \subseteq Defined' /\ UNCHANGED deps
  <2>1. UNCHANGED deps /\ (state' = state \/ state' = Promoted(x))
    BY <1>5 DEF IntegrateAtOnce, BeginIntegration, IntegrationAnswer, IntegrationPasses, IntegrationFails
  <2> QED
    BY <2>1 DEF TypeOK, Promoted, Defined
<1>6. ASSUME NEW l \in Leaf, Abandon(l) \/ Fail(l) \/ Block(l) PROVE Defined \subseteq Defined' /\ UNCHANGED deps
  BY <1>6, <1>m DEF Abandon, Fail, Block, GiveUpOn, LeafState, Unhappy
<1>7. ASSUME NEW l \in Leaf, RecordUnproductive(l) PROVE Defined \subseteq Defined' /\ UNCHANGED deps
  <2>1. Move(l, "ABANDONED") \/ Move(l, "BLOCKED") \/ UNCHANGED <<state, inFlight>>
    BY <1>7 DEF RecordUnproductive
  <2>2. UNCHANGED deps
    BY <1>7 DEF RecordUnproductive
  <2> QED
    BY <2>1, <2>2, <1>m DEF LeafState, Unhappy, Defined
<1>8. ASSUME NEW A \in SUBSET Defined, Amend(A) PROVE Defined \subseteq Defined' /\ UNCHANGED deps
  <2> DEFINE back == {l \in A \cap Defined : state[l] \notin Unhappy}
             s == [l \in Leaf |-> IF l \in back THEN "WAITING" ELSE state[l]]
  <2>1. s \in [Leaf -> LeafState]
    BY DEF TypeOK, LeafState
  <2>2. state' = Recomputed(s, deps) /\ UNCHANGED deps
    BY <1>8 DEF Amend
  <2>3. \A x \in Defined : s[x] # "undefined"
    BY DEF Defined
  <2> HIDE DEF s
  <2> QED
    BY <1>0, <2>1, <2>2, <2>3 DEF TypeOK
<1>9. CASE UNCHANGED <<state, deps>>
  BY <1>9 DEF Defined
<1> QED
  BY <1>1, <1>2, <1>3, <1>4, <1>5, <1>6, <1>7, <1>8, <1>9
  DEF Next, Reverify, BeginReverify, ReverifyCriterion, RecordProgress, vars, Defined

(* Every step keeps the dependency graph known and acyclic. *)
LEMMA DepsStep == ~ForwardReferences /\ DepsInv /\ [Next]_vars => DepsInv'
<1> SUFFICES ASSUME ~ForwardReferences, DepsInv, [Next]_vars PROVE DepsInv'
  OBVIOUS
<1>1. TypeOK'
  BY TypeStep DEF DepsInv
<1>2. Defined \subseteq Defined' /\ \A l \in Leaf : deps[l] \subseteq Defined
  BY DefinedStep DEF DepsInv, KnownDeps
<1>3. CASE UNCHANGED deps
  BY <1>1, <1>2, <1>3 DEF DepsInv, KnownDeps, Acyclic
<1>4. ASSUME NEW l \in Leaf, NEW d \in Leaf, AddDependency(l, d) PROVE DepsInv'
  <2>1. KnownDeps'
    BY <1>2, <1>4 DEF AddDependency, KnownDeps, DepsInv, TypeOK
  <2> QED
    BY <1>1, <1>4, <2>1, AddKeepsAcyclic DEF DepsInv
<1>5. ASSUME NEW l \in Leaf, NEW D \in SUBSET Defined, DefineLeaf(l, D) PROVE DepsInv'
  <2>1. KnownDeps'
    BY <1>2, <1>5 DEF DefineLeaf, KnownDeps, DepsInv, TypeOK
  <2> QED
    BY <1>1, <1>5, <2>1, DefineKeepsAcyclic DEF DepsInv
<1> QED
  BY <1>3, <1>4, <1>5, DefinedStep DEF DepsInv

-----------------------------------------------------------------------------
(* A mission before its first leaf. *)
LEMMA InitAll == Init => TypeOK /\ OwnershipInv /\ DepsInv
<1>1. Init => TypeOK
  BY DEF Init, TypeOK, LeafState, NoCheck, Check
<1>2. Init => OwnershipInv
  BY DEF Init, OwnershipInv
<1>3. Init => KnownDeps /\ Acyclic
  BY DEF Init, KnownDeps, Acyclic
<1> QED
  BY <1>1, <1>2, <1>3 DEF DepsInv

(* The mission graph keeps its types. *)
THEOREM Types == Spec => []TypeOK
BY InitAll, TypeStep, PTL DEF Spec

(* Overlapping scopes are never held together, and no scope leaks. *)
THEOREM Ownership == Spec => []OwnershipInv
BY InitAll, OwnershipStep, Types, PTL DEF Spec

(* Leaves defined after their dependencies never come to wait in a circle, *)
(* whatever dependencies are discovered at run time.                       *)
THEOREM NoDependencyCycle == ASSUME ~ForwardReferences PROVE Spec => []Acyclic
<1>1. DepsInv /\ [Next]_vars => DepsInv'
  BY DepsStep
<1>2. DepsInv => Acyclic
  BY DEF DepsInv
<1> QED
  BY <1>1, <1>2, InitAll, PTL DEF Spec

-----------------------------------------------------------------------------
(* What recomputeReadiness makes READY rests on verified leaves, which it  *)
(* leaves as they are.                                                     *)
LEMMA RecomputedReady ==
    ASSUME NEW s \in [Leaf -> LeafState], NEW d \in [Leaf -> SUBSET Leaf], NEW l \in Leaf,
           Recomputed(s, d)[l] = "READY", s[l] # "READY"
    PROVE  \A x \in d[l] : Recomputed(s, d)[x] \in Verified
<1>1. \A x \in d[l] : x \in Leaf /\ s[x] \in Verified
  BY DEF Recomputed
<1>2. \A x \in Leaf : s[x] \in Verified => Recomputed(s, d)[x] = s[x]
  BY DEF Recomputed, Verified
<1> QED
  BY <1>1, <1>2

(* A step either makes no leaf READY, WAITING or verified, but for leaves  *)
(* verified already, or its last act is to recompute the readiness over    *)
(* states in which no further leaf is READY.                               *)
Unmoved ==
    /\ UNCHANGED deps
    /\ \A l \in Leaf :
        /\ state'[l] \in {"READY", "WAITING"} => state'[l] = state[l]
        /\ state'[l] \in Verified => state[l] \in Verified

LEMMA ReadyStep ==
    ASSUME TypeOK, [Next]_vars
    PROVE  \/ Unmoved
           \/ \E s \in [Leaf -> LeafState] :
                 /\ state' = Recomputed(s, deps')
                 /\ \A l \in Leaf : s[l] = "READY" => state[l] = "READY"
<1> DEFINE Last(s) == state' = Recomputed(s, deps') /\ \A l \in Leaf : s[l] = "READY" => state[l] = "READY"
           Goal == Unmoved \/ \E s \in [Leaf -> LeafState] : Last(s)
<1>m. ASSUME NEW l \in Leaf, NEW to \in LeafState \ ({"READY", "WAITING"} \cup Verified), Move(l, to), UNCHANGED deps
      PROVE  Unmoved
  BY <1>m DEF Move, TypeOK, Unmoved
<1>1. ASSUME NEW l \in Leaf, NEW D \in SUBSET Leaf, DefineLeaf(l, D) PROVE Goal
  <2>1. [state EXCEPT ![l] = "WAITING"] \in [Leaf -> LeafState]
    BY DEF TypeOK, LeafState
  <2>2. Last([state EXCEPT ![l] = "WAITING"])
    BY <1>1 DEF DefineLeaf, TypeOK
  <2> QED
    BY <2>1, <2>2
<1>2. ASSUME NEW l \in Leaf, NEW d \in Leaf, AddDependency(l, d) PROVE Goal
  <2> DEFINE back == state[d] \notin Verified /\ state[l] \in {"READY", "WAITING"}
             t == IF back THEN [state EXCEPT ![l] = "WAITING"] ELSE state
  <2>1. t \in [Leaf -> LeafState]
    BY DEF TypeOK, LeafState
  <2>2. Last(t)
    BY <1>2 DEF AddDependency, TypeOK
  <2> QED
    BY <2>1, <2>2
<1>3. ASSUME NEW l \in Leaf, StartLeaf(l) \/ SelfVerify(l) PROVE Goal
  BY <1>3, <1>m DEF StartLeaf, SelfVerify, LeafState, Verified
<1>4. ASSUME NEW l \in Leaf, NEW c \in Criterion, NEW o \in Outcome, ReverifyConcludes(l, c, o) PROVE Goal
  <2>1. CASE Move(l, "FAILED") \/ Move(l, "BLOCKED")
    BY <1>4, <2>1, <1>m DEF LeafState, Unhappy, Verified, ReverifyConcludes
  <2>2. CASE state' = Recomputed([state EXCEPT ![l] = "PARENT_REVERIFIED"], deps)
    <3>1. [state EXCEPT ![l] = "PARENT_REVERIFIED"] \in [Leaf -> LeafState]
      BY DEF TypeOK, LeafState, Verified
    <3>2. Last([state EXCEPT ![l] = "PARENT_REVERIFIED"])
      BY <1>4, <2>2 DEF ReverifyConcludes, TypeOK
    <3> QED
      BY <3>1, <3>2
  <2> QED
    BY <1>4, <2>1, <2>2 DEF ReverifyConcludes
<1>5. ASSUME NEW x \in Branch, \/ IntegrateAtOnce(x) \/ BeginIntegration(x)
                               \/ \E passed \in BOOLEAN : IntegrationAnswer(x, passed)
      PROVE  Goal
  <2>1. UNCHANGED deps /\ (state' = state \/ state' = Promoted(x))
    BY <1>5 DEF IntegrateAtOnce, BeginIntegration, IntegrationAnswer, IntegrationPasses, IntegrationFails
  <2> QED
    BY <2>1 DEF Promoted, Unmoved, Verified, TypeOK
<1>6. ASSUME NEW l \in Leaf, Abandon(l) \/ Fail(l) \/ Block(l) PROVE Goal
  BY <1>6, <1>m DEF Abandon, Fail, Block, GiveUpOn, LeafState, Unhappy, Verified
<1>7. ASSUME NEW l \in Leaf, RecordUnproductive(l) PROVE Goal
  <2>1. (Move(l, "ABANDONED") \/ Move(l, "BLOCKED") \/ UNCHANGED <<state, inFlight>>) /\ UNCHANGED deps
    BY <1>7 DEF RecordUnproductive
  <2> QED
    BY <2>1, <1>m DEF LeafState, Unhappy, Verified, Unmoved
<1>8. ASSUME NEW A \in SUBSET Defined, Amend(A) PROVE Goal
  <2> DEFINE back == {l \in A \cap Defined : state[l] \notin Unhappy}
             t == [l \in Leaf |-> IF l \in back THEN "WAITING" ELSE state[l]]
  <2>1. t \in [Leaf -> LeafState]
    BY DEF TypeOK, LeafState
  <2>2. Last(t)
    BY <1>8 DEF Amend
  <2> QED
    BY <2>1, <2>2
<1>9. CASE UNCHANGED <<state, deps>>
  BY <1>9 DEF Unmoved
<1> QED
  BY <1>1, <1>2, <1>3, <1>4, <1>5, <1>6, <1>7, <1>8, <1>9
  DEF Next, Reverify, BeginReverify, ReverifyCriterion, RecordProgress, vars, Defined

(* A leaf gets READY only on verified dependencies, in any graph, also one *)
(* with forward references.                                                *)
THEOREM ReadinessIsEarned == Spec => ReadyOnVerifiedDeps
<1>1. ASSUME TypeOK, TypeOK', [Next]_vars, NEW l \in Leaf, state'[l] = "READY", state[l] # "READY"
      PROVE  \A d \in deps'[l] : state'[d] \in Verified
  <2>0. ~Unmoved
    BY <1>1 DEF Unmoved
  <2>1. PICK s \in [Leaf -> LeafState] :
           state' = Recomputed(s, deps') /\ \A x \in Leaf : s[x] = "READY" => state[x] = "READY"
    BY <1>1, <2>0, ReadyStep
  <2>2. deps' \in [Leaf -> SUBSET Leaf]
    BY <1>1 DEF TypeOK
  <2> QED
    BY <1>1, <2>1, <2>2, RecomputedReady
<1>2. TypeOK /\ TypeOK' /\ [Next]_vars =>
        [\A l \in Leaf :
            state'[l] = "READY" /\ state[l] # "READY" => \A d \in deps'[l] : state'[d] \in Verified]_vars
  BY <1>1
<1> QED
  BY <1>2, Types, PTL DEF Spec, ReadyOnVerifiedDeps

-----------------------------------------------------------------------------
(* Whoever waits, waits for a leaf that is not verified. *)
WaitsForUnverified ==
    \A l \in Leaf : state[l] = "WAITING" => \E d \in deps[l] : state[d] \notin Verified

(* recomputeReadiness leaves nobody waiting for verified leaves alone. *)
LEMMA RecomputedWaits ==
    ASSUME NEW s \in [Leaf -> LeafState], NEW d \in [Leaf -> SUBSET Leaf], NEW l \in Leaf,
           Recomputed(s, d)[l] = "WAITING"
    PROVE  \E x \in d[l] : Recomputed(s, d)[x] \notin Verified
<1>1. PICK x \in d[l] : s[x] \notin Verified
  BY DEF Recomputed
<1>2. x \in Leaf
  OBVIOUS
<1>3. Recomputed(s, d)[x] \notin Verified
  BY <1>1, <1>2 DEF Recomputed, Verified
<1> QED
  BY <1>3

LEMMA WaitsStep == TypeOK /\ WaitsForUnverified /\ [Next]_vars => WaitsForUnverified'
<1> SUFFICES ASSUME TypeOK, WaitsForUnverified, [Next]_vars, NEW l \in Leaf, state'[l] = "WAITING"
             PROVE  \E d \in deps'[l] : state'[d] \notin Verified
  BY DEF WaitsForUnverified
<1>t. deps \in [Leaf -> SUBSET Leaf] /\ deps' \in [Leaf -> SUBSET Leaf]
  BY TypeStep DEF TypeOK
<1>1. CASE Unmoved
  <2>1. PICK d \in deps[l] : state[d] \notin Verified
    BY <1>1 DEF Unmoved, WaitsForUnverified
  <2>2. d \in Leaf /\ d \in deps'[l]
    BY <1>1, <1>t DEF Unmoved
  <2> QED
    BY <1>1, <2>1, <2>2 DEF Unmoved
<1>2. CASE \E s \in [Leaf -> LeafState] : state' = Recomputed(s, deps')
  BY <1>2, <1>t, RecomputedWaits
<1> QED
  BY <1>1, <1>2, ReadyStep

(* Leaves defined after their dependencies never come to a standstill:     *)
(* while any of them waits, one waits for a leaf the mission can start,    *)
(* is working on, or has given up.                                         *)
THEOREM WaitingMoves == ASSUME ~ForwardReferences PROVE Spec => []WaitingIsGrounded
<1> DEFINE IInv == DepsInv /\ WaitsForUnverified
<1>1. Init => IInv
  <2>1. Init => WaitsForUnverified
    BY DEF Init, WaitsForUnverified
  <2> QED
    BY <2>1, InitAll
<1>2. IInv /\ [Next]_vars => IInv'
  BY DepsStep, WaitsStep DEF DepsInv
<1>3. IInv => WaitingIsGrounded
  <2> SUFFICES ASSUME DepsInv, WaitsForUnverified, NEW l \in Leaf, state[l] = "WAITING"
               PROVE  \E x, d \in Leaf :
                        /\ state[x] = "WAITING" /\ d \in deps[x]
                        /\ state[d] \in {"READY", "IN_FLIGHT", "SELF_VERIFIED"} \cup Unhappy
    BY DEF WaitingIsGrounded
  <2> DEFINE S == {x \in Leaf : state[x] = "WAITING"}
  <2>1. PICK x \in S : deps[x] \cap S = {}
    <3>1. S \in SUBSET Leaf /\ S # {}
      OBVIOUS
    <3> QED
      BY <3>1 DEF DepsInv, Acyclic
  <2>2. PICK d \in deps[x] : state[d] \notin Verified
    BY <2>1 DEF WaitsForUnverified
  <2>3. d \in Leaf /\ state[d] \in LeafState
    BY <2>1 DEF DepsInv, TypeOK
  <2>4. state[d] # "WAITING"
    BY <2>1, <2>3
  <2>5. state[d] # "undefined"
    BY <2>1, <2>3 DEF DepsInv, KnownDeps, Defined
  <2> QED
    BY <2>1, <2>2, <2>3, <2>4, <2>5 DEF LeafState
<1> QED
  BY <1>1, <1>2, <1>3, PTL DEF Spec

-----------------------------------------------------------------------------
(* An unproductive attempt that reaches the limit stops its leaf, whatever *)
(* state the leaf is in by then.                                           *)
THEOREM RecoveryIsBounded == Spec => RecoveryStops
<1>1. ASSUME TypeOK, [Next]_vars, NEW l \in Leaf, attempts'[l] > attempts[l], attempts'[l] >= MaxAttempts
      PROVE  state'[l] \in Unhappy
  <2>1. PICK x \in Leaf : RecordUnproductive(x)
    <3>1. ~UNCHANGED attempts
      BY <1>1 DEF TypeOK
    <3>2. \A x \in Leaf : RecordProgress(x) => attempts'[l] = 0 \/ attempts'[l] = attempts[l]
      BY <1>1 DEF TypeOK, RecordProgress
    <3>3. \A x \in Leaf : ~RecordProgress(x)
      <4>1. attempts[l] \in Nat
        BY <1>1 DEF TypeOK
      <4> QED
        BY <1>1, <3>2, <4>1
    <3>4. \A x \in Leaf :
             /\ (\E D \in SUBSET Leaf : DefineLeaf(x, D)) \/ (\E d \in Leaf : AddDependency(x, d)) => UNCHANGED attempts
             /\ StartLeaf(x) \/ SelfVerify(x) \/ Abandon(x) \/ Fail(x) \/ Block(x) => UNCHANGED attempts
             /\ Reverify(x) => UNCHANGED attempts
      BY DEF DefineLeaf, AddDependency, StartLeaf, SelfVerify, Reverify, BeginReverify, ReverifyCriterion,
             ReverifyConcludes, Abandon, Fail, Block, GiveUpOn
    <3>5. \A b \in Branch :
             IntegrateAtOnce(b) \/ BeginIntegration(b) \/ (\E p \in BOOLEAN : IntegrationAnswer(b, p)) => UNCHANGED attempts
      BY DEF IntegrateAtOnce, BeginIntegration, IntegrationAnswer
    <3>6. \A affected \in SUBSET Defined : Amend(affected) => UNCHANGED attempts
      BY DEF Amend
    <3>7. Defined \subseteq Leaf
      BY DEF Defined
    <3> QED
      BY <1>1, <3>1, <3>3, <3>4, <3>5, <3>6, <3>7 DEF Next, vars
  <2>2. x = l /\ attempts[l] + 1 >= MaxAttempts
    BY <1>1, <2>1 DEF RecordUnproductive, TypeOK
  <2>3. CASE state[l] = "ABANDONED"
    <3>1. state'[l] = "ABANDONED"
      BY <2>1, <2>2, <2>3 DEF RecordUnproductive
    <3> QED
      BY <3>1 DEF Unhappy
  <2>4. CASE state[l] # "ABANDONED"
    <3>1. Move(l, "ABANDONED") \/ Move(l, "BLOCKED")
      BY <2>1, <2>2, <2>4 DEF RecordUnproductive
    <3>2. state'[l] \in {"ABANDONED", "BLOCKED"}
      BY <1>1, <3>1 DEF Move, TypeOK
    <3> QED
      BY <3>2 DEF Unhappy
  <2> QED
    BY <2>3, <2>4
<1>2. TypeOK /\ [Next]_vars =>
        [\A l \in Leaf :
            attempts'[l] > attempts[l] /\ attempts'[l] >= MaxAttempts => state'[l] \in Unhappy]_vars
  BY <1>1
<1> QED
  BY <1>2, Types, PTL DEF Spec, RecoveryStops

-----------------------------------------------------------------------------
(* What becomes of leaf l in a step when nobody re-verifies it: given up,  *)
(* or verified still, and not less than it was.                            *)
Rests(l) ==
    /\ checking'[l] = NoCheck
    /\ \/ state'[l] \in Unhappy
       \/ state[l] \in Verified /\ state'[l] \in {state[l], "INTEGRATION_VERIFIED"}

(* Recomputing the readiness does nothing to a leaf that is not waiting. *)
LEMMA RecomputedRest ==
    ASSUME NEW s \in [Leaf -> LeafState], NEW d \in [Leaf -> SUBSET Leaf], NEW l \in Leaf, s[l] # "WAITING"
    PROVE  Recomputed(s, d)[l] = s[l]
BY DEF Recomputed

(* Only an amendment sets a verified leaf to work again, and not even that *)
(* one which was given up.                                                 *)
LEMMA RestStep ==
    ASSUME TypeOK, [Next]_vars, NEW l \in Leaf, checking[l] = NoCheck, state[l] \in Verified \cup Unhappy
    PROVE  Rests(l) \/ (state[l] \in Verified /\ amendments' # 0)
<1> USE DEF Verified, Unhappy
<1>t. /\ state \in [Leaf -> LeafState] /\ checking \in [Leaf -> Check]
      /\ deps \in [Leaf -> SUBSET Leaf] /\ deps' \in [Leaf -> SUBSET Leaf]
  BY TypeStep DEF TypeOK
<1>o. NoCheck.open = {}
  BY DEF NoCheck
<1>s. ASSUME UNCHANGED checking, state'[l] = state[l] PROVE Rests(l)
  BY <1>s DEF Rests
<1>m. ASSUME NEW x \in Leaf, NEW to \in Unhappy, Move(x, to), UNCHANGED checking PROVE Rests(l)
  <2>1. state'[l] \in {state[l], to}
    BY <1>t, <1>m DEF Move
  <2> QED
    BY <2>1, <1>m DEF Rests
<1>1. ASSUME NEW x \in Leaf, NEW D \in SUBSET Leaf, DefineLeaf(x, D) PROVE Rests(l)
  <2>1. x # l /\ UNCHANGED checking
    BY <1>1 DEF DefineLeaf, Defined
  <2>2. [state EXCEPT ![x] = "WAITING"] \in [Leaf -> LeafState] /\ [state EXCEPT ![x] = "WAITING"][l] = state[l]
    BY <1>t, <2>1 DEF LeafState
  <2>3. state'[l] = state[l]
    BY <1>1, <1>t, <2>2, RecomputedRest DEF DefineLeaf
  <2> QED
    BY <2>1, <2>3, <1>s
<1>2. ASSUME NEW x \in Leaf, NEW d \in Leaf, AddDependency(x, d) PROVE Rests(l)
  <2> DEFINE back == state[d] \notin Verified /\ state[x] \in {"READY", "WAITING"}
             s == IF back THEN [state EXCEPT ![x] = "WAITING"] ELSE state
  <2>1. s \in [Leaf -> LeafState] /\ s[l] = state[l]
    BY <1>t DEF LeafState
  <2>2. state' = Recomputed(s, deps') /\ UNCHANGED checking
    BY <1>2 DEF AddDependency
  <2>3. state'[l] = state[l]
    <3> HIDE DEF s
    <3> QED
      BY <1>t, <2>1, <2>2, RecomputedRest
  <2> QED
    BY <2>2, <2>3, <1>s
<1>3. ASSUME NEW x \in Leaf, StartLeaf(x) \/ SelfVerify(x) PROVE Rests(l)
  BY <1>t, <1>3, <1>s DEF StartLeaf, SelfVerify, Move
<1>4. ASSUME NEW x \in Leaf, Reverify(x) PROVE Rests(l)
  <2>1. x # l
    BY <1>4, <1>o DEF Reverify, BeginReverify, ReverifyCriterion, ReverifyConcludes
  <2>2. checking'[l] = checking[l]
    BY <1>t, <1>4, <2>1 DEF Reverify, BeginReverify, ReverifyCriterion, ReverifyConcludes
  <2>3. state'[l] = state[l]
    <3>1. ASSUME NEW c \in Criterion, NEW o \in Outcome, ReverifyConcludes(x, c, o) PROVE state'[l] = state[l]
      <4>1. CASE Move(x, "FAILED") \/ Move(x, "BLOCKED")
        BY <1>t, <2>1, <4>1 DEF Move
      <4>2. CASE state' = Recomputed([state EXCEPT ![x] = "PARENT_REVERIFIED"], deps)
        <5>1. /\ [state EXCEPT ![x] = "PARENT_REVERIFIED"] \in [Leaf -> LeafState]
              /\ [state EXCEPT ![x] = "PARENT_REVERIFIED"][l] = state[l]
          BY <1>t, <2>1 DEF LeafState
        <5> QED
          BY <1>t, <4>2, <5>1, RecomputedRest
      <4> QED
        BY <3>1, <4>1, <4>2 DEF ReverifyConcludes
    <3> QED
      BY <1>4, <3>1 DEF Reverify, BeginReverify, ReverifyCriterion
  <2> QED
    BY <2>2, <2>3 DEF Rests
<1>5. ASSUME NEW b \in Branch, \/ IntegrateAtOnce(b) \/ BeginIntegration(b)
                               \/ \E passed \in BOOLEAN : IntegrationAnswer(b, passed)
      PROVE  Rests(l)
  <2>1. UNCHANGED checking /\ (state' = state \/ state' = Promoted(b))
    BY <1>5 DEF IntegrateAtOnce, BeginIntegration, IntegrationAnswer, IntegrationPasses, IntegrationFails
  <2> QED
    BY <2>1 DEF Promoted, Rests
<1>6. ASSUME NEW x \in Leaf, Abandon(x) \/ Fail(x) \/ Block(x) PROVE Rests(l)
  BY <1>6, <1>m DEF Abandon, Fail, Block, GiveUpOn
<1>7. ASSUME NEW x \in Leaf, RecordUnproductive(x) PROVE Rests(l)
  <2>1. Move(x, "ABANDONED") \/ Move(x, "BLOCKED") \/ state' = state
    BY <1>7 DEF RecordUnproductive
  <2>2. UNCHANGED checking
    BY <1>7 DEF RecordUnproductive
  <2> QED
    BY <2>1, <2>2, <1>m, <1>s
<1>8. ASSUME NEW x \in Leaf, RecordProgress(x) PROVE Rests(l)
  BY <1>8, <1>s DEF RecordProgress
<1>9. ASSUME NEW A \in SUBSET Defined, Amend(A) PROVE Rests(l) \/ (state[l] \in Verified /\ amendments' # 0)
  <2> DEFINE back == {x \in A \cap Defined : state[x] \notin Unhappy}
             s == [x \in Leaf |-> IF x \in back THEN "WAITING" ELSE state[x]]
  <2>1. CASE state[l] \in Verified
    BY <1>9, <2>1 DEF Amend, TypeOK
  <2>2. CASE state[l] \in Unhappy
    <3>1. s \in [Leaf -> LeafState] /\ s[l] = state[l]
      BY <1>t, <2>2 DEF LeafState
    <3>2. state' = Recomputed(s, deps) /\ checking'[l] = NoCheck
      BY <1>9 DEF Amend
    <3>3. state'[l] = state[l]
      <4> HIDE DEF s
      <4> QED
        BY <1>t, <2>2, <3>1, <3>2, RecomputedRest
    <3> QED
      BY <2>2, <3>2, <3>3 DEF Rests
  <2> QED
    BY <2>1, <2>2
<1>10. CASE UNCHANGED vars
  BY <1>10, <1>s DEF vars
<1> QED
  BY <1>1, <1>2, <1>3, <1>4, <1>5, <1>6, <1>7, <1>8, <1>9, <1>10 DEF Next, Defined

(* Abandoning, failing or blocking a leaf that nobody re-verifies is for   *)
(* good, whatever is amended, recorded or integrated afterwards.           *)
THEOREM GivenUpForGood == Spec => GivenUpStays
<1>1. ASSUME TypeOK, [Next]_vars, NEW l \in Leaf, state[l] \in Unhappy, checking[l] = NoCheck
      PROVE  state'[l] \in Unhappy /\ checking'[l] = NoCheck
  <2>1. state[l] \notin Verified
    BY <1>1 DEF Verified, Unhappy
  <2> QED
    BY <1>1, <2>1, RestStep DEF Rests
<1>2. TypeOK /\ [Next]_vars =>
        [\A l \in Leaf :
            state[l] \in Unhappy /\ checking[l] = NoCheck => state'[l] \in Unhappy /\ checking'[l] = NoCheck]_vars
  BY <1>1
<1> QED
  BY <1>2, Types, PTL DEF Spec, GivenUpStays

(* A leaf nobody is going to work on or to re-verify. *)
AtRest(l) == checking[l] = NoCheck /\ state[l] \in Verified \cup Unhappy

(* Before the first amendment, what is verified is at rest, and so is      *)
(* every child of a branch that is being integrated or has been; what was  *)
(* integrated is integrated still, or given up.                            *)
Composed ==
    /\ \A l \in Leaf : state[l] \in Verified => checking[l] = NoCheck
    /\ \A b \in integrating : \A l \in Children[b] : AtRest(l)
    /\ \A b \in Branch : integration[b] = "VERIFIED" =>
          \A l \in Children[b] : AtRest(l) /\ state[l] # "PARENT_REVERIFIED"

(* A leaf at rest stays so until an amendment. *)
LEMMA AtRestStep ==
    ASSUME TypeOK, [Next]_vars, amendments' = 0, NEW l \in Leaf, AtRest(l)
    PROVE  AtRest(l)' /\ (state[l] # "PARENT_REVERIFIED" => state'[l] # "PARENT_REVERIFIED")
<1>1. Rests(l)
  BY RestStep DEF AtRest
<1> QED
  BY <1>1 DEF AtRest, Rests, Verified, Unhappy

(* A leaf gets verified by the end of its own re-verification, or by the   *)
(* integration of a branch when it was verified before.                    *)
LEMMA VerifiedRests ==
    ASSUME TypeOK, [Next]_vars, NEW l \in Leaf, state'[l] \in Verified, state[l] \notin Verified
    PROVE  checking'[l] = NoCheck
<1> USE DEF Verified
<1>t. state \in [Leaf -> LeafState] /\ checking \in [Leaf -> Check] /\ deps' \in [Leaf -> SUBSET Leaf]
  BY TypeStep DEF TypeOK
<1>1. PICK x \in Leaf : Reverify(x)
  <2>1. ~Unmoved
    BY DEF Unmoved
  <2>2. ASSUME NEW x \in Leaf, NEW D \in SUBSET Leaf, DefineLeaf(x, D) PROVE FALSE
    BY <1>t, <2>2 DEF DefineLeaf, Recomputed
  <2>3. ASSUME NEW x \in Leaf, NEW d \in Leaf, AddDependency(x, d) PROVE FALSE
    <3>1. state'[l] \in {state[l], "WAITING", "READY"}
      BY <1>t, <2>3 DEF AddDependency, Recomputed
    <3> QED
      BY <3>1
  <2>4. ASSUME NEW x \in Leaf, StartLeaf(x) \/ SelfVerify(x) \/ Abandon(x) \/ Fail(x) \/ Block(x) \/ RecordUnproductive(x)
        PROVE  FALSE
    <3>1. \/ UNCHANGED state
          \/ \E to \in {"IN_FLIGHT", "SELF_VERIFIED", "ABANDONED", "FAILED", "BLOCKED"} : Move(x, to)
      BY <2>4 DEF StartLeaf, SelfVerify, Abandon, Fail, Block, GiveUpOn, RecordUnproductive
    <3> QED
      BY <1>t, <3>1 DEF Move
  <2>5. ASSUME NEW b \in Branch, \/ IntegrateAtOnce(b) \/ BeginIntegration(b)
                                 \/ \E passed \in BOOLEAN : IntegrationAnswer(b, passed)
        PROVE  FALSE
    <3>1. state' = state \/ state' = Promoted(b)
      BY <2>5 DEF IntegrateAtOnce, BeginIntegration, IntegrationAnswer, IntegrationPasses, IntegrationFails
    <3> QED
      BY <3>1 DEF Promoted
  <2>6. ASSUME NEW A \in SUBSET Defined, Amend(A) PROVE FALSE
    <3>1. state'[l] \in {state[l], "WAITING", "READY"}
      BY <1>t, <2>6 DEF Amend, Recomputed
    <3> QED
      BY <3>1
  <2>7. (\A x \in Leaf : ~RecordProgress(x)) /\ ~UNCHANGED vars
    BY DEF RecordProgress, vars
  <2> QED
    BY <2>2, <2>3, <2>4, <2>5, <2>6, <2>7 DEF Next, Defined
<1>2. PICK c \in Criterion, o \in Outcome : ReverifyConcludes(x, c, o)
  BY <1>1 DEF Reverify, BeginReverify, ReverifyCriterion
<1>3. x = l
  <2>1. CASE Move(x, "FAILED") \/ Move(x, "BLOCKED")
    BY <1>t, <2>1 DEF Move
  <2>2. CASE state' = Recomputed([state EXCEPT ![x] = "PARENT_REVERIFIED"], deps)
    <3>1. x # l => state'[l] \in {state[l], "READY"}
      BY <1>t, <2>2 DEF Recomputed
    <3> QED
      BY <3>1
  <2> QED
    BY <1>2, <2>1, <2>2 DEF ReverifyConcludes
<1> QED
  BY <1>t, <1>2, <1>3 DEF ReverifyConcludes

(* The operations on leaves neither integrate nor amend. *)
LEMMA LeafOnly ==
    ASSUME NEW l \in Leaf,
           \/ \E D \in SUBSET Leaf : DefineLeaf(l, D)
           \/ \E d \in Leaf : AddDependency(l, d)
           \/ StartLeaf(l) \/ SelfVerify(l) \/ Reverify(l)
           \/ Abandon(l) \/ Fail(l) \/ Block(l)
           \/ RecordUnproductive(l) \/ RecordProgress(l)
    PROVE  UNCHANGED <<integration, integrating, amendments>>
<1>1. CASE (\E D \in SUBSET Leaf : DefineLeaf(l, D)) \/ (\E d \in Leaf : AddDependency(l, d))
  BY <1>1 DEF DefineLeaf, AddDependency
<1>2. CASE StartLeaf(l) \/ SelfVerify(l) \/ Abandon(l) \/ Fail(l) \/ Block(l)
  BY <1>2 DEF StartLeaf, SelfVerify, Abandon, Fail, Block, GiveUpOn
<1>3. CASE Reverify(l)
  BY <1>3 DEF Reverify, BeginReverify, ReverifyCriterion, ReverifyConcludes
<1>4. CASE RecordUnproductive(l) \/ RecordProgress(l)
  BY <1>4 DEF RecordUnproductive, RecordProgress
<1> QED
  BY <1>1, <1>2, <1>3, <1>4

(* Integration begins, and ends well, on children that are verified; what  *)
(* it leaves verified is integrated.                                       *)
LEMMA IntegrationStep ==
    ASSUME [Next]_vars, NEW b \in Branch, TypeOK
    PROVE  /\ b \in integrating' => b \in integrating \/ (ChildrenVerified(b) /\ UNCHANGED <<state, checking>>)
           /\ integration'[b] = "VERIFIED" =>
                 \/ integration[b] = "VERIFIED"
                 \/ /\ ChildrenVerified(b) \/ b \in integrating
                    /\ state' = Promoted(b)
<1>t. integration \in [Branch -> {"PENDING", "VERIFIED", "FAILED"}]
  BY DEF TypeOK
<1> DEFINE Goal == /\ b \in integrating' => b \in integrating \/ (ChildrenVerified(b) /\ UNCHANGED <<state, checking>>)
                   /\ integration'[b] = "VERIFIED" =>
                         \/ integration[b] = "VERIFIED"
                         \/ /\ ChildrenVerified(b) \/ b \in integrating
                            /\ state' = Promoted(b)
<1>1. ASSUME NEW x \in Branch, IntegrateAtOnce(x) PROVE Goal
  BY <1>t, <1>1 DEF IntegrateAtOnce, IntegrationPasses, IntegrationFails
<1>2. ASSUME NEW x \in Branch, BeginIntegration(x) PROVE Goal
  BY <1>2 DEF BeginIntegration
<1>3. ASSUME NEW x \in Branch, NEW p \in BOOLEAN, IntegrationAnswer(x, p) PROVE Goal
  BY <1>t, <1>3 DEF IntegrationAnswer, IntegrationPasses, IntegrationFails
<1>4. CASE UNCHANGED <<integration, integrating>>
  BY <1>4
<1> QED
  <2>1. CASE \E x \in Branch : \/ IntegrateAtOnce(x) \/ BeginIntegration(x)
                                \/ \E p \in BOOLEAN : IntegrationAnswer(x, p)
    BY <1>1, <1>2, <1>3, <2>1
  <2>2. CASE (\E A \in SUBSET Defined : Amend(A)) \/ UNCHANGED vars
    BY <1>4, <2>2 DEF Amend, vars
  <2> HIDE DEF Goal
  <2> QED
    BY <1>4, <2>1, <2>2, LeafOnly DEF Next, Defined

LEMMA ComposedStep == TypeOK /\ Composed /\ [Next]_vars /\ amendments' = 0 => Composed'
<1> SUFFICES ASSUME TypeOK, Composed, [Next]_vars, amendments' = 0 PROVE Composed'
  OBVIOUS
<1>c. \A b \in Branch : Children[b] \subseteq Leaf
  OBVIOUS
<1>v. \A l \in Leaf : state[l] \in Verified => AtRest(l)
  BY DEF Composed, AtRest
<1>1. ASSUME NEW l \in Leaf, state'[l] \in Verified PROVE checking'[l] = NoCheck
  <2>1. CASE state[l] \in Verified
    BY <1>v, <2>1, AtRestStep DEF AtRest
  <2>2. CASE state[l] \notin Verified
    BY <1>1, <2>2, VerifiedRests
  <2> QED
    BY <2>1, <2>2
<1>2. ASSUME NEW b \in integrating', NEW l \in Children[b] PROVE AtRest(l)'
  <2>1. b \in Branch
    BY TypeStep DEF TypeOK
  <2>2. AtRest(l)
    BY <1>c, <1>v, <2>1, IntegrationStep DEF Composed, ChildrenVerified
  <2> QED
    BY <1>c, <2>1, <2>2, AtRestStep
<1>3. ASSUME NEW b \in Branch, integration'[b] = "VERIFIED", NEW l \in Children[b]
      PROVE  AtRest(l)' /\ state'[l] # "PARENT_REVERIFIED"
  <2>1. CASE integration[b] = "VERIFIED"
    BY <1>c, <2>1, AtRestStep DEF Composed
  <2>2. CASE (ChildrenVerified(b) \/ b \in integrating) /\ state' = Promoted(b)
    <3>1. AtRest(l)
      BY <1>c, <1>v, <2>2 DEF Composed, ChildrenVerified
    <3>2. state'[l] # "PARENT_REVERIFIED"
      BY <1>c, <2>2 DEF Promoted
    <3> QED
      BY <1>c, <3>1, <3>2, AtRestStep
  <2> QED
    BY <1>3, <2>1, <2>2, IntegrationStep
<1> QED
  BY <1>1, <1>2, <1>3 DEF Composed

(* Where every leaf of a branch is required, only amendments part the      *)
(* verdict of the integration oracle from the work it was about.           *)
THEOREM UnamendedComposes ==
    ASSUME \A b \in Branch : Children[b] \subseteq Required
    PROVE  Spec => []UnamendedIsIntegrated
<1> DEFINE IInv == TypeOK /\ (amendments = 0 => Composed)
<1>1. Init => IInv
  <2>1. Init => Composed
    BY DEF Init, Composed, Verified
  <2> QED
    BY <2>1, InitAll
<1>2. IInv /\ [Next]_vars => IInv'
  <2>1. ASSUME TypeOK, [Next]_vars, amendments' = 0 PROVE amendments = 0
    <3>1. UNCHANGED amendments \/ \E A \in SUBSET Defined : Amend(A)
      <4>1. ASSUME NEW b \in Branch, \/ IntegrateAtOnce(b) \/ BeginIntegration(b)
                                     \/ \E passed \in BOOLEAN : IntegrationAnswer(b, passed)
            PROVE  UNCHANGED amendments
        BY <4>1 DEF IntegrateAtOnce, BeginIntegration, IntegrationAnswer
      <4>2. CASE UNCHANGED vars
        BY <4>2 DEF vars
      <4> QED
        BY <2>1, <4>1, <4>2, LeafOnly DEF Next, Defined
    <3>2. \A A \in SUBSET Defined : ~Amend(A)
      BY <2>1 DEF Amend, TypeOK
    <3> QED
      BY <2>1, <3>1, <3>2
  <2> QED
    BY <2>1, TypeStep, ComposedStep
<1>3. IInv => UnamendedIsIntegrated
  <2> SUFFICES ASSUME TypeOK, Composed, Complete, NEW b \in IntegrationOracle, NEW l \in Children[b]
               PROVE  state[l] = "INTEGRATION_VERIFIED"
    BY DEF UnamendedIsIntegrated, CompleteMeansIntegrated
  <2>1. b \in Branch /\ l \in Leaf /\ l \in Required
    OBVIOUS
  <2>2. AtRest(l) /\ state[l] # "PARENT_REVERIFIED"
    BY <2>1 DEF Complete, Composed
  <2>3. l \in Defined
    BY <2>1, <2>2 DEF AtRest, Defined, Verified, Unhappy
  <2>4. state[l] \in Verified
    BY <2>1, <2>3 DEF Complete, Blocked
  <2> QED
    BY <2>2, <2>4 DEF Verified
<1> QED
  BY <1>1, <1>2, <1>3, PTL DEF Spec
=============================================================================
