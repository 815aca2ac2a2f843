---------------------------- MODULE MissionGraph ----------------------------
(***************************************************************************)
(* MissionGraph: the execution tree of a mission.  Leaves are pieces of    *)
(* work with dependencies and an owned scope; a specialist reports a leaf, *)
(* the parent re-runs its oracles, a branch re-runs an integration oracle, *)
(* and the audit says whether the mission is complete.                     *)
(*                                                                         *)
(* parentReverify and verifyIntegration await their oracles.  Every other  *)
(* operation may run during such an await; the code that follows it does   *)
(* not look at the state again.                                            *)
(*                                                                         *)
(* Criteria are names.  A criterion is satisfied when it is linked to      *)
(* passed, fresh evidence; "obsolete" is a satisfied criterion whose       *)
(* evidence comes from a run that began before the last amendment of the   *)
(* leaf, which the code cannot tell from "current".                        *)
(***************************************************************************)
EXTENDS Naturals, FiniteSets

CONSTANTS
    Leaf,               \* ids a leaf may be defined with
    Required,           \* the leaves whose definition says `required`
    Overlap,            \* pairs of leaves whose scopes share a path
    Criterion,
    Criteria,           \* the acceptance criteria of each leaf
    Branch,             \* the defined branches
    Children,           \* leafIds of each branch
    IntegrationOracle,  \* the branches with an integration verification
    MaxAttempts,        \* maxAttempts of recordRecovery
    ForwardReferences,  \* may a leaf be defined before its dependencies?
    MaxAmendments       \* bound: amendments of one mission

ASSUME CriteriaAssumption == Criteria \in [Leaf -> SUBSET Criterion \ {{}}]
ASSUME RequiredAssumption == Required \subseteq Leaf
ASSUME OverlapAssumption ==
    /\ Overlap \subseteq Leaf \X Leaf
    /\ \A p \in Overlap : <<p[2], p[1]>> \in Overlap
ASSUME ChildrenAssumption == Children \in [Branch -> SUBSET Leaf] /\ IntegrationOracle \subseteq Branch
ASSUME BoundsAssumption == MaxAttempts \in Nat /\ MaxAmendments \in Nat

VARIABLES
    state,          \* LeafState of each leaf, "undefined" before defineLeaf
    deps,           \* leaf.dependencies
    inFlight,       \* the leaves that hold their scope
    satisfied,      \* the criteria of each leaf: "no", "current", "obsolete"
    attempts,       \* leaf.recoveryAttempts
    checking,       \* the parentReverify call in progress on each leaf
    integration,    \* branch.integrationState
    integrating,    \* the branches whose integration oracle is running
    amendments      \* how many amendments were made

vars == <<state, deps, inFlight, satisfied, attempts, checking, integration, integrating, amendments>>

Verified == {"PARENT_REVERIFIED", "INTEGRATION_VERIFIED"}
Unhappy == {"FAILED", "BLOCKED", "ABANDONED"}
LeafState == {"undefined", "WAITING", "READY", "IN_FLIGHT", "SELF_VERIFIED"} \cup Verified \cup Unhappy

NoCheck == [open |-> {}, refuted |-> FALSE, unconfirmed |-> FALSE, amended |-> FALSE]
Check == [open : SUBSET Criterion, refuted : BOOLEAN, unconfirmed : BOOLEAN, amended : BOOLEAN]

Defined == {l \in Leaf : state[l] # "undefined"}

TypeOK ==
    /\ state \in [Leaf -> LeafState]
    /\ deps \in [Leaf -> SUBSET Leaf]
    /\ inFlight \in SUBSET Leaf
    /\ satisfied \in [Leaf -> [Criterion -> {"no", "current", "obsolete"}]]
    /\ attempts \in [Leaf -> Nat]
    /\ checking \in [Leaf -> Check]
    /\ integration \in [Branch -> {"PENDING", "VERIFIED", "FAILED"}]
    /\ integrating \in SUBSET Branch
    /\ amendments \in Nat

Init ==
    /\ state = [l \in Leaf |-> "undefined"]
    /\ deps = [l \in Leaf |-> {}]
    /\ inFlight = {}
    /\ satisfied = [l \in Leaf |-> [c \in Criterion |-> "no"]]
    /\ attempts = [l \in Leaf |-> 0]
    /\ checking = [l \in Leaf |-> NoCheck]
    /\ integration = [b \in Branch |-> "PENDING"]
    /\ integrating = {}
    /\ amendments = 0

-----------------------------------------------------------------------------
(* Slip: the report of the specialist is enough for the dependents. *)
RecomputedOnReport(s, d) ==
    [l \in Leaf |-> IF s[l] = "WAITING" /\ \A x \in d[l] : s[x] \in Verified \cup {"SELF_VERIFIED"}
                    THEN "READY" ELSE s[l]]

(* recomputeReadiness() over the states s and the dependencies d. *)
Recomputed(s, d) ==
    [l \in Leaf |-> IF s[l] = "WAITING" /\ \A x \in d[l] : s[x] \in Verified THEN "READY" ELSE s[l]]

(* transition(leaf, to) *)
Move(l, to) ==
    /\ state' = [state EXCEPT ![l] = to]
    /\ inFlight' = IF to = "IN_FLIGHT" THEN inFlight \cup {l} ELSE inFlight \ {l}

DefineLeaf(l, D) ==
    /\ l \notin Defined
    /\ deps' = [deps EXCEPT ![l] = D]
    /\ state' = Recomputed([state EXCEPT ![l] = "WAITING"], deps')
    /\ UNCHANGED <<inFlight, satisfied, attempts, checking, integration, integrating, amendments>>

ClosedUnderDeps(S) == \A x \in S : deps[x] \subseteq S

(* Slip: the search starts at the wrong end of the edge. *)
WouldCycleForward(from, to) ==
    \A S \in SUBSET Leaf : from \in S /\ ClosedUnderDeps(S) => to \in S

(* wouldCycle(from, to): is `from` reachable from `to` along dependencies? *)
WouldCycle(from, to) ==
    \A S \in SUBSET Leaf : to \in S /\ ClosedUnderDeps(S) => from \in S

AddDependency(l, d) ==
    /\ {l, d} \subseteq Defined
    /\ d \notin deps[l]
    /\ ~WouldCycle(l, d)
    /\ deps' = [deps EXCEPT ![l] = @ \cup {d}]
    /\ LET back == state[d] \notin Verified /\ state[l] \in {"READY", "WAITING"}
       IN  state' = Recomputed(IF back THEN [state EXCEPT ![l] = "WAITING"] ELSE state, deps')
    /\ UNCHANGED <<inFlight, satisfied, attempts, checking, integration, integrating, amendments>>

(* Slip: the scope of the leaf is not compared with those in flight. *)
StartLeafUnowned(l) ==
    /\ state[l] = "READY"
    /\ Move(l, "IN_FLIGHT")
    /\ UNCHANGED <<deps, satisfied, attempts, checking, integration, integrating, amendments>>

StartLeaf(l) ==
    /\ state[l] = "READY"
    /\ \A other \in inFlight : <<l, other>> \notin Overlap
    /\ Move(l, "IN_FLIGHT")
    /\ UNCHANGED <<deps, satisfied, attempts, checking, integration, integrating, amendments>>

SelfVerify(l) ==
    /\ state[l] = "IN_FLIGHT"
    /\ Move(l, "SELF_VERIFIED")
    /\ UNCHANGED <<deps, satisfied, attempts, checking, integration, integrating, amendments>>

-----------------------------------------------------------------------------
(* parentReverify() up to its first await.  One call per leaf at a time. *)
BeginReverify(l) ==
    /\ state[l] = "SELF_VERIFIED"
    /\ checking[l] = NoCheck
    /\ checking' = [checking EXCEPT ![l].open = Criteria[l]]
    /\ UNCHANGED <<state, deps, inFlight, satisfied, attempts, integration, integrating, amendments>>

(* What the call knows after criterion c: refuted by a run that failed, or *)
(* unconfirmed (no runner, an oracle too weak or rejected).                *)
Answered(l, c, outcome) ==
    [checking[l] EXCEPT !.open = @ \ {c},
                        !.refuted = @ \/ outcome = "fail",
                        !.unconfirmed = @ \/ outcome = "unconfirmed"]

Credit(l, c, outcome) ==
    [satisfied EXCEPT ![l][c] =
        CASE outcome = "fail" -> "no"
          [] outcome = "pass" -> IF checking[l].amended THEN "obsolete" ELSE "current"
          [] OTHER -> @]

ReverifyCriterion(l, c, outcome) ==
    /\ c \in checking[l].open
    /\ checking[l].open # {c}
    /\ checking' = [checking EXCEPT ![l] = Answered(l, c, outcome)]
    /\ satisfied' = Credit(l, c, outcome)
    /\ UNCHANGED <<state, deps, inFlight, attempts, integration, integrating, amendments>>

(* Slip: a pass does not recompute the readiness of the dependents. *)
ReverifyConcludesAlone(l, c, outcome) ==
    /\ checking[l].open = {c}
    /\ checking' = [checking EXCEPT ![l] = NoCheck]
    /\ satisfied' = Credit(l, c, outcome)
    /\ LET done == Answered(l, c, outcome)
       IN  Move(l, IF done.refuted THEN "FAILED"
                   ELSE IF done.unconfirmed THEN "BLOCKED" ELSE "PARENT_REVERIFIED")
    /\ UNCHANGED <<deps, attempts, integration, integrating, amendments>>

(* The last answer and the transition that follows it. *)
ReverifyConcludes(l, c, outcome) ==
    /\ checking[l].open = {c}
    /\ checking' = [checking EXCEPT ![l] = NoCheck]
    /\ satisfied' = Credit(l, c, outcome)
    /\ LET done == Answered(l, c, outcome)
       IN  IF done.refuted THEN Move(l, "FAILED")
           ELSE IF done.unconfirmed THEN Move(l, "BLOCKED")
           ELSE /\ state' = Recomputed([state EXCEPT ![l] = "PARENT_REVERIFIED"], deps)
                /\ inFlight' = inFlight \ {l}
    /\ UNCHANGED <<deps, attempts, integration, integrating, amendments>>

-----------------------------------------------------------------------------
ChildrenVerified(b) == \A l \in Children[b] : state[l] \in Verified

Promoted(b) ==
    [l \in Leaf |-> IF l \in Children[b] /\ state[l] = "PARENT_REVERIFIED" THEN "INTEGRATION_VERIFIED" ELSE state[l]]

IntegrationPasses(b) ==
    /\ integration' = [integration EXCEPT ![b] = "VERIFIED"]
    /\ state' = Promoted(b)

IntegrationFails(b) ==
    /\ integration' = [integration EXCEPT ![b] = "FAILED"]
    /\ UNCHANGED state

(* verifyIntegration() when it returns without an oracle run. *)
IntegrateAtOnce(b) ==
    /\ \/ ~ChildrenVerified(b) /\ IntegrationFails(b)
       \/ ChildrenVerified(b) /\ b \notin IntegrationOracle /\ IntegrationPasses(b)
       \/ b \in IntegrationOracle /\ IntegrationFails(b)      \* no runner
    /\ UNCHANGED <<deps, inFlight, satisfied, attempts, checking, integrating, amendments>>

BeginIntegration(b) ==
    /\ ChildrenVerified(b)
    /\ b \in IntegrationOracle \ integrating
    /\ integrating' = integrating \cup {b}
    /\ UNCHANGED <<state, deps, inFlight, satisfied, attempts, checking, integration, amendments>>

IntegrationAnswer(b, passed) ==
    /\ b \in integrating
    /\ integrating' = integrating \ {b}
    /\ IF passed THEN IntegrationPasses(b) ELSE IntegrationFails(b)
    /\ UNCHANGED <<deps, inFlight, satisfied, attempts, checking, amendments>>

-----------------------------------------------------------------------------
(* abandon(), fail() and block(): refused on verified work. *)
GiveUpOn(l, to) ==
    /\ l \in Defined
    /\ state[l] \notin Verified
    /\ Move(l, to)
    /\ UNCHANGED <<deps, satisfied, attempts, checking, integration, integrating, amendments>>

Abandon(l) == GiveUpOn(l, "ABANDONED")
Fail(l) == GiveUpOn(l, "FAILED")
Block(l) == GiveUpOn(l, "BLOCKED")

(* Slip: the attempt that reaches the limit does not count. *)
RecordUnproductiveLate(l) ==
    /\ l \in Defined
    /\ attempts[l] <= MaxAttempts
    /\ attempts' = [attempts EXCEPT ![l] = @ + 1]
    /\ IF attempts[l] + 1 > MaxAttempts /\ state[l] # "ABANDONED" THEN Move(l, "BLOCKED")
       ELSE UNCHANGED <<state, inFlight>>
    /\ UNCHANGED <<deps, satisfied, checking, integration, integrating, amendments>>

(* recordRecovery(id, false); the count is capped one past its last effect. *)
RecordUnproductive(l) ==
    /\ l \in Defined
    /\ attempts[l] <= MaxAttempts
    /\ attempts' = [attempts EXCEPT ![l] = @ + 1]
    /\ IF state[l] = "BLOCKED" /\ attempts[l] + 1 > MaxAttempts THEN Move(l, "ABANDONED")
       ELSE IF attempts[l] + 1 >= MaxAttempts /\ state[l] # "ABANDONED" THEN Move(l, "BLOCKED")
       ELSE UNCHANGED <<state, inFlight>>
    /\ UNCHANGED <<deps, satisfied, checking, integration, integrating, amendments>>

RecordProgress(l) ==
    /\ l \in Defined
    /\ attempts' = [attempts EXCEPT ![l] = 0]
    /\ UNCHANGED <<state, deps, inFlight, satisfied, checking, integration, integrating, amendments>>

(* amend(summary, affected) *)
Amend(affected) ==
    LET back == {l \in affected \cap Defined : state[l] \notin Unhappy}
    IN  /\ amendments < MaxAmendments
        /\ amendments' = amendments + 1
        /\ satisfied' = [l \in Leaf |-> IF l \in affected THEN [c \in Criterion |-> "no"] ELSE satisfied[l]]
        /\ state' = Recomputed([l \in Leaf |-> IF l \in back THEN "WAITING" ELSE state[l]], deps)
        /\ inFlight' = inFlight \ back
        /\ checking' = [l \in Leaf |-> IF l \in affected /\ checking[l] # NoCheck
                                       THEN [checking[l] EXCEPT !.amended = TRUE] ELSE checking[l]]
        /\ UNCHANGED <<deps, attempts, integration, integrating>>

-----------------------------------------------------------------------------
Outcome == {"pass", "fail", "unconfirmed"}

Reverify(l) ==
    \/ BeginReverify(l)
    \/ \E c \in Criterion, o \in Outcome : ReverifyCriterion(l, c, o) \/ ReverifyConcludes(l, c, o)

Next ==
    \/ \E l \in Leaf :
        \/ \E D \in SUBSET (IF ForwardReferences THEN Leaf \ {l} ELSE Defined) : DefineLeaf(l, D)
        \/ \E d \in Leaf : AddDependency(l, d)
        \/ StartLeaf(l) \/ SelfVerify(l) \/ Reverify(l)
        \/ Abandon(l) \/ Fail(l) \/ Block(l)
        \/ RecordUnproductive(l) \/ RecordProgress(l)
    \/ \E b \in Branch :
        \/ IntegrateAtOnce(b) \/ BeginIntegration(b)
        \/ \E passed \in BOOLEAN : IntegrationAnswer(b, passed)
    \/ \E affected \in SUBSET Defined \ {{}} : Amend(affected)

Spec == Init /\ [][Next]_vars

(* The dispatcher starts what it can, specialists report, oracles answer.  *)
FairSpec ==
    /\ Spec
    /\ \A l \in Leaf : WF_vars(StartLeaf(l)) /\ WF_vars(SelfVerify(l)) /\ WF_vars(Reverify(l))

-----------------------------------------------------------------------------
(* audit().complete with the fingerprint the evidence was recorded for *)
Blocked(l) == l \in Required /\ (state[l] \notin Verified \/ \E c \in Criteria[l] : satisfied[l][c] = "no")

Complete ==
    /\ \A l \in Defined : ~Blocked(l)
    /\ \A b \in Branch : integration[b] # "FAILED"
    /\ \A b \in IntegrationOracle : integration[b] = "VERIFIED"

(* Two leaves whose scopes overlap are never in flight together, however   *)
(* leaves are amended, given up or verified in between, and the scopes     *)
(* held are exactly those of the leaves in flight: none leaks.             *)
OwnershipInv ==
    /\ inFlight = {l \in Leaf : state[l] = "IN_FLIGHT"}
    /\ \A l, other \in inFlight : l # other => <<l, other>> \notin Overlap

(* A leaf gets READY only when all its dependencies are verified after the *)
(* same step, also when one operation moves it and its dependencies.       *)
ReadyOnVerifiedDeps ==
    [][\A l \in Leaf :
        state'[l] = "READY" /\ state[l] # "READY" => \A d \in deps'[l] : state'[d] \in Verified]_vars

(* wouldCycle keeps the graph acyclic when leaves are defined after what   *)
(* they depend on: every group of leaves has one that waits for none of    *)
(* the group.                                                              *)
Acyclic ==
    \A S \in SUBSET Leaf : S # {} => \E l \in S : deps[l] \cap S = {}

(* No deadlock of dependencies: while leaves wait, one of them waits for a *)
(* leaf that is ready, at work or given up, so the mission can go on or    *)
(* its caller has something to give up.                                    *)
WaitingIsGrounded ==
    \A l \in Leaf : state[l] = "WAITING" =>
        \E x, d \in Leaf :
            /\ state[x] = "WAITING" /\ d \in deps[x]
            /\ state[d] \in {"READY", "IN_FLIGHT", "SELF_VERIFIED"} \cup Unhappy

(* recordRecovery: "BLOCKED (then ABANDONED on a further unproductive      *)
(* attempt) instead of looping forever": no unproductive attempt past the  *)
(* limit leaves a leaf at work, whatever happened to it in the meantime.   *)
RecoveryStops ==
    [][\A l \in Leaf :
        attempts'[l] > attempts[l] /\ attempts'[l] >= MaxAttempts => state'[l] \in Unhappy]_vars

(* Nobody waits for ever on verified work: once definitions, amendments    *)
(* and give-ups end, every leaf is settled or waits for one that is not    *)
(* verified.                                                               *)
MissionSettles ==
    <>[](\A l \in Defined :
            \/ state[l] \in Verified \cup Unhappy
            \/ state[l] = "WAITING" /\ \E d \in deps[l] : state[d] \notin Verified)

-----------------------------------------------------------------------------
(* "An abandoned REQUIRED leaf can never silently become success."         *)
AbandonedNeverSucceeds ==
    [][\A l \in Required : state[l] = "ABANDONED" => state'[l] \notin Verified]_vars

(* What holds of it: abandon(), fail() and block() are final on a leaf     *)
(* that nobody re-verifies at that time, amendments included.              *)
GivenUpStays ==
    [][\A l \in Leaf :
        state[l] \in Unhappy /\ checking[l] = NoCheck => state'[l] \in Unhappy /\ checking'[l] = NoCheck]_vars

(* A complete mission composes as it now is: "A collection of individually-*)
(* passing leaves does NOT automatically compose - the integration oracle  *)
(* is the authority", so every child was covered by its last pass.         *)
CompleteMeansIntegrated ==
    Complete => \A b \in IntegrationOracle : \A l \in Children[b] : state[l] = "INTEGRATION_VERIFIED"

(* What holds of it: a mission whose leaves are required composes when it  *)
(* is complete, as long as it was not amended.                             *)
UnamendedIsIntegrated == amendments = 0 => CompleteMeansIntegrated

(* "A failed leaf propagates failure to its parent branch and blocks       *)
(* dependents": nobody is started on top of a failed dependency.           *)
FailedBlocksDependents ==
    [][\A l \in Leaf :
        l \in inFlight' \ inFlight => \A d \in deps[l] : state[d] # "FAILED"]_vars

(* "Obsolete evidence cannot satisfy the new requirement."                 *)
ObsoleteCannotComplete ==
    Complete => \A l \in Required : \A c \in Criteria[l] : satisfied[l][c] # "obsolete"
=============================================================================
