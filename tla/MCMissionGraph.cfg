CONSTANTS
    a = a
    b = b
    m = m
    Leaf <- Leaves2
    Required <- Leaves2
    Overlap <- PairOverlap
    k1 = k1
    k2 = k2
    Criterion <- TwoCriteria
    Criteria <- TwoForA
    Branch = {m}
    Children <- BranchAB
    IntegrationOracle = {m}
    MaxAttempts = 1
    ForwardReferences = FALSE
    MaxAmendments = 1
SPECIFICATION FairSpec
INVARIANT OwnershipInv
INVARIANT Acyclic
PROPERTY ReadyOnVerifiedDeps
PROPERTY RecoveryStops
PROPERTY MissionSettles
\* A mission that is verified or blocked offers no further operation.
CHECK_DEADLOCK FALSE
