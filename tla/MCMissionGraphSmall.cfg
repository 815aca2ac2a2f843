CONSTANTS
    a = a
    b = b
    m = m
    Leaf <- Leaves2
    Required <- Leaves2
    Overlap <- PairOverlap
    k1 = k1
    k2 = k2
    Criterion <- OneCriterion
    Criteria <- OneEach
    Branch = {m}
    Children <- BranchAB
    IntegrationOracle = {m}
    MaxAttempts = 1
    ForwardReferences = FALSE
    MaxAmendments = 1
CHECK_DEADLOCK FALSE
SPECIFICATION Spec
PROPERTY AbandonedNeverSucceeds
\* In its place: INVARIANT CompleteMeansIntegrated,
\* PROPERTY FailedBlocksDependents, INVARIANT ObsoleteCannotComplete.
