CONSTANTS
    m = m
    n = n
    v = v
    w = w
    Pool = Pool
    Mission = {m, n}
    Worker = {w}
    Of <- OfMission
    PoolGrant = 3
    Asked <- AskedBudget
    Reserve <- HeldBack
    Cost = {1}
    Ceilings = {4}
    MaxRaises = 1
    MaxExtra = 1
    MaxCrashes = 2
SPECIFICATION FairSpec
INVARIANT SpendIsShared
INVARIANT LoopsHeedCharge
PROPERTY RaiseCovers
PROPERTY SpentMissionStops
\* The missions end.
CHECK_DEADLOCK FALSE
