CONSTANTS
    Servers = {s, t}
    Coordinators = {c, d, e}
    Jobs = {m, r1, r2}
    Reviews = {r1, r2}
    Chats = {r1, r2}
    Questions = {}
    Workers = 1
    MaxDirection = 2
    MaxStalls = 0
    LongJobs = FALSE
    NONE = NONE
SPECIFICATION Spec
SYMMETRY Symmetry
CHECK_DEADLOCK FALSE
INVARIANT RunsOnce
INVARIANT RunningIsExecuted
INVARIANT ReviewIsOne
PROPERTY WritesUnderLease
PROPERTY IsWorkPool
