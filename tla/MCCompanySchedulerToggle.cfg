CONSTANTS
    Servers = {s, t}
    Coordinators = {c, d}
    Jobs = {m}
    Reviews = {}
    Chats = {}
    Questions = {}
    Workers = 1
    MaxDirection = 1
    MaxStalls = 0
    LongJobs = TRUE
    NONE = NONE
SPECIFICATION Spec
CHECK_DEADLOCK FALSE
INVARIANT RunsOnce
