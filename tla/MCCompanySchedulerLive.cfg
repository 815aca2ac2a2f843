CONSTANTS
    Servers = {s, t}
    Coordinators = {c, d}
    Jobs = {h, q}
    Reviews = {}
    Chats = {h, q}
    Questions = {q}
    Workers = 2
    MaxDirection = 1
    MaxStalls = 1
    LongJobs = FALSE
    NONE = NONE
SPECIFICATION FairSpec
CHECK_DEADLOCK FALSE
PROPERTY QueuedIsServed
