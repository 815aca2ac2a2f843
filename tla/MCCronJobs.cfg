CONSTANTS
    c = c
    m = m
    Job = {c, m}
    Maintenance = {m}
    LongJob = {c}
    Frequent = {c}
    Generations = 2
    MaxFaults = 2
    MaxEdits = 3
    MaxCrashes = 1
SPECIFICATION CronFairSpec
INVARIANT OneExecution
PROPERTY JobsAreServed
\* Nothing need be listed.
CHECK_DEADLOCK FALSE
