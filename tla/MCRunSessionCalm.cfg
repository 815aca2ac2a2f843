CONSTANTS
    a = a
    b = b
    c1 = c1
    c2 = c2
    c3 = c3
    None = None
    Run = {r1, r2, r3}
    Session <- MCSession
    Call <- MCCall
    Target <- MCTarget
    Admitted = {}
SPECIFICATION FairSpec
INVARIANT LockedRunsExclusive
INVARIANT RunningHasRunner
INVARIANT WaitingHasTimer
PROPERTY StopSticks
PROPERTY AllSettle
\* Every message is sent once and every run used once: the instance ends.
CHECK_DEADLOCK FALSE
