CONSTANTS
    p = p
    q = q
    r = r
    p1 = p1
    p2 = p2
    q1 = q1
    q2 = q2
    r1 = r1
    Process = {p, q}
    Call = {p1, p2, q1, q2}
    Home <- HomeOf
    Dying = {p, q}
    None = None
SPECIFICATION FairSpec
\* Every call is made once: the instance ends.
CHECK_DEADLOCK FALSE
PROPERTY IsLock
PROPERTY CallsEnd
