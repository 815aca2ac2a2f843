CONSTANTS
    a = a
    b = b
    c1 = c1
    c2 = c2
    c3 = c3
    None = None
    Run = {r1, r2, r3}
    Session <- OneSession
    Call <- TwoCalls
    Target <- TwoTargets
    Admitted = {"bad prelude"}
SPECIFICATION Spec
SYMMETRY Alike
INVARIANT RunningHasRunner
\* Every message is sent once and every run used once: the instance ends.
CHECK_DEADLOCK FALSE
