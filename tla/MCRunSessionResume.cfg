CONSTANTS
    a = a
    b = b
    c1 = c1
    c2 = c2
    c3 = c3
    None = None
    Run = {r1, r2, r3, r4}
    Session <- MCSession
    Call <- MCCall
    Target <- MCTarget
    Admitted = {}
SPECIFICATION Spec
SYMMETRY Alike
INVARIANT OneResume
\* Every message is sent once and every run used once: the instance ends.
CHECK_DEADLOCK FALSE
