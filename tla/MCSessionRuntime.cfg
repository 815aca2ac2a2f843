CONSTANTS
    a = a
    b = b
    q = q
    p = p
    Request = {a, b, q}
    Kind <- KindOf
    None = None
SPECIFICATION FairSpec
\* The delegated run ends: the instance stops with it.
CHECK_DEADLOCK FALSE
INVARIANT CardsAreLive
INVARIANT CardTellsOutcome
INVARIANT ChiefClaimsItsOwn
PROPERTY StoppedRunsEnd
