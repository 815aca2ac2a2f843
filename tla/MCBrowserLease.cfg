CONSTANT Calls = {c1, c2, c3, c4}
SPECIFICATION FairSpec
INVARIANT ChainMoves
PROPERTY IsLock
PROPERTY EveryCallAnswered
\* Every call is made once: the instance ends.
CHECK_DEADLOCK FALSE
