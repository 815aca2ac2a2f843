CONSTANTS
    Calls = {a, b, c}
    Streams = {b, c}
    TurnStreams = {}
    MaxRetries = 2
SPECIFICATION FairSpec
\* Every request is made once: the instance ends.
CHECK_DEADLOCK FALSE
INVARIANT SlotIsUsed
INVARIANT RetriesStartClean
PROPERTY RequestsEnd
