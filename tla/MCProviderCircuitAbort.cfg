CONSTANTS
    Calls = {a, b, c, d}
    Streams = {c}
    TurnStreams = {}
    MaxRetries = 1
SPECIFICATION Spec
CHECK_DEADLOCK FALSE
INVARIANT OneProbe
