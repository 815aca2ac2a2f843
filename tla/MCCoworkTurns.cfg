CONSTANTS
    Agents = {a, b}
    Calls <- Actor
SPECIFICATION TurnsFairSpec
CHECK_DEADLOCK FALSE
INVARIANT OnlyNestedLockUp
INVARIANT NothingHeldAfterLoop
PROPERTY StopUnwinds
