CONSTANTS
    Agents = {a, b}
    Calls <- Actor
SPECIFICATION TurnsFairSpec
CHECK_DEADLOCK FALSE
PROPERTY TimeLimitEndsHelper
