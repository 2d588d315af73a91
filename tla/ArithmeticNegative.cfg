SPECIFICATION Spec
CONSTANTS
    WordBits = 2
    MAXLONG = 15
    Granularity = 4
INVARIANT NegativeHolds
CHECK_DEADLOCK FALSE
