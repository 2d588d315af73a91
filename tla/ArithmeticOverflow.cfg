SPECIFICATION Spec
CONSTANTS
    WordBits = 2
    MAXLONG = 15
    Granularity = 8
INVARIANT OverflowIsCaught
CHECK_DEADLOCK FALSE
