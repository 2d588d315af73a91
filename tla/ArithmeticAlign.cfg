SPECIFICATION Spec
CONSTANTS
    WordBits = 2
    MAXLONG = 15
    Granularity = 4
INVARIANT AnyPositiveHolds
CHECK_DEADLOCK FALSE
