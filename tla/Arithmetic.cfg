SPECIFICATION Spec
CONSTANTS
    WordBits = 2
    MAXLONG = 15
    Granularity = 8
INVARIANTS MulDivExact AllocHoldsBuffers FrameIsPlaced
CHECK_DEADLOCK FALSE
