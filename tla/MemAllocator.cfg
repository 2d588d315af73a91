SPECIFICATION Spec
CONSTANTS
    Threads = {t1, t2, t3}
    Samples = {s1, s2}
    Counts = {0, 1, 2}
    Sizes = {1, 2}
    NoSample = NoSample
    MaxTimeouts = 1
    MaxShares = 2
SYMMETRY Symmetry
INVARIANTS
    BuffersAccounted
    DecommitOnce
    WaitersAreWoken
PROPERTIES
    ImplementsPool
CHECK_DEADLOCK FALSE
