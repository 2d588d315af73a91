SPECIFICATION Spec
CONSTANTS
    Threads = {t1, t2, t3}
    Samples = {s1, s2}
    Counts = {1, 2}
    Sizes = {1}
    NoSample = NoSample
    MaxTimeouts = 1
    MaxShares = 1
INVARIANT AliveDuringReleaseBuffer
CHECK_DEADLOCK FALSE
