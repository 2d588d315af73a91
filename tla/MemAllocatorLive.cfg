SPECIFICATION FairSpec
CONSTANTS
    Threads = {t1, t2, t3}
    Samples = {s1}
    Counts = {1}
    Sizes = {1}
    NoSample = NoSample
    MaxTimeouts = 0
    MaxShares = 1
PROPERTIES
    DecommitEnds
CHECK_DEADLOCK FALSE
