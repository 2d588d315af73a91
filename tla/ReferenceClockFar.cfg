SPECIFICATION ClockSpec
CONSTANTS
    Packets = {p1, p2, p3, p4}
    CacheMax = 1
    Times = {3, 4}
    Periods = {0, 2}
    Deltas <- SomeDeltas
    MaxAdvises = 3
    MaxDeltas = 1
    Horizon = 5
    UintMax = 2
PROPERTIES AllAdvisesFire
