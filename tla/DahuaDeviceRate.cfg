SPECIFICATION Spec
CONSTANTS
    Threads = {"app", "worker"}
    Worker = "worker"
    Modes = {TRUE}
    Faults = {}
    MaxFaults = 1
    MaxFaultsOverlapping = 0
INVARIANTS
    RateIsNotZero
