SPECIFICATION Spec
CONSTANTS
    Threads = {"app", "worker"}
    Worker = "worker"
    Modes = {FALSE}
    Faults = {}
    MaxFaults = 1
    MaxFaultsOverlapping = 0
INVARIANTS
    OneSession
