SPECIFICATION FairSpec
CONSTANTS
    Threads = {"app", "worker"}
    Worker = "worker"
    Modes = {TRUE, FALSE}
    Faults = {"Registry", "Init", "Login", "RealPlay", "Effect", "FrameSize", "Callback"}
    MaxFaults = 2
    MaxFaultsOverlapping = 1
INVARIANTS
    ConnectedOnce
    FrameIsWhole
PROPERTIES
    RetrySucceeds
