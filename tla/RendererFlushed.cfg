\* A flush while the first sample is in Receive; the threads may stop here.
SPECIFICATION Spec
CONSTANTS
    MaxAdvises = 2
    MaxTimers = 1
    KillSync = {TRUE}
INVARIANT FlushedIsIntermediate
