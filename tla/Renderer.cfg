SPECIFICATION Spec
CONSTANTS
    MaxAdvises = 2
    MaxTimers = 2
    KillSync = {TRUE, FALSE}
INVARIANT HoldsNothing
PROPERTIES CompleteIsLast ChangesEnd EosCompletes
