SPECIFICATION Spec
CONSTANTS
    Modes <- LooseModes
    MaxItems = 3
    MaxList = 2
    MaxFlushes = 2
    MaxAtOnce = 2
    ResetAndFlush = FALSE
INVARIANT BatchEmptyUnlessExact
