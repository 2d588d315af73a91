SPECIFICATION Spec
CONSTANTS
    Modes <- SoundModes
    MaxItems = 3
    MaxList = 2
    MaxFlushes = 2
    MaxAtOnce = 2
    ResetAndFlush = FALSE
INVARIANTS TypeOK NoLostSignal FlushIsSeen
PROPERTIES ImplementsPipe FlushEnds
