SPECIFICATION FairSpec
CONSTANTS
    Apps = {a1}
    Nobody = Nobody
    Faults = {}
    FillResults = {"S_OK"}
    ReceiveResults = {"S_OK"}
    FillTakesStateLock = TRUE
PROPERTIES
    StateChangeEnds
CHECK_DEADLOCK FALSE
