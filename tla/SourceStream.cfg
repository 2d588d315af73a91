SPECIFICATION FairSpec
CONSTANTS
    Apps = {a1, a2}
    Nobody = Nobody
    Faults = {"Commit", "CreateThread"}
    FillResults = {"S_OK", "S_FALSE", "ERROR"}
    ReceiveResults = {"S_OK", "S_FALSE"}
    FillTakesStateLock = FALSE
INVARIANTS
    ThreadMatchesState
    QuietWhenStopped
    CommandsExpected
PROPERTIES
    StateChangeEnds
    StreamMoves
