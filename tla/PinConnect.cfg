SPECIFICATION PinSpec
CONSTANTS
    Foreign = {"foreign"}
    Unsupported = {"YUY2"}
    Modes = {TRUE, FALSE}
    AllocatorMayFail = TRUE
    Offers <- ReceiverOffers
INVARIANTS NoHalfConnection BuffersFit
PROPERTIES TypeSticks
