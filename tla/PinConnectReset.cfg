SPECIFICATION PinSpec
CONSTANTS
    Foreign = {"foreign"}
    Unsupported = {"YUY2"}
    Modes = {TRUE}
    AllocatorMayFail = FALSE
    Offers <- ReceiverOffers
PROPERTIES NullResets
