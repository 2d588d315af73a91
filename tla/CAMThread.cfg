SPECIFICATION FairSpec
CONSTANTS
    Clients = {c1, c2, c3}
    Params = {"p", "q"}
    Nobody = Nobody
INVARIANTS
    OwnReply
PROPERTIES
    CallReturns
    ImplementsCall
