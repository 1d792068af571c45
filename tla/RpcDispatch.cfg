SPECIFICATION LiveSpec
CONSTANTS
    Ids = {"a", "b"}
    NoId = "none"
    Clients <- BothClients
    MaxBatch = 3
    InFlight = 1
    ControlQueue = 1
    ResultQueue = 1
    MaxCalls = 4
    MaxFrames = 3
INVARIANTS
    OutstandingExact
    HandshakeAlone
    IdsExclusive
    PendingExact
PROPERTIES
    AnsweredTogether
    ImplementsExchange
    RequestsSettle
    SuspendedCloses
    PermitsReturn
CHECK_DEADLOCK FALSE
