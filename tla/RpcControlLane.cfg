SPECIFICATION Spec
CONSTANTS
    Ids = {"a", "b"}
    NoId = "none"
    Clients <- ControlClients
    MaxBatch = 2
    InFlight = 1
    ControlQueue = 1
    ResultQueue = 1
    MaxCalls = 3
    MaxFrames = 2
INVARIANTS
    AdmittedControlFits
CHECK_DEADLOCK FALSE
