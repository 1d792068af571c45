SPECIFICATION LiveSpec
CONSTANTS
    Items = {"view", "badge"}
    Timed = {"badge"}
    MaxVersion = 1
    MaxGeneration = 2
    MaxFailures = 2
    Horizon = 1
INVARIANTS
    DiffsFit
    StaleIsScheduled
PROPERTIES
    Converges
CHECK_DEADLOCK FALSE
