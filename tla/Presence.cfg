SPECIFICATION Spec
CONSTANTS
    Users = {"peer"}
    Peer = "peer"
    DayLength = 2
    Horizon = 5
    MaxErrors = 1
    Starts <- PolicyOrTime
    Capacity = 1
INVARIANTS
    ObservationsKept
    DaysAreCounted
    HiddenIsScheduled
PROPERTIES
    SeenNeverGoesBack
CHECK_DEADLOCK FALSE
