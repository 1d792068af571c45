SPECIFICATION LiveSpec
CONSTANTS
    Watches = {"unread"}
    NoWatch = "none"
    MaxControls = 2
    Inbox = 1
PROPERTIES
    RevokedEnds
    LagCloses
    RegistryForgets
CHECK_DEADLOCK FALSE
