SPECIFICATION Spec
CONSTANTS
    Watches = {"unread"}
    NoWatch = "none"
    MaxControls = 3
    Inbox = 1
INVARIANTS
    GreetingFirst
    ActivatedIsChecked
PROPERTIES
    NoSnapshotAfterAck
    QuietAtEnd
    NeverRebinds
CHECK_DEADLOCK FALSE
