SPECIFICATION Spec
CONSTANTS
    Watches = {"unread"}
    NoWatch = "none"
    MaxControls = 3
    Inbox = 1
CHECK_DEADLOCK FALSE
INVARIANT EventsFollowIdentity
