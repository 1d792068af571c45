SPECIFICATION Spec
CONSTANTS
    Users = {ann, bob}
    FirstAdmin = ann
    Sessions = {s1, s2}
    ModeChoices = {0, 2}
INVARIANTS
    AdminRemains
PROPERTIES
    SendsAreAllowed
    AnnouncesCurrent
    ChangesAnnounced
CHECK_DEADLOCK FALSE
