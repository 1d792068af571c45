CONSTANTS
    Users = {"ann"}
    s1 = s1
    s2 = s2
    Sessions = {s1, s2}
    FirstRequest <- MCFirstRequest
    Requests <- MCRequests
    MaxId = 3
    BatchSize = 1
    MaxRecall = 2

SPECIFICATION Spec

SYMMETRY SessionSymmetry

INVARIANTS
    LastIsVisible
    CountsExact

PROPERTIES
    ReceiptsMonotonic
    ImplementsOnceStore

CHECK_DEADLOCK FALSE
