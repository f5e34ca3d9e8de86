\* Three workers, four requests, one crash. The system stops after the last one.
CONSTANTS
    w1 = w1
    w2 = w2
    w3 = w3
    Workers = {w1, w2, w3}
    MaxRequests = 4
    MaxCrashes = 1
SYMMETRY Symmetry
SPECIFICATION Spec
CHECK_DEADLOCK FALSE
INVARIANTS
    TypeOK
    OnlyOfRequestsMet
    AloneIsRight
    NothingLeftBehind
