\* Registrations while other threads insert; nothing fails or crashes.
CONSTANTS
    w1 = w1
    w2 = w2
    a1 = a1
    a2 = a2
    Workers = {w1, w2}
    Batchers = {updater}
    Accounts = {a1, a2}
    Passwords = {secret, none}
    NoPassword = none
    Amounts = {1}
    MaxRequests = 2
    MaxFaults = 0
    MaxBatches = 0
    MaxCrashes = 0
SYMMETRY Symmetry
SPECIFICATION Spec
CHECK_DEADLOCK FALSE
INVARIANT UserIdIsOwn
