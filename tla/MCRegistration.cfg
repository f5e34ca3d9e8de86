\* Registrations, password changes and deposits of two accounts, every schema.
\* The system stops once MaxRequests are served.
CONSTANTS
    w1 = w1
    w2 = w2
    a1 = a1
    a2 = a2
    Workers = {w1, w2}
    Batchers = {updater}
    Accounts = {a1, a2}
    Passwords = {secret, none}
    NoPassword = none
    Amounts = {1}
    MaxRequests = 3
    MaxFaults = 1
    MaxBatches = 1
    MaxCrashes = 1
SYMMETRY Symmetry
SPECIFICATION Spec
CHECK_DEADLOCK FALSE
INVARIANTS
    TypeOK
    OneOwner
    OwnerCanLogIn
    PursePerUser
    DepositsKept
