\* Two workers on one account and one stock, with a fault, a crash and a
\* background batch. The system stops once MaxRequests are served.
CONSTANTS
    w1 = w1
    w2 = w2
    Workers = {w1, w2}
    Batchers = {updater}
    Accounts = {a1}
    Stocks = {s1}
    Amounts = {2}
    Quantities = {1, 2}
    Prices = {1}
    OpeningCash = 2
    OpeningShares = 2
    MaxRequests = 3
    MaxFaults = 1
    MaxBatches = 1
    MaxCrashes = 1
SYMMETRY Symmetry
SPECIFICATION Spec
CHECK_DEADLOCK FALSE
INVARIANTS
    TypeOK
    CashReconciles
    SharesReconcile
    OverdraftOnlyByRace
    ShortOnlyByRace
    DamagePerFault
PROPERTY ImplementsLedger
