\* One account with a listed stock and one that has no row in stocks. A fault
\* and a crash may fall into the view.
CONSTANTS
    w1 = w1
    w2 = w2
    Workers = {w1, w2}
    Batchers = {updater}
    Accounts = {a1}
    Stocks = {s1, s2}
    Listed = {s1}
    MarketPrice = 2
    Amounts = {2}
    Quantities = {1}
    Prices = {1, 2}
    OpeningCash = 3
    OpeningShares = 2
    MaxRequests = 2
    MaxFaults = 1
    MaxBatches = 0
    MaxCrashes = 1
    MaxViews = 1
SYMMETRY Symmetry
SPECIFICATION ViewSpec
CHECK_DEADLOCK FALSE
INVARIANTS
    ViewTypeOK
    TotalWithinOverlap
