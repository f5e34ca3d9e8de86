\* Two sales of the same holding: nothing fails, nothing crashes, no batch runs.
CONSTANTS
    w1 = w1
    w2 = w2
    Workers = {w1, w2}
    Batchers = {updater}
    Accounts = {a1}
    Stocks = {s1}
    Amounts = {2}
    Quantities = {1, 2}
    Prices = {1}
    OpeningCash = 2
    OpeningShares = 2
    MaxRequests = 2
    MaxFaults = 0
    MaxBatches = 0
    MaxCrashes = 0
SPECIFICATION Spec
CHECK_DEADLOCK FALSE
INVARIANT NoOversell
