\* The updater alone, from an empty table: no news, no predictions, no failures.
CONSTANTS
    Batchers = {updater}
    Feed = updater
    Texts <- MCTexts
    Pages <- MCPages
    ByHand <- NoneByHand
    Quotes = {5}
    BatchSize = 2
    MaxPasses = 1
    Ids <- MCNoIds
    Horizon = 2
    MaxCycles = 0
    MaxFailures = 0
SPECIFICATION Spec
CHECK_DEADLOCK FALSE
INVARIANTS
    PricesArrive
