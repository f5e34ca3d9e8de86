\* No symmetry: liveness properties are checked. The threads stop when the
\* bounds are used up.
CONSTANTS
    Batchers = {updater}
    Feed = updater
    Texts <- MCTexts
    Pages <- MCPages
    ByHand <- MCByHand
    Quotes = {5}
    BatchSize = 2
    MaxPasses = 1
    Ids <- MCIds
    Horizon = 2
    MaxCycles = 2
    MaxFailures = 1
SPECIFICATION FairSpec
CHECK_DEADLOCK FALSE
INVARIANTS
    TypeOK
    ListingWhole
    ShownCoverEachDay
    VerifiedInTime
    OneRowPerItem
PROPERTIES
    EventuallyVerified
    EveryItemStored
