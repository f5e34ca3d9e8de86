\* No symmetry: a liveness property is checked. The system stops when the
\* bounds are used up.
CONSTANTS
    Batchers = {updater, kline}
    Workers = {w1, w2}
    RowsPerBatch = 2
    MaxBatches = 2
    MaxWrites = 2
    MaxRefused = 1
    MaxCrashes = 1
SPECIFICATION FairSpec
CHECK_DEADLOCK FALSE
INVARIANTS
    TypeOK
    DurableOutsideBatches
    AnsweredIsSaved
    BatchAllOrNothing
PROPERTY EventuallySaved
