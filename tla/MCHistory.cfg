\* Three days in weeks of two, two prices; a fault. The system stops when the
\* bounds are used up.
CONSTANTS
    w1 = w1
    w2 = w2
    Workers = {w1, w2}
    Updater = updater
    DailyBars = 1
    LongBars = 2
    WeekDays = 2
    YearDays = 2
    MaxDay = 3
    MaxHigh = 2
    MaxRequests = 2
    MaxPasses = 1
    MaxFaults = 1
SYMMETRY Symmetry
SPECIFICATION Spec
CHECK_DEADLOCK FALSE
INVARIANTS
    TypeOK
    AnswersWhatItStored
    HighFollowsSeries
PROPERTY BarsOnlyFreshen
