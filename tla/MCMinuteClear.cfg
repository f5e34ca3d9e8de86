\* One request after another; nothing fails and the updater sleeps.
CONSTANTS
    w1 = w1
    w2 = w2
    Workers = {w1, w2}
    Updater = updater
    DailyBars = 1
    LongBars = 2
    WeekDays = 2
    YearDays = 2
    MaxDay = 2
    MaxHigh = 1
    MaxRequests = 2
    MaxPasses = 0
    MaxFaults = 0
SPECIFICATION Spec
CHECK_DEADLOCK FALSE
PROPERTY OnlyMinuteLinesCleared
