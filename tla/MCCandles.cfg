\* Every choice of trading days among seven; an answer reaches over parts of
\* two or three weeks, and over two months. The calendar ends at MaxDay.
CONSTANTS
    WeekDays = 3
    MonthDays = 4
    Window = 4
    Shapes <- MCShapes
    MaxDay = 7
SPECIFICATION Spec
INVARIANTS
    TypeOK
    CandlesSummarise
    EachBarOnce
    CandlesFollowCalendar
    PartialOnlyAtEdges
