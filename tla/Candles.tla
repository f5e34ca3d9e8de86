------------------------------- MODULE Candles -------------------------------
(***************************************************************************)
(* fetch_kline for a weekly or monthly request: the bars of the quotes     *)
(* service put together into candles, one turn of the loop at a time, and  *)
(* the rows of stock_history the candles of successive requests pile up    *)
(* in.                                                                     *)
(*                                                                         *)
(* A stock has bars for its trading days only; the others are holidays of  *)
(* the exchange or days it is suspended.  The service returns the last     *)
(* Window bars, newest first, and the function turns them around.  A bar's *)
(* opening and closing price are named by its day and its volume is the    *)
(* number of the day; its high and low are numbers to compare.             *)
(***************************************************************************)
EXTENDS Sequences, SequencesExt, Ordering

CONSTANTS
    WeekDays, MonthDays,   \* the calendar, shortened
    Window,                \* bars the service returns
    Shapes,                \* highs and lows a bar may have
    MaxDay                 \* bound: days that pass

ASSUME CalendarAssumption == {WeekDays, MonthDays, Window, MaxDay} \subseteq Nat \ {0}
ASSUME ShapesAssumption == Shapes \subseteq {h \in [high : Int, low : Int] : h.low <= h.high}

VARIABLES
    type,       \* what all requests of this behaviour ask for
    shape,      \* [trading days -> Shapes]
    today,
    pc,         \* "idle", "loop", "store"
    bars,       \* of result, the bars the loop has still to look at
    cur,        \* the candle being put together, as a sequence of at most one
    agg,        \* the candles finished
    rows,       \* stock_history: the candles stored, at most one for each date
    answer,     \* days of the bars of the request under way
    firsts, lasts  \* first and last days of the answers so far

request == <<pc, bars, cur, agg, answer>>
vars == <<type, shape, today, request, rows, firsts, lasts>>

Days == 1 .. MaxDay
TradingDays == DOMAIN shape
Week(d) == (d - 1) \div WeekDays
Month(d) == (d - 1) \div MonthDays

(* What the service has on the day. *)
Bars ==
    LET past == {d \in TradingDays : d <= today}
    IN  {d \in past : Cardinality({e \in past : e > d}) < Window}

Bar(d) == [date |-> d, open |-> d, close |-> d,
           high |-> shape[d].high, low |-> shape[d].low, volume |-> d]

(* Faulty variants of the operators below: weeks start on their second day; a
   weekly candle also ends with the month; only the last bar's volume counts. *)
IsTuesday(d) == (d - 1) % WeekDays = 1
SplitsAtMonths(c, b) ==
    Month(c.date) # Month(b.date) \/ (type = "weekly" /\ b.date % WeekDays = 1)
MergedLastVolume(c, b) ==
    [c EXCEPT !.high = Max({@, b.high}), !.low = Min({@, b.low}),
              !.close = b.close, !.volume = b.volume]

(* tm_wday == 1 *)
IsMonday(d) == (d - 1) % WeekDays = 0

(* Does bar b open a new candle after candle c? c.date is that of its first bar. *)
Splits(c, b) ==
    IF type = "weekly" THEN IsMonday(b.date) ELSE Month(c.date) # Month(b.date)

Merged(c, b) ==
    [c EXCEPT !.high = Max({@, b.high}), !.low = Min({@, b.low}),
              !.close = b.close, !.volume = @ + b.volume]

-----------------------------------------------------------------------------
Init ==
    /\ type \in {"weekly", "monthly"}
    /\ \E open \in SUBSET Days \ {{}} : shape \in [open -> Shapes]
    /\ today = 1
    /\ pc = "idle" /\ bars = <<>> /\ cur = <<>> /\ agg = <<>> /\ answer = {}
    /\ rows = {} /\ firsts = {} /\ lasts = {}

(* A day that passes during a request changes nothing the request still reads. *)
NextDay ==
    /\ pc = "idle" /\ today < MaxDay
    /\ today' = today + 1
    /\ UNCHANGED <<type, shape, request, rows, firsts, lasts>>

(* The answer is parsed and turned around, and cur takes its first bar. No
   answer, or one that is not an array of bars, ends the request and changes
   nothing; an empty array ends the process, at result[0]. *)
Fetch ==
    /\ pc = "idle" /\ Bars # {}
    /\ LET result == InOrder(Bars)
       IN  /\ cur' = <<Bar(result[1])>>
           /\ bars' = [i \in 1 .. Len(result) - 1 |-> Bar(result[i + 1])]
    /\ pc' = "loop"
    /\ answer' = Bars
    /\ firsts' = firsts \cup {Min(Bars)} /\ lasts' = lasts \cup {Max(Bars)}
    /\ UNCHANGED <<type, shape, today, agg, rows>>

Split ==
    /\ pc = "loop" /\ bars # <<>> /\ Splits(cur[1], Head(bars))
    /\ agg' = agg \o cur
    /\ cur' = <<Head(bars)>>
    /\ bars' = Tail(bars)
    /\ UNCHANGED <<type, shape, today, pc, rows, answer, firsts, lasts>>

Merge ==
    /\ pc = "loop" /\ bars # <<>> /\ ~Splits(cur[1], Head(bars))
    /\ cur' = <<Merged(cur[1], Head(bars))>>
    /\ bars' = Tail(bars)
    /\ UNCHANGED <<type, shape, today, pc, agg, rows, answer, firsts, lasts>>

(* A faulty variant of EndLoop: the last candle is not pushed. *)
EndLoopUnpushed ==
    /\ pc = "loop" /\ bars = <<>>
    /\ cur' = <<>>
    /\ pc' = "store"
    /\ UNCHANGED <<type, shape, today, bars, agg, rows, answer, firsts, lasts>>

EndLoop ==
    /\ pc = "loop" /\ bars = <<>>
    /\ agg' = agg \o cur /\ cur' = <<>>
    /\ pc' = "store"
    /\ UNCHANGED <<type, shape, today, bars, rows, answer, firsts, lasts>>

(* A faulty variant of Store: the candles stay with the next request. *)
StoreAndKeep ==
    /\ pc = "store" /\ pc' = "idle"
    /\ rows' = {r \in rows : \A c \in ToSet(agg) : r.date # c.date} \cup ToSet(agg)
    /\ answer' = {}
    /\ UNCHANGED <<type, shape, today, bars, cur, agg, firsts, lasts>>

(* insert_history: a candle replaces the one stored with its date. How its
   statements mix with those of other requests is the subject of History. *)
Store ==
    /\ pc = "store" /\ pc' = "idle"
    /\ rows' = {r \in rows : \A c \in ToSet(agg) : r.date # c.date} \cup ToSet(agg)
    /\ agg' = <<>> /\ answer' = {}
    /\ UNCHANGED <<type, shape, today, bars, cur, firsts, lasts>>

Next == NextDay \/ Fetch \/ Split \/ Merge \/ EndLoop \/ Store

Spec == Init /\ [][Next]_vars

-----------------------------------------------------------------------------
(* Properties *)

Candle == [date : Days, open : Days, close : Days, high : Int, low : Int, volume : Nat]

(* Shape of the state. *)
TypeOK ==
    /\ type \in {"weekly", "monthly"} /\ today \in Days
    /\ TradingDays \subseteq Days /\ shape \in [TradingDays -> Shapes]
    /\ pc \in {"idle", "loop", "store"}
    /\ bars \in Seq(Candle) /\ cur \in Seq(Candle) /\ agg \in Seq(Candle)
    /\ Len(cur) = IF pc = "loop" THEN 1 ELSE 0
    /\ pc # "loop" => bars = <<>>
    /\ pc = "idle" => agg = <<>>
    /\ answer \cup firsts \cup lasts \subseteq TradingDays
    /\ rows \subseteq Candle

Made == ToSet(agg) \cup ToSet(cur)

(* The days a candle stands for: those of its first to its last bar. *)
Span(c) == {d \in TradingDays : c.date <= d /\ d <= c.close}

(***************************************************************************)
(* A candle tells the truth about the days it stands for, while the loop   *)
(* runs, when it is finished and as long as it is stored: it opens with    *)
(* the first, closes with the last, reaches the highest high and the       *)
(* lowest low of them all, and its volume is all of theirs.                *)
(***************************************************************************)
CandlesSummarise ==
    \A c \in Made \cup rows :
        /\ c.open = c.date /\ c.date <= c.close
        /\ c.high = Max({shape[d].high : d \in Span(c)})
        /\ c.low = Min({shape[d].low : d \in Span(c)})
        /\ c.volume = SumFunction([d \in Span(c) |-> d])

(***************************************************************************)
(* The loop loses no bar and counts none twice: the candles made so far    *)
(* and the bars still to come make up the answer, each day in one place.   *)
(***************************************************************************)
EachBarOnce ==
    pc # "idle" =>
        LET places == {Span(c) : c \in Made} \cup {{b.date} : b \in ToSet(bars)}
        IN  /\ UNION places = answer
            /\ \A p, q \in places : p # q => p \cap q = {}

Group(d) == IF type = "weekly" THEN Week(d) ELSE Month(d)

(* The week has a bar for its Monday. *)
MondayTrades(d) == \E e \in TradingDays : Week(e) = Week(d) /\ IsMonday(e)

(***************************************************************************)
(* A candle covers days of one calendar week or month, except that a week  *)
(* without a bar on its Monday goes to the week before it. Two candles of  *)
(* an answer never share a week or a month.                                *)
(***************************************************************************)
CandlesFollowCalendar ==
    /\ \A c \in Made \cup rows : \A d \in Span(c) :
           Group(d) = Group(c.date) \/ (type = "weekly" /\ ~MondayTrades(d))
    /\ \A c, e \in Made : c # e => Group(c.date) # Group(e.date)

(* The first trading day of a month, or a Monday. *)
Opens(d) ==
    IF type = "weekly" THEN IsMonday(d) ELSE \A e \in TradingDays : e < d => Month(e) # Month(d)

(* The last day with a bar before such a day. *)
Closes(d) ==
    \A e \in TradingDays : e > d => \E f \in TradingDays : d < f /\ f <= e /\ Opens(f)

(***************************************************************************)
(* Partial candles pile up in the table (the oldest candle of an answer is *)
(* cut off by the window, and stored under the window's first day), but    *)
(* only there: a stored candle that does not start with its week or month  *)
(* was the first of some answer, one that stops short was the last.        *)
(***************************************************************************)
PartialOnlyAtEdges ==
    \A c \in rows : /\ Opens(c.date) \/ c.date \in firsts
                    /\ Closes(c.close) \/ c.close \in lasts
=============================================================================
