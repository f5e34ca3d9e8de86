------------------------------ MODULE History ------------------------------
(***************************************************************************)
(* The k-line cache of one stock: stock_ctrl::get_kline on the HTTP        *)
(* workers and the history phases of fetch_and_update_stocks on the price  *)
(* updater, both over the stock_history table and the stock's high_hist.   *)
(*                                                                         *)
(* A series is the rows stored under one name: the stock's own name for    *)
(* daily bars, "<name>_<type>" for the others. A bar is reduced to its     *)
(* highest price; low_hist and the lows behave alike. Rows are visible to  *)
(* the other threads as soon as they are inserted: all share a connection  *)
(* (what a crash takes back is the subject of Batching).                   *)
(***************************************************************************)
EXTENDS Integers, FiniteSets, FiniteSetsExt

CONSTANTS
    Workers, Updater,   \* the HTTP worker threads, the price updater
    DailyBars,          \* days a daily request gets from the quotes service
    LongBars,           \* days a request of another type gets
    WeekDays, YearDays, \* the calendar, shortened
    MaxDay, MaxHigh,    \* bounds: days that pass, prices
    MaxRequests,        \* bound: k-line requests received
    MaxPasses,          \* bound: passes of the updater
    MaxFaults           \* bound: write statements that fail

ASSUME BarsAssumption == {DailyBars, LongBars, WeekDays, YearDays} \subseteq Nat \ {0}
ASSUME BoundsAssumption ==
    /\ {MaxDay, MaxHigh} \subseteq Nat \ {0}
    /\ {MaxRequests, MaxPasses, MaxFaults} \subseteq Nat
ASSUME UpdaterAssumption == Updater \notin Workers

VARIABLES
    today,      \* the day
    quote,      \* [Days -> the day's highest price so far]: the quotes service
    rows,       \* [Types -> a series]: stock_history
    hist,       \* stocks.high_hist, 0 for NULL
    pc,         \* [Threads -> the next statement]
    type,       \* [Threads -> the type being served, or "none"]
    todo,       \* [Threads -> a series: the bars fetched and not yet inserted]
    snap,       \* [Threads -> a series: what get_history returned]
    stored,     \* [Threads -> days it stored and nobody has cleared since]
    crossed,    \* types being inserted that two threads fetched at the same time
    basis,      \* the type high_hist was last computed from, or "none"
    stale,      \* high_hist no longer follows from the series it is based on
    received, passes, faults     \* counters for the bounds

market == <<today, quote>>
history == <<stored, crossed, basis, stale>>
bounds == <<received, passes, faults>>
vars == <<market, rows, hist, pc, type, todo, snap, history, bounds>>

Threads == Workers \cup {Updater}
Types == {"daily", "weekly", "1min"}
Days == 1 .. MaxDay

(* A series gives each day its bar's high, 0 where there is no bar. *)
Series == [Days -> 0 .. MaxHigh]
Empty == [d \in Days |-> 0]
Stored(s) == {d \in Days : s[d] # 0}
Highest(s) == Max({s[d] : d \in Days})

Monday(d) == d % WeekDays = 1
Year(d) == d \div YearDays

-----------------------------------------------------------------------------
(* get_latest_date *)
Latest(s) == IF Stored(s) = {} THEN 0 ELSE Max(Stored(s))

(* "latest < today" compares "2026-07-11" with "20260711" as text: the year
   decides, and within a year '-' sorts before every digit. *)
Behind(day, now) == day = 0 \/ Year(day) <= Year(now)

(* The days the quotes service returns: the last datalen of them. *)
Window(t) == {d \in Days : today - (IF t = "daily" THEN DailyBars ELSE LongBars) < d
                           /\ d <= today}

(* Of a weekly request, the days that fall into the candle opened on day d:
   all that follow up to the next Monday. *)
CandleDays(t, d) ==
    IF t = "weekly" THEN {e \in Window(t) : e >= d /\ ~\E m \in (d + 1) .. e : Monday(m)}
                    ELSE {d}

Opens(t, d) == d \in Window(t) /\ (t = "weekly" => Monday(d) \/ d - 1 \notin Window(t))

(* Faulty variants of the helpers: a candle keeps its last day's high; the
   extremes only ever grow; the rows are looked up under the stock's name. *)
FetchedLastHigh(t) ==
    [d \in Days |-> IF Opens(t, d) THEN quote[Max(CandleDays(t, d))] ELSE 0]
GrownTo(s) == Max({hist, Highest(s)})
SeriesByStockName(t) == rows["daily"]

(* fetch_kline: the bars of the window, aggregated where the type asks for it. *)
Fetched(t) ==
    [d \in Days |-> IF Opens(t, d) THEN Max({quote[e] : e \in CandleDays(t, d)}) ELSE 0]

(* hist_high of get_kline, MAX(high_price) of the updater *)
Extreme(s) == Highest(s)

(* get_history *)
SeriesOf(t) == rows[t]

-----------------------------------------------------------------------------
Init ==
    /\ today = 1
    /\ quote = [d \in Days |-> IF d = 1 THEN 1 ELSE 0]
    /\ rows = [t \in Types |-> Empty]
    /\ hist = 0
    /\ pc = [x \in Threads |-> "idle"]
    /\ type = [x \in Threads |-> "none"]
    /\ todo = [x \in Threads |-> Empty]
    /\ snap = [x \in Threads |-> Empty]
    /\ stored = [x \in Threads |-> {}]
    /\ crossed = {} /\ basis = "none" /\ stale = FALSE
    /\ received = 0 /\ passes = 0 /\ faults = 0

GoTo(x, stage) == pc' = [pc EXCEPT ![x] = stage]

(* Faulty variant of Return: the thread keeps the type it has answered. *)
ReturnUncleared(x) ==
    /\ GoTo(x, "idle")
    /\ snap' = [snap EXCEPT ![x] = Empty]
    /\ stored' = [stored EXCEPT ![x] = {}]
    /\ UNCHANGED type

(* The request is answered, or the updater goes to sleep. *)
Return(x) ==
    /\ GoTo(x, "idle")
    /\ type' = [type EXCEPT ![x] = "none"]
    /\ snap' = [snap EXCEPT ![x] = Empty]
    /\ stored' = [stored EXCEPT ![x] = {}]

(* Where fetch and insert leave a thread: a request reads the series back, the
   updater computes the extremes again. *)
AfterInsert(x) == IF x = Updater THEN "again" ELSE "read"

-----------------------------------------------------------------------------
(* The quotes service: each day opens at the lowest price and may rise. *)

NextDay ==
    /\ today < MaxDay /\ today' = today + 1
    /\ quote' = [quote EXCEPT ![today'] = 1]
    /\ UNCHANGED <<rows, hist, pc, type, todo, snap, history, bounds>>

Rise ==
    /\ quote[today] < MaxHigh
    /\ quote' = [quote EXCEPT ![today] = @ + 1]
    /\ UNCHANGED <<today, rows, hist, pc, type, todo, snap, history, bounds>>

-----------------------------------------------------------------------------
(* get_kline *)

Receive(w) ==
    /\ pc[w] = "idle"
    /\ received < MaxRequests /\ received' = received + 1
    /\ \E t \in Types : type' = [type EXCEPT ![w] = t]
    /\ GoTo(w, "latest")
    /\ UNCHANGED <<market, rows, hist, todo, snap, history, passes, faults>>

(* get_latest_date and the two comparisons of it with today's date *)
CheckLatest(w) ==
    /\ pc[w] = "latest"
    /\ LET behind == Behind(Latest(rows[type[w]]), today)
       IN  GoTo(w, CASE behind /\ type[w] = "1min" -> "clear"
                     [] behind /\ type[w] # "1min" -> "fetch"
                     [] OTHER                      -> "read")
    /\ UNCHANGED <<market, rows, hist, type, todo, snap, history, bounds>>

(* clear_history(stock_name): the name is that of the daily series. Whether the
   DELETE succeeds is not looked at. *)
Clear(w) ==
    /\ pc[w] = "clear"
    /\ \/ /\ rows' = [rows EXCEPT !["daily"] = Empty]
          /\ stored' = [x \in Threads |-> IF type[x] = "daily" THEN {} ELSE stored[x]]
          /\ stale' = (stale \/ (basis = "daily" /\ rows["daily"] # Empty))
          /\ UNCHANGED faults
       \/ /\ faults < MaxFaults /\ faults' = faults + 1
          /\ UNCHANGED <<rows, stored, stale>>
    /\ GoTo(w, "fetch")
    /\ UNCHANGED <<market, hist, type, todo, snap, crossed, basis, received, passes>>

(* fetch_kline, by a request or by the updater: bars; or none, when the service
   does not answer. *)
Fetch(x) ==
    /\ pc[x] = "fetch"
    /\ \/ /\ todo' = [todo EXCEPT ![x] = Fetched(type[x])]
          /\ GoTo(x, "insert")
          /\ crossed' = IF \E y \in Threads \ {x} : pc[y] = "insert" /\ type[y] = type[x]
                        THEN crossed \cup {type[x]} ELSE crossed
       \/ /\ GoTo(x, AfterInsert(x))
          /\ UNCHANGED <<todo, crossed>>
    /\ UNCHANGED <<market, rows, hist, type, snap, stored, basis, stale, bounds>>

(* An answer that is no JSON, or holds no numbers, throws: the request is
   answered with an error. *)
FetchThrows(w) ==
    /\ pc[w] = "fetch"
    /\ Return(w)
    /\ UNCHANGED <<market, rows, hist, todo, crossed, basis, stale, bounds>>

(* One turn of insert_history's loop, in whatever order the service gave the
   bars: the row is inserted or, where it exists, overwritten. *)
InsertBar(x) ==
    /\ pc[x] = "insert"
    /\ \E d \in Stored(todo[x]) :
        /\ todo' = [todo EXCEPT ![x][d] = 0]
        /\ \/ /\ rows' = [rows EXCEPT ![type[x]][d] = todo[x][d]]
              /\ stored' = [stored EXCEPT ![x] = @ \cup {d}]
              /\ UNCHANGED faults
           \/ /\ faults < MaxFaults /\ faults' = faults + 1
              /\ UNCHANGED <<rows, stored>>
    /\ GoTo(x, IF todo'[x] = Empty THEN AfterInsert(x) ELSE "insert")
    /\ crossed' = {t \in crossed : \E y \in Threads : type[y] = t /\ todo'[y] # Empty}
    /\ UNCHANGED <<market, hist, type, snap, basis, stale, received, passes>>

(* get_history, for the response and the extremes *)
ReadSeries(w) ==
    /\ pc[w] = "read"
    /\ snap' = [snap EXCEPT ![w] = SeriesOf(type[w])]
    /\ GoTo(w, IF snap'[w] = Empty THEN "respond" ELSE "extremes")
    /\ UNCHANGED <<market, rows, hist, type, todo, history, bounds>>

(* UPDATE stocks SET high_hist, from what was read, its result ignored; and the
   response. *)
WriteExtremes(w) ==
    /\ pc[w] = "extremes"
    /\ \/ /\ hist' = Extreme(snap[w])
          /\ basis' = type[w]
          /\ stale' = (snap[w] # rows[type[w]])
          /\ UNCHANGED faults
       \/ /\ faults < MaxFaults /\ faults' = faults + 1
          /\ stale' = TRUE
          /\ UNCHANGED <<hist, basis>>
    /\ Return(w)
    /\ UNCHANGED <<market, rows, todo, crossed, received, passes>>

(* The response to a request that found no rows. *)
RespondEmpty(w) ==
    /\ pc[w] = "respond"
    /\ Return(w)
    /\ UNCHANGED <<market, rows, hist, todo, crossed, basis, stale, bounds>>

-----------------------------------------------------------------------------
(* The history phases of fetch_and_update_stocks *)

(* UPDATE stocks SET high_hist = (SELECT MAX(high_price) ...) WHERE EXISTS ...:
   one statement, which leaves a stock without daily bars alone. *)
ComputeExtremes ==
    \/ /\ rows["daily"] = Empty
       /\ UNCHANGED <<hist, basis, stale, faults>>
    \/ /\ rows["daily"] # Empty
       /\ hist' = Extreme(rows["daily"]) /\ basis' = "daily" /\ stale' = FALSE
       /\ UNCHANGED faults
    \/ /\ faults < MaxFaults /\ faults' = faults + 1
       /\ stale' = TRUE
       /\ UNCHANGED <<hist, basis>>

(* Phase 3 *)
StartPass ==
    /\ pc[Updater] = "idle"
    /\ passes < MaxPasses /\ passes' = passes + 1
    /\ ComputeExtremes
    /\ GoTo(Updater, "select")
    /\ type' = [type EXCEPT ![Updater] = "daily"]
    /\ UNCHANGED <<market, rows, todo, snap, stored, crossed, received>>

(* Phase 4: fetch only for a stock that has no daily bars. *)
SelectMissing ==
    /\ pc[Updater] = "select"
    /\ IF rows["daily"] = Empty
       THEN GoTo(Updater, "fetch") /\ UNCHANGED <<type, snap, stored>>
       ELSE Return(Updater)
    /\ UNCHANGED <<market, rows, hist, todo, crossed, basis, stale, bounds>>

(* ... and the same UPDATE again. *)
EndPass ==
    /\ pc[Updater] = "again"
    /\ ComputeExtremes
    /\ Return(Updater)
    /\ UNCHANGED <<market, rows, todo, crossed, received, passes>>

GetKline(w) ==
    \/ Receive(w) \/ CheckLatest(w) \/ Clear(w) \/ FetchThrows(w)
    \/ ReadSeries(w) \/ WriteExtremes(w) \/ RespondEmpty(w)

Next ==
    \/ \E w \in Workers : GetKline(w)
    \/ \E x \in Threads : Fetch(x) \/ InsertBar(x)
    \/ StartPass \/ SelectMissing \/ EndPass
    \/ NextDay \/ Rise

Spec == Init /\ [][Next]_vars

-----------------------------------------------------------------------------
(* Properties *)

Stages == {"idle", "latest", "clear", "fetch", "insert", "read", "extremes",
           "respond", "select", "again"}

(* Shape of the state; a thread holds bars only while it inserts them. *)
TypeOK ==
    /\ today \in Days /\ quote \in Series
    /\ rows \in [Types -> Series] /\ hist \in 0 .. MaxHigh
    /\ pc \in [Threads -> Stages]
    /\ type \in [Threads -> Types \cup {"none"}]
    /\ todo \in [Threads -> Series] /\ snap \in [Threads -> Series]
    /\ stored \in [Threads -> SUBSET Days]
    /\ \A x \in Threads : /\ pc[x] = "idle" <=> type[x] = "none"
                          /\ pc[x] = "insert" <=> todo[x] # Empty
                          /\ snap[x] # Empty <=> pc[x] = "extremes"
    /\ crossed \subseteq Types /\ basis \in Types \cup {"none"} /\ stale \in BOOLEAN
    /\ received \in 0 .. MaxRequests /\ passes \in 0 .. MaxPasses /\ faults \in 0 .. MaxFaults

(***************************************************************************)
(* A request is answered with every bar it stored itself, whatever other   *)
(* requests and the updater do to the table between its INSERTs and its    *)
(* SELECT; only the DELETE of a 1-minute request can take them away.       *)
(***************************************************************************)
AnswersWhatItStored ==
    \A w \in Workers : pc[w] \in {"extremes", "respond"} => stored[w] \subseteq Stored(snap[w])

(***************************************************************************)
(* Once no thread is at work the recorded high is the highest bar of the   *)
(* series it was last computed from: an insert by any thread is followed   *)
(* by a recomputation of its own. It fails to be only if the last UPDATE   *)
(* was made from rows that had changed since they were read, was refused,  *)
(* or the series has been cleared since.                                   *)
(***************************************************************************)
HighFollowsSeries ==
    (\A x \in Threads : pc[x] = "idle") /\ ~stale =>
        hist = IF basis = "none" THEN 0 ELSE Highest(rows[basis])

(***************************************************************************)
(* A stored bar never falls back to an older quote of its day unless two   *)
(* threads have fetched the same series at the same time: of those the     *)
(* slower one overwrites the fresher bar. Bars are otherwise only deleted, *)
(* and only daily ones.                                                    *)
(***************************************************************************)
BarsOnlyFreshen ==
    [][\A t \in Types \ crossed : \A d \in Days :
        \/ rows'[t][d] >= rows[t][d]
        \/ t = "daily" /\ rows'[t] = Empty]_vars

(***************************************************************************)
(* What the comments of get_kline say of its DELETE (only today's minute   *)
(* line is kept, the old minute lines are cleared): no daily bar is ever   *)
(* deleted.                                                                *)
(***************************************************************************)
OnlyMinuteLinesCleared ==
    [][\A d \in Days : rows["daily"][d] # 0 => rows'["daily"][d] # 0]_vars
=============================================================================
