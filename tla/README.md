# TLA+ models of the virtual stock trading server

Models, model-checking runs and proofs for `cpp_server`, the C++ server (Crow +
SQLite) of the virtual stock trading platform. Paths below are relative to
`src/cpp_server/`. The Qt client in `src/My_Program/` is a window without a
connection to the server and has nothing to model.

## 1. The system

One process, one SQLite handle, several threads:

```
  HTTP clients --> Crow worker threads --> controller/*  --> dao/* --+
                                                                     |
  price updater (every 5 min)  service/stock_fetcher ----------------+--> the one
  news thread   (every 5 min)  service/news_fetcher  ----------------+    sqlite3*
  predictor     (every 30 min) service/predictor     ----------------+    (dao/database.h)
```

No handler takes a lock or opens a transaction. SQLite serialises the calls on
the handle, so one statement is atomic; what a handler does in several
statements interleaves with all other threads. Two places do run
`BEGIN; loop; COMMIT` (`stock_dao::insert_history`, `fetch_and_update_stocks`),
and because the handle is shared their transaction also takes in whatever the
other threads write meanwhile. That is the heart of what can go wrong here.

### Inventory

| Component | State | Operations | Hard behaviour | What makes it correct | Status |
|---|---|---|---|---|---|
| Connection (`dao/database.h`) | tables, open transaction | statement, BEGIN, COMMIT, crash + recovery | transaction shared by all threads, BEGIN inside a transaction fails unnoticed | an answered write is not lost; no transaction is left open | `Connection`, `Batching`, `BatchingProofs`, `Statements` |
| Trading (`asset_ctrl`, `stock_ctrl`, `account_dao`, `position_dao`) | accounts, positions, trades | deposit, withdraw, buy, sell | check-then-act, ignored results, crash between statements | every request is one atomic operation of an account book; cash and shares reconcile with the trades; nothing goes below zero | `Trading`, `Ledger`, `TradingLedger`, `TradingProofs` |
| Asset overview (`get_asset`) | none of its own | read cash, positions, prices | reads in several statements while trades run | a total is off by no more than the requests it overlaps | `AssetView`, `TradingProofs` |
| Registration (`user_ctrl`, `user_dao`) | users, accounts, last rowid | register, login, change password | two INSERTs, check-then-insert, rowid of the connection | one owner per account, a purse per user | `Registration`, `RegistrationProofs` |
| K-line cache (`get_kline`, `stock_dao`) | stock_history, high_hist | k-line request, the updater's history phases | DELETE and INSERT loops of other requests, stale fetches | what is stored is answered; high_hist follows the bars | `History`, `HistoryProofs` |
| Candles (`kline_fetcher`) | none; its candles go to stock_history | weekly, monthly aggregation | calendar edges, holidays, the window's edge | a candle sums up its days; candles follow weeks and months | `Candles`, `CandlesProofs` |
| AI relay (`ai_ctrl`) | one temporary file | analyze | the file is shared by all requests | an answer is about its own question | `AiRelay`, `AiRelayProofs` |
| Price updater (`stock_fetcher`) | stocks | code list, prices, history | listings cut short, failed answers, malformed input in a detached thread | the list becomes complete; prices reach the stocks they are of | `PriceFeed`, `Background`, `BackgroundProofs`, `Batching`, `History` |
| News (`news_fetcher`, `news_dao`) | news_analysis | list, exists, detail, tag, insert | failure at each step, restarts | every item gets one row | `NewsFeed`, `Background`, `BackgroundProofs` |
| Predictor (`predictor`, `prediction_dao`, `predict_ctrl`) | predictions | predict, verify, show | loops over snapshots, rows inserted one by one under a LIMIT | rows are verified in the end, and before newer ones push them out; what is shown has each day once | `Predictor`, `Background`, `BackgroundProofs` |
| Trade list, market list, user profile | none of their own | one SELECT each; one UPDATE of the user name | none | | not modelled |
| `utils/http_client`, `model/`, vendored libraries | | | pure I/O, structs | | not modelled |

`PROJECT.json` lists the components with their sources, and the hazards at the
lines where they bite.

## 2. Modules

| Module | Models | State and actions |
|---|---|---|
| `Connection` | the shared handle | `db` what statements see, `disk` what a crash leaves, `inTxn`, `batch`. `Exec` one write, `BeginBatch`, `CommitBatch`, `Recover`. Extended by `Trading`, `Registration`, `Batching`, `Statements`, whose actions call these operators |
| `Trading` | deposit, withdraw, buy, sell | one action per SQL statement of a handler: `Receive`, `Authenticate`, `CheckBalance` / `CheckHeld`, `Credit` / `Debit`, `LookUpPosition`, `AddShares` / `OpenPosition` / `ReduceShares`, `RecordTrade`, `Respond`; `StatementFails`, `Crash`, `BackgroundBegin` / `BackgroundCommit` |
| `Registration` | register, login, change password, deposits meanwhile | `CheckExists`, `InsertUser`, `ReadRowid`, `InitAccount`, `ChangePassword`, `Authenticate`, `CreditPurse`, `Respond`, `OtherInsert` (another thread's INSERT moves the rowid) |
| `Batching` | the batches themselves | `Begin`, `InsertRow`, `Commit` of each batcher; `Write`, `Answer` of the HTTP workers; `Crash` |
| `AiRelay` | `ai_ctrl::analyze` | `OpenStream`, `CloseStream`, `Ask` (curl), `Remove`, `Respond`, `Crash`; the Windows and the other build differ in `Remove` |
| `History` | `get_kline`, phases 3 and 4 of the updater | `CheckLatest`, `Clear`, `Fetch`, `InsertBar` (one turn of the loop), `ReadSeries`, `WriteExtremes`; `StartPass`, `SelectMissing`, `EndPass` of the updater; `NextDay`, `Rise` of the quotes service |
| `Ledger` | abstract: what the money handlers promise | an account book with atomic `Deposit`, `Withdraw`, `Buy`, `Sell`; `contested` entries need no cover, `spoilt` ones may change in any way (`Fail`) |
| `TradingLedger` | the refinement mapping from `Trading` | a request takes effect at its cash statement; what it has still to do is counted as done (`Unconfirmed`, `Unmoved`, ...) |
| `AssetView` | `get_asset` beside the handlers of `Trading` | `Ask`, `ReadCash`, `ReadPositions`, `ValuePosition` (one turn of the loop), `Total`, `Answer`; `OthersRun` is any step of `Trading` |
| `Candles` | the aggregation loop of `fetch_kline`, `insert_history` | `Fetch`, `Split`, `Merge`, `EndLoop`, `Store`, `NextDay` |
| `Statements` | write statements that may fail unnoticed | `Runs`, `Fails` |
| `Ordering` | `ORDER BY` | no state; `InOrder` puts a finite set of numbers in ascending order |
| `StockTable` | `stocks` as the background threads read it | no state; codes are `<<"600519">>`, with the exchange's prefix in front, blank, or NULL; `Texts` are the names and the parts of codes |
| `PriceFeed` | phases 1 and 2 of the updater | the listing (`BeginPage`, `InsertStock`, `CommitPage`, `PageFails`, `LastPage`) and the prices (`BeginPrices`, `UpdateStock`, `CommitPrices`, `PricesFail`) |
| `NewsFeed` | the news thread | `NewsList`, `CheckId`, `DetailArrives` / `DetailFails`, `InsertNews` |
| `Predictor` | the prediction thread, `get_for_code` | `GetPending`, `GetStocks`, `VerifyOne`, `EndOfDay`; `GetAllStocks`, `InsertPrediction`, `EndOfCycle` |
| `Background` | the three threads in one process | composes `PriceFeed`, `NewsFeed`, `Predictor` over one connection; `Killed`, `Thrown` (an exception nobody catches) restart all three |
| `TradingProofs` | theorems about `Trading` and what is built on it, `TradingLedger` and `AssetView` | see section 5 |
| `RegistrationProofs`, `BatchingProofs`, `AiRelayProofs`, `HistoryProofs`, `CandlesProofs`, `BackgroundProofs` | theorems about `Registration`, `Batching`, `AiRelay`, `History`, `Candles`, `Background` | see section 5 |
| `DataTheorems` | lemmas: sums over finite sets, the greatest and the least of a set, `InOrder` | see section 5 |
| `MC*` | instances for TLC | symmetry sets and model values |

In every module `pc` says at which statement a thread stands, and a thread is
`"idle"` between requests. The variables that only record the past (`raced`,
`doubled`, `tainted`, `crossed`, `early`, `met`, `exposed`, `cut`, `stale` ...)
are there to say *when* a property may fail; no action's guard reads them. So are
`slack` (`AssetView`), `firsts` and `lasts` (`Candles`), `cutShort` and `quoted`
(`PriceFeed`), `torn`, `ragged` and `strays` (`Predictor`).

A paragraph headed "faulty variants" in a module holds wrong versions of the
definitions that follow it (a check off by one, a missing WHERE clause, a file
not closed). They take no part in the specification: `PROJECT.json`
(`mutants`) pairs each with the property that notices when it is put in the
place of the right one.

### Abstractions

* Money and prices are integers (doubles in the code), quantities are unbounded
  integers. The client sends the price, so any price is possible.
* The trades table is kept as running totals per account and per holding.
* The password check of `Trading` is a free choice; `Registration` models it.
* `positions`, `users` and `accounts` are created outside the repository: the
  models start from both possibilities, a UNIQUE key or none.
* A write statement may fail (another process holds the database, and no busy
  timeout is set); SELECT and COMMIT do not fail. A SELECT is one step.
* Requests refused for a missing parameter, and requests whose body does not
  parse, change nothing and are left out.
* `AiRelay` takes a body shorter than the stream's buffer, written at `close()`. It
  assumes that opening, writing and closing the file succeed: the code does not look
  (`ai_ctrl.cpp:87-89`), and curl would send what an earlier request left, or nothing.
* `History` keeps a bar's high only (`low_hist` is its mirror image) and one
  stock; the calendar is shortened (`WeekDays`, `YearDays`). The order of the bars
  the quotes service returns is not in the code; the `reverse` in `fetch_kline`
  says newest first. An empty list for a weekly or monthly request, which the code
  answers by reading an empty vector, is left out. Names and codes of the stock
  are the same throughout.
* `Candles` takes the same order, and bars that are final: an unfinished day's bar
  that a later answer replaces is the subject of `History`. A bar's prices at its
  open and close are named by its day. The calendar is shortened as in `History`.
  One answer's candles are stored in one step; `History` splits that loop.
* `AssetView` keeps prices constant, since only the price updater changes them
  (and, as `prices_arrive` shows, not even that), and has one request for the
  overview under way at a time, which changes nothing another one could see.
  A listed stock whose code is NULL makes the request answer 500; left out.
* `stocks` has UNIQUE names: the updater's `ON CONFLICT(name)` does not compile
  without. Rows made by hand may have a blank or NULL code.
* `PriceFeed` merges the answer and the BEGIN of a batch into one step, as nothing
  lies between; items without code or name, which the loop skips, are not listed.
  The list gives bare codes, never with the prefix of an exchange in front: the code
  puts that there itself (`ListAssumption`).
* `NewsFeed` leaves out what the tags say. Whatever the model answers, or with no
  model at all, the item gets its row, and no code looks at that row again.
* `Predictor` leaves out the rates predicted, which hold a random jitter; `base` of
  a row is the price its recorded rate is worked out from. `Horizon` stands for the
  five days, and for the five of `LIMIT 5`: they are one number in the model.
  Beyond `MaxCycles` the thread only verifies (`SkipPredicting`).
* `Background` merges the sleep of a thread with its first step; a restart resets
  the thread variables and nothing else. `MaxFailures` bounds failing statements and
  kills together; failing answers of services are not bounded. An answer that does
  not parse is a kill, so that an item malformed for good, on which the process dies
  at every pass, is outside `EveryItemStored`.

## 3. Runs

| Run | Instance | What it shows |
|---|---|---|
| `trading` | 2 workers, 1 account, 1 stock, 3 requests, 1 failing statement, 1 crash, 1 batch | `CashReconciles`, `SharesReconcile`: interleavings alone never lose or make cash or shares; only ignored failures, crashes and crossing first purchases do. `DamagePerFault`: a statement that failed unnoticed puts cash and shares out by the one request it hit, and no later request makes that worse. `OverdraftOnlyByRace`, `ShortOnlyByRace`: the only way below zero is a debit or sale that runs while another worker stands between its own check and write. `ImplementsLedger`: the handlers refine the atomic account book, outside the entries named as contested or spoilt |
| `oversell` (violation) | 2 sales, nothing else | "防超卖" of the weekly report does not hold: both sales pass the check |
| `registration` | 2 workers, 2 accounts, 2 passwords, 3 requests, 1 fault, 1 batch, 1 crash, every choice of keys | `OneOwner`, `OwnerCanLogIn`: an account is given twice only if registrations cross and `users` has no key; `PursePerUser`: a user without a purse exists only between the two INSERTs or after a fault; `DepositsKept`: only a deposit sent before the registration was answered can vanish |
| `user_id` (violation) | 2 requests, no fault | the id a client is told may be another row's |
| `batching` | 2 batchers, 2 rows per batch, 2 batches each, 2 workers, 1 refused row, 1 crash | `DurableOutsideBatches`: a BEGIN inside the other thread's transaction, or a COMMIT of it, never leaves a transaction that nobody will commit, nor a write that waits for a COMMIT outside one; `AnsweredIsSaved`: an answered write is lost only if it was made inside somebody's batch; `BatchAllOrNothing` holds for every batch no other COMMIT fell into; `EventuallySaved`: overlapping batches never leave a write unsaved for good |
| `ai_relay` | 3 workers, 4 questions, 1 crash | answers mix only questions that overlapped (`OnlyOfRequestsMet`), also after a crash left a file behind; a question alone is answered about itself; the file is cleaned up even if a remove fails |
| `history` | 2 requests of any type, 1 pass of the updater, 3 days in weeks of 2, 2 prices, 1 fault | `AnswersWhatItStored`: only a 1-minute request's DELETE comes between a request's INSERTs and its read; `HighFollowsSeries`: at rest high_hist is the maximum of the series it was last computed from, unless it was written from rows that had changed; `BarsOnlyFreshen`: a bar goes back to an older quote only while two fetches of its series overlap |
| `minute_clear` (violation) | 2 requests, one after another | a 1-minute request deletes the daily bars |
| `asset_view` | 1 view, 2 workers, 1 account, a listed and an unlisted stock, 2 requests, 1 fault, 1 crash | `TotalWithinOverlap`: without an overlap the total is the books; with one it is off by at most one side (cash or shares) of each request it overlaps |
| `candles` | 7 days in weeks of 3 and months of 4, 4 bars per answer, 2 shapes of bar, every choice of trading days | `CandlesSummarise`, `EachBarOnce`: no bar lost or counted twice, and every stored candle true of its days; `CandlesFollowCalendar`: only a week without a bar on its Monday joins the week before; `PartialOnlyAtEdges`: partial candles come from the ends of an answer only |
| `background` | 1 pass over 2 pages, 1 news item, 2 cycles of predictions for 2 days, 1 failing statement or kill; three initial tables: empty, made by hand with prices, made by hand with a NULL code | `ListingWhole`: a list is incomplete only if made by hand or cut short; `ShownCoverEachDay`: what is shown of a code has each day at most once, even half way through new rows and where two stocks share the code, unless an INSERT of it failed, rows of it were lost or its turn was cut short; `VerifiedInTime`: a pending row is among the newest five of its code until it is verified, unless a cycle passed it over or two stocks share the code; `OneRowPerItem`; `EventuallyVerified`, `EveryItemStored`: failures, kills and exceptions delay a verification or an item but do not lose it, except that a NULL code keeps the process dying |
| `prices_arrive` (violation) | the updater alone, an empty table, nothing fails | a price reported for a listed stock never reaches its row |

Two workers and two or three requests are enough for the races of this code:
each handler has one window between a check and the write it guards, and a
window needs one intruder. The third request in `trading` and `registration` lets a
later request meet what a race left behind; `ai_relay` takes three workers because
the file has three roles (being written, being read, being removed). Faults and
crashes are bounded by one: the handlers keep no state over a request, and the
background threads none over a pass. `background` needs the second cycle of
predictions (new rows over old ones), two days (a row of another day to mix with)
and two pages (a listing that ends between them); its three initial tables lead to
the listing, to verified prices, and to the exceptions. `candles` needs an answer
that reaches over two week and month borders, and the days to move on while
earlier candles are stored: four bars of seven days do. `asset_view` has two
stocks, so that a trade can fall between two turns of the loop. Every
bound is a constant named `Max...`; runs stop when the bounds are used up, hence
`CHECK_DEADLOCK FALSE` (the server itself waits for requests forever).

Amounts in the runs are positive; the handlers do not check the sign, which is
listed as a hazard.

## 4. Fairness

`Batching`: weak fairness of `InsertRow \/ Commit` for each batcher: between BEGIN
and COMMIT a thread walks a vector already in memory, with no wait, sleep or network
call. Nothing is assumed about when a thread begins a batch, about clients, or
about crashes.

`Background`: the same for the updater (`FeedBatch`); weak fairness of the news and
of the prediction thread, which are loops with sleeps of 5 and 30 minutes and no
condition they wait for (a request of the news thread that fails is one of its
steps); strong fairness of `DetailArrives`: the news service, asked again and again
for the details of an item, answers now and then. The updater's own requests need
not ever be answered. Kills are bounded, as are failing statements; exceptions
(`Thrown`) are not, and the liveness properties hold in spite of them or say so.

## 5. Proofs

Every theorem below holds for every value of the constants that satisfies the named
assumptions of the component's module: any (finite) number of workers, any accounts,
stocks, batches, calendars, lists and bounds. The runs of section 3 check the same
properties on small instances. Each proof has the same outline: the invariant holds of
`Init`; every action keeps it (one lemma or step per action); it implies the property.
Type correctness comes first and is a premise of the rest.

| Module | Theorem | Property | The invariant, and why it is needed |
|---|---|---|---|
| `TradingProofs` | `TypeCorrect` | `TypeOK` | inductive because of its part `Fits`: which requests reach which statement |
| | `Durable` | `DurableOutsideBatches` | inductive as it stands |
| | `Overdraft` * | `OverdraftOnlyByRace` | a worker past its check debits without looking. `CoveredDebits`: while an account is not in `raced`, each single pending debit is covered by the balance. Two may be pending, and the first to run puts the account into `raced` |
| | `Oversell` * | `ShortOnlyByRace` | `CoveredSales`: the same of holdings |
| | `CashConserved` | `CashReconciles` | a sum over the workers, inductive: a step changes one summand (`SumChange`: `LegStep` says by how much), `Receive` and `Respond` only zeros |
| | `SharesConserved` * | `SharesReconcile` | the same of shares; `RowsToMove`: a purchase about to add to a holding finds its row, and a sale of a holding without one is of no shares |
| | `DamageBounded` * † | `DamagePerFault` | the same two sums: every step leaves the errors as they are, but for a statement that fails, and that one changes them by what the request in hand still moves or records |
| | `Refinement` * | `ImplementsLedger` | `CoveredDebits`, `CoveredSales` and `RowsToMove` together: the cash statement is a whole `Deposit`, `Withdraw`, `Buy` or `Sell` of the book, every other step leaves the mapped book as it is or is a `Fail` of spoilt entries |
| | `ViewTypeCorrect` | `ViewTypeOK` | the reader changes nothing (`ViewSpec => Spec`), so `TypeOK` of `Trading` is at hand |
| | `ViewWithinOverlap` * | `TotalWithinOverlap` | see below |
| `RegistrationProofs` | `TypeCorrect` | `TypeOK` | the stage of a worker fits its request; every row set is finite |
| | `PurseOfEachUser` | `PursePerUser` | `Purses` adds the registration that is between its two INSERTs |
| | `DepositsStay` | `DepositsKept` | `DepositsInv`: a sum over the deposits made and not answered; `Known`: a deposit under way is early or of an account whose registration was answered |
| | `OneOwnerEach` | `OneOwner` | `Writing` (registrations that never crossed come one at a time, if the table has no key) and `OwnerOf`: a worker between its INSERT and its answer is the only one, and nobody has been answered before it |
| | `OwnerLogsIn` | `OwnerCanLogIn` | `OwnPassword`: the row holds the password of the registration that wrote it |
| `BatchingProofs` | `TypeCorrect` | `TypeOK` | a thread in a batch has begun one |
| | `Durable`, `AnsweredWritesSaved` | `DurableOutsideBatches`, `AnsweredIsSaved` | `WritesInv`: what a crash would take back is `exposed` |
| | `BatchesAtomic` | `BatchAllOrNothing` | `RowsInv`, of every batch: one not begun has no rows; the current one has run a prefix of its statements, all of them in the open transaction while no other COMMIT cut it; a past one is whole or gone |
| `AiRelayProofs` | `TypeCorrect` | `TypeOK` | `OpenIsNamed`: an open stream is on the file that has the name |
| | `NoOldQuestion`, `OwnAnswerWhenAlone` | `OnlyOfRequestsMet`, `AloneIsRight` | from truncation to curl the file holds only the request's question and those it met (`FileOfThoseMet`); of two requests in progress each has met the other (`Mutual`) |
| | `FileRemoved` | `NothingLeftBehind` | `SomeoneRemoves`: while there is a file, a request is going to remove it |
| `HistoryProofs` | `TypeCorrect` | `TypeOK` | every past day has a quote, and which thread may be where |
| | `OwnBarsAnswered` | `AnswersWhatItStored` | `StoredInv`: what a thread stored is in the table until it has read it, then in what it read |
| | `HighOfItsSeries` | `HighFollowsSeries` | `HighInv`: the recorded high is that of its series, or a thread is under way that will compute it anew |
| | `BarsFreshen` | `BarsOnlyFreshen` | `QuotedInv`: no stored bar is above the quotes of its days; `FreshInv`: two threads that insert bars of a series have crossed, and the bars of one that has not are no older than those stored |
| `CandlesProofs` | `TypeCorrect` | `TypeOK` | one candle under way in the loop and none outside |
| | `CandlesSumUp` | `CandlesSummarise` | `SumsUp`, of every candle. It needs the rest: that the bar merged is that of the next trading day after the candle, so that no day between them is left out |
| | `EachBarInOnePlace` | `EachBarOnce` | `AnswerInv`, `BarsInv`, `MadeInv`: the answer is a stretch of trading days without a gap, the candles lie one after the other, the bars to come are in order behind them, and every day has its place |
| | `CalendarFollowed` | `CandlesFollowCalendar` | `Undivided` and `Precedes`: only the first day of a weekly candle may be a Monday, all days of a monthly one are of its month, and a later candle is of a later week or month |
| | `OnlyEdgesPartial` | `PartialOnlyAtEdges` | `Starts`, `Ends`: a candle opens a week or month or begins an answer, and one that another follows is closed by the first day of that one |
| `BackgroundProofs` | `TypeCorrect` | `TypeOK` | rows are predicted day after day; items are the rest of their page; the lines of an answer carry the prefix |
| | `NoItemTwice` | `OneRowPerItem` | the item in hand has no row: only this thread inserts, and a restart drops the item with the thread |
| | `NothingMissed` | `ListingWhole` | `ListInv`: the pages asked for so far are in the table, on the current one an item is in the table or still to come; and the codes in the table are bare, those of the lines are not, so that no UPDATE renames a listed row |
| | `EachDayOnce` | `ShownCoverEachDay` | `CycleInv`: walking back from the newest row of a code, the days turn in a cycle, as far back as `Depth` says (all of the horizon, or what the current turn has written of a code whose last turn was cut); `DiskInv`: what is on disk is a prefix of the table, so that a restart takes the newest rows away |
| | `NoneDroppedUnverified` | `VerifiedInTime` | `TimeInv`: from a pending row on, the rows of its code are of different days, so that fewer are newer than there are days (`DifferingAreLatest`), in the table and, for a restart, on disk. This needs to know where the thread stands: while it verifies, every such row is of a day still to come or in the queue (`Due`); while it predicts, the row was made in this cycle, and its code is in hand or done with (`Fresh`) |

`ViewWithinOverlap` is about a sum that is read in parts while it changes. `WorthInv`
says what an account is worth when nobody reads: its cash and its holdings, at the
prices of the table, are ahead of the books (`Booked`) by exactly what the requests
under way have moved (`Ahead`). `Reading` is what the reader has read so far and what
it would still read if everything stood still. A step of another thread moves cash,
shares or books by amounts `dc`, `dh`, `dB`, and `Reading` by `dc` or nothing, `dh` or
nothing, as the reader has already passed there or not (`Swings`). `BoundsInv` keeps
`Reading` within `slack` of the books, less what the requests under way may still take
from it or add to it (`Below`, `Above`): that reserve is what makes it inductive, and it
is used up when the request is recorded. `OneRow` is needed at the SELECT of the
positions: a holding in which no first purchases crossed is one row, and its rows add up
to the holdings (`RowsAreHoldings`).

`*`: with the hypothesis `NaturalRequests` (amounts, quantities, prices and opening
values are natural numbers). The handlers do not check the sign. A negative withdrawal
or purchase is not covered by its check, and a sale of a negative quantity passes the
check of a holding that has no row and then moves nothing: these properties are false
of such requests. `CashConserved` holds of them too.

`†`: with the hypothesis `FiniteRequests` (amounts, quantities and prices come from
finite sets), without which there is no largest request to bound the damage by.

What is assumed of the constants, beyond types and bounds: the workers are finitely
many (Crow's pool), and so are the stocks (`StocksAssumption`); accounts and holdings are different things (`NamesAssumption`); the
texts include the empty one and the prefix (`TextsAssumption`); the table of stocks
and the list of news are sequences (`TableAssumption`, `IdsAssumption`); the list of
stocks gives bare codes (`ListAssumption`); a bar's low is not above its high
(`ShapesAssumption`), weeks, months and windows have at least a day
(`CalendarAssumption`); the price of a listed stock is not negative (`ViewAssumption`),
and no account is named like the mark for none (`NoAccountAssumption`). TLC evaluates each of them on the runs.

`DataTheorems` says what the operators over finite sets compute that the models take
from the community modules or from `Ordering`. A sum over a finite set does not depend on
the order in which the summands are taken (`SumAnyOrder`; the definition takes them as
`CHOOSE` says): from there it changes by what one summand changes by (`SumChange`), is
zero or natural if all are (`SumZero`, `SumNatural`), grows by a new summand
(`SumExtend`), adds up (`SumOfSums`), keeps order (`SumAtMost`), and is the same over
any one-to-one renaming that leaves out zeros only (`SumRenamed`). A finite set of
numbers has a greatest and a least one, and `Max` and `Min` are these; `InOrder` is the
ascending sequence of a set (`InOrderIs`). The library's induction theorems take
an operator as a parameter, which the provers cannot instantiate; these lemmas use the
well-foundedness of strict inclusion instead and argue on a smallest counterexample.

Only model-checked: liveness (`EventuallySaved`, `EventuallyVerified`,
`EveryItemStored`), which is out of these provers' reach, as is `ENABLED`. The four
properties of the runs that expect a violation are false, and nothing is proved of them.
Every other property of the runs is a theorem.

## 6. Disagreements found

1. Overselling is possible, against the weekly report (`oversell`).
2. `insert_user` may return another row's id, against its header (`user_id`).
3. The DELETE meant for old minute lines hits the daily bars (`minute_clear`).
4. The prices of listed stocks never arrive, against the comment in the listing loop
   (`prices_arrive`): the UPDATE looks for `sh600519` where `600519` is stored.

Read, and not a matter of any run: `news_dao::get_recent` takes two columns in the
wrong order and `predict_one` passes a name where `news_bias` compares codes, so the
news never weigh in a prediction; `has_history` compares a code with a name and has
no caller; `parse_sina_line` reads field 8 of a line of which it knows six.

## 7. Not modelled

* Trade list, market list, user profile: one SELECT each, printed as JSON, and one
  UPDATE of a column (`username`) nothing else depends on. A model would restate a
  statement.
* `utils/http_client`: pure I/O, a string or nothing; its outcomes are choices in the
  modules that call it. Crow's routing and threads likewise, beyond being concurrent.
* The text the modules leave out: JSON bodies, prompts, tags, log lines, rates.
* The Qt client, which has no connection to the server.
* The vendored headers under `vcpkg_installed/` (SQLite, asio, Crow, fmt,
  nlohmann::json, curl): some 250 000 lines, against about 2 200 of the server itself.
  They are libraries with their own projects; what the server relies on of SQLite is
  modelled as `Connection`. A share of the tree's lines therefore says little: of the
  server's own lines the definitions cover about two thirds, and the rest is mostly
  JSON assembled for answers.

## 8. Plan

Built, in order: the connection, the money, the accounts, the batches, the shared
file, the k-line cache; the account book and its refinement, the asset overview, the
candles, the background threads; then the proofs about all of these, the asset overview
and the candles last. What is left:

1. Requests of any sign: what remains true of balances and holdings when amounts and
   quantities may be negative, the hazard no property covers yet.
2. `AssetView` with prices that move between the turns of its loop.
3. `Ledger`: that the book itself keeps cash and shares in line with the trades and,
   with natural amounts, above zero outside `contested` and `spoilt`. `Trading` has these
   properties by theorems of its own.
