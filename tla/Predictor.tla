------------------------------ MODULE Predictor ------------------------------
(***************************************************************************)
(* The prediction thread, predictor_loop: verify the pending predictions   *)
(* of each day against the prices of now, then make new ones for every     *)
(* stock, one row for each of the next Horizon days (five in the code; the *)
(* LIMIT of get_for_code is five as well).  The rates predicted are left   *)
(* out; of the rate verify records the price it is computed from is kept.  *)
(*                                                                         *)
(* Rows of predictions are numbered by their ids: a sequence.              *)
(***************************************************************************)
EXTENDS Statements, StockTable, FiniteSets

CONSTANTS
    Horizon,
    MaxCycles    \* bound: times the thread makes predictions

ASSUME HorizonAssumption == Horizon \in Nat \ {0} /\ MaxCycles \in Nat

VARIABLES
    predPc,     \* "pending", "stocks", "verify", "insert"
    day,        \* the day being verified or predicted
    queue,      \* ids get_pending returned and still to be verified
    snap,       \* the stocks get_all_stocks returned
    stock,      \* the one of them being predicted
    cycles,
    torn,       \* has an INSERT failed for that one?
    ragged,     \* codes whose last rows may not be of all days
    strays      \* ids verify has passed over, or whose code two stocks share

predVars == <<predPc, day, queue, snap, stock, cycles, torn, ragged, strays>>

Days == 1 .. Horizon

PredInit ==
    /\ predPc = "pending" /\ day = 1 /\ queue = <<>> /\ snap = <<>> /\ stock = 1
    /\ cycles = 0 /\ torn = FALSE /\ ragged = {} /\ strays = {}

(* A faulty variant of Latest: one row too many. *)
LatestOneMore(preds, code) ==
    {i \in DOMAIN preds :
        preds[i].code = code
        /\ Cardinality({j \in DOMAIN preds : j > i /\ preds[j].code = code}) <= Horizon}

(* get_for_code: the ids of ORDER BY id DESC LIMIT 5 *)
Latest(preds, code) ==
    {i \in DOMAIN preds :
        preds[i].code = code
        /\ Cardinality({j \in DOMAIN preds : j > i /\ preds[j].code = code}) < Horizon}

(* A faulty variant of Pending: the days are counted from 0. *)
PendingFromZero(preds, d) ==
    InOrder({i \in DOMAIN preds : preds[i].status = "pending" /\ preds[i].day = d - 1})

(* get_pending *)
Pending(preds, d) ==
    InOrder({i \in DOMAIN preds : preds[i].status = "pending" /\ preds[i].day = d})

(* The price of the first stock with the code, 0 if there is none *)
PriceIn(stocks, code) ==
    LET own == {i \in DOMAIN stocks : stocks[i].code = code}
    IN  IF own = {} THEN 0 ELSE stocks[CHOOSE i \in own : \A j \in own : i <= j].price

(* The price_now verify computes the rate from. It looks among the predictions
   of the code "". *)
BaseOf(preds, id) == IF id \in Latest(preds, Blank) THEN preds[id].now ELSE 0

-----------------------------------------------------------------------------
(* A day without pending rows is skipped. *)
GetPending ==
    /\ predPc = "pending" /\ day \in Days
    /\ queue' = Pending(db.predictions, day)
    /\ IF queue' = <<>> THEN day' = day + 1 /\ UNCHANGED predPc
                        ELSE predPc' = "stocks" /\ UNCHANGED day
    /\ UNCHANGED <<statementVars, snap, stock, cycles, torn, ragged, strays>>

GetStocks ==
    /\ predPc = "stocks" /\ ~Unreadable(db.stocks)
    /\ snap' = db.stocks
    /\ predPc' = "verify"
    /\ UNCHANGED <<statementVars, day, queue, stock, cycles, torn, ragged, strays>>

Verified(preds, id, price) ==
    [preds EXCEPT ![id] = [@ EXCEPT !.status = "verified", !.actual = price,
                                    !.base = BaseOf(preds, id)]]

(* The next of the pending rows; it is passed over if its stock has no price.
   verify's SELECT only reads what this thread alone writes. *)
VerifyOne ==
    /\ predPc = "verify" /\ queue # <<>>
    /\ queue' = Tail(queue)
    /\ LET id == Head(queue)
           cur == PriceIn(snap, db.predictions[id].code)
       IN  \/ /\ cur # 0 /\ Runs([db EXCEPT !.predictions = Verified(@, id, cur)])
              /\ UNCHANGED strays
           \/ /\ (cur = 0 /\ UNCHANGED statementVars) \/ (cur # 0 /\ Fails)
              /\ strays' = strays \cup {id}
    /\ UNCHANGED <<predPc, day, snap, stock, cycles, torn, ragged>>

EndOfDay ==
    /\ predPc = "verify" /\ queue = <<>>
    /\ predPc' = "pending" /\ day' = day + 1 /\ snap' = <<>>
    /\ UNCHANGED <<statementVars, queue, stock, cycles, torn, ragged, strays>>

(* All days are verified. *)
GetAllStocks ==
    /\ predPc = "pending" /\ day \notin Days /\ cycles < MaxCycles /\ ~Unreadable(db.stocks)
    /\ cycles' = cycles + 1
    /\ snap' = db.stocks
    /\ predPc' = "insert" /\ stock' = 1 /\ day' = 1
    /\ UNCHANGED <<statementVars, queue, torn, ragged, strays>>

(* Beyond the bound the thread only verifies. *)
SkipPredicting ==
    /\ predPc = "pending" /\ day \notin Days /\ cycles = MaxCycles /\ ~Unreadable(db.stocks)
    /\ day' = 1
    /\ UNCHANGED <<statementVars, predPc, queue, snap, stock, cycles, torn, ragged, strays>>

(* Another stock of the snapshot has the code of the one being predicted. *)
Shared(code) == \E n \in DOMAIN snap \ {stock} : snap[n].code = code

(* predict_one: a stock's next row. The prices and news it reads for the rate
   are left out with it. *)
InsertPrediction ==
    /\ predPc = "insert" /\ stock <= Len(snap)
    /\ LET s == snap[stock]
           row == [code |-> s.code, day |-> day, now |-> s.price,
                   status |-> "pending", actual |-> 0, base |-> 0]
       IN  \/ /\ Runs([db EXCEPT !.predictions = Append(@, row)])
              /\ torn' = (torn /\ day # Horizon)
              /\ ragged' = IF day = Horizon /\ ~torn THEN ragged \ {s.code} ELSE ragged
              /\ strays' = IF Shared(s.code) THEN strays \cup {Len(db.predictions) + 1}
                           ELSE strays
           \/ /\ Fails /\ UNCHANGED strays
              /\ torn' = (day # Horizon)
              /\ ragged' = ragged \cup {s.code}
    /\ day' = IF day = Horizon THEN 1 ELSE day + 1
    /\ stock' = IF day = Horizon THEN stock + 1 ELSE stock
    /\ UNCHANGED <<predPc, queue, snap, cycles>>

(* All stocks are done; 30 minutes later it starts again. *)
EndOfCycle ==
    /\ predPc = "insert" /\ stock > Len(snap)
    /\ predPc' = "pending" /\ snap' = <<>> /\ stock' = 1
    /\ UNCHANGED <<statementVars, day, queue, cycles, torn, ragged, strays>>

PredNext ==
    \/ GetPending \/ GetStocks \/ VerifyOne \/ EndOfDay
    \/ GetAllStocks \/ SkipPredicting \/ InsertPrediction \/ EndOfCycle

(* get_all_stocks throws. *)
PredThrows ==
    /\ predPc = "stocks" \/ (predPc = "pending" /\ day \notin Days)
    /\ Unreadable(db.stocks)

(* The process has died and starts again; rows that were not on disk are gone. *)
PredRestart ==
    /\ predPc' = "pending" /\ day' = 1 /\ queue' = <<>> /\ snap' = <<>> /\ stock' = 1
    /\ torn' = FALSE
    /\ ragged' = ragged
           \cup {db.predictions[i].code :
                    i \in {j \in DOMAIN db.predictions : j \notin DOMAIN disk.predictions}}
           \cup (IF predPc = "insert" /\ day > 1 THEN {snap[stock].code} ELSE {})
    /\ strays' = strays \cap DOMAIN disk.predictions
    /\ UNCHANGED cycles

-----------------------------------------------------------------------------
(* Properties *)

PredictionRows == [code : Seq(Texts), day : Days, now : Nat,
                   status : {"pending", "verified"}, actual : Nat, base : Nat]

PredOK ==
    /\ predPc \in {"pending", "stocks", "verify", "insert"}
    /\ day \in 1 .. Horizon + 1 /\ cycles \in 0 .. MaxCycles /\ torn \in BOOLEAN
    /\ predPc \notin {"stocks", "verify"} => queue = <<>>
    /\ predPc \notin {"verify", "insert"} => snap = <<>>
    /\ queue \in Seq(DOMAIN db.predictions)
    /\ \A i \in DOMAIN queue : db.predictions[queue[i]].day = day
    /\ snap \in Seq(StockRows) /\ stock \in 1 .. Len(snap) + 1
    /\ ragged \subseteq Seq(Texts) /\ strays \subseteq DOMAIN db.predictions

(***************************************************************************)
(* What /api/predict shows of a code has each day at most once, also while *)
(* the thread is replacing yesterday's rows with today's, one by one: the  *)
(* newest rows of some days and the older ones of the rest, and also where *)
(* two stocks share a code.  Exempt is a code whose predictions were cut   *)
(* short, until all its days have been predicted again.                    *)
(***************************************************************************)
ShownCoverEachDay ==
    \A code \in {r.code : r \in ToSet(db.predictions)} :
        code \notin ragged =>
            \A i, j \in Latest(db.predictions, code) :
                i # j => db.predictions[i].day # db.predictions[j].day

(***************************************************************************)
(* Verify comes in time: a prediction that is still pending is among those *)
(* that get_for_code finds, whatever has been inserted, rolled back or     *)
(* inserted again since.  So none is dropped from what /api/predict shows  *)
(* before it is verified, and verify, which looks among the rows of the    *)
(* code "", finds the price_now of a row without a code (of any other row  *)
(* it finds none, and records the rate 0).  Exempt is a row that a cycle   *)
(* has passed over, for want of a price or because its UPDATE failed: the  *)
(* next cycle's rows push it out.  So are rows of two stocks of one code.  *)
(***************************************************************************)
VerifiedInTime ==
    \A i \in DOMAIN db.predictions \ strays :
        LET p == db.predictions[i]
        IN  /\ p.status = "pending" => i \in Latest(db.predictions, p.code)
            /\ p.status = "verified" /\ p.code = Blank => p.base = p.now

(* The row has still to be verified, and can be. *)
Waiting(p) == p.status = "pending" /\ PriceIn(db.stocks, p.code) # 0

(***************************************************************************)
(* A prediction of a stock with a price does not stay pending for good,    *)
(* even if a verification fails: every later cycle takes it up again,      *)
(* whatever its day.                                                       *)
(***************************************************************************)
EventuallyVerified == <>[](\A p \in ToSet(db.predictions) : ~Waiting(p))
=============================================================================
