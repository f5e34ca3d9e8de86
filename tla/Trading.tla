------------------------------- MODULE Trading -------------------------------
(***************************************************************************)
(* The handlers that move cash and shares: asset_ctrl::deposit and         *)
(* withdraw, stock_ctrl::buy_stock and sell_stock, with the data access    *)
(* functions they call.  Crow runs them on a pool of worker threads; a     *)
(* handler takes no lock and opens no transaction, so every SQL statement  *)
(* of one request is an action of its own here.                            *)
(*                                                                         *)
(* Money is counted in whole units (a double in the code).  The trades     *)
(* table is kept as its running totals.  The accounts exist already: how   *)
(* they come to exist is another component.                                *)
(***************************************************************************)
EXTENDS Connection, Integers, Sequences, FiniteSetsExt

CONSTANTS
    Workers,       \* HTTP worker threads
    Accounts, Stocks,
    Amounts,       \* amounts a deposit or a withdrawal may ask for
    Quantities,    \* share counts a trade may ask for
    Prices,        \* prices a trade may quote: the client sends the price
    OpeningCash,   \* balance of an account at the start
    OpeningShares, \* shares held where there is a holding at the start
    MaxRequests,   \* bound: requests received
    MaxFaults,     \* bound: write statements that fail
    MaxBatches,    \* bound: background batches begun
    MaxCrashes     \* bound: crashes

ASSUME WorkersAssumption == Workers # {} /\ IsFiniteSet(Workers)
ASSUME AmountsAssumption == Amounts \subseteq Int
ASSUME QuantitiesAssumption == Quantities \subseteq Int
ASSUME PricesAssumption == Prices \subseteq Int
ASSUME OpeningAssumption == OpeningCash \in Int /\ OpeningShares \in Int
ASSUME BoundsAssumption == {MaxRequests, MaxFaults, MaxBatches, MaxCrashes} \subseteq Nat

VARIABLES
    unique,     \* does the positions table have a UNIQUE key on (account, stock)?
    pc,         \* [Workers -> Stages]: the statement the worker runs next
    req,        \* [Workers -> the request being served]
    wallet,     \* [Accounts -> deposits less withdrawals confirmed to clients]
    raced,      \* accounts and holdings whose checked withdrawals or sales crossed
    doubled,    \* holdings whose INSERT found a row already there
    tainted,    \* accounts and holdings that a fault or a crash hit
    received, faults, batches, crashes     \* counters for the bounds

tradeVars == <<unique, pc, req, wallet, raced, doubled, tainted,
               received, faults, batches, crashes>>
vars == <<connVars, tradeVars>>

-----------------------------------------------------------------------------
(* Requests and tables                                                     *)

Keys == Accounts \X Stocks

CashRequest == [op : {"deposit", "withdraw"}, acct : Accounts, total : Amounts]

(* total = price * quantity, computed by the handler from the body. *)
TradeRequest ==
    {[op |-> o, acct |-> a, stock |-> s, qty |-> q, total |-> p * q] :
        o \in {"buy", "sell"}, a \in Accounts, s \in Stocks,
        q \in Quantities, p \in Prices}

Request == CashRequest \cup TradeRequest
NoRequest == [op |-> "none"]

Stages == {"idle", "auth", "check", "cash", "lookup", "add", "open", "reduce",
           "record", "ack"}

Acct(w) == req[w].acct
Key(w) == <<req[w].acct, req[w].stock>>
IsTrade(w) == req[w].op \in {"buy", "sell"}

(* Positive into the account, negative out of it. *)
Signed(w) == IF req[w].op \in {"deposit", "sell"} THEN req[w].total ELSE -req[w].total
SignedQty(w) == IF req[w].op = "buy" THEN req[w].qty ELSE -req[w].qty

(* sell_stock takes the first row of the stock; no row counts as none held. *)
Held(d, k) == IF d.held[k] = <<>> THEN 0 ELSE d.held[k][1]

(* Faulty variants of the operators below: a check that is off by one, an UPDATE
   that overwrites, a trade recorded without its sign, a deposit that falls
   through to the next statement of a sale. *)
ShortByMoreThanOne(balance, total) == balance + 1 < total
LacksMoreThanOne(d, k, q) == Held(d, k) + 1 < q
OverwriteCash(d, a, x) == [d EXCEPT !.cash[a] = x]
AddTradeUnsigned(d, k, x, q) ==
    [d EXCEPT !.proceeds[k[1]] = @ + (IF x < 0 THEN -x ELSE x), !.traded[k] = @ + q]
AddTradeBought(d, k, x, q) ==
    [d EXCEPT !.proceeds[k[1]] = @ + x, !.traded[k] = @ + (IF q < 0 THEN -q ELSE q)]
AfterCashFallsThrough(op) == IF op = "buy" THEN "lookup" ELSE "reduce"

(* "balance < amount", "balance < total" *)
Short(balance, total) == balance < total

(* "held < quantity" *)
Lacks(d, k, q) == Held(d, k) < q

(* UPDATE accounts SET cash_balance = cash_balance + ? *)
AddCash(d, a, x) == [d EXCEPT !.cash[a] = @ + x]

(* UPDATE positions SET quantity = quantity + ?: all the rows of the holding. *)
AddToRows(d, k, q) == [d EXCEPT !.held[k] = [i \in DOMAIN @ |-> @[i] + q]]

(* INSERT INTO positions *)
AddRow(d, k, q) == [d EXCEPT !.held[k] = Append(@, q)]

(* INSERT INTO trades, on its totals *)
AddTrade(d, k, x, q) == [d EXCEPT !.proceeds[k[1]] = @ + x, !.traded[k] = @ + q]

-----------------------------------------------------------------------------
(* The account is registered and funded; some holdings exist. *)
Init ==
    /\ \E owned \in SUBSET Keys :
        ConnInit([cash     |-> [a \in Accounts |-> OpeningCash],
                  held     |-> [k \in Keys |-> IF k \in owned THEN <<OpeningShares>>
                                                               ELSE <<>>],
                  proceeds |-> [a \in Accounts |-> 0],
                  traded   |-> [k \in Keys |-> IF k \in owned THEN OpeningShares ELSE 0]])
    /\ unique \in BOOLEAN
    /\ pc = [w \in Workers |-> "idle"]
    /\ req = [w \in Workers |-> NoRequest]
    /\ wallet = [a \in Accounts |-> OpeningCash]
    /\ raced = {} /\ doubled = {} /\ tainted = {}
    /\ received = 0 /\ faults = 0 /\ batches = 0 /\ crashes = 0

(* The worker goes on with its next statement. *)
GoTo(w, stage) == pc' = [pc EXCEPT ![w] = stage] /\ UNCHANGED req

(* The handler returns its response. *)
Return(w) ==
    /\ pc' = [pc EXCEPT ![w] = "idle"]
    /\ req' = [req EXCEPT ![w] = NoRequest]

Receive(w) ==
    /\ pc[w] = "idle"
    /\ received < MaxRequests
    /\ \E r \in Request : req' = [req EXCEPT ![w] = r]
    /\ pc' = [pc EXCEPT ![w] = "auth"]
    /\ received' = received + 1
    /\ UNCHANGED <<connVars, unique, wallet, raced, doubled, tainted,
                   faults, batches, crashes>>

(* get_password and the comparison: the wrong password or an unknown account
   ends the request. A deposit has nothing else to check. *)
Authenticate(w) ==
    /\ pc[w] = "auth"
    /\ \/ Return(w)
       \/ req[w].op = "deposit" /\ GoTo(w, "cash")
       \/ req[w].op # "deposit" /\ GoTo(w, "check")
    /\ UNCHANGED <<connVars, unique, wallet, raced, doubled, tainted,
                   received, faults, batches, crashes>>

(* get_cash_balance and "balance < amount" of withdraw and buy_stock *)
CheckBalance(w) ==
    /\ pc[w] = "check" /\ req[w].op \in {"withdraw", "buy"}
    /\ IF Short(db.cash[Acct(w)], req[w].total) THEN Return(w) ELSE GoTo(w, "cash")
    /\ UNCHANGED <<connVars, unique, wallet, raced, doubled, tainted,
                   received, faults, batches, crashes>>

(* get_positions and "held < quantity" of sell_stock *)
CheckHeld(w) ==
    /\ pc[w] = "check" /\ req[w].op = "sell"
    /\ IF Lacks(db, Key(w), req[w].qty) THEN Return(w) ELSE GoTo(w, "cash")
    /\ UNCHANGED <<connVars, unique, wallet, raced, doubled, tainted,
                   received, faults, batches, crashes>>

(* A faulty variant of AfterCash: the position is left as it is. *)
AfterCashSkipsShares(op) == IF op \in {"buy", "sell"} THEN "record" ELSE "ack"

(* What a handler does after its cash statement. *)
AfterCash(op) == CASE op = "buy" -> "lookup" [] op = "sell" -> "reduce" [] OTHER -> "ack"

(* account_dao::deposit, of asset_ctrl::deposit and of sell_stock *)
Credit(w) ==
    /\ pc[w] = "cash" /\ req[w].op \in {"deposit", "sell"}
    /\ Exec(AddCash(db, Acct(w), req[w].total))
    /\ GoTo(w, AfterCash(req[w].op))
    /\ UNCHANGED <<unique, wallet, raced, doubled, tainted,
                   received, faults, batches, crashes>>

(* v has passed the balance check for account a and not yet debited it. *)
DebitPending(v, a) ==
    pc[v] = "cash" /\ req[v].op \in {"withdraw", "buy"} /\ Acct(v) = a

(* account_dao::withdraw, of asset_ctrl::withdraw and of buy_stock: the
   statement subtracts, whatever the balance has become since the check. *)
Debit(w) ==
    /\ pc[w] = "cash" /\ req[w].op \in {"withdraw", "buy"}
    /\ Exec(AddCash(db, Acct(w), -req[w].total))
    /\ GoTo(w, AfterCash(req[w].op))
    /\ raced' = IF \E v \in Workers \ {w} : DebitPending(v, Acct(w))
                THEN raced \cup {Acct(w)} ELSE raced
    /\ UNCHANGED <<unique, wallet, doubled, tainted, received, faults, batches, crashes>>

(* position_dao::buy_stock: is there a holding already? *)
LookUpPosition(w) ==
    /\ pc[w] = "lookup"
    /\ GoTo(w, IF db.held[Key(w)] # <<>> THEN "add" ELSE "open")
    /\ UNCHANGED <<connVars, unique, wallet, raced, doubled, tainted,
                   received, faults, batches, crashes>>

(* ... yes: UPDATE *)
AddShares(w) ==
    /\ pc[w] = "add"
    /\ Exec(AddToRows(db, Key(w), req[w].qty))
    /\ GoTo(w, "record")
    /\ UNCHANGED <<unique, wallet, raced, doubled, tainted,
                   received, faults, batches, crashes>>

(* ... no: INSERT. If a row has appeared since, a UNIQUE key refuses the
   insert (unnoticed); without the key there are two rows. *)
OpenPosition(w) ==
    /\ pc[w] = "open"
    /\ IF unique /\ db.held[Key(w)] # <<>>
       THEN UNCHANGED connVars
       ELSE Exec(AddRow(db, Key(w), req[w].qty))
    /\ GoTo(w, "record")
    /\ doubled' = IF db.held[Key(w)] # <<>> THEN doubled \cup {Key(w)} ELSE doubled
    /\ UNCHANGED <<unique, wallet, raced, tainted, received, faults, batches, crashes>>

(* v has passed the holding check for k and not yet reduced it. *)
SalePending(v, k) ==
    pc[v] \in {"cash", "reduce"} /\ req[v].op = "sell" /\ Key(v) = k

(* position_dao::sell_stock *)
ReduceShares(w) ==
    /\ pc[w] = "reduce"
    /\ Exec(AddToRows(db, Key(w), -req[w].qty))
    /\ GoTo(w, "record")
    /\ raced' = IF \E v \in Workers \ {w} : SalePending(v, Key(w))
                THEN raced \cup {Key(w)} ELSE raced
    /\ UNCHANGED <<unique, wallet, doubled, tainted, received, faults, batches, crashes>>

(* position_dao::insert_trade *)
RecordTrade(w) ==
    /\ pc[w] = "record"
    /\ Exec(AddTrade(db, Key(w), Signed(w), SignedQty(w)))
    /\ GoTo(w, "ack")
    /\ UNCHANGED <<unique, wallet, raced, doubled, tainted,
                   received, faults, batches, crashes>>

(* The success response; from here on the client counts on the request. *)
Respond(w) ==
    /\ pc[w] = "ack"
    /\ wallet' = IF IsTrade(w) THEN wallet ELSE [wallet EXCEPT ![Acct(w)] = @ + Signed(w)]
    /\ Return(w)
    /\ UNCHANGED <<connVars, unique, raced, doubled, tainted,
                   received, faults, batches, crashes>>

(* What a failing statement of the worker leaves inconsistent. A deposit or a
   withdrawal that fails reports it; a trade ignores it and goes on. *)
FaultTaint(w) ==
    CASE pc[w] = "cash" /\ ~IsTrade(w)       -> {}
      [] pc[w] = "cash" /\ IsTrade(w)        -> {Acct(w)}
      [] pc[w] \in {"add", "open", "reduce"} -> {Key(w)}
      [] pc[w] = "record"                    -> {Acct(w), Key(w)}

(* A write statement does not reach SQLITE_DONE (another process holds the
   database: no busy timeout is set). *)
StatementFails(w) ==
    /\ pc[w] \in {"cash", "add", "open", "reduce", "record"}
    /\ faults < MaxFaults
    /\ faults' = faults + 1
    /\ tainted' = tainted \cup FaultTaint(w)
    /\ CASE pc[w] = "cash" /\ ~IsTrade(w)       -> Return(w)
         [] pc[w] = "cash" /\ IsTrade(w)        -> GoTo(w, AfterCash(req[w].op))
         [] pc[w] \in {"add", "open", "reduce"} -> GoTo(w, "record")
         [] pc[w] = "record"                    -> GoTo(w, "ack")
    /\ UNCHANGED <<connVars, unique, wallet, raced, doubled, received, batches, crashes>>

-----------------------------------------------------------------------------
(* The stages at which a request has moved cash not yet confirmed or recorded. *)
CashInFlight(w) ==
    \/ pc[w] \in {"lookup", "add", "open", "reduce", "record"}
    \/ pc[w] = "ack" /\ ~IsTrade(w)

(* That cash, for account a ... *)
CashLeg(w, a) == IF CashInFlight(w) /\ Acct(w) = a THEN Signed(w) ELSE 0

(* ... and the shares moved and not yet recorded, for holding k. *)
ShareLeg(w, k) == IF pc[w] = "record" /\ Key(w) = k THEN SignedQty(w) ELSE 0

(* Accounts and holdings of requests a crash would cut between two writes. *)
Torn ==
    {Acct(w) : w \in {v \in Workers : CashInFlight(v)}}
    \cup {Key(w) : w \in {v \in Workers : pc[v] = "record"}}

(* Accounts and holdings with a change that is not on disk. *)
Unsaved ==
    {a \in Accounts : <<db.cash[a], db.proceeds[a]>> # <<disk.cash[a], disk.proceeds[a]>>}
    \cup {k \in Keys : <<db.held[k], db.traded[k]>> # <<disk.held[k], disk.traded[k]>>}

Crash ==
    /\ crashes < MaxCrashes
    /\ crashes' = crashes + 1
    /\ Recover
    /\ tainted' = tainted \cup Torn \cup Unsaved
    /\ pc' = [w \in Workers |-> "idle"]
    /\ req' = [w \in Workers |-> NoRequest]
    /\ UNCHANGED <<unique, wallet, raced, doubled, received, faults, batches>>

(* The price updater or a k-line request writes its own tables in a batch. *)
BackgroundBegin(b) ==
    /\ batches < MaxBatches
    /\ batches' = batches + 1
    /\ BeginBatch(b)
    /\ UNCHANGED <<unique, pc, req, wallet, raced, doubled, tainted,
                   received, faults, crashes>>

BackgroundCommit(b) == CommitBatch(b) /\ UNCHANGED tradeVars

Serve(w) ==
    \/ Receive(w) \/ Authenticate(w) \/ CheckBalance(w) \/ CheckHeld(w)
    \/ Credit(w) \/ Debit(w) \/ LookUpPosition(w) \/ AddShares(w) \/ OpenPosition(w)
    \/ ReduceShares(w) \/ RecordTrade(w) \/ Respond(w) \/ StatementFails(w)

Next ==
    \/ \E w \in Workers : Serve(w)
    \/ \E b \in Batchers : BackgroundBegin(b) \/ BackgroundCommit(b)
    \/ Crash

Spec == Init /\ [][Next]_vars

-----------------------------------------------------------------------------
(* Properties *)

Tables == [cash : [Accounts -> Int], held : [Keys -> Seq(Int)],
           proceeds : [Accounts -> Int], traded : [Keys -> Int]]

TablesOK ==
    /\ db \in Tables /\ disk \in Tables
    /\ inTxn \in BOOLEAN /\ batch \in [Batchers -> {"idle", "open"}]

(* Which requests reach which statement. *)
Fits(stage, op) ==
    /\ stage \in {"lookup", "add", "open"} => op = "buy"
    /\ stage = "reduce" => op = "sell"
    /\ stage = "record" => op \in {"buy", "sell"}
    /\ stage = "check" => op # "deposit"

ServiceOK ==
    /\ pc \in [Workers -> Stages]
    /\ req \in [Workers -> Request \cup {NoRequest}]
    /\ \A w \in Workers : /\ pc[w] = "idle" <=> req[w] = NoRequest
                          /\ Fits(pc[w], req[w].op)

HistoryOK ==
    /\ unique \in BOOLEAN
    /\ wallet \in [Accounts -> Int]
    /\ raced \subseteq Accounts \cup Keys
    /\ doubled \subseteq Keys
    /\ tainted \subseteq Accounts \cup Keys
    /\ received \in Nat /\ faults \in Nat /\ batches \in Nat /\ crashes \in Nat

(* Shape of the state; in particular a worker only ever stands at a statement
   of the handler that serves its request. *)
TypeOK == TablesOK /\ ServiceOK /\ HistoryOK

(***************************************************************************)
(* Cash is neither lost nor made by interleavings: a balance is what the   *)
(* clients confirmed into it, plus what the trades table records, plus     *)
(* what requests in flight have moved and not yet confirmed or recorded.   *)
(* An account is exempt once a failed statement or a crash has cut one of  *)
(* its requests in two: the handlers of a trade ignore the results of      *)
(* their statements and nothing rolls them back.                           *)
(***************************************************************************)
CashReconciles ==
    \A a \in Accounts \ tainted :
        db.cash[a] = wallet[a] + db.proceeds[a]
                     + SumFunction([w \in Workers |-> CashLeg(w, a)])

(***************************************************************************)
(* The same of shares: a holding is what the trades table records plus     *)
(* what requests in flight have moved. Two first purchases of a stock that *)
(* cross are exempt (both find no holding, both INSERT).                   *)
(***************************************************************************)
SharesReconcile ==
    \A k \in Keys \ (tainted \cup doubled) :
        Held(db, k) = db.traded[k] + SumFunction([w \in Workers |-> ShareLeg(w, k)])

(***************************************************************************)
(* "balance < amount" is a check of one statement and the debit another.   *)
(* The only way to a negative balance is for a debit of the account to run *)
(* while another worker stands between its own check and its debit; no     *)
(* fault, crash or batch gets there, and neither does what is on disk.     *)
(***************************************************************************)
OverdraftOnlyByRace ==
    \A a \in Accounts \ raced : db.cash[a] >= 0 /\ disk.cash[a] >= 0

(***************************************************************************)
(* The same of shares: a holding goes negative or splits into two rows     *)
(* only by two sales, or by two first purchases, of it that cross.         *)
(***************************************************************************)
ShortOnlyByRace ==
    \A k \in Keys \ (raced \cup doubled) :
        \A d \in {db, disk} : Len(d.held[k]) <= 1 /\ Held(d, k) >= 0

(* Cash of an account that is neither confirmed to a client nor recorded. *)
Unbooked(a) == db.cash[a] - wallet[a] - db.proceeds[a]

(* What the books of an account and of a holding are out by: what has moved and
   is neither confirmed, nor recorded, nor in flight. *)
CashError(a) == Unbooked(a) - SumFunction([w \in Workers |-> CashLeg(w, a)])
ShareError(k) ==
    Held(db, k) - db.traded[k] - SumFunction([w \in Workers |-> ShareLeg(w, k)])

(* The most that one request moves. *)
Totals == {0} \cup {r.total : r \in Request}
LargestTotal == Max(Totals)
LargestQuantity == Max({0} \cup Quantities)

(***************************************************************************)
(* The handlers of a trade ignore the results of their statements and go   *)
(* on.  However a failure falls among the statements of other requests, it *)
(* puts the books out by no more than the one request it hit, on either    *)
(* side: no later request builds on what it left and makes it worse.  (A   *)
(* crash may take back any number of answered requests; two crossing first *)
(* purchases are exempt as in SharesReconcile.)                            *)
(***************************************************************************)
DamagePerFault ==
    crashes = 0 =>
        /\ \A a \in Accounts :
               CashError(a) \in -(faults * LargestTotal) .. faults * LargestTotal
        /\ \A k \in Keys \ doubled :
               ShareError(k) \in -(faults * LargestQuantity) .. faults * LargestQuantity

(***************************************************************************)
(* What the project's weekly report says of sell_stock: the holding is     *)
(* checked before the sale, so that no more is sold than is held.          *)
(***************************************************************************)
NoOversell == \A k \in Keys : \A i \in DOMAIN db.held[k] : db.held[k][i] >= 0
=============================================================================
