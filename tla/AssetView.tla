------------------------------ MODULE AssetView ------------------------------
(***************************************************************************)
(* asset_ctrl::get_asset while the handlers of Trading run: it reads the   *)
(* balance, the positions and the price of each position in statements of  *)
(* their own, and adds up what it has read.  One request of this kind is   *)
(* under way at a time; it changes nothing.                                *)
(*                                                                         *)
(* Prices do not move here: what the price updater does to them is the     *)
(* subject of PriceFeed.                                                   *)
(***************************************************************************)
EXTENDS Trading

CONSTANTS
    Listed,        \* the stocks that have a row in the stocks table
    MarketPrice,   \* the price of a listed stock
    MaxViews       \* bound: asset requests received

ASSUME ViewAssumption == MarketPrice \in Nat /\ MaxViews \in Nat
ASSUME StocksAssumption == IsFiniteSet(Stocks)

VARIABLES
    stage,      \* the statement get_asset runs next, "idle" between requests
    viewed,     \* the account asked about
    total,      \* cash read, and market values added so far
    positions,  \* rows of the account still to be valued
    slack,      \* cash or shares of the account moved by requests met, in money
    views

readerVars == <<stage, viewed, total, positions>>
viewVars == <<vars, readerVars, slack, views>>

ViewStages == {"idle", "cash", "positions", "values", "respond"}
NoAccount == "none"
ASSUME NoAccountAssumption == NoAccount \notin Accounts

(* A faulty variant of AddValue: the sum keeps the last position only. *)
AddLastValue(sum, row, price) == row.quantity * price

(* get_stock_by_name: a name without a row gives the empty Stock. *)
PriceOf(s) == IF s \in Listed THEN MarketPrice ELSE 0

(* stock_value += stock.price * pos.quantity *)
AddValue(sum, row, price) == sum + row.quantity * price

(* get_positions: all the rows of the account, also of a holding that has two. *)
RowsOf(d, a) ==
    UNION {{[stock |-> s, row |-> i, quantity |-> d.held[<<a, s>>][i]] :
                i \in DOMAIN d.held[<<a, s>>]} : s \in Stocks}

-----------------------------------------------------------------------------
(* What a request can make a view wrong by: the cash or the shares it moves,
   whichever is worth more. *)
Exposure(r) ==
    IF r.op \in {"deposit", "withdraw"} THEN r.total
    ELSE Max({r.total, r.qty * PriceOf(r.stock)})

(* Requests for account a between their first write and their last. *)
Moving(w, a) == CashInFlight(w) /\ Acct(w) = a

SlackAtStart(a) ==
    SumFunction([w \in Workers |-> IF Moving(w, a) THEN Exposure(req[w]) ELSE 0])

(* Of the workers that start to move the account's cash in this step. *)
SlackOfStep ==
    IF viewed = NoAccount THEN 0
    ELSE SumFunction([w \in Workers |-> IF ~Moving(w, viewed) /\ Moving(w, viewed)'
                                         THEN Exposure(req[w]) ELSE 0])

-----------------------------------------------------------------------------
ViewInit ==
    /\ Init
    /\ stage = "idle" /\ viewed = NoAccount /\ total = 0 /\ positions = {}
    /\ slack = 0 /\ views = 0

Ask ==
    /\ stage = "idle" /\ views < MaxViews
    /\ views' = views + 1
    /\ \E a \in Accounts : viewed' = a /\ slack' = SlackAtStart(a)
    /\ stage' = "cash"
    /\ UNCHANGED <<vars, total, positions>>

ReadCash ==
    /\ stage = "cash" /\ stage' = "positions"
    /\ total' = db.cash[viewed]
    /\ UNCHANGED <<vars, viewed, positions, slack, views>>

ReadPositions ==
    /\ stage = "positions" /\ stage' = "values"
    /\ positions' = RowsOf(db, viewed)
    /\ UNCHANGED <<vars, viewed, total, slack, views>>

(* One turn of the loop: the SELECT of the price and the sum. *)
ValuePosition ==
    /\ stage = "values"
    /\ \E row \in positions :
           /\ total' = AddValue(total, row, PriceOf(row.stock))
           /\ positions' = positions \ {row}
    /\ UNCHANGED <<vars, stage, viewed, slack, views>>

Total ==
    /\ stage = "values" /\ positions = {} /\ stage' = "respond"
    /\ UNCHANGED <<vars, viewed, total, positions, slack, views>>

(* A faulty variant of Forget: the account stays with the idle reader. *)
ForgetAllButAccount ==
    stage' = "idle" /\ total' = 0 /\ positions' = {} /\ slack' = 0 /\ UNCHANGED viewed

Forget == stage' = "idle" /\ viewed' = NoAccount /\ total' = 0 /\ positions' = {} /\ slack' = 0

Answer == stage = "respond" /\ Forget /\ UNCHANGED <<vars, views>>

(* A step of the other threads; a crash ends the view with everything else. *)
OthersRun ==
    \/ /\ Next /\ crashes' = crashes
       /\ UNCHANGED <<readerVars, views>>
       /\ slack' = slack + SlackOfStep
    \/ Crash /\ Forget /\ UNCHANGED views

ViewNext == Ask \/ ReadCash \/ ReadPositions \/ ValuePosition \/ Total \/ Answer \/ OthersRun

ViewSpec == ViewInit /\ [][ViewNext]_viewVars

-----------------------------------------------------------------------------
(* Properties *)

(* Shape of the state. *)
ViewTypeOK ==
    /\ stage \in ViewStages
    /\ viewed \in Accounts \cup {NoAccount} /\ (stage = "idle" <=> viewed = NoAccount)
    /\ total \in Int /\ slack \in Int /\ views \in 0 .. MaxViews
    /\ positions \subseteq [stock : Stocks, row : Nat \ {0}, quantity : Int]
    /\ positions # {} => stage = "values"

(* What account a is worth by what was confirmed to it and recorded of it. *)
Booked(a) ==
    wallet[a] + db.proceeds[a]
    + SumFunction([s \in Stocks |-> db.traded[<<a, s>>] * PriceOf(s)])

(* No fault, crash or doubled holding has touched the account. *)
Sound(a) ==
    /\ a \notin tainted
    /\ \A s \in Stocks : <<a, s>> \notin tainted \cup doubled

(***************************************************************************)
(* The total get_asset reports is the worth of the account in the books,   *)
(* give or take, for each request that was moving its cash or shares       *)
(* meanwhile, one side of that request: its cash or its shares, never      *)
(* both.  A view no request overlaps reports exactly the books.            *)
(***************************************************************************)
TotalWithinOverlap ==
    stage = "respond" /\ Sound(viewed)
        => total - Booked(viewed) \in -slack .. slack
=============================================================================
