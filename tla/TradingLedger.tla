---------------------------- MODULE TradingLedger ----------------------------
(***************************************************************************)
(* Trading implements Ledger. A request takes effect at its cash statement *)
(* (Credit or Debit): everything it has still to do after that, the shares *)
(* it has to move, the trade it has to record, the answer to the client,   *)
(* is counted as done.                                                     *)
(***************************************************************************)
EXTENDS Trading

(* Account numbers are strings; no account is named like a holding. *)
ASSUME NamesAssumption == Accounts \cap Keys = {}

(* Cash deposits and withdrawals have moved and not yet confirmed... *)
ClientLeg(w, a) == IF IsTrade(w) THEN 0 ELSE CashLeg(w, a)
Unconfirmed(a) == SumFunction([w \in Workers |-> ClientLeg(w, a)])

(* ... and cash trades have moved and not yet recorded. *)
TradeLeg(w, a) == IF IsTrade(w) THEN CashLeg(w, a) ELSE 0
Unrecorded(a) == SumFunction([w \in Workers |-> TradeLeg(w, a)])

(* Worker w has paid or been paid for a trade of k and has one of these
   stages still before it. *)
Paid(w, k, stages) == pc[w] \in stages /\ Key(w) = k

(* The shares a paid trade of k has yet to move, and yet to record... *)
UnmovedLeg(w, k) ==
    IF Paid(w, k, {"lookup", "add", "open", "reduce"}) THEN SignedQty(w) ELSE 0
UnrecordedLeg(w, k) ==
    IF Paid(w, k, {"lookup", "add", "open", "reduce", "record"}) THEN SignedQty(w) ELSE 0

(* ... and those of all the trades. *)
Unmoved(k) == SumFunction([w \in Workers |-> UnmovedLeg(w, k)])
UnrecordedShares(k) == SumFunction([w \in Workers |-> UnrecordedLeg(w, k)])

(* Two sales of the holding, each past its check. *)
Crossing == {k \in Keys : \E v, w \in Workers : v # w /\ SalePending(v, k) /\ SalePending(w, k)}

(* A fault or a crash that hits an account leaves its holdings in doubt. *)
Spoilt == tainted \cup doubled \cup {k \in Keys : k[1] \in tainted}

Book == INSTANCE Ledger WITH
    cash      <- db.cash,
    deposits  <- [a \in Accounts |-> wallet[a] + Unconfirmed(a)],
    proceeds  <- [a \in Accounts |-> db.proceeds[a] + Unrecorded(a)],
    shares    <- [k \in Keys |-> Held(db, k) + Unmoved(k)],
    traded    <- [k \in Keys |-> db.traded[k] + UnrecordedShares(k)],
    contested <- raced \cup Crossing,
    spoilt    <- Spoilt

(***************************************************************************)
(* The handlers keep the promise of the account book: seen from the cash   *)
(* statements on, every request is one atomic operation that takes no more *)
(* than there is, unless checks and writes of two requests crossed there,  *)
(* and a failing statement, a crash or two first purchases that cross      *)
(* spoil only the accounts and holdings they hit.                          *)
(***************************************************************************)
ImplementsLedger == Book!Spec
=============================================================================
