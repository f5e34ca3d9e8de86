--------------------------- MODULE TradingProofs ---------------------------
(***************************************************************************)
(* Proofs about Trading and about the two modules built on it, for every   *)
(* set of workers, accounts and stocks and every bound: the handlers by    *)
(* themselves, then as an implementation of Ledger, then with a reader of  *)
(* AssetView beside them.                                                  *)
(***************************************************************************)
EXTENDS TradingLedger, AssetView, SequenceTheorems, DataTheorems, TLAPS

-----------------------------------------------------------------------------
(* What requests and statements are made of. *)

LEMMA RequestType ==
    ASSUME NEW r \in Request
    PROVE  /\ r # NoRequest
           /\ r.acct \in Accounts /\ r.total \in Int
           /\ r.op \in {"deposit", "withdraw", "buy", "sell"}
           /\ r.op \in {"buy", "sell"} => r.stock \in Stocks /\ r.qty \in Int
  <1>1. CASE r \in CashRequest
    <2>1. r.op \in {"deposit", "withdraw"} /\ r.acct \in Accounts /\ r.total \in Amounts
      BY <1>1 DEF CashRequest
    <2>2. r.op # NoRequest.op
      BY <2>1 DEF NoRequest
    <2>3. r.total \in Int
      BY <2>1, AmountsAssumption
    <2> QED BY <2>1, <2>2, <2>3
  <1>2. CASE r \in TradeRequest
    <2>1. PICK o \in {"buy", "sell"}, a \in Accounts, s \in Stocks,
               q \in Quantities, p \in Prices :
               r = [op |-> o, acct |-> a, stock |-> s, qty |-> q, total |-> p * q]
      BY <1>2 DEF TradeRequest
    <2>2. q \in Int /\ p \in Int
      BY QuantitiesAssumption, PricesAssumption
    <2>3. p * q \in Int
      BY <2>2
    <2> QED BY <2>1, <2>2, <2>3 DEF NoRequest
  <1> QED BY <1>1, <1>2 DEF Request

LEMMA AddCashType ==
    ASSUME NEW d \in Tables, NEW a \in Accounts, NEW x \in Int
    PROVE  /\ AddCash(d, a, x) \in Tables
           /\ AddCash(d, a, x).cash = [d.cash EXCEPT ![a] = @ + x]
           /\ AddCash(d, a, x).held = d.held
           /\ AddCash(d, a, x).proceeds = d.proceeds
           /\ AddCash(d, a, x).traded = d.traded
  <1> DEFINE new == [d.cash EXCEPT ![a] = @ + x]
  <1>1. new \in [Accounts -> Int]
    BY DEF Tables
  <1>2. AddCash(d, a, x) = [d EXCEPT !.cash = new]
    BY DEF AddCash, Tables
  <1> HIDE DEF new
  <1>3. /\ AddCash(d, a, x) \in Tables
        /\ AddCash(d, a, x).cash = new
        /\ AddCash(d, a, x).held = d.held
        /\ AddCash(d, a, x).proceeds = d.proceeds
        /\ AddCash(d, a, x).traded = d.traded
    BY <1>1, <1>2 DEF Tables
  <1> QED BY <1>3 DEF new

LEMMA AddToRowsType ==
    ASSUME NEW d \in Tables, NEW k \in Keys, NEW q \in Int
    PROVE  /\ AddToRows(d, k, q) \in Tables
           /\ AddToRows(d, k, q).cash = d.cash
           /\ AddToRows(d, k, q).held =
                [d.held EXCEPT ![k] = [i \in DOMAIN @ |-> @[i] + q]]
           /\ AddToRows(d, k, q).proceeds = d.proceeds
           /\ AddToRows(d, k, q).traded = d.traded
  <1> DEFINE rows == d.held[k]
             new == [i \in DOMAIN rows |-> rows[i] + q]
  <1>1. rows \in Seq(Int)
    BY DEF Tables
  <1>2. new \in Seq(Int)
    <2>1. PICK n \in Nat : rows \in [1 .. n -> Int]
      BY <1>1
    <2>2. new \in [1 .. n -> Int]
      BY <2>1
    <2> QED BY <2>2
  <1>3. AddToRows(d, k, q) = [d EXCEPT !.held = [d.held EXCEPT ![k] = new]]
    BY DEF AddToRows, Tables
  <1> HIDE DEF new
  <1>4. [d.held EXCEPT ![k] = new] \in [Keys -> Seq(Int)]
    BY <1>2 DEF Tables
  <1>5. /\ AddToRows(d, k, q) \in Tables
        /\ AddToRows(d, k, q).cash = d.cash
        /\ AddToRows(d, k, q).held = [d.held EXCEPT ![k] = new]
        /\ AddToRows(d, k, q).proceeds = d.proceeds
        /\ AddToRows(d, k, q).traded = d.traded
    BY <1>3, <1>4 DEF Tables
  <1> QED BY <1>5 DEF new

LEMMA AddRowType ==
    ASSUME NEW d \in Tables, NEW k \in Keys, NEW q \in Int
    PROVE  /\ AddRow(d, k, q) \in Tables
           /\ AddRow(d, k, q).cash = d.cash
           /\ AddRow(d, k, q).held = [d.held EXCEPT ![k] = Append(@, q)]
           /\ AddRow(d, k, q).proceeds = d.proceeds
           /\ AddRow(d, k, q).traded = d.traded
  <1>1. Append(d.held[k], q) \in Seq(Int)
    BY DEF Tables
  <1> QED BY <1>1 DEF AddRow, Tables

LEMMA AddTradeType ==
    ASSUME NEW d \in Tables, NEW k \in Keys, NEW x \in Int, NEW q \in Int
    PROVE  /\ AddTrade(d, k, x, q) \in Tables
           /\ AddTrade(d, k, x, q).cash = d.cash
           /\ AddTrade(d, k, x, q).held = d.held
  <1>1. k[1] \in Accounts
    BY DEF Keys
  <1> DEFINE cash == [d.proceeds EXCEPT ![k[1]] = @ + x]
             shares == [d.traded EXCEPT ![k] = @ + q]
  <1>2. cash \in [Accounts -> Int] /\ shares \in [Keys -> Int]
    BY <1>1 DEF Tables
  <1>3. AddTrade(d, k, x, q) = [d EXCEPT !.proceeds = cash, !.traded = shares]
    BY <1>1 DEF AddTrade, Tables
  <1> HIDE DEF cash, shares
  <1>4. /\ AddTrade(d, k, x, q) \in Tables
        /\ AddTrade(d, k, x, q).cash = d.cash
        /\ AddTrade(d, k, x, q).held = d.held
    BY <1>2, <1>3 DEF Tables
  <1> QED BY <1>4

LEMMA AddTradeProceeds ==
    ASSUME NEW d \in Tables, NEW k \in Keys, NEW x \in Int, NEW q \in Int
    PROVE  AddTrade(d, k, x, q).proceeds = [d.proceeds EXCEPT ![k[1]] = @ + x]
  BY DEF AddTrade, Tables

LEMMA ServingType ==
    ASSUME TypeOK, NEW w \in Workers, pc[w] # "idle"
    PROVE  /\ req[w] \in Request
           /\ Acct(w) \in Accounts /\ req[w].total \in Int /\ Signed(w) \in Int
           /\ req[w].op \in {"deposit", "withdraw", "buy", "sell"}
           /\ IsTrade(w) => /\ req[w].stock \in Stocks /\ Key(w) \in Keys
                            /\ Key(w) = <<Acct(w), req[w].stock>>
                            /\ req[w].qty \in Int /\ SignedQty(w) \in Int
  <1>1. req[w] \in Request
    BY DEF TypeOK, ServiceOK
  <1>2. /\ req[w].acct \in Accounts /\ req[w].total \in Int
        /\ req[w].op \in {"deposit", "withdraw", "buy", "sell"}
        /\ req[w].op \in {"buy", "sell"} => req[w].stock \in Stocks /\ req[w].qty \in Int
    BY <1>1, RequestType
  <1> QED BY <1>1, <1>2 DEF Acct, Signed, IsTrade, Key, Keys, SignedQty

-----------------------------------------------------------------------------
(* Type correctness, part by part. *)

LEMMA ExecType ==
    ASSUME TablesOK, NEW new \in Tables, Exec(new)
    PROVE  TablesOK'
  BY DEF TablesOK, Exec

LEMMA GoToType ==
    ASSUME ServiceOK, NEW w \in Workers, pc[w] # "idle",
           NEW next \in Stages \ {"idle"}, Fits(next, req[w].op), GoTo(w, next)
    PROVE  ServiceOK'
  BY DEF ServiceOK, GoTo

LEMMA ReturnType ==
    ASSUME ServiceOK, NEW w \in Workers, Return(w)
    PROVE  ServiceOK'
  BY DEF ServiceOK, Return, Fits, Stages

(* A crash or the start of a request. *)
LEMMA ReceiveType ==
    ASSUME ServiceOK, NEW w \in Workers, Receive(w)
    PROVE  ServiceOK'
  <1>1. PICK r \in Request : req' = [req EXCEPT ![w] = r]
    BY DEF Receive
  <1>2. r # NoRequest
    BY RequestType
  <1>3. pc' = [pc EXCEPT ![w] = "auth"]
    BY DEF Receive
  <1> QED BY <1>1, <1>2, <1>3 DEF ServiceOK, Fits, Stages

LEMMA TypeInit == Init => TypeOK
  <1> SUFFICES ASSUME Init PROVE TypeOK
    OBVIOUS
  <1>1. PICK owned \in SUBSET Keys :
          ConnInit([cash     |-> [a \in Accounts |-> OpeningCash],
                    held     |-> [k \in Keys |-> IF k \in owned THEN <<OpeningShares>>
                                                                ELSE <<>>],
                    proceeds |-> [a \in Accounts |-> 0],
                    traded   |-> [k \in Keys |-> IF k \in owned THEN OpeningShares ELSE 0]])
    BY DEF Init
  <1>2. TablesOK
    <2>1. <<OpeningShares>> \in Seq(Int) /\ <<>> \in Seq(Int)
      BY OpeningAssumption
    <2>2. [k \in Keys |-> IF k \in owned THEN <<OpeningShares>> ELSE <<>>]
            \in [Keys -> Seq(Int)]
      BY <2>1
    <2>3. db \in Tables
      BY <1>1, <2>2, OpeningAssumption DEF ConnInit, Tables
    <2> QED BY <1>1, <2>3 DEF ConnInit, TablesOK
  <1>3. ServiceOK
    BY DEF Init, ServiceOK, Fits, Stages
  <1>4. HistoryOK
    BY OpeningAssumption DEF Init, HistoryOK
  <1> QED BY <1>2, <1>3, <1>4 DEF TypeOK

LEMMA TypeStep == TypeOK /\ [Next]_vars => TypeOK'
  <1> SUFFICES ASSUME TypeOK, [Next]_vars PROVE TypeOK'
    OBVIOUS
  <1> USE DEF TypeOK
  <1>1. ASSUME NEW w \in Workers, Receive(w) PROVE TypeOK'
    <2>1. ServiceOK'
      BY <1>1, ReceiveType
    <2>2. TablesOK' /\ HistoryOK'
      BY <1>1, BoundsAssumption DEF Receive, connVars, TablesOK, HistoryOK
    <2> QED BY <2>1, <2>2
  <1>2. ASSUME NEW w \in Workers, Authenticate(w) PROVE TypeOK'
    <2>1. ServiceOK'
      <3>1. CASE Return(w)
        BY <3>1, ReturnType
      <3>2. CASE req[w].op = "deposit" /\ GoTo(w, "cash")
        BY <1>2, <3>2, GoToType DEF Authenticate, Fits, Stages
      <3>3. CASE req[w].op # "deposit" /\ GoTo(w, "check")
        BY <1>2, <3>3, GoToType DEF Authenticate, Fits, Stages
      <3> QED BY <1>2, <3>1, <3>2, <3>3 DEF Authenticate
    <2>2. TablesOK' /\ HistoryOK'
      BY <1>2 DEF Authenticate, connVars, TablesOK, HistoryOK
    <2> QED BY <2>1, <2>2
  <1>3. ASSUME NEW w \in Workers, CheckBalance(w) \/ CheckHeld(w) PROVE TypeOK'
    <2>1. pc[w] = "check" /\ (Return(w) \/ GoTo(w, "cash"))
      BY <1>3 DEF CheckBalance, CheckHeld
    <2>2. ServiceOK'
      BY <2>1, ReturnType, GoToType DEF Fits, Stages
    <2>3. TablesOK' /\ HistoryOK'
      BY <1>3 DEF CheckBalance, CheckHeld, connVars, TablesOK, HistoryOK
    <2> QED BY <2>2, <2>3
  <1>4. ASSUME NEW w \in Workers, Credit(w) \/ Debit(w) PROVE TypeOK'
    <2>0. pc[w] = "cash" /\ GoTo(w, AfterCash(req[w].op))
      BY <1>4 DEF Credit, Debit
    <2>1. Acct(w) \in Accounts /\ req[w].total \in Int /\ -req[w].total \in Int
          /\ req[w].op \in {"deposit", "withdraw", "buy", "sell"}
      BY <2>0, ServingType
    <2>2. TablesOK'
      <3>1. db \in Tables
        BY DEF TablesOK
      <3>2. PICK x \in Int : Exec(AddCash(db, Acct(w), x))
        BY <1>4, <2>1 DEF Credit, Debit
      <3> QED BY <2>1, <3>1, <3>2, AddCashType, ExecType
    <2>3. ServiceOK'
      BY <2>0, <2>1, GoToType DEF AfterCash, Fits, Stages
    <2>4. HistoryOK'
      BY <1>4, <2>1 DEF Credit, Debit, HistoryOK
    <2> QED BY <2>2, <2>3, <2>4
  <1>5. ASSUME NEW w \in Workers, LookUpPosition(w) PROVE TypeOK'
    <2>1. pc[w] = "lookup" /\ req[w].op = "buy" /\ (GoTo(w, "add") \/ GoTo(w, "open"))
      BY <1>5 DEF LookUpPosition, ServiceOK, Fits
    <2>2. ServiceOK'
      BY <2>1, GoToType DEF Fits, Stages
    <2>3. TablesOK' /\ HistoryOK'
      BY <1>5 DEF LookUpPosition, connVars, TablesOK, HistoryOK
    <2> QED BY <2>2, <2>3
  <1>6. ASSUME NEW w \in Workers, AddShares(w) \/ OpenPosition(w) \/ ReduceShares(w)
        PROVE TypeOK'
    <2>1. /\ pc[w] \in {"add", "open", "reduce"} /\ IsTrade(w)
          /\ GoTo(w, "record")
      BY <1>6 DEF AddShares, OpenPosition, ReduceShares, ServiceOK, Fits, IsTrade
    <2>2. Key(w) \in Keys /\ req[w].qty \in Int /\ -req[w].qty \in Int
      BY <2>1, ServingType
    <2>3. TablesOK'
      <3>1. db \in Tables
        BY DEF TablesOK
      <3>2. \/ UNCHANGED connVars
            \/ \E q \in Int : Exec(AddToRows(db, Key(w), q)) \/ Exec(AddRow(db, Key(w), q))
        BY <1>6, <2>2 DEF AddShares, OpenPosition, ReduceShares
      <3>3. CASE UNCHANGED connVars
        BY <3>3 DEF connVars, TablesOK
      <3>4. CASE \E q \in Int : Exec(AddToRows(db, Key(w), q)) \/ Exec(AddRow(db, Key(w), q))
        BY <2>2, <3>1, <3>4, AddToRowsType, AddRowType, ExecType
      <3> QED BY <3>2, <3>3, <3>4
    <2>4. ServiceOK'
      BY <2>1, GoToType DEF Fits, Stages, IsTrade
    <2>5. HistoryOK'
      BY <1>6, <2>2 DEF AddShares, OpenPosition, ReduceShares, HistoryOK
    <2> QED BY <2>3, <2>4, <2>5
  <1>7. ASSUME NEW w \in Workers, RecordTrade(w) PROVE TypeOK'
    <2>1. pc[w] = "record" /\ IsTrade(w) /\ GoTo(w, "ack")
      BY <1>7 DEF RecordTrade, ServiceOK, Fits, IsTrade
    <2>2. Key(w) \in Keys /\ Signed(w) \in Int /\ SignedQty(w) \in Int
      BY <2>1, ServingType
    <2>3. TablesOK'
      <3>1. AddTrade(db, Key(w), Signed(w), SignedQty(w)) \in Tables
        BY <2>2, AddTradeType DEF TablesOK
      <3>2. Exec(AddTrade(db, Key(w), Signed(w), SignedQty(w)))
        BY <1>7 DEF RecordTrade
      <3> QED BY <3>1, <3>2, ExecType
    <2>4. ServiceOK'
      BY <2>1, GoToType DEF Fits, Stages
    <2>5. HistoryOK'
      BY <1>7 DEF RecordTrade, HistoryOK
    <2> QED BY <2>3, <2>4, <2>5
  <1>8. ASSUME NEW w \in Workers, Respond(w) PROVE TypeOK'
    <2>1. Acct(w) \in Accounts /\ Signed(w) \in Int
      BY <1>8, ServingType DEF Respond
    <2>2. ServiceOK'
      BY <1>8, ReturnType DEF Respond
    <2>3. TablesOK' /\ HistoryOK'
      BY <1>8, <2>1 DEF Respond, connVars, TablesOK, HistoryOK
    <2> QED BY <2>2, <2>3
  <1>9. ASSUME NEW w \in Workers, StatementFails(w) PROVE TypeOK'
    <2>1. pc[w] \in {"cash", "add", "open", "reduce", "record"}
      BY <1>9 DEF StatementFails
    <2>2. /\ Acct(w) \in Accounts
          /\ req[w].op \in {"deposit", "withdraw", "buy", "sell"}
          /\ IsTrade(w) => Key(w) \in Keys
      BY <2>1, ServingType
    <2>3. pc[w] # "cash" => IsTrade(w)
      BY <2>1 DEF ServiceOK, Fits, IsTrade
    <2>4. ServiceOK'
      <3>1. \/ Return(w)
            \/ pc[w] = "cash" /\ IsTrade(w) /\ GoTo(w, AfterCash(req[w].op))
            \/ pc[w] # "cash" /\ (GoTo(w, "record") \/ GoTo(w, "ack"))
        BY <1>9, <2>1 DEF StatementFails
      <3> QED BY <2>1, <2>2, <2>3, <3>1, ReturnType, GoToType
              DEF AfterCash, IsTrade, Fits, Stages
    <2>5. FaultTaint(w) \subseteq Accounts \cup Keys
      BY <2>1, <2>2, <2>3 DEF FaultTaint
    <2>6. TablesOK' /\ HistoryOK'
      BY <1>9, <2>5 DEF StatementFails, connVars, TablesOK, HistoryOK
    <2> QED BY <2>4, <2>6
  <1>10. ASSUME Crash PROVE TypeOK'
    <2>1. ServiceOK'
      BY <1>10 DEF Crash, ServiceOK, Fits, Stages
    <2>2. TablesOK'
      BY <1>10 DEF Crash, Recover, TablesOK
    <2>3. Torn \subseteq Accounts \cup Keys
      <3>1. \A w \in Workers : CashInFlight(w) => Acct(w) \in Accounts
        BY ServingType DEF CashInFlight
      <3>2. \A w \in Workers : pc[w] = "record" => Key(w) \in Keys
        BY ServingType DEF ServiceOK, Fits, IsTrade
      <3> QED BY <3>1, <3>2 DEF Torn
    <2>4. HistoryOK'
      BY <1>10, <2>3 DEF Crash, Unsaved, HistoryOK
    <2> QED BY <2>1, <2>2, <2>4
  <1>11. ASSUME NEW b \in Batchers, BackgroundBegin(b) PROVE TypeOK'
    BY <1>11 DEF BackgroundBegin, BeginBatch, TablesOK, ServiceOK, HistoryOK
  <1>12. ASSUME NEW b \in Batchers, BackgroundCommit(b) PROVE TypeOK'
    BY <1>12 DEF BackgroundCommit, CommitBatch, tradeVars, TablesOK, ServiceOK, HistoryOK
  <1>13. CASE UNCHANGED vars
    BY <1>13 DEF vars, connVars, tradeVars, TablesOK, ServiceOK, HistoryOK
  <1> QED
    BY <1>1, <1>2, <1>3, <1>4, <1>5, <1>6, <1>7, <1>8, <1>9, <1>10, <1>11, <1>12, <1>13
    DEF Next, Serve

(* The shape of the state: what a worker is about to run fits its request. *)
THEOREM TypeCorrect == Spec => []TypeOK
  BY TypeInit, TypeStep, PTL DEF Spec

-----------------------------------------------------------------------------
(* The connection. *)

(* What one step does to the connection: nothing, one statement, a BEGIN, a
   COMMIT or a recovery. *)
LEMMA ConnectionStep ==
    ASSUME [Next]_vars
    PROVE  \/ UNCHANGED connVars
           \/ \E new : Exec(new)
           \/ \E b \in Batchers : BeginBatch(b) \/ CommitBatch(b)
           \/ Recover
  <1>1. ASSUME NEW w \in Workers, Serve(w)
        PROVE  UNCHANGED connVars \/ \E new : Exec(new)
    <2>1. CASE \/ Receive(w) \/ Authenticate(w) \/ CheckBalance(w) \/ CheckHeld(w)
               \/ LookUpPosition(w) \/ Respond(w) \/ StatementFails(w)
      BY <2>1 DEF Receive, Authenticate, CheckBalance, CheckHeld, LookUpPosition,
                  Respond, StatementFails
    <2>2. CASE \/ Credit(w) \/ Debit(w) \/ AddShares(w) \/ OpenPosition(w)
               \/ ReduceShares(w) \/ RecordTrade(w)
      BY <2>2 DEF Credit, Debit, AddShares, OpenPosition, ReduceShares, RecordTrade
    <2> QED BY <1>1, <2>1, <2>2 DEF Serve
  <1>2. ASSUME NEW b \in Batchers, BackgroundBegin(b) \/ BackgroundCommit(b)
        PROVE  BeginBatch(b) \/ CommitBatch(b)
    BY <1>2 DEF BackgroundBegin, BackgroundCommit
  <1>3. CASE Crash
    BY <1>3 DEF Crash
  <1>4. CASE UNCHANGED vars
    BY <1>4 DEF vars
  <1> QED BY <1>1, <1>2, <1>3, <1>4 DEF Next

(* No batch of another thread and no crash leaves the connection in a
   transaction nobody will commit, or a statement undurable outside one. *)
THEOREM Durable == Spec => []DurableOutsideBatches
  <1>1. Init => DurableOutsideBatches
    BY DEF Init, ConnInit, DurableOutsideBatches
  <1>2. TypeOK /\ DurableOutsideBatches /\ [Next]_vars => DurableOutsideBatches'
    <2> SUFFICES ASSUME TypeOK, DurableOutsideBatches, [Next]_vars
                 PROVE  DurableOutsideBatches'
      OBVIOUS
    <2>1. CASE UNCHANGED connVars
      BY <2>1 DEF connVars, DurableOutsideBatches
    <2>2. ASSUME NEW new, Exec(new) PROVE DurableOutsideBatches'
      BY <2>2 DEF Exec, DurableOutsideBatches
    <2>3. ASSUME NEW b \in Batchers, BeginBatch(b) PROVE DurableOutsideBatches'
      BY <2>3 DEF BeginBatch, DurableOutsideBatches, TypeOK, TablesOK
    <2>4. ASSUME NEW b \in Batchers, CommitBatch(b) PROVE DurableOutsideBatches'
      BY <2>4 DEF CommitBatch, DurableOutsideBatches
    <2>5. CASE Recover
      BY <2>5 DEF Recover, DurableOutsideBatches
    <2> QED BY <2>1, <2>2, <2>3, <2>4, <2>5, ConnectionStep
  <1> QED BY <1>1, <1>2, TypeCorrect, PTL DEF Spec

-----------------------------------------------------------------------------
(* Overdrafts and short holdings. *)

(* The clients of the shop ask for natural numbers. *)
NaturalRequests ==
    /\ Amounts \subseteq Nat /\ Quantities \subseteq Nat /\ Prices \subseteq Nat
    /\ OpeningCash \in Nat /\ OpeningShares \in Nat

LEMMA NaturalRequest ==
    ASSUME NaturalRequests, NEW r \in Request
    PROVE  r.total \in Nat /\ (r.op \in {"buy", "sell"} => r.qty \in Nat)
  <1>1. CASE r \in CashRequest
    BY <1>1 DEF CashRequest, NaturalRequests
  <1>2. CASE r \in TradeRequest
    <2>1. PICK o \in {"buy", "sell"}, a \in Accounts, s \in Stocks,
               q \in Quantities, p \in Prices :
               r = [op |-> o, acct |-> a, stock |-> s, qty |-> q, total |-> p * q]
      BY <1>2 DEF TradeRequest
    <2>2. q \in Nat /\ p \in Nat
      BY DEF NaturalRequests
    <2>3. p * q \in Nat
      BY <2>2
    <2> QED BY <2>1, <2>2, <2>3
  <1> QED BY <1>1, <1>2 DEF Request

(* Inductive: who has passed the check of an account that is not raced can
   still be paid from it. *)
CoveredDebits ==
    \A a \in Accounts \ raced :
        /\ db.cash[a] >= 0 /\ disk.cash[a] >= 0
        /\ \A w \in Workers : DebitPending(w, a) => db.cash[a] >= req[w].total

(* How a step changes the balances: not at all, by a credit, by a debit or back
   to the disk. *)
LEMMA CashStep ==
    ASSUME TypeOK, NEW w \in Workers,
           \/ CheckBalance(w) \/ CheckHeld(w) \/ Receive(w) \/ Authenticate(w)
           \/ LookUpPosition(w) \/ AddShares(w) \/ OpenPosition(w) \/ ReduceShares(w)
           \/ RecordTrade(w) \/ Respond(w) \/ StatementFails(w)
    PROVE  db'.cash = db.cash /\ (disk'.cash = disk.cash \/ disk'.cash = db.cash)
  <1>0. db \in Tables
    BY DEF TypeOK, TablesOK
  <1>1. CASE \/ CheckBalance(w) \/ CheckHeld(w) \/ Receive(w) \/ Authenticate(w)
             \/ LookUpPosition(w) \/ Respond(w) \/ StatementFails(w)
    <2>1. UNCHANGED connVars
      BY <1>1 DEF CheckBalance, CheckHeld, Receive, Authenticate, LookUpPosition, Respond,
                  StatementFails
    <2> QED BY <2>1 DEF connVars
  <1>2. CASE AddShares(w) \/ OpenPosition(w) \/ ReduceShares(w)
    <2>1. pc[w] # "idle" /\ IsTrade(w)
      BY <1>2 DEF AddShares, OpenPosition, ReduceShares, TypeOK, ServiceOK, Fits, IsTrade
    <2>2. Key(w) \in Keys /\ req[w].qty \in Int /\ -req[w].qty \in Int
      BY <2>1, ServingType
    <2>3. \A q \in Int : /\ AddToRows(db, Key(w), q).cash = db.cash
                         /\ AddRow(db, Key(w), q).cash = db.cash
      <3> SUFFICES ASSUME NEW q \in Int
                   PROVE  /\ AddToRows(db, Key(w), q).cash = db.cash
                          /\ AddRow(db, Key(w), q).cash = db.cash
        OBVIOUS
      <3>1. AddToRows(db, Key(w), q).cash = db.cash
        BY <1>0, <2>2, AddToRowsType
      <3>2. AddRow(db, Key(w), q).cash = db.cash
        BY <1>0, <2>2, AddRowType
      <3> QED BY <3>1, <3>2
    <2> QED BY <1>2, <2>2, <2>3
            DEF AddShares, OpenPosition, ReduceShares, Exec, connVars
  <1>3. CASE RecordTrade(w)
    <2>1. pc[w] # "idle" /\ IsTrade(w)
      BY <1>3 DEF RecordTrade, TypeOK, ServiceOK, Fits, IsTrade
    <2>2. Key(w) \in Keys /\ Signed(w) \in Int /\ SignedQty(w) \in Int
      BY <2>1, ServingType
    <2>3. AddTrade(db, Key(w), Signed(w), SignedQty(w)).cash = db.cash
      BY <1>0, <2>2, AddTradeType
    <2> QED BY <1>3, <2>2, <2>3 DEF RecordTrade, Exec
  <1> QED BY <1>1, <1>2, <1>3

(* A worker's step leaves the other workers where they are. *)
LEMMA OthersStay ==
    ASSUME TypeOK, NEW w \in Workers, Serve(w)
    PROVE  \A v \in Workers \ {w} : pc'[v] = pc[v] /\ req'[v] = req[v]
  <1>1. CASE Receive(w)
    BY <1>1 DEF Receive, TypeOK, ServiceOK
  <1>2. CASE Return(w)
    BY <1>2 DEF Return, TypeOK, ServiceOK
  <1>3. CASE \E next \in Stages : GoTo(w, next)
    BY <1>3 DEF GoTo, TypeOK, ServiceOK
  <1>4. Receive(w) \/ Return(w) \/ \E next : GoTo(w, next)
    BY DEF Serve, Authenticate, CheckBalance, CheckHeld, Credit, Debit, LookUpPosition,
           AddShares, OpenPosition, ReduceShares, RecordTrade, Respond, StatementFails
  <1>5. CASE \E next : GoTo(w, next)
    BY <1>5 DEF GoTo, TypeOK, ServiceOK
  <1> QED BY <1>1, <1>2, <1>4, <1>5

LEMMA CoveredInit == NaturalRequests /\ Init => CoveredDebits
  BY DEF NaturalRequests, Init, ConnInit, CoveredDebits, DebitPending

LEMMA CoveredStep ==
    NaturalRequests /\ TypeOK /\ CoveredDebits /\ [Next]_vars => CoveredDebits'
  <1> SUFFICES ASSUME NaturalRequests, TypeOK, CoveredDebits, [Next]_vars,
                      NEW a \in Accounts, a \notin raced'
               PROVE  /\ db'.cash[a] >= 0 /\ disk'.cash[a] >= 0
                      /\ \A v \in Workers :
                           DebitPending(v, a)' => db'.cash[a] >= req'[v].total
    BY DEF CoveredDebits
  <1>0. db \in Tables /\ db.cash[a] \in Int /\ disk.cash[a] \in Int
    BY DEF TypeOK, TablesOK, Tables
  <1>1. ASSUME a \notin raced
        PROVE  /\ db.cash[a] >= 0 /\ disk.cash[a] >= 0
               /\ \A v \in Workers : DebitPending(v, a) => db.cash[a] >= req[v].total
    BY <1>1 DEF CoveredDebits
  <1>2. ASSUME NEW w \in Workers,
               \/ Receive(w) \/ Authenticate(w) \/ CheckBalance(w) \/ CheckHeld(w)
               \/ LookUpPosition(w) \/ AddShares(w) \/ OpenPosition(w)
               \/ ReduceShares(w) \/ RecordTrade(w) \/ Respond(w) \/ StatementFails(w)
        PROVE  /\ db'.cash[a] >= 0 /\ disk'.cash[a] >= 0
               /\ \A v \in Workers :
                    DebitPending(v, a)' => db'.cash[a] >= req'[v].total
    <2>1. db'.cash = db.cash /\ (disk'.cash = disk.cash \/ disk'.cash = db.cash)
      BY <1>2, CashStep
    <2>2. \A v \in Workers \ {w} : pc'[v] = pc[v] /\ req'[v] = req[v]
      BY <1>2, OthersStay DEF Serve
    <2>3. a \notin raced
      BY <1>2 DEF Receive, Authenticate, CheckBalance, CheckHeld, LookUpPosition,
                  AddShares, OpenPosition, ReduceShares, RecordTrade, Respond,
                  StatementFails
    <2>4. DebitPending(w, a)' => db.cash[a] >= req'[w].total
      <3>1. CASE CheckBalance(w)
        <4>1. req[w].total \in Int
          BY <3>1, ServingType DEF CheckBalance
        <4> QED BY <1>0, <3>1, <4>1
                DEF CheckBalance, Short, DebitPending, GoTo, Return, Acct, TypeOK, ServiceOK
      <3>2. CASE Receive(w)
        BY <3>2 DEF Receive, DebitPending, TypeOK, ServiceOK
      <3>3. CASE Authenticate(w)
        BY <3>3 DEF Authenticate, DebitPending, GoTo, Return, TypeOK, ServiceOK
      <3>4. CASE CheckHeld(w)
        BY <3>4 DEF CheckHeld, DebitPending, GoTo, Return, TypeOK, ServiceOK
      <3>5. CASE \/ LookUpPosition(w) \/ AddShares(w) \/ OpenPosition(w)
                 \/ ReduceShares(w) \/ RecordTrade(w) \/ Respond(w)
        BY <3>5 DEF LookUpPosition, AddShares, OpenPosition, ReduceShares, RecordTrade,
                    Respond, DebitPending, GoTo, Return, TypeOK, ServiceOK
      <3>6. CASE StatementFails(w)
        <4>1. Return(w) \/ \E s \in {"ack", "lookup", "reduce", "record"} : GoTo(w, s)
          BY <3>6 DEF StatementFails, AfterCash
        <4> QED BY <4>1 DEF DebitPending, GoTo, Return, TypeOK, ServiceOK
      <3> QED BY <1>2, <3>1, <3>2, <3>3, <3>4, <3>5, <3>6
    <2> QED BY <1>1, <2>1, <2>2, <2>3, <2>4 DEF DebitPending, Acct
  <1>3. ASSUME NEW w \in Workers, Credit(w) \/ Debit(w)
        PROVE  /\ db'.cash[a] >= 0 /\ disk'.cash[a] >= 0
               /\ \A v \in Workers :
                    DebitPending(v, a)' => db'.cash[a] >= req'[v].total
    <2>1. pc[w] = "cash" /\ GoTo(w, AfterCash(req[w].op))
      BY <1>3 DEF Credit, Debit
    <2>2. /\ Acct(w) \in Accounts /\ req[w].total \in Nat
          /\ req[w].op \in {"deposit", "withdraw", "buy", "sell"}
      BY <2>1, ServingType, NaturalRequest
    <2>3. \A v \in Workers \ {w} : pc'[v] = pc[v] /\ req'[v] = req[v]
      BY <1>3, OthersStay DEF Serve
    <2>4. ~DebitPending(w, a)'
      BY <2>1, <2>2 DEF GoTo, AfterCash, DebitPending, TypeOK, ServiceOK
    <2>5. a \notin raced
      BY <1>3 DEF Credit, Debit
    <2>6. CASE Credit(w)
      <3>1. db' = AddCash(db, Acct(w), req[w].total) /\ (disk' = disk \/ disk' = db')
        BY <2>6 DEF Credit, Exec
      <3>2. db'.cash = [db.cash EXCEPT ![Acct(w)] = @ + req[w].total]
        BY <1>0, <2>2, <3>1, AddCashType
      <3>3. db'.cash[a] >= db.cash[a]
        BY <1>0, <2>2, <3>2 DEF Tables
      <3>4. db'.cash[a] \in Int
        BY <1>0, <2>2, <3>2 DEF Tables
      <3>5. \A v \in Workers : DebitPending(v, a) => req[v].total \in Int
        BY ServingType DEF DebitPending
      <3> QED BY <1>0, <1>1, <2>3, <2>4, <2>5, <3>1, <3>3, <3>4, <3>5 DEF DebitPending, Acct
    <2>7. CASE Debit(w)
      <3>1. db' = AddCash(db, Acct(w), -req[w].total) /\ (disk' = disk \/ disk' = db')
        BY <2>7 DEF Debit, Exec
      <3>2. db'.cash = [db.cash EXCEPT ![Acct(w)] = @ + (-req[w].total)]
        <4>1. db \in Tables /\ Acct(w) \in Accounts /\ -req[w].total \in Int
          BY <1>0, <2>2
        <4>2. AddCash(db, Acct(w), -req[w].total).cash
                = [db.cash EXCEPT ![Acct(w)] = @ + (-req[w].total)]
          BY <4>1, AddCashType
        <4> QED BY <3>1, <4>2
      <3>3. CASE Acct(w) = a
        <4>1. DebitPending(w, a)
          BY <2>7, <3>3 DEF Debit, DebitPending
        <4>2. \A v \in Workers \ {w} : ~DebitPending(v, a)
          BY <2>7, <3>3 DEF Debit
        <4>3. db'.cash[a] = db.cash[a] - req[w].total
          BY <1>0, <2>2, <3>2, <3>3 DEF Tables
        <4>4. db.cash[a] >= req[w].total
          BY <1>1, <2>5, <4>1
        <4> QED BY <1>0, <1>1, <2>2, <2>3, <2>4, <2>5, <3>1, <4>2, <4>3, <4>4
                DEF DebitPending, Acct
      <3>4. CASE Acct(w) # a
        <4>1. db'.cash[a] = db.cash[a]
          BY <1>0, <3>2, <3>4 DEF Tables
        <4> QED BY <1>1, <2>3, <2>4, <2>5, <3>1, <4>1 DEF DebitPending, Acct
      <3> QED BY <3>3, <3>4
    <2> QED BY <1>3, <2>6, <2>7
  <1>4. CASE Crash
    <2>1. a \notin raced /\ db' = disk /\ disk' = disk /\ \A v \in Workers : pc'[v] = "idle"
      BY <1>4 DEF Crash, Recover
    <2> QED BY <1>1, <2>1 DEF DebitPending
  <1>5. ASSUME NEW b \in Batchers, BackgroundBegin(b) \/ BackgroundCommit(b)
        PROVE  /\ db'.cash[a] >= 0 /\ disk'.cash[a] >= 0
               /\ \A v \in Workers :
                    DebitPending(v, a)' => db'.cash[a] >= req'[v].total
    <2>1. /\ a \notin raced /\ db' = db /\ (disk' = disk \/ disk' = db)
          /\ pc' = pc /\ req' = req
      BY <1>5 DEF BackgroundBegin, BeginBatch, BackgroundCommit, CommitBatch, tradeVars
    <2> QED BY <1>1, <2>1 DEF DebitPending, Acct
  <1>6. CASE UNCHANGED vars
    BY <1>1, <1>6 DEF vars, connVars, tradeVars, DebitPending, Acct
  <1> QED BY <1>2, <1>3, <1>4, <1>5, <1>6 DEF Next, Serve

(* For every number of workers and accounts: a balance goes negative, in memory
   or on disk, only if two checked debits of that account crossed. *)
THEOREM Overdraft ==
    ASSUME NaturalRequests
    PROVE  Spec => []OverdraftOnlyByRace
  <1>1. Init => CoveredDebits
    BY CoveredInit
  <1>2. TypeOK /\ CoveredDebits /\ [Next]_vars => CoveredDebits'
    BY CoveredStep
  <1>3. CoveredDebits => OverdraftOnlyByRace
    BY DEF CoveredDebits, OverdraftOnlyByRace
  <1> QED BY <1>1, <1>2, <1>3, TypeCorrect, PTL DEF Spec

(* Inductive: whoever has passed the check of a holding that neither raced nor
   was doubled can still sell what it checked. *)
CoveredSales ==
    \A k \in Keys \ (raced \cup doubled) :
        /\ \A d \in {db, disk} : Len(d.held[k]) <= 1 /\ Held(d, k) >= 0
        /\ \A w \in Workers : SalePending(w, k) => Held(db, k) >= req[w].qty

LEMMA HeldStep ==
    ASSUME TypeOK, NEW w \in Workers,
           \/ Receive(w) \/ Authenticate(w) \/ CheckBalance(w) \/ CheckHeld(w)
           \/ Credit(w) \/ Debit(w) \/ LookUpPosition(w) \/ RecordTrade(w)
           \/ Respond(w) \/ StatementFails(w)
    PROVE  db'.held = db.held /\ (disk'.held = disk.held \/ disk'.held = db.held)
  <1>0. db \in Tables
    BY DEF TypeOK, TablesOK
  <1>1. CASE \/ Receive(w) \/ Authenticate(w) \/ CheckBalance(w) \/ CheckHeld(w)
             \/ LookUpPosition(w) \/ Respond(w) \/ StatementFails(w)
    <2>1. UNCHANGED connVars
      BY <1>1 DEF Receive, Authenticate, CheckBalance, CheckHeld, LookUpPosition, Respond,
                  StatementFails
    <2> QED BY <2>1 DEF connVars
  <1>2. CASE Credit(w) \/ Debit(w)
    <2>1. Acct(w) \in Accounts /\ req[w].total \in Int /\ -req[w].total \in Int
      BY <1>2, ServingType DEF Credit, Debit
    <2>2. PICK x \in Int : Exec(AddCash(db, Acct(w), x))
      BY <1>2, <2>1 DEF Credit, Debit
    <2>3. AddCash(db, Acct(w), x).held = db.held
      BY <1>0, <2>1, AddCashType
    <2> QED BY <2>2, <2>3 DEF Exec
  <1>3. CASE RecordTrade(w)
    <2>1. pc[w] # "idle" /\ IsTrade(w)
      BY <1>3 DEF RecordTrade, TypeOK, ServiceOK, Fits, IsTrade
    <2>2. Key(w) \in Keys /\ Signed(w) \in Int /\ SignedQty(w) \in Int
      BY <2>1, ServingType
    <2>3. AddTrade(db, Key(w), Signed(w), SignedQty(w)).held = db.held
      BY <1>0, <2>2, AddTradeType
    <2> QED BY <1>3, <2>3 DEF RecordTrade, Exec
  <1> QED BY <1>1, <1>2, <1>3

(* UPDATE quantity + q of a holding of at most one row. *)
LEMMA RowsSum ==
    ASSUME NEW d \in Tables, NEW k \in Keys, NEW q \in Int, Len(d.held[k]) <= 1
    PROVE  /\ Len(AddToRows(d, k, q).held[k]) = Len(d.held[k])
           /\ Held(AddToRows(d, k, q), k) =
                IF d.held[k] = <<>> THEN 0 ELSE Held(d, k) + q
           /\ \A j \in Keys \ {k} : AddToRows(d, k, q).held[j] = d.held[j]
  <1> DEFINE rows == d.held[k]
             new == [i \in DOMAIN rows |-> rows[i] + q]
  <1>1. rows \in Seq(Int)
    BY DEF Tables
  <1>2. AddToRows(d, k, q).held = [d.held EXCEPT ![k] = new]
    BY AddToRowsType
  <1>3. AddToRows(d, k, q).held[k] = new
    BY <1>2 DEF Tables
  <1>4. \A j \in Keys \ {k} : AddToRows(d, k, q).held[j] = d.held[j]
    BY <1>2 DEF Tables
  <1>5. CASE rows = <<>>
    <2>1. DOMAIN rows = {} /\ Len(rows) = 0
      BY <1>5
    <2>2. new = <<>>
      BY <1>5
    <2> QED BY <1>3, <1>4, <1>5, <2>1, <2>2 DEF Held
  <1>6. CASE rows # <<>>
    <2>0. Len(rows) \in Nat \ {0}
      BY <1>1, <1>6, EmptySeq
    <2>1. Len(rows) = 1 /\ DOMAIN rows = 1 .. 1
      <3>0. Len(rows) <= 1
        OBVIOUS
      <3>3. \A n \in Nat \ {0} : n <= 1 => n = 1
        OBVIOUS
      <3>1. Len(rows) = 1
        BY <2>0, <3>0, <3>3, Zenon
      <3>2. DOMAIN rows = 1 .. Len(rows)
        BY <1>1
      <3> QED BY <3>1, <3>2
    <2>2. new \in [1 .. 1 -> Int] /\ new[1] = rows[1] + q
      BY <1>1, <2>1
    <2>3. new \in Seq(Int) /\ Len(new) = 1 /\ new # <<>>
      BY <2>2
    <2> QED BY <1>3, <1>4, <1>6, <2>1, <2>2, <2>3 DEF Held
  <1> QED BY <1>5, <1>6

LEMMA CoveredSalesInit == NaturalRequests /\ Init => CoveredSales
  <1> SUFFICES ASSUME NaturalRequests, Init, NEW k \in Keys
               PROVE  /\ db = disk
                      /\ Len(db.held[k]) <= 1 /\ Held(db, k) >= 0
                      /\ \A w \in Workers : ~SalePending(w, k)
    BY DEF CoveredSales, Init, ConnInit
  <1>1. db.held[k] \in {<<OpeningShares>>, <<>>} /\ db = disk
    BY DEF Init, ConnInit
  <1>2. Len(db.held[k]) <= 1 /\ Held(db, k) >= 0
    <2>1. CASE db.held[k] = <<>>
      BY <2>1, EmptySeq DEF Held
    <2>2. CASE db.held[k] = <<OpeningShares>>
      <3>1. Len(<<OpeningShares>>) = 1 /\ <<OpeningShares>>[1] = OpeningShares
            /\ <<OpeningShares>> # <<>>
        OBVIOUS
      <3> QED BY <2>2, <3>1 DEF Held, NaturalRequests
    <2> QED BY <1>1, <2>1, <2>2
  <1> QED BY <1>1, <1>2 DEF Init, SalePending

LEMMA CoveredSalesStep ==
    NaturalRequests /\ TypeOK /\ CoveredSales /\ [Next]_vars => CoveredSales'
  <1> SUFFICES ASSUME NaturalRequests, TypeOK, CoveredSales, [Next]_vars,
                      NEW k \in Keys, k \notin raced' \cup doubled'
               PROVE  /\ Len(db'.held[k]) <= 1 /\ Held(db', k) >= 0
                      /\ Len(disk'.held[k]) <= 1 /\ Held(disk', k) >= 0
                      /\ \A v \in Workers :
                           SalePending(v, k)' => Held(db', k) >= req'[v].qty
    BY DEF CoveredSales, Held
  <1>0. db \in Tables /\ disk \in Tables
    BY DEF TypeOK, TablesOK
  <1>1. ASSUME k \notin raced \cup doubled
        PROVE  /\ Len(db.held[k]) <= 1 /\ Held(db, k) >= 0
               /\ Len(disk.held[k]) <= 1 /\ Held(disk, k) >= 0
               /\ \A v \in Workers : SalePending(v, k) => Held(db, k) >= req[v].qty
    BY <1>1 DEF CoveredSales
  <1>2. ASSUME NEW w \in Workers,
               \/ Receive(w) \/ Authenticate(w) \/ CheckBalance(w) \/ CheckHeld(w)
               \/ Credit(w) \/ Debit(w) \/ LookUpPosition(w) \/ RecordTrade(w)
               \/ Respond(w) \/ StatementFails(w)
        PROVE  /\ Len(db'.held[k]) <= 1 /\ Held(db', k) >= 0
               /\ Len(disk'.held[k]) <= 1 /\ Held(disk', k) >= 0
               /\ \A v \in Workers :
                    SalePending(v, k)' => Held(db', k) >= req'[v].qty
    <2>1. db'.held = db.held /\ (disk'.held = disk.held \/ disk'.held = db.held)
      BY <1>2, HeldStep
    <2>2. \A v \in Workers \ {w} : pc'[v] = pc[v] /\ req'[v] = req[v]
      BY <1>2, OthersStay DEF Serve
    <2>3. k \notin raced \cup doubled
      BY <1>2 DEF Receive, Authenticate, CheckBalance, CheckHeld, Credit, Debit,
                  LookUpPosition, RecordTrade, Respond, StatementFails
    <2>4. SalePending(w, k)' =>
            req'[w] = req[w] /\ (SalePending(w, k) \/ Held(db, k) >= req[w].qty)
      <3>1. CASE CheckHeld(w)
        <4>1. req[w].qty \in Int /\ Key(w) \in Keys
          BY <3>1, ServingType DEF CheckHeld, IsTrade
        <4>2. Held(db, Key(w)) \in Int
          BY <1>0, <4>1, EmptySeq DEF Held, Tables
        <4> QED BY <3>1, <4>1, <4>2
                DEF CheckHeld, Lacks, SalePending, GoTo, Return, Key, TypeOK, ServiceOK
      <3>2. CASE Receive(w)
        BY <3>2 DEF Receive, SalePending, TypeOK, ServiceOK
      <3>3. CASE Authenticate(w) \/ CheckBalance(w)
        BY <3>3 DEF Authenticate, CheckBalance, SalePending, GoTo, Return, TypeOK, ServiceOK
      <3>4. CASE Credit(w) \/ Debit(w)
        BY <3>4 DEF Credit, Debit, SalePending, GoTo, Key, TypeOK, ServiceOK
      <3>5. CASE LookUpPosition(w) \/ RecordTrade(w) \/ Respond(w)
        BY <3>5 DEF LookUpPosition, RecordTrade, Respond, SalePending, GoTo, Return,
                    TypeOK, ServiceOK
      <3>6. CASE StatementFails(w)
        <4>1. \/ Return(w)
              \/ pc[w] = "cash" /\ GoTo(w, AfterCash(req[w].op))
              \/ GoTo(w, "record") \/ GoTo(w, "ack")
          BY <3>6 DEF StatementFails
        <4> QED BY <4>1 DEF SalePending, GoTo, Return, Key, TypeOK, ServiceOK
      <3> QED BY <1>2, <3>1, <3>2, <3>3, <3>4, <3>5, <3>6
    <2> QED BY <1>1, <2>1, <2>2, <2>3, <2>4 DEF SalePending, Key, Held
  <1>3. ASSUME NEW w \in Workers, AddShares(w) \/ OpenPosition(w) \/ ReduceShares(w)
        PROVE  /\ Len(db'.held[k]) <= 1 /\ Held(db', k) >= 0
               /\ Len(disk'.held[k]) <= 1 /\ Held(disk', k) >= 0
               /\ \A v \in Workers :
                    SalePending(v, k)' => Held(db', k) >= req'[v].qty
    <2>1. /\ pc[w] \in {"add", "open", "reduce"} /\ IsTrade(w)
          /\ GoTo(w, "record") /\ Serve(w)
      BY <1>3 DEF AddShares, OpenPosition, ReduceShares, TypeOK, ServiceOK, Fits, IsTrade,
                  Serve
    <2>2. Key(w) \in Keys /\ req[w].qty \in Nat
      BY <2>1, ServingType, NaturalRequest DEF IsTrade
    <2>3. \A v \in Workers \ {w} : pc'[v] = pc[v] /\ req'[v] = req[v]
      BY <2>1, OthersStay
    <2>4. ~SalePending(w, k)'
      BY <2>1 DEF GoTo, SalePending, TypeOK, ServiceOK
    <2>5. k \notin raced \cup doubled
      BY <1>3 DEF AddShares, OpenPosition, ReduceShares
    <2>6. \A v \in Workers : SalePending(v, k) => req[v].qty \in Int
      BY ServingType DEF SalePending, IsTrade
    <2>7. Held(db, k) \in Int
      BY <1>0, EmptySeq DEF Held, Tables
    <2>8. (disk'.held = disk.held \/ disk'.held = db'.held)
      BY <1>3 DEF AddShares, OpenPosition, ReduceShares, Exec, connVars
    <2>9. ASSUME Len(db'.held[k]) <= 1, Held(db', k) \in Int, Held(db', k) >= 0,
                 \A v \in Workers \ {w} : SalePending(v, k) => Held(db', k) >= Held(db, k)
          PROVE  /\ Len(db'.held[k]) <= 1 /\ Held(db', k) >= 0
                 /\ Len(disk'.held[k]) <= 1 /\ Held(disk', k) >= 0
                 /\ \A v \in Workers :
                      SalePending(v, k)' => Held(db', k) >= req'[v].qty
      <3>1. Len(disk'.held[k]) <= 1 /\ Held(disk', k) >= 0
        BY <1>1, <2>5, <2>8, <2>9 DEF Held
      <3>2. ASSUME NEW v \in Workers, SalePending(v, k)'
            PROVE  Held(db', k) >= req'[v].qty
        <4>1. v # w
          BY <2>4, <3>2
        <4>2. SalePending(v, k) /\ req'[v] = req[v]
          BY <2>3, <3>2, <4>1 DEF SalePending, Key
        <4> QED BY <1>1, <2>5, <2>6, <2>7, <2>9, <4>1, <4>2
      <3> QED BY <2>9, <3>1, <3>2
    <2>10. CASE Key(w) # k
      <3>1. db'.held[k] = db.held[k]
        <4>1. CASE OpenPosition(w)
          <5>1. UNCHANGED connVars \/ db' = AddRow(db, Key(w), req[w].qty)
            BY <4>1 DEF OpenPosition, Exec
          <5>2. AddRow(db, Key(w), req[w].qty).held =
                  [db.held EXCEPT ![Key(w)] = Append(@, req[w].qty)]
            BY <1>0, <2>2, AddRowType
          <5> QED BY <1>0, <2>10, <5>1, <5>2 DEF Tables, connVars
        <4>2. CASE AddShares(w) \/ ReduceShares(w)
          <5>1. PICK q \in Int : db' = AddToRows(db, Key(w), q)
            BY <2>2, <4>2 DEF AddShares, ReduceShares, Exec
          <5>2. AddToRows(db, Key(w), q).held[k] = db.held[k]
            BY <1>0, <2>2, <2>10 DEF AddToRows, Tables
          <5> QED BY <5>1, <5>2
        <4> QED BY <1>3, <4>1, <4>2
      <3>2. Held(db', k) = Held(db, k) /\ Len(db'.held[k]) <= 1
        BY <1>1, <2>5, <3>1 DEF Held
      <3> QED BY <1>1, <2>5, <2>7, <2>9, <3>2
    <2>11. CASE Key(w) = k /\ AddShares(w)
      <3>1. db' = AddToRows(db, k, req[w].qty)
        BY <2>11 DEF AddShares, Exec
      <3>2. /\ Len(db'.held[k]) = Len(db.held[k])
            /\ Held(db', k) = IF db.held[k] = <<>> THEN 0 ELSE Held(db, k) + req[w].qty
        BY <1>0, <1>1, <2>2, <2>5, <3>1, RowsSum
      <3>3. db.held[k] = <<>> => Held(db, k) = 0
        BY DEF Held
      <3> QED BY <1>1, <2>2, <2>5, <2>7, <2>9, <3>2, <3>3
    <2>12. CASE Key(w) = k /\ OpenPosition(w)
      <3>1. db.held[k] = <<>>
        BY <2>12 DEF OpenPosition
      <3>2. db' = AddRow(db, k, req[w].qty)
        BY <2>12, <3>1 DEF OpenPosition, Exec
      <3>3. db'.held[k] = Append(<<>>, req[w].qty)
        <4>1. AddRow(db, k, req[w].qty).held[k] = Append(db.held[k], req[w].qty)
          BY <1>0 DEF AddRow, Tables
        <4> QED BY <3>1, <3>2, <4>1
      <3>4. db'.held[k] = <<req[w].qty>>
        BY <2>2, <3>3
      <3>5. Len(<<req[w].qty>>) = 1 /\ <<req[w].qty>>[1] = req[w].qty
            /\ <<req[w].qty>> # <<>>
        OBVIOUS
      <3>6. Len(db'.held[k]) <= 1 /\ Held(db', k) = req[w].qty
        BY <3>4, <3>5 DEF Held
      <3>7. Held(db, k) = 0
        BY <3>1 DEF Held
      <3> QED BY <2>2, <2>9, <3>6, <3>7
    <2>13. CASE Key(w) = k /\ ReduceShares(w)
      <3>1. db' = AddToRows(db, k, -req[w].qty)
        BY <2>13 DEF ReduceShares, Exec
      <3>2. /\ Len(db'.held[k]) = Len(db.held[k])
            /\ Held(db', k) = IF db.held[k] = <<>> THEN 0 ELSE Held(db, k) + (-req[w].qty)
        BY <1>0, <1>1, <2>2, <2>5, <3>1, RowsSum
      <3>3. Held(db, k) >= req[w].qty
        <4>1. SalePending(w, k)
          BY <2>13 DEF ReduceShares, SalePending, TypeOK, ServiceOK, Fits
        <4> QED BY <1>1, <2>5, <4>1
      <3>4. \A v \in Workers \ {w} : ~SalePending(v, k)
        BY <2>5, <2>13 DEF ReduceShares
      <3> QED BY <1>1, <2>2, <2>5, <2>7, <2>9, <3>2, <3>3, <3>4
    <2> QED BY <1>3, <2>10, <2>11, <2>12, <2>13
  <1>4. CASE Crash
    <2>1. /\ k \notin raced \cup doubled /\ db' = disk /\ disk' = disk
          /\ \A v \in Workers : pc'[v] = "idle"
      BY <1>4 DEF Crash, Recover
    <2> QED BY <1>1, <2>1 DEF SalePending
  <1>5. ASSUME NEW b \in Batchers, BackgroundBegin(b) \/ BackgroundCommit(b)
        PROVE  /\ Len(db'.held[k]) <= 1 /\ Held(db', k) >= 0
               /\ Len(disk'.held[k]) <= 1 /\ Held(disk', k) >= 0
               /\ \A v \in Workers :
                    SalePending(v, k)' => Held(db', k) >= req'[v].qty
    <2>1. /\ k \notin raced \cup doubled /\ db' = db /\ (disk' = disk \/ disk' = db)
          /\ pc' = pc /\ req' = req
      BY <1>5 DEF BackgroundBegin, BeginBatch, BackgroundCommit, CommitBatch, tradeVars
    <2> QED BY <1>1, <2>1 DEF SalePending, Key
  <1>6. CASE UNCHANGED vars
    BY <1>1, <1>6 DEF vars, connVars, tradeVars, SalePending, Key
  <1> QED BY <1>2, <1>3, <1>4, <1>5, <1>6 DEF Next, Serve

(* For every number of workers, accounts and stocks: a holding goes negative or
   splits into two rows only if two sales, or two first purchases, of it crossed. *)
THEOREM Oversell ==
    ASSUME NaturalRequests
    PROVE  Spec => []ShortOnlyByRace
  <1>1. Init => CoveredSales
    BY CoveredSalesInit
  <1>2. TypeOK /\ CoveredSales /\ [Next]_vars => CoveredSales'
    BY CoveredSalesStep
  <1>3. CoveredSales => ShortOnlyByRace
    BY DEF CoveredSales, ShortOnlyByRace
  <1> QED BY <1>1, <1>2, <1>3, TypeCorrect, PTL DEF Spec

-----------------------------------------------------------------------------
(* Conservation of cash, step by step. *)

LEMMA ProceedsStep ==
    ASSUME TypeOK, NEW w \in Workers,
           \/ Receive(w) \/ Authenticate(w) \/ CheckBalance(w) \/ CheckHeld(w)
           \/ Credit(w) \/ Debit(w) \/ LookUpPosition(w) \/ AddShares(w)
           \/ OpenPosition(w) \/ ReduceShares(w) \/ Respond(w) \/ StatementFails(w)
    PROVE  db'.proceeds = db.proceeds
  <1>0. db \in Tables
    BY DEF TypeOK, TablesOK
  <1>1. CASE \/ Receive(w) \/ Authenticate(w) \/ CheckBalance(w) \/ CheckHeld(w)
             \/ LookUpPosition(w) \/ Respond(w) \/ StatementFails(w)
    <2>1. UNCHANGED connVars
      BY <1>1 DEF Receive, Authenticate, CheckBalance, CheckHeld, LookUpPosition, Respond,
                  StatementFails
    <2> QED BY <2>1 DEF connVars
  <1>2. CASE Credit(w) \/ Debit(w)
    <2>1. PICK x : db' = AddCash(db, Acct(w), x)
      BY <1>2 DEF Credit, Debit, Exec
    <2> QED BY <1>0, <2>1 DEF AddCash, Tables
  <1>3. CASE AddShares(w) \/ OpenPosition(w) \/ ReduceShares(w)
    <2>1. \/ db' = db
          \/ \E q : db' = AddToRows(db, Key(w), q) \/ db' = AddRow(db, Key(w), q)
      BY <1>3 DEF AddShares, OpenPosition, ReduceShares, Exec, connVars
    <2> QED BY <1>0, <2>1 DEF AddToRows, AddRow, Tables
  <1> QED BY <1>1, <1>2, <1>3

(* What w has in flight for account a before and after its step, and how the
   step changes the account's unbooked cash. *)
LEMMA OwnLeg ==
    ASSUME TypeOK, NEW w \in Workers, Serve(w), NEW a \in Accounts,
           StatementFails(w) => a \notin tainted'
    PROVE  Unbooked(a)' - Unbooked(a) = CashLeg(w, a)' - CashLeg(w, a)
  <1>0. /\ db \in Tables
        /\ db.cash[a] \in Int /\ db.proceeds[a] \in Int /\ wallet[a] \in Int
    BY DEF TypeOK, TablesOK, Tables, HistoryOK
  <1>1. CASE \/ Receive(w) \/ Authenticate(w) \/ CheckBalance(w) \/ CheckHeld(w)
    <2>1. db' = db /\ wallet' = wallet /\ pc[w] \in {"idle", "auth", "check"}
      BY <1>1 DEF Receive, Authenticate, CheckBalance, CheckHeld, connVars
    <2>2. pc'[w] \in {"idle", "auth", "check", "cash"}
      BY <1>1 DEF Receive, Authenticate, CheckBalance, CheckHeld, GoTo, Return, TypeOK,
                  ServiceOK
    <2>3. CashLeg(w, a) = 0 /\ CashLeg(w, a)' = 0
      BY <2>1, <2>2 DEF CashLeg, CashInFlight
    <2> QED BY <1>0, <2>1, <2>3 DEF Unbooked
  <1>2. CASE Credit(w) \/ Debit(w)
    <2>1. /\ pc[w] = "cash" /\ pc'[w] = AfterCash(req[w].op) /\ req' = req
          /\ wallet' = wallet
      BY <1>2 DEF Credit, Debit, GoTo, TypeOK, ServiceOK
    <2>2. /\ Acct(w) \in Accounts /\ Signed(w) \in Int
          /\ req[w].op \in {"deposit", "withdraw", "buy", "sell"}
      BY <2>1, ServingType
    <2>3. db' = AddCash(db, Acct(w), Signed(w))
      BY <1>2, <2>2 DEF Credit, Debit, Exec, Signed
    <2>4. db'.cash = [db.cash EXCEPT ![Acct(w)] = @ + Signed(w)]
      BY <1>0, <2>2, <2>3, AddCashType
    <2>5. db'.proceeds = db.proceeds
      BY <1>2, ProceedsStep
    <2>6. CashLeg(w, a) = 0
      BY <2>1 DEF CashLeg, CashInFlight
    <2>7. CashLeg(w, a)' = IF Acct(w) = a THEN Signed(w) ELSE 0
      BY <2>1, <2>2 DEF CashLeg, CashInFlight, AfterCash, IsTrade, Acct, Signed
    <2>8. db'.cash[a] = IF Acct(w) = a THEN db.cash[a] + Signed(w) ELSE db.cash[a]
      BY <1>0, <2>2, <2>4 DEF Tables
    <2> QED BY <1>0, <2>1, <2>2, <2>5, <2>6, <2>7, <2>8 DEF Unbooked
  <1>3. CASE LookUpPosition(w) \/ AddShares(w) \/ OpenPosition(w) \/ ReduceShares(w)
    <2>1. /\ pc[w] \in {"lookup", "add", "open", "reduce"}
          /\ pc'[w] \in {"add", "open", "record"} /\ req' = req /\ wallet' = wallet
      BY <1>3 DEF LookUpPosition, AddShares, OpenPosition, ReduceShares, GoTo, TypeOK,
                  ServiceOK
    <2>2. db'.cash = db.cash /\ db'.proceeds = db.proceeds
      BY <1>3, CashStep, ProceedsStep
    <2>3. CashLeg(w, a)' = CashLeg(w, a) /\ CashLeg(w, a) \in Int
      BY <2>1, ServingType DEF CashLeg, CashInFlight, Acct, Signed
    <2> QED BY <1>0, <2>1, <2>2, <2>3 DEF Unbooked
  <1>4. CASE RecordTrade(w)
    <2>1. /\ pc[w] = "record" /\ pc'[w] = "ack" /\ req' = req /\ wallet' = wallet
          /\ IsTrade(w)
      BY <1>4 DEF RecordTrade, GoTo, TypeOK, ServiceOK, Fits, IsTrade
    <2>2. /\ Acct(w) \in Accounts /\ Signed(w) \in Int /\ SignedQty(w) \in Int
          /\ Key(w) \in Keys /\ Key(w)[1] = Acct(w)
      BY <2>1, ServingType
    <2>3. db'.cash = db.cash
      BY <1>4, CashStep
    <2>4. db' = AddTrade(db, Key(w), Signed(w), SignedQty(w))
      BY <1>4 DEF RecordTrade, Exec
    <2>5. db'.proceeds = [db.proceeds EXCEPT ![Acct(w)] = @ + Signed(w)]
      BY <1>0, <2>2, <2>4, AddTradeProceeds
    <2>6. db'.proceeds[a] = IF Acct(w) = a THEN db.proceeds[a] + Signed(w)
                                           ELSE db.proceeds[a]
      BY <1>0, <2>2, <2>5 DEF Tables
    <2>7. /\ CashLeg(w, a) = IF Acct(w) = a THEN Signed(w) ELSE 0
          /\ CashLeg(w, a)' = 0
      BY <2>1 DEF CashLeg, CashInFlight, IsTrade
    <2> QED BY <1>0, <2>1, <2>2, <2>3, <2>6, <2>7 DEF Unbooked
  <1>5. CASE Respond(w)
    <2>1. pc[w] = "ack" /\ pc'[w] = "idle" /\ db' = db
      BY <1>5 DEF Respond, Return, connVars, TypeOK, ServiceOK
    <2>2. Acct(w) \in Accounts /\ Signed(w) \in Int
      BY <2>1, ServingType
    <2>3. CashLeg(w, a)' = 0
      BY <2>1 DEF CashLeg, CashInFlight
    <2>4. CASE IsTrade(w)
      <3>1. CashLeg(w, a) = 0 /\ wallet' = wallet
        BY <1>5, <2>1, <2>4 DEF CashLeg, CashInFlight, Respond
      <3> QED BY <1>0, <2>1, <2>3, <3>1 DEF Unbooked
    <2>5. CASE ~IsTrade(w)
      <3>1. CashLeg(w, a) = IF Acct(w) = a THEN Signed(w) ELSE 0
        BY <2>1, <2>5 DEF CashLeg, CashInFlight
      <3>2. wallet' = [wallet EXCEPT ![Acct(w)] = @ + Signed(w)]
        BY <1>5, <2>5 DEF Respond
      <3>3. wallet'[a] = IF Acct(w) = a THEN wallet[a] + Signed(w) ELSE wallet[a]
        BY <2>2, <3>2 DEF TypeOK, HistoryOK
      <3> QED BY <1>0, <2>1, <2>2, <2>3, <3>1, <3>3 DEF Unbooked
    <2> QED BY <2>4, <2>5
  <1>6. CASE StatementFails(w)
    <2>1. /\ pc[w] \in {"cash", "add", "open", "reduce", "record"}
          /\ db' = db /\ wallet' = wallet /\ a \notin FaultTaint(w)
      BY <1>6 DEF StatementFails, connVars
    <2>2. Acct(w) \in Accounts /\ Signed(w) \in Int /\ Key(w) = Key(w)
      BY <2>1, ServingType
    <2>3. CASE pc[w] = "cash" /\ ~IsTrade(w)
      <3>1. pc'[w] = "idle"
        BY <1>6, <2>3 DEF StatementFails, Return, TypeOK, ServiceOK
      <3> QED BY <1>0, <2>1, <2>3, <3>1 DEF Unbooked, CashLeg, CashInFlight
    <2>4. CASE pc[w] = "record" \/ (pc[w] = "cash" /\ IsTrade(w))
      <3>1. Acct(w) # a /\ req' = req
        BY <1>6, <2>1, <2>4 DEF StatementFails, FaultTaint, GoTo
      <3>2. CashLeg(w, a) = 0 /\ CashLeg(w, a)' = 0
        BY <3>1 DEF CashLeg, Acct
      <3> QED BY <1>0, <2>1, <3>2 DEF Unbooked
    <2>5. CASE pc[w] \in {"add", "open", "reduce"}
      <3>1. pc'[w] = "record" /\ req' = req
        BY <1>6, <2>5 DEF StatementFails, GoTo, TypeOK, ServiceOK
      <3>2. CashLeg(w, a)' = CashLeg(w, a) /\ CashLeg(w, a) \in Int
        BY <2>2, <2>5, <3>1 DEF CashLeg, CashInFlight, Acct, Signed
      <3> QED BY <1>0, <2>1, <3>2 DEF Unbooked
    <2> QED BY <2>1, <2>3, <2>4, <2>5
  <1> QED BY <1>1, <1>2, <1>3, <1>4, <1>5, <1>6 DEF Serve

(* A step that hits one of the account's or the holding's requests. *)
Mishap == Crash \/ \E w \in Workers : StatementFails(w)

(* Any other step's change of an account's unbooked cash is one worker's leg, and
   it touches no other worker's. *)
LEMMA LegStep ==
    ASSUME TypeOK, TypeOK', [Next]_vars, NEW a \in Accounts, Mishap => a \notin tainted'
    PROVE  \E w \in Workers :
             /\ Unbooked(a)' - Unbooked(a) = CashLeg(w, a)' - CashLeg(w, a)
             /\ \A v \in Workers \ {w} : CashLeg(v, a)' = CashLeg(v, a)
  <1>0. /\ db.cash[a] \in Int /\ db.proceeds[a] \in Int /\ wallet[a] \in Int
    BY DEF TypeOK, TablesOK, Tables, HistoryOK
  <1>1. \A w \in Workers : CashLeg(w, a) \in Int
    BY ServingType DEF CashLeg, CashInFlight
  <1>2. ASSUME NEW w \in Workers, Serve(w)
        PROVE  \A v \in Workers \ {w} : CashLeg(v, a)' = CashLeg(v, a)
    BY <1>2, OthersStay DEF CashLeg, CashInFlight, Acct, Signed, IsTrade
  <1>3. ASSUME /\ db'.cash[a] = db.cash[a] /\ db'.proceeds[a] = db.proceeds[a]
               /\ wallet' = wallet
               /\ \A v \in Workers : CashLeg(v, a)' = CashLeg(v, a)
        PROVE  \E w \in Workers :
                 /\ Unbooked(a)' - Unbooked(a) = CashLeg(w, a)' - CashLeg(w, a)
                 /\ \A v \in Workers \ {w} : CashLeg(v, a)' = CashLeg(v, a)
    <2>1. PICK w \in Workers : TRUE
      BY WorkersAssumption
    <2>2. Unbooked(a)' - Unbooked(a) = CashLeg(w, a)' - CashLeg(w, a)
      BY <1>0, <1>1, <1>3 DEF Unbooked
    <2> QED BY <1>3, <2>2
  <1>4. CASE Crash
    <2>1. a \notin Torn /\ a \notin Unsaved /\ db' = disk /\ wallet' = wallet
      BY <1>4 DEF Mishap, Crash, Recover
    <2>2. db'.cash[a] = db.cash[a] /\ db'.proceeds[a] = db.proceeds[a]
      BY <2>1 DEF Unsaved
    <2>3. \A v \in Workers : CashLeg(v, a) = 0
      BY <2>1 DEF Torn, CashLeg
    <2>4. \A v \in Workers : pc'[v] = "idle"
      BY <1>4 DEF Crash
    <2>5. \A v \in Workers : CashLeg(v, a)' = 0
      BY <2>4 DEF CashLeg, CashInFlight
    <2> QED BY <1>3, <2>1, <2>2, <2>3, <2>5
  <1>5. ASSUME NEW b \in Batchers, BackgroundBegin(b) \/ BackgroundCommit(b)
        PROVE  db' = db /\ wallet' = wallet /\ pc' = pc /\ req' = req
    BY <1>5 DEF BackgroundBegin, BeginBatch, BackgroundCommit, CommitBatch, tradeVars
  <1>6. CASE UNCHANGED vars
    BY <1>3, <1>6 DEF vars, connVars, tradeVars, CashLeg, CashInFlight, Acct, Signed, IsTrade
  <1>7. CASE \E b \in Batchers : BackgroundBegin(b) \/ BackgroundCommit(b)
    BY <1>3, <1>5, <1>7 DEF CashLeg, CashInFlight, Acct, Signed, IsTrade
  <1>8. CASE \E w \in Workers : Serve(w)
    BY <1>2, <1>8, OwnLeg DEF Mishap
  <1> QED BY <1>4, <1>6, <1>7, <1>8 DEF Next

-----------------------------------------------------------------------------
(* Conservation of cash and of shares, in all. *)

LegsTyped ==
    \A w \in Workers : /\ \A a \in Accounts : CashLeg(w, a) \in Int
                       /\ \A k \in Keys : ShareLeg(w, k) \in Int

LEMMA LegType == TypeOK => LegsTyped
  BY ServingType DEF LegsTyped, CashLeg, CashInFlight, ShareLeg, TypeOK, ServiceOK, Fits, IsTrade

LEMMA LegTypeNext == TypeOK' => LegsTyped'
  BY LegType, PTL

LEMMA CashSum ==
    ASSUME TypeOK, TypeOK', CashReconciles, [Next]_vars
    PROVE  CashReconciles'
  <1> SUFFICES ASSUME NEW a \in Accounts, a \notin tainted'
               PROVE  db'.cash[a] = wallet'[a] + db'.proceeds[a]
                                    + SumFunction([w \in Workers |-> CashLeg(w, a)'])
    BY DEF CashReconciles
  <1> DEFINE f == [w \in Workers |-> CashLeg(w, a)]
             g == [w \in Workers |-> CashLeg(w, a)']
  <1>1. a \notin tainted
    BY DEF Next, Serve, vars, tradeVars, Receive, Authenticate, CheckBalance, CheckHeld,
           Credit, Debit, LookUpPosition, AddShares, OpenPosition, ReduceShares, RecordTrade,
           Respond, StatementFails, Crash, BackgroundBegin, BackgroundCommit
  <1>2. PICK w \in Workers :
          /\ Unbooked(a)' - Unbooked(a) = CashLeg(w, a)' - CashLeg(w, a)
          /\ \A v \in Workers \ {w} : CashLeg(v, a)' = CashLeg(v, a)
    BY LegStep
  <1>3. f \in [Workers -> Int] /\ g \in [Workers -> Int]
    <2>1. \A v \in Workers : CashLeg(v, a) \in Int
      BY LegType DEF LegsTyped
    <2>2. \A v \in Workers : CashLeg(v, a)' \in Int
      BY LegTypeNext DEF LegsTyped
    <2> QED BY <2>1, <2>2
  <1>4. SumFunction(g) = SumFunction(f) + (g[w] - f[w]) /\ SumFunction(f) \in Int
    <2>1. \A v \in Workers \ {w} : g[v] = f[v]
      BY <1>2
    <2> HIDE DEF f, g
    <2> QED BY <1>3, <2>1, SumChange, SumType, WorkersAssumption
  <1>5. /\ db.cash[a] \in Int /\ db.proceeds[a] \in Int /\ wallet[a] \in Int
        /\ db'.cash[a] \in Int /\ db'.proceeds[a] \in Int /\ wallet'[a] \in Int
    BY DEF TypeOK, TablesOK, Tables, HistoryOK
  <1>6. Unbooked(a) = SumFunction(f)
    BY <1>1, <1>4, <1>5 DEF CashReconciles, Unbooked
  <1>7. CashLeg(w, a) \in Int /\ CashLeg(w, a)' \in Int
    BY <1>3
  <1>8. Unbooked(a)' = SumFunction(g)
    BY <1>2, <1>4, <1>5, <1>6, <1>7 DEF Unbooked
  <1> QED BY <1>4, <1>5, <1>7, <1>8 DEF Unbooked

LEMMA CashReconcilesInit == Init => CashReconciles
  <1> SUFFICES ASSUME Init, NEW a \in Accounts
               PROVE  db.cash[a] = wallet[a] + db.proceeds[a]
                                   + SumFunction([w \in Workers |-> CashLeg(w, a)])
    BY DEF CashReconciles
  <1> DEFINE f == [w \in Workers |-> CashLeg(w, a)]
  <1>1. \A w \in Workers : CashLeg(w, a) = 0
    BY DEF Init, CashLeg, CashInFlight
  <1>2. f \in [Workers -> Int] /\ \A w \in Workers : f[w] = 0
    BY <1>1
  <1>3. SumFunction(f) = 0
    <2> HIDE DEF f
    <2> QED BY <1>2, SumZero, WorkersAssumption
  <1>4. db.cash[a] = OpeningCash /\ wallet[a] = OpeningCash /\ db.proceeds[a] = 0
    BY DEF Init, ConnInit
  <1> QED BY <1>3, <1>4, OpeningAssumption

(***************************************************************************)
(* For every number of workers, accounts and requests: a balance is what   *)
(* the clients confirmed into it, plus what the trades table records, plus *)
(* what all the requests in flight have moved and not yet booked, unless a *)
(* failed statement or a crash has cut one of the account's requests.      *)
(***************************************************************************)
THEOREM CashConserved == Spec => []CashReconciles
  <1>1. Init => CashReconciles
    BY CashReconcilesInit
  <1>2. TypeOK /\ TypeOK' /\ CashReconciles /\ [Next]_vars => CashReconciles'
    BY CashSum
  <1> QED BY <1>1, <1>2, TypeCorrect, PTL DEF Spec

(* Shares. A holding that a worker is about to add to has a row; the sale of a
   holding without one is of no shares. *)
RowsToMove ==
    \A w \in Workers :
        /\ pc[w] = "add" => db.held[Key(w)] # <<>>
        /\ pc[w] \in {"cash", "reduce"} /\ req[w].op = "sell" /\ db.held[Key(w)] = <<>>
             => req[w].qty = 0

(* UPDATE quantity + q, as far as the first row is concerned. *)
LEMMA FirstRow ==
    ASSUME NEW d \in Tables, NEW k \in Keys, NEW q \in Int
    PROVE  /\ AddToRows(d, k, q).held[k] = <<>> <=> d.held[k] = <<>>
           /\ Held(AddToRows(d, k, q), k) = IF d.held[k] = <<>> THEN 0 ELSE Held(d, k) + q
           /\ Held(d, k) \in Int
           /\ \A j \in Keys \ {k} : AddToRows(d, k, q).held[j] = d.held[j]
  <1> DEFINE rows == d.held[k]
             new == [i \in DOMAIN rows |-> rows[i] + q]
  <1>1. rows \in Seq(Int)
    BY DEF Tables
  <1>2. AddToRows(d, k, q).held = [d.held EXCEPT ![k] = new]
    BY AddToRowsType
  <1>3. /\ AddToRows(d, k, q).held[k] = new
        /\ \A j \in Keys \ {k} : AddToRows(d, k, q).held[j] = d.held[j]
    BY <1>2 DEF Tables
  <1>4. CASE rows = <<>>
    <2>1. new = <<>>
      BY <1>4
    <2> QED BY <1>3, <1>4, <2>1 DEF Held
  <1>5. CASE rows # <<>>
    <2>1. PICK n \in Nat : rows \in [1 .. n -> Int]
      BY <1>1
    <2>2. n # 0
      <3> SUFFICES ASSUME n = 0 PROVE FALSE
        OBVIOUS
      <3>1. rows \in Seq(Int) /\ Len(rows) = 0
        BY <2>1
      <3> QED BY <3>1, <1>5, EmptySeq
    <2>3. 1 \in 1 .. n /\ DOMAIN rows = 1 .. n
      BY <2>1, <2>2
    <2>4. new[1] = rows[1] + q /\ rows[1] \in Int
      BY <2>1, <2>3
    <2>5. new # <<>>
      <3>1. DOMAIN new = 1 .. n
        BY <2>3
      <3>2. DOMAIN <<>> = {}
        OBVIOUS
      <3> HIDE DEF new
      <3> QED BY <2>3, <3>1, <3>2
    <2> QED BY <1>3, <1>5, <2>4, <2>5 DEF Held
  <1> QED BY <1>4, <1>5

LEMMA TradedStep ==
    ASSUME TypeOK, NEW w \in Workers,
           \/ Receive(w) \/ Authenticate(w) \/ CheckBalance(w) \/ CheckHeld(w)
           \/ Credit(w) \/ Debit(w) \/ LookUpPosition(w) \/ AddShares(w)
           \/ OpenPosition(w) \/ ReduceShares(w) \/ Respond(w) \/ StatementFails(w)
    PROVE  db'.traded = db.traded
  <1>0. db \in Tables
    BY DEF TypeOK, TablesOK
  <1>1. CASE \/ Receive(w) \/ Authenticate(w) \/ CheckBalance(w) \/ CheckHeld(w)
             \/ LookUpPosition(w) \/ Respond(w) \/ StatementFails(w)
    <2>1. UNCHANGED connVars
      BY <1>1 DEF Receive, Authenticate, CheckBalance, CheckHeld, LookUpPosition, Respond,
                  StatementFails
    <2> QED BY <2>1 DEF connVars
  <1>2. CASE Credit(w) \/ Debit(w)
    <2>1. PICK x : db' = AddCash(db, Acct(w), x)
      BY <1>2 DEF Credit, Debit, Exec
    <2> QED BY <1>0, <2>1 DEF AddCash, Tables
  <1>3. CASE AddShares(w) \/ OpenPosition(w) \/ ReduceShares(w)
    <2>1. \/ db' = db
          \/ \E q : db' = AddToRows(db, Key(w), q) \/ db' = AddRow(db, Key(w), q)
      BY <1>3 DEF AddShares, OpenPosition, ReduceShares, Exec, connVars
    <2> QED BY <1>0, <2>1 DEF AddToRows, AddRow, Tables
  <1> QED BY <1>1, <1>2, <1>3

LEMMA RecordStep ==
    ASSUME TypeOK, NEW w \in Workers, RecordTrade(w)
    PROVE  \A k \in Keys :
             db'.traded[k] = IF Key(w) = k THEN db.traded[k] + SignedQty(w) ELSE db.traded[k]
  <1>1. db \in Tables
    BY DEF TypeOK, TablesOK
  <1>2. /\ Key(w) \in Keys /\ Key(w)[1] \in Accounts
        /\ Signed(w) \in Int /\ SignedQty(w) \in Int
    BY ServingType DEF RecordTrade, TypeOK, ServiceOK, Fits, IsTrade, Keys
  <1>3. db' = AddTrade(db, Key(w), Signed(w), SignedQty(w))
    BY DEF RecordTrade, Exec
  <1> QED BY <1>1, <1>2, <1>3 DEF AddTrade, Tables

(* The statement that moves the shares of a trade moves all of them. *)
LEMMA SharesMove ==
    ASSUME TypeOK, RowsToMove, NEW w \in Workers,
           AddShares(w) \/ OpenPosition(w) \/ ReduceShares(w),
           NEW k \in Keys, k \notin doubled'
    PROVE  Held(db', k) = IF Key(w) = k THEN Held(db, k) + SignedQty(w) ELSE Held(db, k)
  <1>1. db \in Tables
    BY DEF TypeOK, TablesOK
  <1>2. pc[w] \in {"add", "open", "reduce"} /\ IsTrade(w)
    BY DEF AddShares, OpenPosition, ReduceShares, TypeOK, ServiceOK, Fits, IsTrade
  <1>3. Key(w) \in Keys /\ req[w].qty \in Int /\ -req[w].qty \in Int
    BY <1>2, ServingType
  <1>4. CASE AddShares(w)
    <2>1. db' = AddToRows(db, Key(w), req[w].qty)
      BY <1>4 DEF AddShares, Exec
    <2>2. SignedQty(w) = req[w].qty /\ db.held[Key(w)] # <<>>
      BY <1>4 DEF AddShares, SignedQty, TypeOK, ServiceOK, Fits, RowsToMove
    <2>3. CASE Key(w) = k
      BY <1>1, <1>3, <2>1, <2>2, <2>3, FirstRow
    <2>4. CASE Key(w) # k
      <3>1. db'.held[k] = db.held[k]
        BY <1>1, <1>3, <2>1, <2>4, FirstRow
      <3> QED BY <2>4, <3>1 DEF Held
    <2> QED BY <2>3, <2>4
  <1>5. CASE ReduceShares(w)
    <2>1. db' = AddToRows(db, Key(w), -req[w].qty)
      BY <1>5 DEF ReduceShares, Exec
    <2>2. /\ SignedQty(w) = -req[w].qty
          /\ db.held[Key(w)] = <<>> => req[w].qty = 0
      BY <1>5 DEF ReduceShares, SignedQty, TypeOK, ServiceOK, Fits, RowsToMove
    <2>3. CASE Key(w) = k
      <3>1. Held(db', k) = IF db.held[k] = <<>> THEN 0 ELSE Held(db, k) + (-req[w].qty)
        BY <1>1, <1>3, <2>1, <2>3, FirstRow
      <3>2. db.held[k] = <<>> => Held(db, k) = 0
        BY DEF Held
      <3> QED BY <1>3, <2>2, <2>3, <3>1, <3>2
    <2>4. CASE Key(w) # k
      <3>1. db'.held[k] = db.held[k]
        BY <1>1, <1>3, <2>1, <2>4, FirstRow
      <3> QED BY <2>4, <3>1 DEF Held
    <2> QED BY <2>3, <2>4
  <1>6. CASE OpenPosition(w)
    <2>1. SignedQty(w) = req[w].qty
      BY <1>6 DEF OpenPosition, SignedQty, TypeOK, ServiceOK, Fits
    <2>2. CASE Key(w) # k
      <3>1. db'.held[k] = db.held[k]
        <4>1. UNCHANGED connVars \/ db' = AddRow(db, Key(w), req[w].qty)
          BY <1>6 DEF OpenPosition, Exec
        <4>2. AddRow(db, Key(w), req[w].qty).held =
                [db.held EXCEPT ![Key(w)] = Append(@, req[w].qty)]
          BY <1>1, <1>3, AddRowType
        <4> QED BY <1>1, <2>2, <4>1, <4>2 DEF Tables, connVars
      <3> QED BY <2>2, <3>1 DEF Held
    <2>3. CASE Key(w) = k
      <3>1. db.held[k] = <<>>
        BY <1>6, <2>3 DEF OpenPosition
      <3>2. db' = AddRow(db, k, req[w].qty)
        BY <1>6, <2>3, <3>1 DEF OpenPosition, Exec
      <3>3. db'.held[k] = Append(<<>>, req[w].qty)
        <4>1. AddRow(db, k, req[w].qty).held[k] = Append(db.held[k], req[w].qty)
          BY <1>1 DEF AddRow, Tables
        <4> QED BY <3>1, <3>2, <4>1
      <3>4. db'.held[k] = <<req[w].qty>>
        BY <1>3, <3>3
      <3>5. <<req[w].qty>>[1] = req[w].qty /\ <<req[w].qty>> # <<>>
        OBVIOUS
      <3>6. Held(db', k) = req[w].qty /\ Held(db, k) = 0
        BY <3>1, <3>4, <3>5 DEF Held
      <3> QED BY <1>3, <2>1, <2>3, <3>6
    <2> QED BY <2>2, <2>3
  <1> QED BY <1>4, <1>5, <1>6

(* No statement removes the last row of a holding. *)
LEMMA RowsStay ==
    ASSUME TypeOK, NEW w \in Workers, Serve(w), NEW k \in Keys, db.held[k] # <<>>
    PROVE  db'.held[k] # <<>>
  <1>1. db \in Tables
    BY DEF TypeOK, TablesOK
  <1>2. CASE AddShares(w) \/ ReduceShares(w)
    <2>1. Key(w) \in Keys /\ req[w].qty \in Int /\ -req[w].qty \in Int
      BY <1>2, ServingType
      DEF AddShares, ReduceShares, TypeOK, ServiceOK, Fits, IsTrade
    <2>2. PICK q \in Int : db' = AddToRows(db, Key(w), q)
      BY <1>2, <2>1 DEF AddShares, ReduceShares, Exec
    <2>3. /\ AddToRows(db, Key(w), q).held[Key(w)] = <<>> <=> db.held[Key(w)] = <<>>
          /\ \A j \in Keys \ {Key(w)} : AddToRows(db, Key(w), q).held[j] = db.held[j]
      BY <1>1, <2>1, <2>2, FirstRow
    <2> QED BY <2>2, <2>3
  <1>3. CASE OpenPosition(w)
    <2>1. Key(w) \in Keys /\ req[w].qty \in Int
      BY <1>3, ServingType DEF OpenPosition, TypeOK, ServiceOK, Fits, IsTrade
    <2>2. db' = db \/ db' = AddRow(db, Key(w), req[w].qty)
      BY <1>3 DEF OpenPosition, Exec, connVars
    <2>3. AddRow(db, Key(w), req[w].qty).held =
            [db.held EXCEPT ![Key(w)] = Append(@, req[w].qty)]
      BY <1>1, <2>1, AddRowType
    <2>4. db.held[k] \in Seq(Int)
      BY <1>1 DEF Tables
    <2>5. Append(db.held[k], req[w].qty) # <<>>
      BY <2>1, <2>4
    <2> QED BY <1>1, <2>1, <2>2, <2>3, <2>5 DEF Tables
  <1> QED BY <1>2, <1>3, HeldStep DEF Serve

LEMMA RowsToMoveInit == Init => RowsToMove
  BY DEF Init, RowsToMove

LEMMA RowsToMoveStep ==
    NaturalRequests /\ TypeOK /\ RowsToMove /\ [Next]_vars => RowsToMove'
  <1> SUFFICES ASSUME NaturalRequests, TypeOK, RowsToMove, [Next]_vars, NEW v \in Workers
               PROVE  /\ pc'[v] = "add" => db'.held[Key(v)'] # <<>>
                      /\ pc'[v] \in {"cash", "reduce"} /\ req'[v].op = "sell"
                           /\ db'.held[Key(v)'] = <<>> => req'[v].qty = 0
    BY DEF RowsToMove
  <1>1. ASSUME NEW w \in Workers, Serve(w)
        PROVE  /\ pc'[v] = "add" => db'.held[Key(v)'] # <<>>
               /\ pc'[v] \in {"cash", "reduce"} /\ req'[v].op = "sell"
                    /\ db'.held[Key(v)'] = <<>> => req'[v].qty = 0
    <2>1. ASSUME pc[v] # "idle", IsTrade(v), req'[v] = req[v]
          PROVE  Key(v)' = Key(v) /\ Key(v) \in Keys
                 /\ (db.held[Key(v)] # <<>> => db'.held[Key(v)] # <<>>)
      BY <1>1, <2>1, ServingType, RowsStay DEF Key
    <2>2. CASE v # w
      <3>1. pc'[v] = pc[v] /\ req'[v] = req[v]
        BY <1>1, <2>2, OthersStay
      <3>2. CASE pc[v] = "add"
        BY <2>1, <3>1, <3>2 DEF RowsToMove, TypeOK, ServiceOK, Fits, IsTrade
      <3>3. CASE pc[v] \in {"cash", "reduce"} /\ req[v].op = "sell"
        BY <2>1, <3>1, <3>3 DEF RowsToMove, IsTrade
      <3> QED BY <3>1, <3>2, <3>3
    <2>3. CASE v = w
      <3>1. CASE LookUpPosition(w)
        <4>1. /\ pc[v] = "lookup" /\ req'[v] = req[v]
              /\ pc'[v] = IF db.held[Key(v)] # <<>> THEN "add" ELSE "open"
          BY <2>3, <3>1 DEF LookUpPosition, GoTo, TypeOK, ServiceOK
        <4>2. IsTrade(v)
          BY <4>1 DEF TypeOK, ServiceOK, Fits, IsTrade
        <4> QED BY <2>1, <4>1, <4>2
      <3>2. CASE CheckHeld(w)
        <4>1. /\ req'[v] = req[v] \/ pc'[v] = "idle"
              /\ Lacks(db, Key(v), req[v].qty) => pc'[v] = "idle"
              /\ pc'[v] \in {"idle", "cash"} /\ db' = db
          BY <2>3, <3>2 DEF CheckHeld, GoTo, Return, TypeOK, ServiceOK, connVars
        <4>2. pc[v] = "check" /\ req[v].op = "sell"
          BY <2>3, <3>2 DEF CheckHeld
        <4>3. req[v].qty \in Nat
          BY <4>2, ServingType, NaturalRequest
        <4>4. CASE db.held[Key(v)] = <<>> /\ pc'[v] = "cash"
          <5>1. ~(0 < req[v].qty)
            BY <4>1, <4>4 DEF Lacks, Held
          <5>2. req[v].qty = 0 /\ req'[v] = req[v]
            BY <4>1, <4>3, <4>4, <5>1
          <5> QED BY <4>4, <5>2
        <4>5. CASE db.held[Key(v)] # <<>> /\ pc'[v] = "cash"
          <5>1. req'[v] = req[v]
            BY <4>1, <4>5
          <5> QED BY <4>1, <4>5, <5>1 DEF Key
        <4> QED BY <4>1, <4>4, <4>5
      <3>3. CASE Credit(w) \/ StatementFails(w)
        <4>1. \/ pc'[v] \notin {"add", "cash", "reduce"}
              \/ /\ req'[v] = req[v] /\ pc'[v] # "add" /\ pc'[v] # "cash"
                 /\ pc'[v] = "reduce" => pc[v] = "cash" /\ req[v].op = "sell"
          <5>1. CASE Credit(w)
            BY <2>3, <3>3, <5>1 DEF Credit, AfterCash, GoTo, TypeOK, ServiceOK
          <5>2. CASE StatementFails(w)
            <6>1. \/ Return(w) \/ GoTo(w, "record") \/ GoTo(w, "ack")
                  \/ pc[w] = "cash" /\ GoTo(w, AfterCash(req[w].op))
              BY <5>2 DEF StatementFails
            <6> QED BY <2>3, <6>1 DEF GoTo, Return, AfterCash, TypeOK, ServiceOK
          <5> QED BY <3>3, <5>1, <5>2
        <4> QED BY <2>1, <4>1 DEF RowsToMove, IsTrade
      <3>4. CASE \/ Receive(w) \/ CheckBalance(w) \/ Debit(w) \/ AddShares(w)
                 \/ OpenPosition(w) \/ ReduceShares(w) \/ RecordTrade(w) \/ Respond(w)
                 \/ Authenticate(w)
        <4>1. \/ pc'[v] \notin {"add", "cash", "reduce"}
              \/ pc'[v] \in {"cash", "reduce"} /\ req'[v].op # "sell"
          <5>1. CASE \/ Receive(w) \/ AddShares(w) \/ OpenPosition(w) \/ ReduceShares(w)
                     \/ RecordTrade(w) \/ Respond(w)
            BY <2>3, <5>1 DEF Receive, AddShares, OpenPosition, ReduceShares, RecordTrade,
                Respond, GoTo, Return, TypeOK, ServiceOK
          <5>2. CASE CheckBalance(w) \/ Debit(w) \/ Authenticate(w)
            BY <2>3, <5>2 DEF CheckBalance, Debit, Authenticate, AfterCash, GoTo, Return,
                TypeOK, ServiceOK
          <5> QED BY <3>4, <5>1, <5>2
        <4> QED BY <4>1
      <3> QED BY <1>1, <3>1, <3>2, <3>3, <3>4 DEF Serve
    <2> QED BY <2>2, <2>3
  <1>2. CASE Crash
    BY <1>2 DEF Crash
  <1>3. CASE \E b \in Batchers : BackgroundBegin(b) \/ BackgroundCommit(b)
    <2>1. db' = db /\ pc' = pc /\ req' = req
      BY <1>3 DEF BackgroundBegin, BeginBatch, BackgroundCommit, CommitBatch, tradeVars
    <2> QED BY <2>1 DEF RowsToMove, Key
  <1>4. CASE UNCHANGED vars
    BY <1>4 DEF vars, connVars, tradeVars, RowsToMove, Key
  <1> QED BY <1>1, <1>2, <1>3, <1>4 DEF Next

(* The shares of a holding that the trades table does not account for. *)
Untraded(k) == Held(db, k) - db.traded[k]

LEMMA HeldType ==
    ASSUME NEW d \in Tables, NEW k \in Keys
    PROVE  Held(d, k) \in Int
  BY FirstRow

LEMMA OwnShares ==
    ASSUME TypeOK, TypeOK', RowsToMove, NEW w \in Workers, Serve(w),
           NEW k \in Keys, k \notin doubled', StatementFails(w) => k \notin tainted'
    PROVE  Untraded(k)' - Untraded(k) = ShareLeg(w, k)' - ShareLeg(w, k)
  <1>0. /\ Held(db, k) \in Int /\ Held(db', k) \in Int
        /\ db.traded[k] \in Int /\ db'.traded[k] \in Int
        /\ ShareLeg(w, k) \in Int /\ ShareLeg(w, k)' \in Int
    <2>1. ShareLeg(w, k) \in Int /\ ShareLeg(w, k)' \in Int
      BY LegType, LegTypeNext DEF LegsTyped
    <2>2. db \in Tables /\ db' \in Tables
      BY DEF TypeOK, TablesOK
    <2> QED BY <2>1, <2>2, HeldType DEF Tables
  <1>1. CASE AddShares(w) \/ OpenPosition(w) \/ ReduceShares(w)
    <2>1. /\ pc[w] \in {"add", "open", "reduce"} /\ pc'[w] = "record" /\ req' = req
      BY <1>1 DEF AddShares, OpenPosition, ReduceShares, GoTo, TypeOK, ServiceOK
    <2>2. db'.traded = db.traded
      BY <1>1, TradedStep
    <2>3. Held(db', k) = IF Key(w) = k THEN Held(db, k) + SignedQty(w) ELSE Held(db, k)
      BY <1>1, SharesMove
    <2>4. /\ ShareLeg(w, k) = 0
          /\ ShareLeg(w, k)' = IF Key(w) = k THEN SignedQty(w) ELSE 0
      BY <2>1 DEF ShareLeg, Key, SignedQty
    <2>5. Untraded(k)' = Held(db', k) - db'.traded[k]
      BY DEF Untraded, Held
    <2> QED BY <1>0, <2>2, <2>3, <2>4, <2>5 DEF Untraded
  <1>2. CASE RecordTrade(w)
    <2>1. /\ pc[w] = "record" /\ pc'[w] = "ack" /\ req' = req
      BY <1>2 DEF RecordTrade, GoTo, TypeOK, ServiceOK
    <2>2. db'.held = db.held
      BY <1>2, HeldStep
    <2>3. db'.traded[k] = IF Key(w) = k THEN db.traded[k] + SignedQty(w) ELSE db.traded[k]
      BY <1>2, RecordStep
    <2>4. /\ ShareLeg(w, k) = IF Key(w) = k THEN SignedQty(w) ELSE 0
          /\ ShareLeg(w, k)' = 0
      BY <2>1 DEF ShareLeg
    <2>5. Untraded(k)' = Held(db, k) - db'.traded[k]
      BY <2>2 DEF Untraded, Held
    <2> QED BY <1>0, <2>3, <2>4, <2>5 DEF Untraded
  <1>3. CASE \/ Receive(w) \/ Authenticate(w) \/ CheckBalance(w) \/ CheckHeld(w)
             \/ Credit(w) \/ Debit(w) \/ LookUpPosition(w) \/ Respond(w)
             \/ StatementFails(w)
    <2>1. db'.held = db.held
      BY <1>3, HeldStep
    <2>2. db'.traded = db.traded
      BY <1>3, TradedStep
    <2>3. ShareLeg(w, k) = 0 /\ ShareLeg(w, k)' = 0
      <3>1. CASE \/ Receive(w) \/ Authenticate(w) \/ CheckBalance(w) \/ CheckHeld(w)
                 \/ LookUpPosition(w) \/ Respond(w)
        <4>1. pc[w] # "record" /\ pc'[w] # "record"
          BY <3>1 DEF Receive, Authenticate, CheckBalance, CheckHeld, LookUpPosition, Respond,
              GoTo, Return, TypeOK, ServiceOK
        <4> QED BY <4>1 DEF ShareLeg
      <3>2. CASE Credit(w) \/ Debit(w)
        <4>1. pc[w] # "record" /\ pc'[w] # "record"
          BY <3>2 DEF Credit, Debit, AfterCash, GoTo, TypeOK, ServiceOK
        <4> QED BY <4>1 DEF ShareLeg
      <3>3. CASE StatementFails(w)
        <4>1. CASE pc[w] = "cash"
          <5>1. Return(w) \/ GoTo(w, AfterCash(req[w].op))
            BY <3>3, <4>1 DEF StatementFails
          <5>2. pc'[w] # "record"
            BY <5>1 DEF GoTo, Return, AfterCash, TypeOK, ServiceOK
          <5> QED BY <4>1, <5>2 DEF ShareLeg
        <4>2. CASE pc[w] # "cash"
          <5>1. pc[w] \in {"add", "open", "reduce", "record"} /\ req' = req
            BY <3>3, <4>2 DEF StatementFails, GoTo
          <5>2. Key(w) \in tainted'
            BY <3>3, <5>1 DEF StatementFails, FaultTaint
          <5>3. Key(w) # k /\ Key(w)' # k
            BY <3>3, <5>1, <5>2 DEF Key
          <5> QED BY <5>3 DEF ShareLeg
        <4> QED BY <4>1, <4>2
      <3> QED BY <1>3, <3>1, <3>2, <3>3
    <2>4. Untraded(k)' = Untraded(k)
      BY <2>1, <2>2 DEF Untraded, Held
    <2> QED BY <1>0, <2>3, <2>4 DEF Untraded
  <1> QED BY <1>1, <1>2, <1>3 DEF Serve

LEMMA ShareStep ==
    ASSUME TypeOK, TypeOK', RowsToMove, [Next]_vars,
           NEW k \in Keys, k \notin doubled', Mishap => k \notin tainted'
    PROVE  \E w \in Workers :
             /\ Untraded(k)' - Untraded(k) = ShareLeg(w, k)' - ShareLeg(w, k)
             /\ \A v \in Workers \ {w} : ShareLeg(v, k)' = ShareLeg(v, k)
  <1>1. ASSUME NEW w \in Workers, Serve(w)
        PROVE  \A v \in Workers \ {w} : ShareLeg(v, k)' = ShareLeg(v, k)
    BY <1>1, OthersStay DEF ShareLeg, Key, SignedQty
  <1>2. ASSUME /\ db'.held[k] = db.held[k] /\ db'.traded[k] = db.traded[k]
               /\ \A v \in Workers : ShareLeg(v, k)' = ShareLeg(v, k)
        PROVE  \E w \in Workers :
                 /\ Untraded(k)' - Untraded(k) = ShareLeg(w, k)' - ShareLeg(w, k)
                 /\ \A v \in Workers \ {w} : ShareLeg(v, k)' = ShareLeg(v, k)
    <2>1. PICK w \in Workers : TRUE
      BY WorkersAssumption
    <2>2. Held(db, k) \in Int /\ db.traded[k] \in Int /\ ShareLeg(w, k) \in Int
      BY HeldType, LegType DEF LegsTyped, TypeOK, TablesOK, Tables
    <2>3. Untraded(k)' = Untraded(k)
      BY <1>2 DEF Untraded, Held
    <2>4. Untraded(k)' - Untraded(k) = ShareLeg(w, k)' - ShareLeg(w, k)
      BY <1>2, <2>2, <2>3 DEF Untraded
    <2> QED BY <1>2, <2>4
  <1>3. CASE Crash
    <2>1. k \notin Torn /\ k \notin Unsaved /\ db' = disk
      BY <1>3 DEF Mishap, Crash, Recover
    <2>2. db'.held[k] = db.held[k] /\ db'.traded[k] = db.traded[k]
      BY <2>1 DEF Unsaved
    <2>3. \A v \in Workers : ShareLeg(v, k) = 0
      BY <2>1 DEF Torn, ShareLeg
    <2>4. \A v \in Workers : pc'[v] = "idle"
      BY <1>3 DEF Crash
    <2>5. \A v \in Workers : ShareLeg(v, k)' = 0
      BY <2>4 DEF ShareLeg
    <2> QED BY <1>2, <2>2, <2>3, <2>5
  <1>4. CASE \E b \in Batchers : BackgroundBegin(b) \/ BackgroundCommit(b)
    <2>1. db' = db /\ pc' = pc /\ req' = req
      BY <1>4 DEF BackgroundBegin, BeginBatch, BackgroundCommit, CommitBatch, tradeVars
    <2> QED BY <1>2, <2>1 DEF ShareLeg, Key, SignedQty
  <1>5. CASE UNCHANGED vars
    BY <1>2, <1>5 DEF vars, connVars, tradeVars, ShareLeg, Key, SignedQty
  <1>6. CASE \E w \in Workers : Serve(w)
    BY <1>1, <1>6, OwnShares DEF Mishap
  <1> QED BY <1>3, <1>4, <1>5, <1>6 DEF Next

LEMMA SharesSum ==
    ASSUME TypeOK, TypeOK', RowsToMove, SharesReconcile, [Next]_vars
    PROVE  SharesReconcile'
  <1> SUFFICES ASSUME NEW k \in Keys, k \notin tainted' \cup doubled'
               PROVE  Held(db', k) = db'.traded[k]
                                     + SumFunction([w \in Workers |-> ShareLeg(w, k)'])
    BY DEF SharesReconcile, Held
  <1> DEFINE f == [w \in Workers |-> ShareLeg(w, k)]
             g == [w \in Workers |-> ShareLeg(w, k)']
  <1>1. k \notin tainted \cup doubled
    BY DEF Next, Serve, vars, tradeVars, Receive, Authenticate, CheckBalance, CheckHeld,
           Credit, Debit, LookUpPosition, AddShares, OpenPosition, ReduceShares, RecordTrade,
           Respond, StatementFails, Crash, BackgroundBegin, BackgroundCommit
  <1>2. PICK w \in Workers :
          /\ Untraded(k)' - Untraded(k) = ShareLeg(w, k)' - ShareLeg(w, k)
          /\ \A v \in Workers \ {w} : ShareLeg(v, k)' = ShareLeg(v, k)
    BY ShareStep
  <1>3. f \in [Workers -> Int] /\ g \in [Workers -> Int]
    <2>1. \A v \in Workers : ShareLeg(v, k) \in Int
      BY LegType DEF LegsTyped
    <2>2. \A v \in Workers : ShareLeg(v, k)' \in Int
      BY LegTypeNext DEF LegsTyped
    <2> QED BY <2>1, <2>2
  <1>4. SumFunction(g) = SumFunction(f) + (g[w] - f[w]) /\ SumFunction(f) \in Int
    <2>1. \A v \in Workers \ {w} : g[v] = f[v]
      BY <1>2
    <2> HIDE DEF f, g
    <2> QED BY <1>3, <2>1, SumChange, SumType, WorkersAssumption
  <1>5. /\ Held(db, k) \in Int /\ db.traded[k] \in Int
        /\ Held(db', k) \in Int /\ db'.traded[k] \in Int
    BY HeldType DEF TypeOK, TablesOK, Tables
  <1>6. Untraded(k) = SumFunction(f)
    BY <1>1, <1>4, <1>5 DEF SharesReconcile, Untraded
  <1>7. ShareLeg(w, k) \in Int /\ ShareLeg(w, k)' \in Int
    BY <1>3
  <1>8. Untraded(k)' = Held(db', k) - db'.traded[k]
    BY DEF Untraded, Held
  <1>9. Untraded(k)' = SumFunction(g)
    BY <1>2, <1>4, <1>5, <1>6, <1>7, <1>8 DEF Untraded
  <1> QED BY <1>4, <1>5, <1>7, <1>8, <1>9

LEMMA SharesReconcileInit == Init => SharesReconcile
  <1> SUFFICES ASSUME Init, NEW k \in Keys
               PROVE  Held(db, k) = db.traded[k]
                                    + SumFunction([w \in Workers |-> ShareLeg(w, k)])
    BY DEF SharesReconcile
  <1> DEFINE f == [w \in Workers |-> ShareLeg(w, k)]
  <1>1. \A w \in Workers : ShareLeg(w, k) = 0
    BY DEF Init, ShareLeg
  <1>2. f \in [Workers -> Int] /\ \A w \in Workers : f[w] = 0
    BY <1>1
  <1>3. SumFunction(f) = 0
    <2> HIDE DEF f
    <2> QED BY <1>2, SumZero, WorkersAssumption
  <1>4. Held(db, k) = db.traded[k] /\ db.traded[k] \in Int
    <2>1. \/ db.held[k] = <<OpeningShares>> /\ db.traded[k] = OpeningShares
          \/ db.held[k] = <<>> /\ db.traded[k] = 0
      BY DEF Init, ConnInit
    <2>2. <<OpeningShares>>[1] = OpeningShares /\ <<OpeningShares>> # <<>>
      OBVIOUS
    <2> QED BY <2>1, <2>2, OpeningAssumption DEF Held
  <1> QED BY <1>3, <1>4

(***************************************************************************)
(* The same of shares, for every number of workers, accounts and stocks: a *)
(* holding is what the trades table records plus what the trades in flight *)
(* have moved and not yet recorded, unless two first purchases of it       *)
(* crossed or a fault or a crash hit it. The requests have to be for       *)
(* natural numbers of shares: a sale of a negative number passes the check *)
(* of a holding that has no row, and then moves nothing.                   *)
(***************************************************************************)
THEOREM SharesConserved ==
    ASSUME NaturalRequests
    PROVE  Spec => []SharesReconcile
  <1>1. Init => SharesReconcile
    BY SharesReconcileInit
  <1>2. TypeOK /\ TypeOK' /\ RowsToMove /\ SharesReconcile /\ [Next]_vars => SharesReconcile'
    BY SharesSum
  <1>3. Init => RowsToMove
    BY RowsToMoveInit
  <1>4. TypeOK /\ RowsToMove /\ [Next]_vars => RowsToMove'
    BY RowsToMoveStep
  <1> QED BY <1>1, <1>2, <1>3, <1>4, TypeCorrect, PTL DEF Spec

-----------------------------------------------------------------------------
(* What failed statements leave behind.                                     *)

(* The requests are finitely many kinds, so that one of them moves most. *)
FiniteRequests == IsFiniteSet(Amounts) /\ IsFiniteSet(Quantities) /\ IsFiniteSet(Prices)

LEMMA ProductBounded ==
    ASSUME NEW p \in Nat, NEW q \in Nat, NEW x \in Nat, NEW y \in Nat, p <= x, q <= y
    PROVE  p * q <= x * y
  <1>1. PICK u \in Nat, v \in Nat : x = p + u /\ y = q + v
    <2>1. x - p \in Nat /\ y - q \in Nat
      OBVIOUS
    <2>2. x = p + (x - p) /\ y = q + (y - q)
      OBVIOUS
    <2> QED BY <2>1, <2>2
  <1>2. (p + u) * (q + v) = p * q + p * v + u * q + u * v
    OBVIOUS
  <1>3. p * v \in Nat /\ u * q \in Nat /\ u * v \in Nat /\ p * q \in Nat
    OBVIOUS
  <1> QED BY <1>1, <1>2, <1>3

LEMMA GreatestNatural ==
    ASSUME NEW S, S \subseteq Nat, IsFiniteSet(S)
    PROVE  \E m \in Nat : \A x \in S : x <= m
  <1> DEFINE T == {0} \cup S
  <1>1. /\ IsFiniteSet(T) /\ T # {} /\ S \subseteq T
        /\ T \subseteq Nat /\ T \subseteq Int
    BY FS_AddElement
  <1> HIDE DEF T
  <1>2. Max(T) \in T /\ \A x \in T : x <= Max(T)
    BY <1>1, MaxIs
  <1> QED BY <1>1, <1>2

LEMMA TotalsFinite ==
    ASSUME NaturalRequests, FiniteRequests
    PROVE  IsFiniteSet(Totals)
  <1>0. Amounts \subseteq Nat /\ Prices \subseteq Nat /\ Quantities \subseteq Nat
    BY DEF NaturalRequests
  <1>1. PICK a \in Nat : \A x \in Amounts : x <= a
    BY <1>0, GreatestNatural DEF FiniteRequests
  <1>2. PICK p \in Nat : \A x \in Prices : x <= p
    BY <1>0, GreatestNatural DEF FiniteRequests
  <1>3. PICK q \in Nat : \A x \in Quantities : x <= q
    BY <1>0, GreatestNatural DEF FiniteRequests
  <1>4. p * q \in Nat
    OBVIOUS
  <1>5. Totals \subseteq 0 .. a + p * q
    <2> SUFFICES ASSUME NEW r \in Request PROVE r.total \in 0 .. a + p * q
      <3>1. 0 \in 0 .. a + p * q
        BY <1>4
      <3> QED BY <3>1 DEF Totals
    <2>1. CASE r \in CashRequest
      <3>1. r.total \in Amounts
        BY <2>1 DEF CashRequest
      <3>2. r.total \in Nat /\ r.total <= a
        BY <1>0, <1>1, <3>1
      <3> QED BY <1>4, <3>2
    <2>2. CASE r \in TradeRequest
      <3>1. PICK x \in Prices, y \in Quantities : r.total = x * y
        BY <2>2 DEF TradeRequest
      <3>2. x \in Nat /\ y \in Nat /\ x <= p /\ y <= q
        BY <1>0, <1>2, <1>3
      <3>3. x * y \in Nat /\ x * y <= p * q
        BY <3>2, ProductBounded
      <3> QED BY <1>4, <3>1, <3>3
    <2> QED BY <2>1, <2>2 DEF Request
  <1>6. IsFiniteSet(0 .. a + p * q)
    BY <1>4, FS_Interval
  <1> QED BY <1>5, <1>6, FS_Subset

LEMMA LargestIs ==
    ASSUME NaturalRequests, FiniteRequests
    PROVE  /\ LargestTotal \in Nat /\ \A r \in Request : r.total <= LargestTotal
           /\ LargestQuantity \in Nat /\ \A q \in Quantities : q <= LargestQuantity
  <1>1. Totals \subseteq Nat /\ 0 \in Totals
    BY NaturalRequest DEF Totals
  <1>2. LargestTotal \in Totals /\ \A t \in Totals : t <= LargestTotal
    <2>1. IsFiniteSet(Totals) /\ Totals # {} /\ Totals \subseteq Int
      BY <1>1, TotalsFinite
    <2> QED BY <2>1, MaxIs DEF LargestTotal
  <1> DEFINE Q == {0} \cup Quantities
  <1>3. IsFiniteSet(Q) /\ Q \subseteq Nat /\ Q # {}
    BY FS_AddElement DEF FiniteRequests, NaturalRequests
  <1>4. Max(Q) \in Q /\ \A q \in Q : q <= Max(Q)
    <2>1. Q \subseteq Int
      BY <1>3
    <2> HIDE DEF Q
    <2> QED BY <1>3, <2>1, MaxIs
  <1>5. \A r \in Request : r.total \in Totals
    BY DEF Totals
  <1> QED BY <1>1, <1>2, <1>3, <1>4, <1>5 DEF LargestQuantity

(* What a request moves is no more than that, either way. *)
LEMMA MovesAtMost ==
    ASSUME NaturalRequests, FiniteRequests, TypeOK, NEW w \in Workers, pc[w] # "idle"
    PROVE  /\ Signed(w) \in -LargestTotal .. LargestTotal
           /\ IsTrade(w) => SignedQty(w) \in -LargestQuantity .. LargestQuantity
  <1>1. req[w] \in Request
    BY ServingType
  <1>2. /\ req[w].total \in Nat /\ req[w].total <= LargestTotal
        /\ LargestTotal \in Nat /\ LargestQuantity \in Nat
    BY <1>1, NaturalRequest, LargestIs
  <1>3. ASSUME IsTrade(w)
        PROVE  req[w].qty \in Nat /\ req[w].qty <= LargestQuantity
    <2>1. req[w] \in TradeRequest
      BY <1>1, <1>3 DEF Request, CashRequest, IsTrade
    <2>2. req[w].qty \in Quantities
      BY <2>1 DEF TradeRequest
    <2> QED BY <2>2, LargestIs DEF NaturalRequests
  <1> QED BY <1>2, <1>3 DEF Signed, SignedQty

(* The bound on the error grows with each fault by what one request moves. *)
LEMMA OneMore ==
    ASSUME NEW f \in Nat, NEW m \in Nat, NEW e \in -(f * m) .. f * m, NEW c \in -m .. m
    PROVE  e + c \in -((f + 1) * m) .. (f + 1) * m
  <1>1. (f + 1) * m = f * m + m /\ f * m \in Nat
    OBVIOUS
  <1> QED BY <1>1

(* A failed statement changes no table, and of what is in flight only whether the
   request it belongs to counts. *)
LEMMA FailedLegs ==
    ASSUME TypeOK, NEW w \in Workers, StatementFails(w)
    PROVE  /\ db' = db /\ wallet' = wallet /\ faults' = faults + 1 /\ pc[w] # "idle"
           /\ \A a \in Accounts : CashLeg(w, a) \in {0, Signed(w)}
                                  /\ CashLeg(w, a)' \in {0, Signed(w)}
           /\ \A k \in Keys : /\ ShareLeg(w, k) \in {0} \cup {q \in {SignedQty(w)} : IsTrade(w)}
                              /\ ShareLeg(w, k)' \in {0} \cup {q \in {SignedQty(w)} : IsTrade(w)}
           /\ \A v \in Workers \ {w} :
                /\ \A a \in Accounts : CashLeg(v, a)' = CashLeg(v, a)
                /\ \A k \in Keys : ShareLeg(v, k)' = ShareLeg(v, k)
  <1>1. /\ db' = db /\ wallet' = wallet /\ faults' = faults + 1
        /\ pc[w] \in {"cash", "add", "open", "reduce", "record"}
    BY DEF StatementFails, connVars
  <1>2. pc'[w] = "idle" \/ req' = req
    BY DEF StatementFails, Return, GoTo, TypeOK, ServiceOK
  <1>3. \A a \in Accounts : CashLeg(w, a) \in {0, Signed(w)} /\ CashLeg(w, a)' \in {0, Signed(w)}
    BY <1>2 DEF CashLeg, CashInFlight, Signed
  <1>4. ASSUME NEW k \in Keys
        PROVE  /\ ShareLeg(w, k) \in {0} \cup {q \in {SignedQty(w)} : IsTrade(w)}
               /\ ShareLeg(w, k)' \in {0} \cup {q \in {SignedQty(w)} : IsTrade(w)}
    <2>1. pc[w] = "record" \/ pc'[w] = "record" => IsTrade(w)
      <3>1. pc[w] # "cash" => IsTrade(w)
        BY <1>1 DEF TypeOK, ServiceOK, Fits, IsTrade
      <3>2. pc[w] = "cash" => Return(w) \/ GoTo(w, AfterCash(req[w].op))
        BY DEF StatementFails
      <3>3. pc[w] = "cash" => pc'[w] # "record"
        BY <3>2 DEF GoTo, Return, AfterCash, TypeOK, ServiceOK
      <3> QED BY <3>1, <3>3
    <2> QED BY <1>2, <2>1 DEF ShareLeg, SignedQty
  <1>5. \A v \in Workers \ {w} : pc'[v] = pc[v] /\ req'[v] = req[v]
    BY OthersStay DEF Serve
  <1>6. ASSUME NEW v \in Workers \ {w}
        PROVE  /\ \A a \in Accounts : CashLeg(v, a)' = CashLeg(v, a)
               /\ \A k \in Keys : ShareLeg(v, k)' = ShareLeg(v, k)
    BY <1>5 DEF CashLeg, CashInFlight, Acct, Signed, IsTrade, ShareLeg, Key, SignedQty
  <1> QED BY <1>1, <1>3, <1>4, <1>5, <1>6

LEMMA CountersGrow ==
    ASSUME TypeOK, [Next]_vars
    PROVE  /\ crashes' = 0 => crashes = 0
           /\ doubled \subseteq doubled'
           /\ faults' = faults \/ \E w \in Workers : StatementFails(w)
           /\ Crash => crashes' # 0
  <1>1. crashes \in Nat
    BY DEF TypeOK, HistoryOK
  <1>2. ASSUME NEW w \in Workers, Serve(w)
        PROVE  /\ crashes' = crashes /\ doubled \subseteq doubled'
               /\ faults' = faults \/ StatementFails(w)
    BY <1>2 DEF Serve, Receive, Authenticate, CheckBalance, CheckHeld, Credit, Debit,
                LookUpPosition, AddShares, OpenPosition, ReduceShares, RecordTrade, Respond,
                StatementFails
  <1>3. CASE Crash
    BY <1>1, <1>3 DEF Crash
  <1>4. CASE UNCHANGED vars \/ \E b \in Batchers : BackgroundBegin(b) \/ BackgroundCommit(b)
    <2>1. UNCHANGED <<crashes, doubled, faults>>
      BY <1>4 DEF vars, tradeVars, BackgroundBegin, BackgroundCommit
    <2>2. Crash => crashes' # 0
      BY <1>1 DEF Crash
    <2> QED BY <2>1, <2>2
  <1>5. CASE \E w \in Workers : Serve(w)
    <2>1. Crash => crashes' # 0
      BY <1>1 DEF Crash
    <2> QED BY <1>2, <1>5, <2>1
  <1> QED BY <1>3, <1>4, <1>5 DEF Next

(* The error of an account follows the legs. *)
LEMMA CashErrorStep ==
    ASSUME NaturalRequests, FiniteRequests, TypeOK, TypeOK', [Next]_vars, crashes' = 0,
           NEW a \in Accounts
    PROVE  /\ CashError(a) \in Int
           /\ \E c \in -LargestTotal .. LargestTotal :
                /\ CashError(a)' = CashError(a) + c
                /\ faults' = faults + 1 \/ (c = 0 /\ faults' = faults)
  <1> DEFINE f == [w \in Workers |-> CashLeg(w, a)]
             g == [w \in Workers |-> CashLeg(w, a)']
  <1>1. f \in [Workers -> Int] /\ g \in [Workers -> Int]
    <2>1. \A v \in Workers : CashLeg(v, a) \in Int
      BY LegType DEF LegsTyped
    <2>2. \A v \in Workers : CashLeg(v, a)' \in Int
      BY LegTypeNext DEF LegsTyped
    <2> QED BY <2>1, <2>2
  <1>2. ASSUME NEW w \in Workers, \A v \in Workers \ {w} : CashLeg(v, a)' = CashLeg(v, a)
        PROVE  SumFunction(g) = SumFunction(f) + (CashLeg(w, a)' - CashLeg(w, a))
    <2>1. \A v \in Workers \ {w} : g[v] = f[v]
      BY <1>2
    <2>2. SumFunction(g) = SumFunction(f) + (g[w] - f[w])
      <3> HIDE DEF f, g
      <3> QED BY <1>1, <2>1, SumChange, WorkersAssumption
    <2> QED BY <2>2
  <1>3. SumFunction(f) \in Int /\ Unbooked(a) \in Int /\ Unbooked(a)' \in Int
    <2>1. SumFunction(f) \in Int
      <3> HIDE DEF f
      <3> QED BY <1>1, SumType, WorkersAssumption
    <2> QED BY <2>1 DEF Unbooked, TypeOK, TablesOK, Tables, HistoryOK
  <1>4. /\ CashError(a) = Unbooked(a) - SumFunction(f)
        /\ CashError(a)' = Unbooked(a)' - SumFunction(g)
    BY DEF CashError
  <1>5. LargestTotal \in Nat
    BY LargestIs
  <1>6. CASE \E w \in Workers : StatementFails(w)
    <2>1. PICK w \in Workers : StatementFails(w)
      BY <1>6
    <2>2. SumFunction(g) = SumFunction(f) + (CashLeg(w, a)' - CashLeg(w, a))
      BY <1>2, <2>1, FailedLegs
    <2>3. Unbooked(a)' = Unbooked(a) /\ faults' = faults + 1
      BY <2>1, FailedLegs DEF Unbooked
    <2>4. /\ CashLeg(w, a) \in {0, Signed(w)} /\ CashLeg(w, a)' \in {0, Signed(w)}
          /\ Signed(w) \in -LargestTotal .. LargestTotal
      BY <2>1, FailedLegs, MovesAtMost
    <2> DEFINE c == CashLeg(w, a) - CashLeg(w, a)'
    <2>5. c \in -LargestTotal .. LargestTotal
      BY <1>5, <2>4
    <2>6. CashError(a)' = CashError(a) + c
      BY <1>1, <1>3, <1>4, <1>5, <2>2, <2>3, <2>4
    <2> QED BY <1>3, <1>4, <2>3, <2>5, <2>6
  <1>7. CASE ~ \E w \in Workers : StatementFails(w)
    <2>1. faults' = faults /\ ~Mishap
      BY <1>7, CountersGrow DEF Mishap
    <2>2. PICK w \in Workers :
            /\ Unbooked(a)' - Unbooked(a) = CashLeg(w, a)' - CashLeg(w, a)
            /\ \A v \in Workers \ {w} : CashLeg(v, a)' = CashLeg(v, a)
      BY <2>1, LegStep
    <2>3. SumFunction(g) = SumFunction(f) + (CashLeg(w, a)' - CashLeg(w, a))
      BY <1>2, <2>2
    <2>4. CashLeg(w, a) \in Int /\ CashLeg(w, a)' \in Int
      BY <1>1
    <2>5. CashError(a)' = CashError(a) + 0 /\ 0 \in -LargestTotal .. LargestTotal
      BY <1>3, <1>4, <1>5, <2>2, <2>3, <2>4
    <2> QED BY <1>3, <1>4, <2>1, <2>5
  <1> QED BY <1>6, <1>7

(* ... and so does that of a holding. *)
LEMMA ShareErrorStep ==
    ASSUME NaturalRequests, FiniteRequests, TypeOK, TypeOK', RowsToMove, [Next]_vars,
           crashes' = 0, NEW k \in Keys, k \notin doubled'
    PROVE  /\ ShareError(k) \in Int
           /\ \E c \in -LargestQuantity .. LargestQuantity :
                /\ ShareError(k)' = ShareError(k) + c
                /\ faults' = faults + 1 \/ (c = 0 /\ faults' = faults)
  <1> DEFINE f == [w \in Workers |-> ShareLeg(w, k)]
             g == [w \in Workers |-> ShareLeg(w, k)']
  <1>1. f \in [Workers -> Int] /\ g \in [Workers -> Int]
    <2>1. \A v \in Workers : ShareLeg(v, k) \in Int
      BY LegType DEF LegsTyped
    <2>2. \A v \in Workers : ShareLeg(v, k)' \in Int
      BY LegTypeNext DEF LegsTyped
    <2> QED BY <2>1, <2>2
  <1>2. ASSUME NEW w \in Workers, \A v \in Workers \ {w} : ShareLeg(v, k)' = ShareLeg(v, k)
        PROVE  SumFunction(g) = SumFunction(f) + (ShareLeg(w, k)' - ShareLeg(w, k))
    <2>1. \A v \in Workers \ {w} : g[v] = f[v]
      BY <1>2
    <2>2. SumFunction(g) = SumFunction(f) + (g[w] - f[w])
      <3> HIDE DEF f, g
      <3> QED BY <1>1, <2>1, SumChange, WorkersAssumption
    <2> QED BY <2>2
  <1>3. SumFunction(f) \in Int /\ Untraded(k) \in Int /\ Untraded(k)' \in Int
    <2>1. SumFunction(f) \in Int
      <3> HIDE DEF f
      <3> QED BY <1>1, SumType, WorkersAssumption
    <2>2. db \in Tables /\ db' \in Tables
      BY DEF TypeOK, TablesOK
    <2>3. /\ Held(db, k) \in Int /\ Held(db', k) \in Int
          /\ db.traded[k] \in Int /\ db'.traded[k] \in Int
      BY <2>2, HeldType DEF Tables
    <2>4. Untraded(k)' = Held(db', k) - db'.traded[k]
      BY DEF Untraded, Held
    <2> QED BY <2>1, <2>3, <2>4 DEF Untraded
  <1>4. /\ ShareError(k) = Untraded(k) - SumFunction(f)
        /\ ShareError(k)' = Untraded(k)' - SumFunction(g)
    BY DEF ShareError, Untraded
  <1>5. LargestQuantity \in Nat
    BY LargestIs
  <1>6. CASE \E w \in Workers : StatementFails(w)
    <2>1. PICK w \in Workers : StatementFails(w)
      BY <1>6
    <2>2. SumFunction(g) = SumFunction(f) + (ShareLeg(w, k)' - ShareLeg(w, k))
      BY <1>2, <2>1, FailedLegs
    <2>3. Untraded(k)' = Untraded(k) /\ faults' = faults + 1
      BY <2>1, FailedLegs DEF Untraded, Held
    <2>4. /\ ShareLeg(w, k) \in -LargestQuantity .. LargestQuantity
          /\ ShareLeg(w, k) = 0 \/ ShareLeg(w, k)' = 0 \/ ShareLeg(w, k)' = ShareLeg(w, k)
          /\ ShareLeg(w, k)' \in -LargestQuantity .. LargestQuantity
      <3>1. IsTrade(w) => SignedQty(w) \in -LargestQuantity .. LargestQuantity
        BY <2>1, FailedLegs, MovesAtMost
      <3>2. 0 \in -LargestQuantity .. LargestQuantity
        BY <1>5
      <3>3. /\ ShareLeg(w, k) \in {0} \cup {q \in {SignedQty(w)} : IsTrade(w)}
            /\ ShareLeg(w, k)' \in {0} \cup {q \in {SignedQty(w)} : IsTrade(w)}
        BY <2>1, FailedLegs
      <3> QED BY <3>1, <3>2, <3>3
    <2> DEFINE c == ShareLeg(w, k) - ShareLeg(w, k)'
    <2>5. c \in -LargestQuantity .. LargestQuantity
      BY <1>5, <2>4
    <2>6. ShareError(k)' = ShareError(k) + c
      BY <1>1, <1>3, <1>4, <1>5, <2>2, <2>3, <2>4
    <2> QED BY <1>3, <1>4, <2>3, <2>5, <2>6
  <1>7. CASE ~ \E w \in Workers : StatementFails(w)
    <2>1. faults' = faults /\ ~Mishap
      BY <1>7, CountersGrow DEF Mishap
    <2>2. PICK w \in Workers :
            /\ Untraded(k)' - Untraded(k) = ShareLeg(w, k)' - ShareLeg(w, k)
            /\ \A v \in Workers \ {w} : ShareLeg(v, k)' = ShareLeg(v, k)
      BY <2>1, ShareStep
    <2>3. SumFunction(g) = SumFunction(f) + (ShareLeg(w, k)' - ShareLeg(w, k))
      BY <1>2, <2>2
    <2>4. ShareLeg(w, k) \in Int /\ ShareLeg(w, k)' \in Int
      BY <1>1
    <2>5. ShareError(k)' = ShareError(k) + 0 /\ 0 \in -LargestQuantity .. LargestQuantity
      BY <1>3, <1>4, <1>5, <2>2, <2>3, <2>4
    <2> QED BY <1>3, <1>4, <2>1, <2>5
  <1> QED BY <1>6, <1>7

LEMMA DamageInit ==
    ASSUME NaturalRequests, FiniteRequests, Init
    PROVE  DamagePerFault
  <1>1. LargestTotal \in Nat /\ LargestQuantity \in Nat /\ faults = 0
    BY LargestIs DEF Init
  <1>2. ASSUME NEW a \in Accounts PROVE CashError(a) = 0
    <2>1. CashReconciles /\ a \notin tainted
      BY CashReconcilesInit DEF Init
    <2> DEFINE moved == SumFunction([w \in Workers |-> CashLeg(w, a)])
    <2>2. moved \in Int
      <3> DEFINE f == [w \in Workers |-> CashLeg(w, a)]
      <3>1. f \in [Workers -> Int]
        BY LegType, TypeInit DEF LegsTyped
      <3> HIDE DEF f
      <3>2. SumFunction(f) \in Int
        BY <3>1, SumType, WorkersAssumption
      <3> QED BY <3>2 DEF f
    <2>3. db.cash[a] = wallet[a] + db.proceeds[a] + moved
      BY <2>1 DEF CashReconciles
    <2>4. wallet[a] \in Int /\ db.proceeds[a] \in Int
      BY TypeInit DEF TypeOK, TablesOK, Tables, HistoryOK
    <2> HIDE DEF moved
    <2>5. db.cash[a] - wallet[a] - db.proceeds[a] - moved = 0
      BY <2>2, <2>3, <2>4
    <2> QED BY <2>5 DEF CashError, Unbooked, moved
  <1>3. ASSUME NEW k \in Keys PROVE ShareError(k) = 0
    <2>1. SharesReconcile /\ k \notin tainted \cup doubled
      BY SharesReconcileInit DEF Init
    <2> DEFINE moved == SumFunction([w \in Workers |-> ShareLeg(w, k)])
    <2>2. moved \in Int
      <3> DEFINE f == [w \in Workers |-> ShareLeg(w, k)]
      <3>1. f \in [Workers -> Int]
        BY LegType, TypeInit DEF LegsTyped
      <3> HIDE DEF f
      <3>2. SumFunction(f) \in Int
        BY <3>1, SumType, WorkersAssumption
      <3> QED BY <3>2 DEF f
    <2>3. Held(db, k) = db.traded[k] + moved
      BY <2>1 DEF SharesReconcile
    <2>4. db.traded[k] \in Int
      BY TypeInit DEF TypeOK, TablesOK, Tables
    <2> HIDE DEF moved
    <2>5. Held(db, k) - db.traded[k] - moved = 0
      BY <2>2, <2>3, <2>4
    <2> QED BY <2>5 DEF ShareError, moved
  <1>4. 0 \in -(faults * LargestTotal) .. faults * LargestTotal
        /\ 0 \in -(faults * LargestQuantity) .. faults * LargestQuantity
    BY <1>1
  <1> QED BY <1>2, <1>3, <1>4 DEF DamagePerFault

LEMMA DamageStep ==
    ASSUME NaturalRequests, FiniteRequests, TypeOK, TypeOK', RowsToMove, DamagePerFault,
           [Next]_vars
    PROVE  DamagePerFault'
  <1> SUFFICES ASSUME crashes' = 0
               PROVE  /\ \A a \in Accounts :
                          CashError(a)' \in -(faults' * LargestTotal) .. faults' * LargestTotal
                      /\ \A k \in Keys \ doubled' :
                          ShareError(k)'
                            \in -(faults' * LargestQuantity) .. faults' * LargestQuantity
    BY DEF DamagePerFault, LargestTotal, Totals, LargestQuantity, Request
  <1>1. /\ \A a \in Accounts :
             CashError(a) \in -(faults * LargestTotal) .. faults * LargestTotal
        /\ \A k \in Keys \ doubled' :
             ShareError(k) \in -(faults * LargestQuantity) .. faults * LargestQuantity
    BY CountersGrow DEF DamagePerFault
  <1>2. faults \in Nat /\ LargestTotal \in Nat /\ LargestQuantity \in Nat
    BY LargestIs DEF TypeOK, HistoryOK
  <1>3. ASSUME NEW a \in Accounts
        PROVE  CashError(a)' \in -(faults' * LargestTotal) .. faults' * LargestTotal
    <2>1. PICK c \in -LargestTotal .. LargestTotal :
            /\ CashError(a) \in Int
            /\ CashError(a)' = CashError(a) + c
            /\ faults' = faults + 1 \/ (c = 0 /\ faults' = faults)
      BY CashErrorStep
    <2>2. CASE faults' = faults + 1
      BY <1>1, <1>2, <2>1, <2>2, OneMore
    <2>3. CASE c = 0 /\ faults' = faults
      <3>1. CashError(a)' = CashError(a)
        BY <2>1, <2>3
      <3> QED BY <1>1, <2>3, <3>1
    <2> QED BY <2>1, <2>2, <2>3
  <1>4. ASSUME NEW k \in Keys \ doubled'
        PROVE  ShareError(k)' \in -(faults' * LargestQuantity) .. faults' * LargestQuantity
    <2>1. PICK c \in -LargestQuantity .. LargestQuantity :
            /\ ShareError(k) \in Int
            /\ ShareError(k)' = ShareError(k) + c
            /\ faults' = faults + 1 \/ (c = 0 /\ faults' = faults)
      BY ShareErrorStep
    <2>2. CASE faults' = faults + 1
      BY <1>1, <1>2, <2>1, <2>2, OneMore
    <2>3. CASE c = 0 /\ faults' = faults
      <3>1. ShareError(k)' = ShareError(k)
        BY <2>1, <2>3
      <3> QED BY <1>1, <2>3, <3>1
    <2> QED BY <2>1, <2>2, <2>3
  <1> QED BY <1>3, <1>4

(***************************************************************************)
(* For every number of workers, requests and failures: what is wrong with  *)
(* an account or a holding is no more than one request's worth for each    *)
(* statement that failed. The requests have to be for natural numbers, as  *)
(* for SharesConserved.                                                    *)
(***************************************************************************)
THEOREM DamageBounded ==
    ASSUME NaturalRequests, FiniteRequests
    PROVE  Spec => []DamagePerFault
  <1>1. Init => DamagePerFault
    BY DamageInit
  <1>2. TypeOK /\ TypeOK' /\ RowsToMove /\ DamagePerFault /\ [Next]_vars => DamagePerFault'
    BY DamageStep
  <1>3. Init => RowsToMove
    BY RowsToMoveInit
  <1>4. TypeOK /\ RowsToMove /\ [Next]_vars => RowsToMove'
    BY RowsToMoveStep
  <1> QED BY <1>1, <1>2, <1>3, <1>4, TypeCorrect, PTL DEF Spec

-----------------------------------------------------------------------------
(***************************************************************************)
(* Trading implements Ledger: under the mapping of TradingLedger every     *)
(* cash statement is one whole operation of the account book, and every    *)
(* other step changes nothing the book can see outside the entries that    *)
(* are spoilt.                                                             *)
(***************************************************************************)
(* What a worker has in flight, as numbers. *)

BookLegsTyped ==
    \A w \in Workers :
        /\ \A a \in Accounts : ClientLeg(w, a) \in Int /\ TradeLeg(w, a) \in Int
        /\ \A k \in Keys : UnmovedLeg(w, k) \in Int /\ UnrecordedLeg(w, k) \in Int

LEMMA PaidTrade ==
    ASSUME TypeOK, NEW w \in Workers, NEW k \in Keys,
           Paid(w, k, {"lookup", "add", "open", "reduce", "record"})
    PROVE  IsTrade(w) /\ CashInFlight(w) /\ Acct(w) = k[1] /\ SignedQty(w) \in Int
  <1>1. pc[w] \in {"lookup", "add", "open", "reduce", "record"} /\ Key(w) = k
    BY DEF Paid
  <1>2. IsTrade(w)
    BY <1>1 DEF TypeOK, ServiceOK, Fits, IsTrade
  <1> QED BY <1>1, <1>2, ServingType DEF CashInFlight

LEMMA BookLegType == TypeOK => BookLegsTyped
  <1> SUFFICES ASSUME TypeOK, NEW w \in Workers
               PROVE  /\ \A a \in Accounts : ClientLeg(w, a) \in Int /\ TradeLeg(w, a) \in Int
                      /\ \A k \in Keys : UnmovedLeg(w, k) \in Int /\ UnrecordedLeg(w, k) \in Int
    BY DEF BookLegsTyped
  <1>1. \A a \in Accounts : CashLeg(w, a) \in Int
    BY LegType DEF LegsTyped
  <1>2. \A k \in Keys : UnmovedLeg(w, k) \in Int /\ UnrecordedLeg(w, k) \in Int
    <2> SUFFICES ASSUME NEW k \in Keys
                 PROVE  UnmovedLeg(w, k) \in Int /\ UnrecordedLeg(w, k) \in Int
      OBVIOUS
    <2>1. Paid(w, k, {"lookup", "add", "open", "reduce"})
            => Paid(w, k, {"lookup", "add", "open", "reduce", "record"})
      BY DEF Paid
    <2> QED BY <2>1, PaidTrade DEF UnmovedLeg, UnrecordedLeg
  <1> QED BY <1>1, <1>2 DEF ClientLeg, TradeLeg

LEMMA BookLegTypeNext == TypeOK' => BookLegsTyped'
  BY BookLegType, PTL

LEMMA BookSumsTyped ==
    ASSUME TypeOK
    PROVE  /\ \A a \in Accounts : Unconfirmed(a) \in Int /\ Unrecorded(a) \in Int
           /\ \A k \in Keys : Unmoved(k) \in Int /\ UnrecordedShares(k) \in Int
  <1>1. ASSUME NEW a \in Accounts
        PROVE  Unconfirmed(a) \in Int /\ Unrecorded(a) \in Int
    <2> DEFINE f == [w \in Workers |-> ClientLeg(w, a)]
               g == [w \in Workers |-> TradeLeg(w, a)]
    <2>1. f \in [Workers -> Int] /\ g \in [Workers -> Int]
      BY BookLegType DEF BookLegsTyped
    <2>2. SumFunction(f) \in Int /\ SumFunction(g) \in Int
      <3> HIDE DEF f, g
      <3> QED BY <2>1, SumType, WorkersAssumption
    <2> QED BY <2>2 DEF Unconfirmed, Unrecorded
  <1>2. ASSUME NEW k \in Keys
        PROVE  Unmoved(k) \in Int /\ UnrecordedShares(k) \in Int
    <2> DEFINE f == [w \in Workers |-> UnmovedLeg(w, k)]
               g == [w \in Workers |-> UnrecordedLeg(w, k)]
    <2>1. f \in [Workers -> Int] /\ g \in [Workers -> Int]
      BY BookLegType DEF BookLegsTyped
    <2>2. SumFunction(f) \in Int /\ SumFunction(g) \in Int
      <3> HIDE DEF f, g
      <3> QED BY <2>1, SumType, WorkersAssumption
    <2> QED BY <2>2 DEF Unmoved, UnrecordedShares
  <1> QED BY <1>1, <1>2

(* A worker's step changes the sums by what it changes of its own legs. *)
LEMMA CashSums ==
    ASSUME TypeOK, TypeOK', NEW w \in Workers, Serve(w), NEW a \in Accounts
    PROVE  /\ Unconfirmed(a)' = Unconfirmed(a) + (ClientLeg(w, a)' - ClientLeg(w, a))
           /\ Unrecorded(a)' = Unrecorded(a) + (TradeLeg(w, a)' - TradeLeg(w, a))
  <1> DEFINE f == [v \in Workers |-> ClientLeg(v, a)]
             g == [v \in Workers |-> ClientLeg(v, a)']
             h == [v \in Workers |-> TradeLeg(v, a)]
             i == [v \in Workers |-> TradeLeg(v, a)']
  <1>1. \A v \in Workers : /\ f[v] \in Int /\ g[v] \in Int
                           /\ h[v] \in Int /\ i[v] \in Int
    <2>1. \A v \in Workers : ClientLeg(v, a) \in Int /\ TradeLeg(v, a) \in Int
      BY BookLegType DEF BookLegsTyped
    <2>2. \A v \in Workers : ClientLeg(v, a)' \in Int /\ TradeLeg(v, a)' \in Int
      BY BookLegTypeNext DEF BookLegsTyped
    <2> QED BY <2>1, <2>2
  <1>2. \A v \in Workers \ {w} : g[v] = f[v] /\ i[v] = h[v]
    BY OthersStay DEF ClientLeg, TradeLeg, CashLeg, CashInFlight, Acct, Signed, IsTrade
  <1>3. /\ SumFunction(g) = SumFunction(f) + (g[w] - f[w])
        /\ SumFunction(i) = SumFunction(h) + (i[w] - h[w])
    <2>1. /\ f \in [Workers -> Int] /\ g \in [Workers -> Int]
          /\ h \in [Workers -> Int] /\ i \in [Workers -> Int]
      BY <1>1
    <2> HIDE DEF f, g, h, i
    <2> QED BY <1>2, <2>1, SumChange, WorkersAssumption
  <1> QED BY <1>3 DEF Unconfirmed, Unrecorded

LEMMA ShareSums ==
    ASSUME TypeOK, TypeOK', NEW w \in Workers, Serve(w), NEW k \in Keys
    PROVE  /\ Unmoved(k)' = Unmoved(k) + (UnmovedLeg(w, k)' - UnmovedLeg(w, k))
           /\ UnrecordedShares(k)'
                = UnrecordedShares(k) + (UnrecordedLeg(w, k)' - UnrecordedLeg(w, k))
  <1> DEFINE f == [v \in Workers |-> UnmovedLeg(v, k)]
             g == [v \in Workers |-> UnmovedLeg(v, k)']
             h == [v \in Workers |-> UnrecordedLeg(v, k)]
             i == [v \in Workers |-> UnrecordedLeg(v, k)']
  <1>1. \A v \in Workers : /\ f[v] \in Int /\ g[v] \in Int
                           /\ h[v] \in Int /\ i[v] \in Int
    <2>1. \A v \in Workers : UnmovedLeg(v, k) \in Int /\ UnrecordedLeg(v, k) \in Int
      BY BookLegType DEF BookLegsTyped
    <2>2. \A v \in Workers : UnmovedLeg(v, k)' \in Int /\ UnrecordedLeg(v, k)' \in Int
      BY BookLegTypeNext DEF BookLegsTyped
    <2> QED BY <2>1, <2>2
  <1>2. \A v \in Workers \ {w} : g[v] = f[v] /\ i[v] = h[v]
    BY OthersStay DEF UnmovedLeg, UnrecordedLeg, Paid, Key, SignedQty
  <1>3. /\ SumFunction(g) = SumFunction(f) + (g[w] - f[w])
        /\ SumFunction(i) = SumFunction(h) + (i[w] - h[w])
    <2>1. /\ f \in [Workers -> Int] /\ g \in [Workers -> Int]
          /\ h \in [Workers -> Int] /\ i \in [Workers -> Int]
      BY <1>1
    <2> HIDE DEF f, g, h, i
    <2> QED BY <1>2, <2>1, SumChange, WorkersAssumption
  <1> QED BY <1>3 DEF Unmoved, UnrecordedShares

-----------------------------------------------------------------------------
(* Steps that are not cash statements: what they change of one account ... *)

LEMMA CashQuiet ==
    ASSUME TypeOK, TypeOK', NEW w \in Workers,
           \/ Receive(w) \/ Authenticate(w) \/ CheckBalance(w) \/ CheckHeld(w)
           \/ LookUpPosition(w) \/ AddShares(w) \/ OpenPosition(w) \/ ReduceShares(w)
           \/ RecordTrade(w) \/ Respond(w) \/ StatementFails(w),
           NEW a \in Accounts, a \notin tainted'
    PROVE  /\ db'.cash[a] = db.cash[a]
           /\ wallet'[a] + ClientLeg(w, a)' = wallet[a] + ClientLeg(w, a)
           /\ db'.proceeds[a] + TradeLeg(w, a)' = db.proceeds[a] + TradeLeg(w, a)
  <1>0. /\ wallet[a] \in Int /\ db.proceeds[a] \in Int
        /\ ClientLeg(w, a) \in Int /\ TradeLeg(w, a) \in Int
    BY BookLegType DEF BookLegsTyped, TypeOK, TablesOK, Tables, HistoryOK
  <1>1. db'.cash = db.cash
    BY CashStep
  <1>2. CASE \/ Receive(w) \/ Authenticate(w) \/ CheckBalance(w) \/ CheckHeld(w)
    <2>1. wallet' = wallet /\ db'.proceeds = db.proceeds
      BY <1>2 DEF Receive, Authenticate, CheckBalance, CheckHeld, connVars
    <2>2. /\ pc[w] \in {"idle", "auth", "check"}
          /\ pc'[w] \in {"idle", "auth", "check", "cash"}
      BY <1>2 DEF Receive, Authenticate, CheckBalance, CheckHeld, GoTo, Return, TypeOK,
                  ServiceOK
    <2>3. /\ ClientLeg(w, a) = 0 /\ ClientLeg(w, a)' = 0
          /\ TradeLeg(w, a) = 0 /\ TradeLeg(w, a)' = 0
      BY <2>2 DEF ClientLeg, TradeLeg, CashLeg, CashInFlight
    <2> QED BY <1>0, <1>1, <2>1, <2>3
  <1>3. CASE LookUpPosition(w) \/ AddShares(w) \/ OpenPosition(w) \/ ReduceShares(w)
    <2>1. wallet' = wallet /\ db'.proceeds = db.proceeds
      <3>1. db'.proceeds = db.proceeds
        BY <1>3, ProceedsStep
      <3> QED BY <1>3, <3>1 DEF LookUpPosition, AddShares, OpenPosition, ReduceShares
    <2>2. /\ pc[w] \in {"lookup", "add", "open", "reduce"}
          /\ pc'[w] \in {"add", "open", "record"} /\ req' = req
      BY <1>3 DEF LookUpPosition, AddShares, OpenPosition, ReduceShares, GoTo, TypeOK,
                  ServiceOK
    <2>3. ClientLeg(w, a)' = ClientLeg(w, a) /\ TradeLeg(w, a)' = TradeLeg(w, a)
      BY <2>2 DEF ClientLeg, TradeLeg, CashLeg, CashInFlight, IsTrade, Acct, Signed
    <2> QED BY <1>0, <1>1, <2>1, <2>3
  <1>4. CASE RecordTrade(w)
    <2>1. /\ pc[w] = "record" /\ pc'[w] = "ack" /\ req' = req /\ wallet' = wallet
          /\ IsTrade(w)
      BY <1>4 DEF RecordTrade, GoTo, TypeOK, ServiceOK, Fits, IsTrade
    <2>2. /\ db \in Tables /\ Key(w) \in Keys /\ Key(w)[1] = Acct(w) /\ Acct(w) \in Accounts
          /\ Signed(w) \in Int /\ SignedQty(w) \in Int
      BY <2>1, ServingType DEF TypeOK, TablesOK
    <2>3. db' = AddTrade(db, Key(w), Signed(w), SignedQty(w))
      BY <1>4 DEF RecordTrade, Exec
    <2>4. db'.proceeds[a] = IF Acct(w) = a THEN db.proceeds[a] + Signed(w)
                                           ELSE db.proceeds[a]
      <3>1. db'.proceeds = [db.proceeds EXCEPT ![Key(w)[1]] = @ + Signed(w)]
        BY <2>2, <2>3, AddTradeProceeds
      <3>2. db.proceeds \in [Accounts -> Int]
        BY <2>2 DEF Tables
      <3> QED BY <2>2, <3>1, <3>2
    <2>5. /\ ClientLeg(w, a) = 0 /\ ClientLeg(w, a)' = 0 /\ TradeLeg(w, a)' = 0
          /\ TradeLeg(w, a) = IF Acct(w) = a THEN Signed(w) ELSE 0
      BY <2>1 DEF ClientLeg, TradeLeg, CashLeg, CashInFlight, IsTrade
    <2> QED BY <1>0, <1>1, <2>1, <2>2, <2>4, <2>5
  <1>5. CASE Respond(w)
    <2>1. /\ pc[w] = "ack" /\ pc'[w] = "idle" /\ db'.proceeds = db.proceeds
          /\ Acct(w) \in Accounts /\ Signed(w) \in Int
      BY <1>5, ServingType, ProceedsStep DEF Respond, Return, TypeOK, ServiceOK
    <2>2. wallet'[a] = IF ~IsTrade(w) /\ Acct(w) = a THEN wallet[a] + Signed(w) ELSE wallet[a]
      BY <1>5, <2>1 DEF Respond, TypeOK, HistoryOK
    <2>3. /\ ClientLeg(w, a) = IF ~IsTrade(w) /\ Acct(w) = a THEN Signed(w) ELSE 0
          /\ TradeLeg(w, a) = 0
      BY <2>1 DEF ClientLeg, TradeLeg, CashLeg, CashInFlight
    <2>4. ClientLeg(w, a)' = 0 /\ TradeLeg(w, a)' = 0
      BY <2>1 DEF ClientLeg, TradeLeg, CashLeg, CashInFlight
    <2> QED BY <1>0, <1>1, <2>1, <2>2, <2>3, <2>4
  <1>6. CASE StatementFails(w)
    <2>1. wallet' = wallet /\ db'.proceeds = db.proceeds
      BY <1>6, ProceedsStep DEF StatementFails
    <2>2. CASE pc[w] = "cash" /\ ~IsTrade(w)
      <3>1. pc'[w] = "idle"
        BY <1>6, <2>2 DEF StatementFails, Return, TypeOK, ServiceOK
      <3>2. /\ ClientLeg(w, a) = 0 /\ ClientLeg(w, a)' = 0
            /\ TradeLeg(w, a) = 0 /\ TradeLeg(w, a)' = 0
        BY <2>2, <3>1 DEF ClientLeg, TradeLeg, CashLeg, CashInFlight
      <3> QED BY <1>0, <1>1, <2>1, <3>2
    <2>3. CASE pc[w] = "cash" /\ IsTrade(w)
      <3>1. req' = req /\ Acct(w) # a
        BY <1>6, <2>3 DEF StatementFails, GoTo, FaultTaint
      <3>2. /\ ClientLeg(w, a) = 0 /\ ClientLeg(w, a)' = 0
            /\ TradeLeg(w, a) = 0 /\ TradeLeg(w, a)' = 0
        BY <3>1 DEF ClientLeg, TradeLeg, CashLeg, Acct
      <3> QED BY <1>0, <1>1, <2>1, <3>2
    <2>4. CASE pc[w] \in {"add", "open", "reduce"}
      <3>1. req' = req /\ pc'[w] = "record"
        BY <1>6, <2>4 DEF StatementFails, GoTo, TypeOK, ServiceOK
      <3>2. ClientLeg(w, a)' = ClientLeg(w, a) /\ TradeLeg(w, a)' = TradeLeg(w, a)
        BY <2>4, <3>1 DEF ClientLeg, TradeLeg, CashLeg, CashInFlight, IsTrade, Acct, Signed
      <3> QED BY <1>0, <1>1, <2>1, <3>2
    <2>5. CASE pc[w] = "record"
      <3>1. req' = req /\ Acct(w) # a
        BY <1>6, <2>5 DEF StatementFails, GoTo, FaultTaint
      <3>2. /\ ClientLeg(w, a) = 0 /\ ClientLeg(w, a)' = 0
            /\ TradeLeg(w, a) = 0 /\ TradeLeg(w, a)' = 0
        BY <3>1 DEF ClientLeg, TradeLeg, CashLeg, Acct
      <3> QED BY <1>0, <1>1, <2>1, <3>2
    <2> QED BY <1>6, <2>2, <2>3, <2>4, <2>5 DEF StatementFails
  <1> QED BY <1>2, <1>3, <1>4, <1>5, <1>6

(* ... and of one holding. *)
LEMMA SharesQuiet ==
    ASSUME TypeOK, TypeOK', RowsToMove, NEW w \in Workers,
           \/ Receive(w) \/ Authenticate(w) \/ CheckBalance(w) \/ CheckHeld(w)
           \/ LookUpPosition(w) \/ AddShares(w) \/ OpenPosition(w) \/ ReduceShares(w)
           \/ RecordTrade(w) \/ Respond(w) \/ StatementFails(w),
           NEW k \in Keys, k \notin Spoilt'
    PROVE  /\ Held(db', k) + UnmovedLeg(w, k)' = Held(db, k) + UnmovedLeg(w, k)
           /\ db'.traded[k] + UnrecordedLeg(w, k)' = db.traded[k] + UnrecordedLeg(w, k)
  <1>0. /\ Held(db, k) \in Int /\ db.traded[k] \in Int
        /\ UnmovedLeg(w, k) \in Int /\ UnrecordedLeg(w, k) \in Int
    BY HeldType, BookLegType DEF BookLegsTyped, TypeOK, TablesOK, Tables
  <1>1. k \notin tainted' /\ k \notin doubled' /\ k[1] \notin tainted'
    BY DEF Spoilt
  <1>2. CASE \/ Receive(w) \/ Authenticate(w) \/ CheckBalance(w) \/ CheckHeld(w) \/ Respond(w)
    <2>1. db' = db
      BY <1>2 DEF Receive, Authenticate, CheckBalance, CheckHeld, Respond, connVars
    <2>2. /\ pc[w] \in {"idle", "auth", "check", "ack"}
          /\ pc'[w] \in {"idle", "auth", "check", "cash"}
      BY <1>2 DEF Receive, Authenticate, CheckBalance, CheckHeld, Respond, GoTo, Return,
                  TypeOK, ServiceOK
    <2>3. /\ UnmovedLeg(w, k) = 0 /\ UnmovedLeg(w, k)' = 0
          /\ UnrecordedLeg(w, k) = 0 /\ UnrecordedLeg(w, k)' = 0
      BY <2>2 DEF UnmovedLeg, UnrecordedLeg, Paid
    <2> QED BY <1>0, <2>1, <2>3
  <1>3. CASE LookUpPosition(w)
    <2>1. /\ db' = db /\ req' = req /\ pc[w] = "lookup" /\ pc'[w] \in {"add", "open"}
      BY <1>3 DEF LookUpPosition, GoTo, connVars, TypeOK, ServiceOK
    <2>2. UnmovedLeg(w, k)' = UnmovedLeg(w, k) /\ UnrecordedLeg(w, k)' = UnrecordedLeg(w, k)
      BY <2>1 DEF UnmovedLeg, UnrecordedLeg, Paid, Key, SignedQty
    <2> QED BY <1>0, <2>1, <2>2
  <1>4. CASE AddShares(w) \/ OpenPosition(w) \/ ReduceShares(w)
    <2>1. /\ pc[w] \in {"add", "open", "reduce"} /\ pc'[w] = "record" /\ req' = req
      BY <1>4 DEF AddShares, OpenPosition, ReduceShares, GoTo, TypeOK, ServiceOK
    <2>2. db'.traded = db.traded
      BY <1>4, TradedStep
    <2>3. Held(db', k) = IF Key(w) = k THEN Held(db, k) + SignedQty(w) ELSE Held(db, k)
      BY <1>1, <1>4, SharesMove
    <2>4. /\ UnmovedLeg(w, k) = IF Key(w) = k THEN SignedQty(w) ELSE 0
          /\ UnmovedLeg(w, k)' = 0
          /\ UnrecordedLeg(w, k)' = UnrecordedLeg(w, k)
      BY <2>1 DEF UnmovedLeg, UnrecordedLeg, Paid, Key, SignedQty
    <2> QED BY <1>0, <2>2, <2>3, <2>4
  <1>5. CASE RecordTrade(w)
    <2>1. /\ pc[w] = "record" /\ pc'[w] = "ack" /\ req' = req
      BY <1>5 DEF RecordTrade, GoTo, TypeOK, ServiceOK
    <2>2. Held(db', k) = Held(db, k)
      <3>1. db'.held = db.held
        BY <1>5, HeldStep
      <3> QED BY <3>1 DEF Held
    <2>3. db'.traded[k] = IF Key(w) = k THEN db.traded[k] + SignedQty(w) ELSE db.traded[k]
      BY <1>5, RecordStep
    <2>4. /\ UnmovedLeg(w, k) = 0 /\ UnmovedLeg(w, k)' = 0
          /\ UnrecordedLeg(w, k) = IF Key(w) = k THEN SignedQty(w) ELSE 0
          /\ UnrecordedLeg(w, k)' = 0
      BY <2>1 DEF UnmovedLeg, UnrecordedLeg, Paid
    <2> QED BY <1>0, <2>2, <2>3, <2>4
  <1>6. CASE StatementFails(w)
    <2>1. Held(db', k) = Held(db, k) /\ db'.traded = db.traded
      <3>1. db'.held = db.held
        BY <1>6, HeldStep
      <3> QED BY <1>6, <3>1, TradedStep DEF Held
    <2>2. CASE pc[w] = "cash" /\ ~IsTrade(w)
      <3>1. pc'[w] = "idle"
        BY <1>6, <2>2 DEF StatementFails, Return, TypeOK, ServiceOK
      <3>2. /\ UnmovedLeg(w, k) = 0 /\ UnmovedLeg(w, k)' = 0
            /\ UnrecordedLeg(w, k) = 0 /\ UnrecordedLeg(w, k)' = 0
        BY <2>2, <3>1 DEF UnmovedLeg, UnrecordedLeg, Paid
      <3> QED BY <1>0, <2>1, <3>2
    <2>3. CASE ~(pc[w] = "cash" /\ ~IsTrade(w))
      <3>1. req' = req /\ Key(w) # k
        <4>1. pc[w] \in {"cash", "add", "open", "reduce", "record"}
          BY <1>6 DEF StatementFails
        <4>2. CASE pc[w] = "cash"
          <5>1. req' = req /\ Acct(w) \in tainted'
            BY <1>6, <2>3, <4>2 DEF StatementFails, GoTo, FaultTaint
          <5>2. Acct(w) = Key(w)[1]
            BY DEF Acct, Key
          <5> QED BY <1>1, <5>1, <5>2
        <4>3. CASE pc[w] # "cash"
          BY <1>1, <1>6, <4>1, <4>3 DEF StatementFails, GoTo, FaultTaint
        <4> QED BY <4>2, <4>3
      <3>2. /\ UnmovedLeg(w, k) = 0 /\ UnmovedLeg(w, k)' = 0
            /\ UnrecordedLeg(w, k) = 0 /\ UnrecordedLeg(w, k)' = 0
        BY <3>1 DEF UnmovedLeg, UnrecordedLeg, Paid, Key
      <3> QED BY <1>0, <2>1, <3>2
    <2> QED BY <2>2, <2>3
  <1> QED BY <1>2, <1>3, <1>4, <1>5, <1>6

-----------------------------------------------------------------------------
(* Cash statements: each is one operation of the book. *)

LEMMA CashStatement ==
    ASSUME TypeOK, TypeOK', NEW w \in Workers, Credit(w) \/ Debit(w)
    PROVE  /\ db'.cash = [db.cash EXCEPT ![Acct(w)] = @ + Signed(w)]
           /\ db'.proceeds = db.proceeds /\ db'.held = db.held /\ db'.traded = db.traded
           /\ wallet' = wallet /\ tainted' = tainted /\ doubled' = doubled
           /\ \A a \in Accounts :
                /\ Unconfirmed(a)' = Unconfirmed(a) +
                     (IF ~IsTrade(w) /\ Acct(w) = a THEN Signed(w) ELSE 0)
                /\ Unrecorded(a)' = Unrecorded(a) +
                     (IF IsTrade(w) /\ Acct(w) = a THEN Signed(w) ELSE 0)
           /\ \A k \in Keys :
                /\ Unmoved(k)' = Unmoved(k) +
                     (IF IsTrade(w) /\ Key(w) = k THEN SignedQty(w) ELSE 0)
                /\ UnrecordedShares(k)' = UnrecordedShares(k) +
                     (IF IsTrade(w) /\ Key(w) = k THEN SignedQty(w) ELSE 0)
  <1>1. /\ Serve(w) /\ pc[w] = "cash" /\ req' = req /\ pc'[w] = AfterCash(req[w].op)
        /\ wallet' = wallet /\ tainted' = tainted /\ doubled' = doubled
    BY DEF Serve, Credit, Debit, GoTo, TypeOK, ServiceOK
  <1>2. /\ Acct(w) \in Accounts /\ req[w].total \in Int /\ Signed(w) \in Int
        /\ req[w].op \in {"deposit", "withdraw", "buy", "sell"}
        /\ IsTrade(w) => Key(w) \in Keys /\ SignedQty(w) \in Int
    BY <1>1, ServingType
  <1>3. db \in Tables
    BY DEF TypeOK, TablesOK
  <1>4. db'.cash = [db.cash EXCEPT ![Acct(w)] = @ + Signed(w)]
    <2>1. db' = AddCash(db, Acct(w), Signed(w))
      <3>1. CASE Credit(w)
        BY <3>1 DEF Credit, Exec, Signed
      <3>2. CASE Debit(w)
        BY <3>2 DEF Debit, Exec, Signed
      <3> QED BY <3>1, <3>2
    <2> QED BY <1>2, <1>3, <2>1, AddCashType
  <1>5. db'.proceeds = db.proceeds /\ db'.held = db.held /\ db'.traded = db.traded
    BY ProceedsStep, HeldStep, TradedStep
  <1>6. ASSUME NEW a \in Accounts
        PROVE  /\ ClientLeg(w, a) = 0 /\ TradeLeg(w, a) = 0
               /\ ClientLeg(w, a)' = IF ~IsTrade(w) /\ Acct(w) = a THEN Signed(w) ELSE 0
               /\ TradeLeg(w, a)' = IF IsTrade(w) /\ Acct(w) = a THEN Signed(w) ELSE 0
    <2>1. IsTrade(w)' = IsTrade(w) /\ Acct(w)' = Acct(w) /\ Signed(w)' = Signed(w)
      BY <1>1 DEF IsTrade, Acct, Signed
    <2>2. CashInFlight(w)' /\ ~CashInFlight(w)
      BY <1>1, <1>2, <2>1 DEF CashInFlight, AfterCash, IsTrade
    <2> QED BY <2>1, <2>2 DEF ClientLeg, TradeLeg, CashLeg
  <1>7. ASSUME NEW k \in Keys
        PROVE  /\ UnmovedLeg(w, k) = 0 /\ UnrecordedLeg(w, k) = 0
               /\ UnmovedLeg(w, k)' = IF IsTrade(w) /\ Key(w) = k THEN SignedQty(w) ELSE 0
               /\ UnrecordedLeg(w, k)' = IF IsTrade(w) /\ Key(w) = k THEN SignedQty(w) ELSE 0
    <2>1. Key(w)' = Key(w) /\ SignedQty(w)' = SignedQty(w)
      BY <1>1 DEF Key, SignedQty
    <2>2. /\ IsTrade(w) => pc'[w] \in {"lookup", "reduce"}
          /\ ~IsTrade(w) => pc'[w] = "ack"
      BY <1>1, <1>2 DEF AfterCash, IsTrade
    <2> QED BY <1>1, <2>1, <2>2 DEF UnmovedLeg, UnrecordedLeg, Paid
  <1>8. /\ \A a \in Accounts :
             /\ Unconfirmed(a)' = Unconfirmed(a) +
                  (IF ~IsTrade(w) /\ Acct(w) = a THEN Signed(w) ELSE 0)
             /\ Unrecorded(a)' = Unrecorded(a) +
                  (IF IsTrade(w) /\ Acct(w) = a THEN Signed(w) ELSE 0)
    BY <1>1, <1>2, <1>6, CashSums
  <1>9. /\ \A k \in Keys :
             /\ Unmoved(k)' = Unmoved(k) +
                  (IF IsTrade(w) /\ Key(w) = k THEN SignedQty(w) ELSE 0)
             /\ UnrecordedShares(k)' = UnrecordedShares(k) +
                  (IF IsTrade(w) /\ Key(w) = k THEN SignedQty(w) ELSE 0)
    BY <1>1, <1>2, <1>7, ShareSums
  <1> QED BY <1>1, <1>4, <1>5, <1>8, <1>9

LEMMA SpoiltSame ==
    ASSUME tainted' = tainted, doubled' = doubled
    PROVE  Spoilt' = Spoilt
  BY DEF Spoilt

LEMMA EntryAdd ==
    ASSUME NEW S, NEW f \in [S -> Int], NEW g \in [S -> Int], NEW y \in S, NEW n \in Int,
           \A x \in S : g[x] = f[x] + (IF y = x THEN n ELSE 0)
    PROVE  g = [f EXCEPT ![y] = @ + n]
  OBVIOUS

LEMMA MoveCashStep ==
    ASSUME TypeOK, TypeOK', NEW w \in Workers, Credit(w) \/ Debit(w), ~IsTrade(w),
           NEW b, b = Acct(w), NEW x, x = Signed(w)
    PROVE  Book!MoveCash(b, x)
  <1>1. b \in Accounts /\ x \in Int
    BY ServingType DEF Credit, Debit
  <1>2. db \in Tables /\ db' \in Tables /\ wallet \in [Accounts -> Int]
    BY DEF TypeOK, TablesOK, HistoryOK
  <1>3. \A a \in Accounts : Unconfirmed(a) \in Int /\ Unrecorded(a) \in Int
    BY BookSumsTyped
  <1>4. \A k \in Keys : Unmoved(k) \in Int /\ UnrecordedShares(k) \in Int /\ Held(db, k) \in Int
                        /\ db.traded[k] \in Int
    BY <1>2, BookSumsTyped, HeldType DEF Tables
  <1>0. /\ db'.proceeds = db.proceeds /\ db'.held = db.held /\ db'.traded = db.traded
        /\ wallet' = wallet
    BY CashStatement
  <1>a. \A a \in Accounts :
          /\ Unrecorded(a)' = Unrecorded(a) + 0
          /\ Unconfirmed(a)' = Unconfirmed(a) + (IF b = a THEN x ELSE 0)
    BY CashStatement
  <1>k. \A k \in Keys : /\ Unmoved(k)' = Unmoved(k) + 0
                        /\ UnrecordedShares(k)' = UnrecordedShares(k) + 0
    BY CashStatement
  <1>h. \A k \in Keys : Held(db', k) = Held(db, k)
    BY <1>0 DEF Held
  <1>5. db'.cash = [db.cash EXCEPT ![b] = @ + x]
    BY <1>0, CashStatement
  <1>6. [a \in Accounts |-> wallet[a] + Unconfirmed(a)]'
          = [[a \in Accounts |-> wallet[a] + Unconfirmed(a)] EXCEPT ![b] = @ + x]
    <2> DEFINE f == [a \in Accounts |-> wallet[a] + Unconfirmed(a)]
               g == [a \in Accounts |-> wallet'[a] + Unconfirmed(a)']
    <2>1. /\ f \in [Accounts -> Int] /\ g \in [Accounts -> Int]
          /\ \A a \in Accounts : g[a] = f[a] + (IF b = a THEN x ELSE 0)
      BY <1>0, <1>a, <1>1, <1>2, <1>3
    <2>2. g = [f EXCEPT ![b] = @ + x]
      <3> HIDE DEF f, g
      <3> QED BY <1>1, <2>1, EntryAdd
    <2> QED BY <2>2
  <1>7. [a \in Accounts |-> db.proceeds[a] + Unrecorded(a)]'
          = [a \in Accounts |-> db.proceeds[a] + Unrecorded(a)]
    BY <1>0, <1>a, <1>2, <1>3
  <1>8. [k \in Keys |-> Held(db, k) + Unmoved(k)]' = [k \in Keys |-> Held(db, k) + Unmoved(k)]
    BY <1>h, <1>k, <1>4
  <1>9. [k \in Keys |-> db.traded[k] + UnrecordedShares(k)]'
          = [k \in Keys |-> db.traded[k] + UnrecordedShares(k)]
    BY <1>0, <1>k, <1>4
  <1>10. Spoilt' = Spoilt
    BY CashStatement, SpoiltSame
  <1> QED BY <1>5, <1>6, <1>7, <1>8, <1>9, <1>10 DEF Book!MoveCash

LEMMA TradeStep ==
    ASSUME TypeOK, TypeOK', NEW w \in Workers, Credit(w) \/ Debit(w), IsTrade(w),
           NEW j, j = Key(w), NEW x, x = Signed(w), NEW q, q = SignedQty(w)
    PROVE  Book!Trade(j, x, q)
  <1>1. /\ j[1] \in Accounts /\ x \in Int /\ j[1] = Acct(w)
        /\ j \in Keys /\ q \in Int
    BY ServingType DEF Credit, Debit
  <1>2. db \in Tables /\ db' \in Tables /\ wallet \in [Accounts -> Int]
    BY DEF TypeOK, TablesOK, HistoryOK
  <1>3. \A a \in Accounts : Unconfirmed(a) \in Int /\ Unrecorded(a) \in Int
                            /\ db.proceeds[a] \in Int
    BY <1>2, BookSumsTyped DEF Tables
  <1>4. \A k \in Keys : Unmoved(k) \in Int /\ UnrecordedShares(k) \in Int /\ Held(db, k) \in Int
                        /\ db.traded[k] \in Int
    BY <1>2, BookSumsTyped, HeldType DEF Tables
  <1>0. /\ db'.proceeds = db.proceeds /\ db'.held = db.held /\ db'.traded = db.traded
        /\ wallet' = wallet
    BY CashStatement
  <1>a. \A a \in Accounts :
          /\ Unconfirmed(a)' = Unconfirmed(a) + 0
          /\ Unrecorded(a)' = Unrecorded(a) + (IF j[1] = a THEN x ELSE 0)
    BY <1>1, CashStatement
  <1>k. \A k \in Keys :
          /\ Unmoved(k)' = Unmoved(k) + (IF j = k THEN q ELSE 0)
          /\ UnrecordedShares(k)' = UnrecordedShares(k)
                                    + (IF j = k THEN q ELSE 0)
    BY <1>1, CashStatement
  <1>h. \A k \in Keys : Held(db', k) = Held(db, k)
    BY <1>0 DEF Held
  <1>5. db'.cash = [db.cash EXCEPT ![j[1]] = @ + x]
    BY <1>1, CashStatement
  <1>6. [a \in Accounts |-> wallet[a] + Unconfirmed(a)]'
          = [a \in Accounts |-> wallet[a] + Unconfirmed(a)]
    BY <1>0, <1>a, <1>2, <1>3
  <1>7. [a \in Accounts |-> db.proceeds[a] + Unrecorded(a)]'
          = [[a \in Accounts |-> db.proceeds[a] + Unrecorded(a)]
               EXCEPT ![j[1]] = @ + x]
    <2> DEFINE f == [a \in Accounts |-> db.proceeds[a] + Unrecorded(a)]
               g == [a \in Accounts |-> db'.proceeds[a] + Unrecorded(a)']
    <2>1. /\ f \in [Accounts -> Int] /\ g \in [Accounts -> Int]
          /\ \A a \in Accounts : g[a] = f[a] + (IF j[1] = a THEN x ELSE 0)
      BY <1>0, <1>a, <1>1, <1>3
    <2>2. g = [f EXCEPT ![j[1]] = @ + x]
      <3> HIDE DEF f, g
      <3> QED BY <1>1, <2>1, EntryAdd
    <2> QED BY <2>2
  <1>8. [k \in Keys |-> Held(db, k) + Unmoved(k)]'
          = [[k \in Keys |-> Held(db, k) + Unmoved(k)] EXCEPT ![j] = @ + q]
    <2> DEFINE f == [k \in Keys |-> Held(db, k) + Unmoved(k)]
               g == [k \in Keys |-> Held(db', k) + Unmoved(k)']
    <2>1. /\ f \in [Keys -> Int] /\ g \in [Keys -> Int]
          /\ \A k \in Keys : g[k] = f[k] + (IF j = k THEN q ELSE 0)
      BY <1>h, <1>k, <1>1, <1>4
    <2>2. g = [f EXCEPT ![j] = @ + q]
      <3> HIDE DEF f, g
      <3> QED BY <1>1, <2>1, EntryAdd
    <2> QED BY <2>2
  <1>9. [k \in Keys |-> db.traded[k] + UnrecordedShares(k)]'
          = [[k \in Keys |-> db.traded[k] + UnrecordedShares(k)]
               EXCEPT ![j] = @ + q]
    <2> DEFINE f == [k \in Keys |-> db.traded[k] + UnrecordedShares(k)]
               g == [k \in Keys |-> db'.traded[k] + UnrecordedShares(k)']
    <2>1. /\ f \in [Keys -> Int] /\ g \in [Keys -> Int]
          /\ \A k \in Keys : g[k] = f[k] + (IF j = k THEN q ELSE 0)
      BY <1>0, <1>k, <1>1, <1>4
    <2>2. g = [f EXCEPT ![j] = @ + q]
      <3> HIDE DEF f, g
      <3> QED BY <1>1, <2>1, EntryAdd
    <2> QED BY <2>2
  <1>10. Spoilt' = Spoilt
    BY CashStatement, SpoiltSame
  <1> QED BY <1>5, <1>6, <1>7, <1>8, <1>9, <1>10 DEF Book!Trade

(* Who passes the check of an uncontested holding can sell what it checked, even
   when all the purchases under way are counted as delivered. *)
LEMMA SaleCovered ==
    ASSUME NaturalRequests, TypeOK, CoveredSales, NEW w \in Workers, NEW k \in Keys,
           pc[w] = "cash", SalePending(w, k), k \notin raced \cup Crossing, k \notin doubled
    PROVE  Held(db, k) + Unmoved(k) >= req[w].qty
  <1>1. Held(db, k) >= req[w].qty
    BY DEF CoveredSales
  <1>2. req[w].qty \in Int /\ Held(db, k) \in Int /\ Unmoved(k) \in Int
    BY ServingType, HeldType, BookSumsTyped DEF SalePending, IsTrade, TypeOK, TablesOK
  <1>3. ASSUME NEW v \in Workers
        PROVE  UnmovedLeg(v, k) >= 0
    <2>1. CASE ~Paid(v, k, {"lookup", "add", "open", "reduce"})
      BY <2>1 DEF UnmovedLeg
    <2>2. CASE Paid(v, k, {"lookup", "add", "open", "reduce"})
      <3>1. pc[v] \in {"lookup", "add", "open", "reduce"} /\ Key(v) = k /\ v # w
        BY <2>2 DEF Paid
      <3>2. pc[v] # "reduce"
        <4> SUFFICES ASSUME pc[v] = "reduce" PROVE FALSE
          OBVIOUS
        <4>1. SalePending(v, k)
          BY <3>1 DEF SalePending, TypeOK, ServiceOK, Fits
        <4> QED BY <3>1, <4>1 DEF Crossing
      <3>3. req[v].op = "buy" /\ req[v] \in Request
        BY <3>1, <3>2, ServingType DEF TypeOK, ServiceOK, Fits
      <3>4. req[v].qty \in Nat
        BY <3>3, NaturalRequest
      <3> QED BY <2>2, <3>3, <3>4 DEF UnmovedLeg, SignedQty
    <2> QED BY <2>1, <2>2
  <1>4. Unmoved(k) >= 0
    <2> DEFINE f == [v \in Workers |-> UnmovedLeg(v, k)]
    <2>1. f \in [Workers -> Int] /\ \A v \in Workers : f[v] >= 0
      BY <1>3, BookLegType DEF BookLegsTyped
    <2>2. SumFunction(f) >= 0
      <3> HIDE DEF f
      <3> QED BY <2>1, SumNatural, WorkersAssumption
    <2> QED BY <2>2 DEF Unmoved
  <1> QED BY <1>1, <1>2, <1>4

LEMMA TradeRequestIs ==
    ASSUME NEW r \in Request, r.op \in {"buy", "sell"}
    PROVE  r.qty \in Quantities /\ \E p \in Prices : r.total = p * r.qty
  <1>1. r \in TradeRequest
    BY DEF Request, CashRequest
  <1>2. PICK o \in {"buy", "sell"}, a \in Accounts, s \in Stocks,
             q \in Quantities, p \in Prices :
             r = [op |-> o, acct |-> a, stock |-> s, qty |-> q, total |-> p * q]
    BY <1>1 DEF TradeRequest
  <1> QED BY <1>2

LEMMA CashRequestIs ==
    ASSUME NEW r \in Request, r.op \in {"deposit", "withdraw"}
    PROVE  r.total \in Amounts
  <1>1. r \notin TradeRequest
    BY DEF TradeRequest
  <1> QED BY <1>1 DEF Request, CashRequest

LEMMA CashStatementIsOperation ==
    ASSUME NaturalRequests, TypeOK, TypeOK', CoveredDebits, CoveredSales,
           NEW w \in Workers, Credit(w) \/ Debit(w)
    PROVE  Book!Operate
  <1>1. /\ pc[w] = "cash" /\ req[w] \in Request /\ Acct(w) \in Accounts
        /\ req[w].op \in {"deposit", "withdraw", "buy", "sell"}
        /\ IsTrade(w) => Key(w) \in Keys /\ Key(w)[1] = Acct(w)
        /\ req[w].total \in Int
    BY ServingType DEF Credit, Debit
  <1>2. DebitPending(w, Acct(w)) /\ Acct(w) \notin raced => db.cash[Acct(w)] >= req[w].total
    BY <1>1 DEF CoveredDebits
  <1>3. CASE ~IsTrade(w)
    <2>1. PICK a \in Accounts, x \in Amounts : a = Acct(w) /\ x = req[w].total
      BY <1>1, <1>3, CashRequestIs DEF IsTrade
    <2>2. CASE req[w].op = "deposit"
      <3>1. x = Signed(w)
        BY <2>1, <2>2 DEF Signed
      <3>2. Book!MoveCash(a, x)
        BY <1>3, <2>1, <3>1, MoveCashStep
      <3> QED BY <3>2 DEF Book!Operate, Book!Deposit
    <2>3. CASE req[w].op = "withdraw"
      <3>1. -x = Signed(w)
        BY <2>1, <2>3 DEF Signed
      <3>2. Book!MoveCash(a, -x)
        BY <1>3, <2>1, <3>1, MoveCashStep
      <3>3. Book!Covers(db.cash[a], a, x)
        BY <1>1, <1>2, <2>1, <2>3 DEF Book!Covers, DebitPending
      <3> QED BY <3>2, <3>3 DEF Book!Operate, Book!Withdraw
    <2> QED BY <1>1, <1>3, <2>2, <2>3 DEF IsTrade
  <1>4. CASE IsTrade(w)
    <2>1. PICK k \in Keys, q \in Quantities, p \in Prices :
            k = Key(w) /\ q = req[w].qty /\ p * q = req[w].total
      BY <1>1, <1>4, TradeRequestIs DEF IsTrade
    <2>2. k \in Book!Holdings
      BY DEF Book!Holdings, Keys
    <2>3. CASE req[w].op = "buy"
      <3>1. -(p * q) = Signed(w) /\ q = SignedQty(w)
        BY <2>1, <2>3 DEF Signed, SignedQty
      <3>2. Book!Trade(k, -(p * q), q)
        BY <1>4, <2>1, <3>1, TradeStep
      <3>3. Book!Covers(db.cash[k[1]], k[1], p * q)
        BY <1>1, <1>2, <1>4, <2>1, <2>3 DEF Book!Covers, DebitPending
      <3> QED BY <2>2, <3>2, <3>3 DEF Book!Operate, Book!Buy
    <2>4. CASE req[w].op = "sell"
      <3>1. p * q = Signed(w) /\ -q = SignedQty(w)
        BY <2>1, <2>4 DEF Signed, SignedQty
      <3>2. Book!Trade(k, p * q, -q)
        BY <1>4, <2>1, <3>1, TradeStep
      <3>3. SalePending(w, k)
        BY <1>1, <2>1, <2>4 DEF SalePending
      <3>4. k \in raced \cup Crossing \cup Spoilt \/ Held(db, k) + Unmoved(k) >= q
        BY <1>1, <2>1, <3>3, SaleCovered DEF Spoilt
      <3>5. Book!Covers([j \in Keys |-> Held(db, j) + Unmoved(j)][k], k, q)
        BY <3>4 DEF Book!Covers
      <3> QED BY <2>2, <3>2, <3>5 DEF Book!Operate, Book!Sell
    <2> QED BY <1>4, <2>3, <2>4 DEF IsTrade
  <1> QED BY <1>3, <1>4

-----------------------------------------------------------------------------
(* All other steps: what they change is spoilt. *)

(* A step that keeps the entries that are not spoilt is a failure of the book. *)
LEMMA NothingSeen ==
    ASSUME TypeOK, TypeOK', [Next]_vars,
           \A a \in Accounts \ tainted' :
             /\ db'.cash[a] = db.cash[a]
             /\ wallet'[a] + Unconfirmed(a)' = wallet[a] + Unconfirmed(a)
             /\ db'.proceeds[a] + Unrecorded(a)' = db.proceeds[a] + Unrecorded(a),
           \A k \in Keys \ Spoilt' :
             /\ Held(db', k) + Unmoved(k)' = Held(db, k) + Unmoved(k)
             /\ db'.traded[k] + UnrecordedShares(k)' = db.traded[k] + UnrecordedShares(k)
    PROVE  Book!Fail
  <1>1. Spoilt \subseteq Spoilt'
    <2>1. tainted \subseteq tainted' /\ doubled \subseteq doubled'
      BY DEF Next, Serve, vars, tradeVars, Receive, Authenticate, CheckBalance, CheckHeld,
             Credit, Debit, LookUpPosition, AddShares, OpenPosition, ReduceShares,
             RecordTrade, Respond, StatementFails, Crash, BackgroundBegin, BackgroundCommit
    <2> QED BY <2>1 DEF Spoilt
  <1>2. ASSUME NEW k \in Book!Holdings, k[1] \in Spoilt'
        PROVE  k \in Spoilt'
    <2>1. k \in Keys /\ k[1] \in Accounts
      BY DEF Book!Holdings, Keys
    <2>2. k[1] \notin Keys
      BY <2>1, NamesAssumption
    <2>3. doubled' \subseteq Keys
      BY DEF TypeOK, HistoryOK
    <2>4. k[1] \in tainted'
      BY <1>2, <2>2, <2>3 DEF Spoilt
    <2> QED BY <2>1, <2>4 DEF Spoilt
  <1>3. ASSUME NEW a \in Accounts, a \notin Spoilt'
        PROVE  <<db.cash[a], [b \in Accounts |-> wallet[b] + Unconfirmed(b)][a],
                 [b \in Accounts |-> db.proceeds[b] + Unrecorded(b)][a]>>'
               = <<db.cash[a], [b \in Accounts |-> wallet[b] + Unconfirmed(b)][a],
                   [b \in Accounts |-> db.proceeds[b] + Unrecorded(b)][a]>>
    <2>1. a \notin tainted'
      BY <1>3 DEF Spoilt
    <2> QED BY <2>1
  <1>4. ASSUME NEW k \in Book!Holdings, k \notin Spoilt'
        PROVE  <<[j \in Keys |-> Held(db, j) + Unmoved(j)][k],
                 [j \in Keys |-> db.traded[j] + UnrecordedShares(j)][k]>>'
               = <<[j \in Keys |-> Held(db, j) + Unmoved(j)][k],
                   [j \in Keys |-> db.traded[j] + UnrecordedShares(j)][k]>>
    <2>1. k \in Keys
      BY DEF Book!Holdings, Keys
    <2> QED BY <1>4, <2>1 DEF Held
  <1> QED BY <1>1, <1>2, <1>3, <1>4 DEF Book!Fail

(* A leg moves into an entry: what the entry gains, the leg in flight loses. *)
LEMMA LegBooked ==
    ASSUME NEW entry \in Int, NEW entryN \in Int, NEW leg \in Int, NEW legN \in Int,
           entryN + legN = entry + leg
    PROVE  entryN = entry + (leg - legN)
  OBVIOUS

LEMMA SumBooked ==
    ASSUME NEW entry \in Int, NEW leg \in Int, NEW legN \in Int, NEW sum \in Int,
           NEW entryN, NEW sumN, entryN = entry + (leg - legN), sumN = sum + (legN - leg)
    PROVE  entryN + sumN = entry + sum
  OBVIOUS

LEMMA QuietStep ==
    ASSUME TypeOK, TypeOK', RowsToMove, [Next]_vars, NEW w \in Workers,
           \/ Receive(w) \/ Authenticate(w) \/ CheckBalance(w) \/ CheckHeld(w)
           \/ LookUpPosition(w) \/ AddShares(w) \/ OpenPosition(w) \/ ReduceShares(w)
           \/ RecordTrade(w) \/ Respond(w) \/ StatementFails(w)
    PROVE  Book!Fail
  <1>0. Serve(w)
    BY DEF Serve
  <1>1. ASSUME NEW a \in Accounts, a \notin tainted'
        PROVE  /\ db'.cash[a] = db.cash[a]
               /\ wallet'[a] + Unconfirmed(a)' = wallet[a] + Unconfirmed(a)
               /\ db'.proceeds[a] + Unrecorded(a)' = db.proceeds[a] + Unrecorded(a)
    <2>1. /\ Unconfirmed(a) \in Int /\ Unrecorded(a) \in Int
          /\ ClientLeg(w, a) \in Int /\ TradeLeg(w, a) \in Int
          /\ wallet[a] \in Int /\ db.proceeds[a] \in Int
      BY BookSumsTyped, BookLegType
         DEF BookLegsTyped, TypeOK, TablesOK, Tables, HistoryOK
    <2>2. /\ ClientLeg(w, a)' \in Int /\ TradeLeg(w, a)' \in Int
          /\ wallet'[a] \in Int /\ db'.proceeds[a] \in Int
      BY BookLegTypeNext DEF BookLegsTyped, TypeOK, TablesOK, Tables, HistoryOK
    <2>3. /\ db'.cash[a] = db.cash[a]
          /\ wallet'[a] + ClientLeg(w, a)' = wallet[a] + ClientLeg(w, a)
          /\ db'.proceeds[a] + TradeLeg(w, a)' = db.proceeds[a] + TradeLeg(w, a)
      BY <1>1, CashQuiet
    <2>4. /\ Unconfirmed(a)' = Unconfirmed(a) + (ClientLeg(w, a)' - ClientLeg(w, a))
          /\ Unrecorded(a)' = Unrecorded(a) + (TradeLeg(w, a)' - TradeLeg(w, a))
      BY <1>0, CashSums
    <2>5. /\ wallet'[a] = wallet[a] + (ClientLeg(w, a) - ClientLeg(w, a)')
          /\ db'.proceeds[a] = db.proceeds[a] + (TradeLeg(w, a) - TradeLeg(w, a)')
      <3>1. wallet'[a] = wallet[a] + (ClientLeg(w, a) - ClientLeg(w, a)')
        BY <2>1, <2>2, <2>3
      <3>2. db'.proceeds[a] = db.proceeds[a] + (TradeLeg(w, a) - TradeLeg(w, a)')
        BY <2>1, <2>2, <2>3, LegBooked
      <3> QED BY <3>1, <3>2
    <2>6. wallet'[a] + Unconfirmed(a)' = wallet[a] + Unconfirmed(a)
      BY <2>1, <2>2, <2>4, <2>5, SumBooked
    <2>7. db'.proceeds[a] + Unrecorded(a)' = db.proceeds[a] + Unrecorded(a)
      <3>1. Unrecorded(a)' = Unrecorded(a) + (TradeLeg(w, a)' - TradeLeg(w, a))
        BY <2>4
      <3>2. db'.proceeds[a] = db.proceeds[a] + (TradeLeg(w, a) - TradeLeg(w, a)')
        BY <2>5
      <3> QED BY <2>1, <2>2, <3>1, <3>2, SumBooked
    <2> QED BY <2>3, <2>6, <2>7
  <1>2. ASSUME NEW k \in Keys, k \notin Spoilt'
        PROVE  /\ Held(db', k) + Unmoved(k)' = Held(db, k) + Unmoved(k)
               /\ db'.traded[k] + UnrecordedShares(k)' = db.traded[k] + UnrecordedShares(k)
    <2>1. /\ Unmoved(k) \in Int /\ UnrecordedShares(k) \in Int
          /\ UnmovedLeg(w, k) \in Int /\ UnrecordedLeg(w, k) \in Int
          /\ Held(db, k) \in Int /\ db.traded[k] \in Int
      BY BookSumsTyped, BookLegType, HeldType DEF BookLegsTyped, TypeOK, TablesOK, Tables
    <2>2. /\ UnmovedLeg(w, k)' \in Int /\ UnrecordedLeg(w, k)' \in Int
          /\ Held(db', k) \in Int /\ db'.traded[k] \in Int
      BY BookLegTypeNext, HeldType DEF BookLegsTyped, TypeOK, TablesOK, Tables
    <2>3. /\ Held(db', k) + UnmovedLeg(w, k)' = Held(db, k) + UnmovedLeg(w, k)
          /\ db'.traded[k] + UnrecordedLeg(w, k)' = db.traded[k] + UnrecordedLeg(w, k)
      BY <1>2, SharesQuiet
    <2>4. /\ Unmoved(k)' = Unmoved(k) + (UnmovedLeg(w, k)' - UnmovedLeg(w, k))
          /\ UnrecordedShares(k)'
               = UnrecordedShares(k) + (UnrecordedLeg(w, k)' - UnrecordedLeg(w, k))
      BY <1>0, ShareSums
    <2>5. /\ Held(db', k) = Held(db, k) + (UnmovedLeg(w, k) - UnmovedLeg(w, k)')
          /\ db'.traded[k] = db.traded[k] + (UnrecordedLeg(w, k) - UnrecordedLeg(w, k)')
      BY <2>1, <2>2, <2>3, LegBooked
    <2>6. Held(db', k) + Unmoved(k)' = Held(db, k) + Unmoved(k)
      BY <2>1, <2>2, <2>4, <2>5, SumBooked
    <2>7. db'.traded[k] + UnrecordedShares(k)' = db.traded[k] + UnrecordedShares(k)
      BY <2>1, <2>2, <2>4, <2>5, SumBooked
    <2> QED BY <2>6, <2>7
  <1> QED BY <1>1, <1>2, NothingSeen

(* A crash loses what is in flight and what is not saved; whatever entry that
   is about is tainted. *)
LEMMA CrashStep ==
    ASSUME TypeOK, TypeOK', Crash
    PROVE  Book!Fail
  <1>1. /\ db' = disk /\ wallet' = wallet /\ tainted' = tainted \cup Torn \cup Unsaved
        /\ \A w \in Workers : pc'[w] = "idle"
    BY DEF Crash, Recover
  <1>2. ASSUME NEW a \in Accounts, a \notin tainted'
        PROVE  /\ db'.cash[a] = db.cash[a]
               /\ wallet'[a] + Unconfirmed(a)' = wallet[a] + Unconfirmed(a)
               /\ db'.proceeds[a] + Unrecorded(a)' = db.proceeds[a] + Unrecorded(a)
    <2>1. db'.cash[a] = db.cash[a] /\ db'.proceeds[a] = db.proceeds[a]
      BY <1>1, <1>2 DEF Unsaved
    <2>2. \A w \in Workers : /\ ClientLeg(w, a) = 0 /\ ClientLeg(w, a)' = 0
                             /\ TradeLeg(w, a) = 0 /\ TradeLeg(w, a)' = 0
      <3>1. \A w \in Workers : CashLeg(w, a) = 0
        BY <1>1, <1>2 DEF Torn, CashLeg
      <3>2. \A w \in Workers : CashLeg(w, a)' = 0
        BY <1>1 DEF CashLeg, CashInFlight
      <3> QED BY <3>1, <3>2 DEF ClientLeg, TradeLeg
    <2>3. Unconfirmed(a)' = Unconfirmed(a) /\ Unrecorded(a)' = Unrecorded(a)
      <3>1. /\ [w \in Workers |-> ClientLeg(w, a)'] = [w \in Workers |-> ClientLeg(w, a)]
            /\ [w \in Workers |-> TradeLeg(w, a)'] = [w \in Workers |-> TradeLeg(w, a)]
        BY <2>2
      <3> QED BY <3>1 DEF Unconfirmed, Unrecorded
    <2> QED BY <1>1, <2>1, <2>3
  <1>3. ASSUME NEW k \in Keys, k \notin Spoilt'
        PROVE  /\ Held(db', k) + Unmoved(k)' = Held(db, k) + Unmoved(k)
               /\ db'.traded[k] + UnrecordedShares(k)' = db.traded[k] + UnrecordedShares(k)
    <2>0. k \notin tainted' /\ k[1] \notin tainted'
      BY <1>3 DEF Spoilt
    <2>1. Held(db', k) = Held(db, k) /\ db'.traded[k] = db.traded[k]
      BY <1>1, <2>0 DEF Unsaved, Held
    <2>2. \A w \in Workers : /\ UnmovedLeg(w, k) = 0 /\ UnmovedLeg(w, k)' = 0
                             /\ UnrecordedLeg(w, k) = 0 /\ UnrecordedLeg(w, k)' = 0
      <3> SUFFICES ASSUME NEW w \in Workers
                   PROVE  /\ UnmovedLeg(w, k) = 0 /\ UnmovedLeg(w, k)' = 0
                          /\ UnrecordedLeg(w, k) = 0 /\ UnrecordedLeg(w, k)' = 0
        OBVIOUS
      <3>1. ~Paid(w, k, {"lookup", "add", "open", "reduce", "record"})
        <4> SUFFICES ASSUME Paid(w, k, {"lookup", "add", "open", "reduce", "record"})
                     PROVE  FALSE
          OBVIOUS
        <4>1. CashInFlight(w) /\ Acct(w) = k[1]
          BY PaidTrade
        <4> QED BY <1>1, <2>0, <4>1 DEF Torn
      <3>2. ~Paid(w, k, {"lookup", "add", "open", "reduce"})
        BY <3>1 DEF Paid
      <3>3. UnmovedLeg(w, k)' = 0 /\ UnrecordedLeg(w, k)' = 0
        BY <1>1 DEF UnmovedLeg, UnrecordedLeg, Paid
      <3> QED BY <3>1, <3>2, <3>3 DEF UnmovedLeg, UnrecordedLeg
    <2>3. Unmoved(k)' = Unmoved(k) /\ UnrecordedShares(k)' = UnrecordedShares(k)
      <3>1. /\ [w \in Workers |-> UnmovedLeg(w, k)'] = [w \in Workers |-> UnmovedLeg(w, k)]
            /\ [w \in Workers |-> UnrecordedLeg(w, k)']
                 = [w \in Workers |-> UnrecordedLeg(w, k)]
        BY <2>2
      <3> QED BY <3>1 DEF Unmoved, UnrecordedShares
    <2> QED BY <2>1, <2>3
  <1>4. [Next]_vars
    BY DEF Next
  <1> QED BY <1>2, <1>3, <1>4, NothingSeen

(* Neither does a batch of another thread touch the book. *)
LEMMA IdleStep ==
    ASSUME TypeOK, TypeOK', [Next]_vars,
           db' = db, wallet' = wallet, pc' = pc, req' = req
    PROVE  Book!Fail
  <1>1. \A a \in Accounts : Unconfirmed(a)' = Unconfirmed(a) /\ Unrecorded(a)' = Unrecorded(a)
    BY DEF Unconfirmed, Unrecorded, ClientLeg, TradeLeg, CashLeg, CashInFlight, IsTrade, Acct,
           Signed
  <1>2. \A k \in Keys : /\ Unmoved(k)' = Unmoved(k)
                        /\ UnrecordedShares(k)' = UnrecordedShares(k)
    BY DEF Unmoved, UnrecordedShares, UnmovedLeg, UnrecordedLeg, Paid, Key, SignedQty
  <1>3. \A a \in Accounts : /\ db'.cash[a] = db.cash[a] /\ wallet'[a] = wallet[a]
                            /\ db'.proceeds[a] = db.proceeds[a]
    OBVIOUS
  <1>4. \A k \in Keys : Held(db', k) = Held(db, k) /\ db'.traded[k] = db.traded[k]
    OBVIOUS
  <1> QED BY <1>1, <1>2, <1>3, <1>4, NothingSeen

-----------------------------------------------------------------------------

LEMMA BookInit == Init => Book!Init
  <1> SUFFICES ASSUME Init PROVE Book!Init
    OBVIOUS
  <1>0. TypeOK
    BY TypeInit
  <1>1. \A w \in Workers : pc[w] = "idle"
    BY DEF Init
  <1>2. ASSUME NEW a \in Accounts
        PROVE  Unconfirmed(a) = 0 /\ Unrecorded(a) = 0
    <2> DEFINE f == [w \in Workers |-> ClientLeg(w, a)]
               g == [w \in Workers |-> TradeLeg(w, a)]
    <2>1. /\ f \in [Workers -> Int] /\ \A w \in Workers : f[w] = 0
          /\ g \in [Workers -> Int] /\ \A w \in Workers : g[w] = 0
      BY <1>1 DEF ClientLeg, TradeLeg, CashLeg, CashInFlight
    <2>2. SumFunction(f) = 0 /\ SumFunction(g) = 0
      <3> HIDE DEF f, g
      <3> QED BY <2>1, SumZero, WorkersAssumption
    <2> QED BY <2>2 DEF Unconfirmed, Unrecorded
  <1>3. ASSUME NEW k \in Keys
        PROVE  Unmoved(k) = 0 /\ UnrecordedShares(k) = 0
    <2> DEFINE f == [w \in Workers |-> UnmovedLeg(w, k)]
               g == [w \in Workers |-> UnrecordedLeg(w, k)]
    <2>1. /\ f \in [Workers -> Int] /\ \A w \in Workers : f[w] = 0
          /\ g \in [Workers -> Int] /\ \A w \in Workers : g[w] = 0
      BY <1>1 DEF UnmovedLeg, UnrecordedLeg, Paid
    <2>2. SumFunction(f) = 0 /\ SumFunction(g) = 0
      <3> HIDE DEF f, g
      <3> QED BY <2>1, SumZero, WorkersAssumption
    <2> QED BY <2>2 DEF Unmoved, UnrecordedShares
  <1>4. /\ db.cash = [a \in Accounts |-> OpeningCash] /\ wallet = db.cash
        /\ db.proceeds = [a \in Accounts |-> 0]
    BY DEF Init, ConnInit
  <1>5. \A k \in Keys : Held(db, k) = db.traded[k] /\ db.traded[k] \in Int
    <2> SUFFICES ASSUME NEW k \in Keys
                 PROVE  Held(db, k) = db.traded[k] /\ db.traded[k] \in Int
      OBVIOUS
    <2>1. \/ db.held[k] = <<OpeningShares>> /\ db.traded[k] = OpeningShares
          \/ db.held[k] = <<>> /\ db.traded[k] = 0
      BY DEF Init, ConnInit
    <2>2. <<OpeningShares>>[1] = OpeningShares /\ <<OpeningShares>> # <<>>
      OBVIOUS
    <2> QED BY <2>1, <2>2, OpeningAssumption DEF Held
  <1>6. db.cash \in [Accounts -> Int]
        /\ [a \in Accounts |-> wallet[a] + Unconfirmed(a)] = db.cash
    BY <1>2, <1>4, OpeningAssumption
  <1>7. [a \in Accounts |-> db.proceeds[a] + Unrecorded(a)] = [a \in Accounts |-> 0]
    BY <1>2, <1>4
  <1>8. /\ [k \in Keys |-> Held(db, k) + Unmoved(k)] \in [Keys -> Int]
        /\ [k \in Keys |-> db.traded[k] + UnrecordedShares(k)]
             = [k \in Keys |-> Held(db, k) + Unmoved(k)]
    BY <1>3, <1>5
  <1>9. raced \cup Crossing = {} /\ Spoilt = {}
    BY <1>1 DEF Init, Crossing, SalePending, Spoilt
  <1>10. Keys = Book!Holdings
    BY DEF Keys, Book!Holdings
  <1> QED BY <1>6, <1>7, <1>8, <1>9, <1>10 DEF Book!Init

LEMMA BookStep ==
    NaturalRequests /\ TypeOK /\ TypeOK' /\ CoveredDebits /\ CoveredSales /\ RowsToMove
      /\ [Next]_vars => Book!Next
  <1> SUFFICES ASSUME NaturalRequests, TypeOK, TypeOK', CoveredDebits, CoveredSales,
                      RowsToMove, [Next]_vars
               PROVE  Book!Next
    OBVIOUS
  <1>1. (raced \cup Crossing)' \subseteq Book!Entries
    BY DEF TypeOK, HistoryOK, Crossing, Book!Entries, Book!Holdings, Keys
  <1>2. ASSUME NEW w \in Workers, Serve(w)
        PROVE  Book!Fail \/ Book!Operate
    BY <1>2, CashStatementIsOperation, QuietStep DEF Serve
  <1>3. CASE Crash
    BY <1>1, <1>3, CrashStep DEF Book!Next
  <1>4. CASE \E b \in Batchers : BackgroundBegin(b) \/ BackgroundCommit(b)
    <2>1. db' = db /\ wallet' = wallet /\ pc' = pc /\ req' = req
      BY <1>4 DEF BackgroundBegin, BeginBatch, BackgroundCommit, CommitBatch, tradeVars
    <2> QED BY <1>1, <2>1, IdleStep DEF Book!Next
  <1>5. CASE UNCHANGED vars
    <2>1. db' = db /\ wallet' = wallet /\ pc' = pc /\ req' = req
      BY <1>5 DEF vars, connVars, tradeVars
    <2> QED BY <1>1, <2>1, IdleStep DEF Book!Next
  <1> QED BY <1>1, <1>2, <1>3, <1>4, <1>5 DEF Next, Book!Next

(***************************************************************************)
(* The handlers of Trading implement the account book, for every number of *)
(* workers, accounts, stocks and requests, faults and crashes: a deposit,  *)
(* a withdrawal, a purchase or a sale happens at its one cash statement,   *)
(* takes no more than there is unless two requests crossed there, and what *)
(* is not spoilt by a fault, a crash or a doubled holding stays booked.    *)
(***************************************************************************)
THEOREM Refinement ==
    ASSUME NaturalRequests
    PROVE  Spec => ImplementsLedger
  <1>1. Init => Book!Init
    BY BookInit
  <1>2. TypeOK /\ TypeOK' /\ CoveredDebits /\ CoveredSales /\ RowsToMove /\ [Next]_vars
          => [Book!Next]_Book!vars
    BY BookStep
  <1>3. Init => CoveredDebits /\ CoveredSales /\ RowsToMove
    BY CoveredInit, CoveredSalesInit, RowsToMoveInit
  <1>4. TypeOK /\ CoveredDebits /\ CoveredSales /\ RowsToMove /\ [Next]_vars
          => CoveredDebits' /\ CoveredSales' /\ RowsToMove'
    BY CoveredStep, CoveredSalesStep, RowsToMoveStep
  <1> QED BY <1>1, <1>2, <1>3, <1>4, TypeCorrect, PTL DEF Spec, ImplementsLedger, Book!Spec

-----------------------------------------------------------------------------
(***************************************************************************)
(* The reader of AssetView. It writes nothing: beside it Trading goes on   *)
(* as before, and what holds of Trading holds of AssetView.                *)
(***************************************************************************)

LEMMA ViewStep == [ViewNext]_viewVars => [Next]_vars
  BY DEF ViewNext, viewVars, Ask, ReadCash, ReadPositions, ValuePosition, Total, Answer,
         OthersRun, Next

LEMMA ViewIsTrading == ViewSpec => Spec
  <1>1. ViewInit => Init
    BY DEF ViewInit
  <1> QED BY <1>1, ViewStep, PTL DEF ViewSpec, Spec

LEMMA PriceType == \A s : PriceOf(s) \in Nat
  BY ViewAssumption DEF PriceOf

LEMMA PairMax ==
    ASSUME NEW x \in Int, NEW y \in Int
    PROVE  Max({x, y}) \in Int /\ x <= Max({x, y}) /\ y <= Max({x, y})
  <1>1. IsFiniteSet({x, y})
    <2>1. IsFiniteSet({x}) /\ IsFiniteSet({y}) /\ {x, y} = {x} \cup {y}
      BY FS_Singleton
    <2>2. IsFiniteSet({x} \cup {y})
      BY <2>1, FS_Union
    <2> QED BY <2>1, <2>2
  <1>2. {x, y} # {} /\ {x, y} \subseteq Int
    OBVIOUS
  <1>3. Max({x, y}) \in {x, y} /\ \A z \in {x, y} : z <= Max({x, y})
    BY <1>1, <1>2, MaxIs
  <1> QED BY <1>3

LEMMA ExposureType ==
    ASSUME NEW r \in Request
    PROVE  Exposure(r) \in Int
  <1>1. r.total \in Int /\ r.op \in {"deposit", "withdraw", "buy", "sell"}
    BY RequestType
  <1>2. CASE r.op \in {"buy", "sell"}
    <2>1. r.qty \in Int /\ PriceOf(r.stock) \in Int
      BY <1>2, RequestType, PriceType
    <2>2. r.qty * PriceOf(r.stock) \in Int
      BY <2>1
    <2>3. Max({r.total, r.qty * PriceOf(r.stock)}) \in Int
      BY <1>1, <2>2, PairMax
    <2> QED BY <1>1, <1>2, <2>3 DEF Exposure
  <1> QED BY <1>1, <1>2 DEF Exposure

LEMMA InFlightServes ==
    ASSUME TypeOK, NEW w \in Workers, CashInFlight(w)
    PROVE  pc[w] # "idle" /\ req[w] \in Request
  <1>1. pc[w] # "idle"
    BY DEF CashInFlight
  <1> QED BY <1>1, ServingType

LEMMA SlackAtStartType ==
    ASSUME TypeOK, NEW a
    PROVE  SlackAtStart(a) \in Int
  <1> DEFINE f == [w \in Workers |-> IF Moving(w, a) THEN Exposure(req[w]) ELSE 0]
  <1>1. f \in [Workers -> Int]
    BY InFlightServes, ExposureType DEF Moving
  <1> HIDE DEF f
  <1>2. SumFunction(f) \in Int
    BY <1>1, SumType, WorkersAssumption
  <1> QED BY <1>2 DEF SlackAtStart, f

LEMMA RowsType ==
    ASSUME NEW d \in Tables, NEW a \in Accounts
    PROVE  RowsOf(d, a) \subseteq [stock : Stocks, row : Nat \ {0}, quantity : Int]
  <1> SUFFICES ASSUME NEW r \in RowsOf(d, a)
               PROVE  r \in [stock : Stocks, row : Nat \ {0}, quantity : Int]
    OBVIOUS
  <1>1. PICK s \in Stocks : \E i \in DOMAIN d.held[<<a, s>>] :
             r = [stock |-> s, row |-> i, quantity |-> d.held[<<a, s>>][i]]
    BY DEF RowsOf
  <1>2. PICK i \in DOMAIN d.held[<<a, s>>] :
             r = [stock |-> s, row |-> i, quantity |-> d.held[<<a, s>>][i]]
    BY <1>1
  <1>3. d.held[<<a, s>>] \in Seq(Int)
    BY DEF Tables, Keys
  <1>4. i \in Nat \ {0} /\ d.held[<<a, s>>][i] \in Int
    BY <1>3
  <1> QED BY <1>2, <1>4

LEMMA ViewTypeInit == ViewInit => ViewTypeOK
  BY NoAccountAssumption, ViewAssumption DEF ViewInit, ViewTypeOK, ViewStages

(* A worker that starts to move cash in a step was serving a request before. *)
LEMMA IdleFirst ==
    ASSUME TypeOK, [Next]_vars, NEW w \in Workers, CashInFlight(w)'
    PROVE  pc[w] # "idle"
  <1> SUFFICES ASSUME pc[w] = "idle"
               PROVE  pc'[w] \in {"idle", "auth"}
    BY DEF CashInFlight
  <1>1. ASSUME NEW v \in Workers, Serve(v)
        PROVE  pc'[w] \in {"idle", "auth"}
    <2>1. CASE v = w
      <3>1. Receive(w)
        BY <1>1, <2>1 DEF Serve, Authenticate, CheckBalance, CheckHeld, Credit, Debit,
            LookUpPosition, AddShares, OpenPosition, ReduceShares, RecordTrade, Respond,
            StatementFails
      <3> QED BY <3>1 DEF Receive, TypeOK, ServiceOK
    <2>2. CASE v # w
      BY <1>1, <2>2, OthersStay
    <2> QED BY <2>1, <2>2
  <1>2. ASSUME NEW b \in Batchers, BackgroundBegin(b) \/ BackgroundCommit(b)
        PROVE  pc'[w] \in {"idle", "auth"}
    BY <1>2 DEF BackgroundBegin, BackgroundCommit, tradeVars
  <1>3. CASE Crash
    BY <1>3 DEF Crash
  <1>4. CASE UNCHANGED vars
    BY <1>4 DEF vars, tradeVars
  <1> QED BY <1>1, <1>2, <1>3, <1>4 DEF Next

LEMMA SlackOfStepType ==
    ASSUME TypeOK, [Next]_vars
    PROVE  SlackOfStep \in Int
  <1> DEFINE f == [w \in Workers |-> IF ~Moving(w, viewed) /\ Moving(w, viewed)'
                                      THEN Exposure(req[w]) ELSE 0]
  <1>1. ASSUME NEW w \in Workers, Moving(w, viewed)'
        PROVE  Exposure(req[w]) \in Int
    <2>1. pc[w] # "idle"
      BY <1>1, IdleFirst DEF Moving
    <2> QED BY <2>1, ServingType, ExposureType
  <1>2. f \in [Workers -> Int]
    BY <1>1
  <1>3. SlackOfStep = IF viewed = NoAccount THEN 0 ELSE SumFunction(f)
    BY DEF SlackOfStep
  <1> HIDE DEF f
  <1>4. SumFunction(f) \in Int
    BY <1>2, SumType, WorkersAssumption
  <1> QED BY <1>3, <1>4

LEMMA ViewTypeStep ==
    TypeOK /\ ViewTypeOK /\ [ViewNext]_viewVars => ViewTypeOK'
  <1> SUFFICES ASSUME TypeOK, ViewTypeOK, [ViewNext]_viewVars
               PROVE  ViewTypeOK'
    OBVIOUS
  <1> USE DEF ViewTypeOK, ViewStages
  <1>1. CASE Ask
    <2>1. \A a : SlackAtStart(a) \in Int
      BY SlackAtStartType
    <2> QED BY <1>1, <2>1, NoAccountAssumption, ViewAssumption DEF Ask
  <1>2. CASE ReadCash
    <2>1. viewed \in Accounts
      BY <1>2 DEF ReadCash
    <2>2. db.cash[viewed] \in Int
      BY <2>1 DEF TypeOK, TablesOK, Tables
    <2> QED BY <1>2, <2>2 DEF ReadCash
  <1>3. CASE ReadPositions
    <2>1. viewed \in Accounts
      BY <1>3 DEF ReadPositions
    <2>2. RowsOf(db, viewed) \subseteq [stock : Stocks, row : Nat \ {0}, quantity : Int]
      BY <2>1, RowsType DEF TypeOK, TablesOK
    <2> QED BY <1>3, <2>2 DEF ReadPositions
  <1>4. CASE ValuePosition
    <2>1. PICK row \in positions : /\ total' = AddValue(total, row, PriceOf(row.stock))
                                   /\ positions' = positions \ {row}
      BY <1>4 DEF ValuePosition
    <2>2. row.quantity \in Int /\ PriceOf(row.stock) \in Int
      BY PriceType
    <2>3. row.quantity * PriceOf(row.stock) \in Int
      BY <2>2
    <2>4. total' \in Int
      BY <2>1, <2>3 DEF AddValue
    <2> QED BY <1>4, <2>1, <2>4 DEF ValuePosition
  <1>5. CASE Total
    BY <1>5 DEF Total
  <1>6. CASE Answer
    BY <1>6 DEF Answer, Forget
  <1>7. CASE OthersRun
    <2>1. CASE Crash /\ Forget /\ UNCHANGED views
      BY <2>1 DEF Forget
    <2>2. CASE Next /\ UNCHANGED <<readerVars, views>> /\ slack' = slack + SlackOfStep
      <3>1. SlackOfStep \in Int
        BY <2>2, SlackOfStepType
      <3> QED BY <2>2, <3>1 DEF readerVars
    <2> QED BY <1>7, <2>1, <2>2 DEF OthersRun
  <1>8. CASE UNCHANGED viewVars
    BY <1>8 DEF viewVars, readerVars
  <1> QED BY <1>1, <1>2, <1>3, <1>4, <1>5, <1>6, <1>7, <1>8 DEF ViewNext

(* What the reader holds has its shape at all times, for every set of workers,
   accounts, stocks and listed stocks; in particular it keeps rows to value only
   while it is at them. *)
THEOREM ViewTypeCorrect == ViewSpec => []ViewTypeOK
  <1> QED BY ViewTypeInit, ViewTypeStep, ViewIsTrading, TypeCorrect, PTL DEF ViewSpec

-----------------------------------------------------------------------------
(***************************************************************************)
(* A holding in which no two first purchases crossed has at most one row,  *)
(* so that get_positions counts none twice.                                *)
(***************************************************************************)
OneRow == \A k \in Keys \ doubled : \A d \in {db, disk} : Len(d.held[k]) <= 1

LEMMA OneRowInit == Init => OneRow
  <1> SUFFICES ASSUME Init, NEW k \in Keys
               PROVE  Len(db.held[k]) <= 1 /\ Len(disk.held[k]) <= 1
    BY DEF OneRow
  <1>1. db.held[k] \in {<<OpeningShares>>, <<>>} /\ disk = db
    BY DEF Init, ConnInit
  <1>2. CASE db.held[k] = <<>>
    BY <1>1, <1>2, EmptySeq
  <1>3. CASE db.held[k] = <<OpeningShares>>
    <2>1. Len(<<OpeningShares>>) = 1
      OBVIOUS
    <2> QED BY <1>1, <1>3, <2>1
  <1> QED BY <1>1, <1>2, <1>3

LEMMA OneRowStep == TypeOK /\ OneRow /\ [Next]_vars => OneRow'
  <1> SUFFICES ASSUME TypeOK, OneRow, [Next]_vars, NEW k \in Keys, k \notin doubled'
               PROVE  Len(db'.held[k]) <= 1 /\ Len(disk'.held[k]) <= 1
    BY DEF OneRow
  <1>0. db \in Tables /\ disk \in Tables
    BY DEF TypeOK, TablesOK
  <1>1. k \notin doubled => Len(db.held[k]) <= 1 /\ Len(disk.held[k]) <= 1
    BY DEF OneRow
  <1>2. ASSUME NEW w \in Workers,
               \/ Receive(w) \/ Authenticate(w) \/ CheckBalance(w) \/ CheckHeld(w)
               \/ Credit(w) \/ Debit(w) \/ LookUpPosition(w) \/ RecordTrade(w)
               \/ Respond(w) \/ StatementFails(w)
        PROVE  Len(db'.held[k]) <= 1 /\ Len(disk'.held[k]) <= 1
    <2>1. db'.held = db.held /\ (disk'.held = disk.held \/ disk'.held = db.held)
      BY <1>2, HeldStep
    <2>2. k \notin doubled
      BY <1>2 DEF Receive, Authenticate, CheckBalance, CheckHeld, Credit, Debit,
                  LookUpPosition, RecordTrade, Respond, StatementFails
    <2> QED BY <1>1, <2>1, <2>2
  <1>3. ASSUME NEW w \in Workers, AddShares(w) \/ OpenPosition(w) \/ ReduceShares(w)
        PROVE  Len(db'.held[k]) <= 1 /\ Len(disk'.held[k]) <= 1
    <2>1. pc[w] \in {"add", "open", "reduce"} /\ IsTrade(w)
      BY <1>3 DEF AddShares, OpenPosition, ReduceShares, TypeOK, ServiceOK, Fits, IsTrade
    <2>2. Key(w) \in Keys /\ req[w].qty \in Int
      BY <2>1, ServingType
    <2>3. k \notin doubled
      BY <1>3 DEF AddShares, OpenPosition, ReduceShares
    <2>4. disk'.held = disk.held \/ disk'.held = db'.held
      BY <1>3 DEF AddShares, OpenPosition, ReduceShares, Exec, connVars
    <2>5. Len(db'.held[k]) <= 1
      <3>1. CASE AddShares(w) \/ ReduceShares(w)
        <4>1. PICK q \in Int : db' = AddToRows(db, Key(w), q)
          BY <2>2, <3>1 DEF AddShares, ReduceShares, Exec
        <4>2. Len(db'.held[k]) = Len(db.held[k])
          <5>1. CASE Key(w) = k
            BY <1>0, <1>1, <2>2, <2>3, <4>1, <5>1, RowsSum
          <5>2. CASE Key(w) # k
            BY <1>0, <2>2, <4>1, <5>2 DEF AddToRows, Tables
          <5> QED BY <5>1, <5>2
        <4> QED BY <1>1, <2>3, <4>2
      <3>2. CASE OpenPosition(w)
        <4>1. UNCHANGED connVars \/ db' = AddRow(db, Key(w), req[w].qty)
          BY <3>2 DEF OpenPosition, Exec
        <4>2. Key(w) = k => db.held[k] = <<>>
          BY <3>2 DEF OpenPosition
        <4>3. AddRow(db, Key(w), req[w].qty).held =
                [db.held EXCEPT ![Key(w)] = Append(@, req[w].qty)]
          BY <1>0, <2>2, AddRowType
        <4>4. Len(Append(<<>>, req[w].qty)) = 1
          BY <2>2
        <4> QED BY <1>0, <1>1, <2>2, <2>3, <4>1, <4>2, <4>3, <4>4 DEF Tables, connVars
      <3> QED BY <1>3, <3>1, <3>2
    <2> QED BY <1>1, <2>3, <2>4, <2>5
  <1>4. CASE Crash
    BY <1>1, <1>4 DEF Crash, Recover
  <1>5. ASSUME NEW b \in Batchers, BackgroundBegin(b) \/ BackgroundCommit(b)
        PROVE  Len(db'.held[k]) <= 1 /\ Len(disk'.held[k]) <= 1
    BY <1>1, <1>5 DEF BackgroundBegin, BeginBatch, BackgroundCommit, CommitBatch, tradeVars
  <1>6. CASE UNCHANGED vars
    BY <1>1, <1>6 DEF vars, connVars, tradeVars
  <1> QED BY <1>2, <1>3, <1>4, <1>5, <1>6 DEF Next, Serve

-----------------------------------------------------------------------------
(***************************************************************************)
(* What a request has still to do for account a, in money: a request that  *)
(* moves the account's cash or shares is ahead of the books by AheadLeg.   *)
(* The reader sees each side of it before or after, so that what it sees   *)
(* of the request lies between LeastLeg and MostLeg.                       *)
(***************************************************************************)
SharesWorth(w) == req[w].qty * PriceOf(req[w].stock)

AheadLeg(w, a) ==
    IF ~Moving(w, a) THEN 0
    ELSE CASE pc[w] = "record" /\ req[w].op = "buy"  -> SharesWorth(w) - req[w].total
           [] pc[w] = "record" /\ req[w].op = "sell" -> req[w].total - SharesWorth(w)
           [] OTHER                                  -> Signed(w)

LeastLeg(w, a) ==
    IF ~Moving(w, a) THEN 0
    ELSE CASE req[w].op \in {"withdraw", "buy"}         -> -req[w].total
           [] pc[w] = "record" /\ req[w].op = "sell"    -> -SharesWorth(w)
           [] OTHER                                     -> 0

MostLeg(w, a) ==
    IF ~Moving(w, a) THEN 0
    ELSE CASE req[w].op \in {"deposit", "sell"}         -> req[w].total
           [] pc[w] = "record" /\ req[w].op = "buy"     -> SharesWorth(w)
           [] OTHER                                     -> 0

Stake(w, a) == IF Moving(w, a) THEN Exposure(req[w]) ELSE 0
BelowLeg(w, a) == LeastLeg(w, a) + Stake(w, a)
AboveLeg(w, a) == Stake(w, a) - MostLeg(w, a)

Ahead(a) == SumFunction([w \in Workers |-> AheadLeg(w, a)])
Below(a) == SumFunction([w \in Workers |-> BelowLeg(w, a)])
Above(a) == SumFunction([w \in Workers |-> AboveLeg(w, a)])

HeldWorth(a) == SumFunction([s \in Stocks |-> Held(db, <<a, s>>) * PriceOf(s)])
TradedWorth(a) == SumFunction([s \in Stocks |-> db.traded[<<a, s>>] * PriceOf(s)])

LEMMA StakeCovers ==
    ASSUME NaturalRequests, NEW r \in Request
    PROVE  /\ Exposure(r) \in Nat /\ r.total \in Nat /\ r.total <= Exposure(r)
           /\ r.op \in {"buy", "sell"} =>
                /\ r.qty * PriceOf(r.stock) \in Nat
                /\ r.qty * PriceOf(r.stock) <= Exposure(r)
  <1>1. r.total \in Nat /\ (r.op \in {"buy", "sell"} => r.qty \in Nat)
    BY NaturalRequest
  <1>2. Exposure(r) \in Int /\ r.op \in {"deposit", "withdraw", "buy", "sell"}
    BY ExposureType, RequestType
  <1>3. CASE r.op \in {"buy", "sell"}
    <2> DEFINE worth == r.qty * PriceOf(r.stock)
    <2>1. worth \in Nat
      <3>1. PriceOf(r.stock) \in Nat
        BY PriceType
      <3> QED BY <1>1, <1>3, <3>1
    <2>2. Exposure(r) = Max({r.total, worth})
      BY <1>3 DEF Exposure
    <2> HIDE DEF worth
    <2>3. r.total <= Exposure(r) /\ worth <= Exposure(r)
      <3>1. r.total \in Int /\ worth \in Int
        BY <1>1, <2>1
      <3>2. r.total <= Max({r.total, worth}) /\ worth <= Max({r.total, worth})
        BY <3>1, PairMax
      <3> QED BY <2>2, <3>2
    <2>4. r.qty * PriceOf(r.stock) \in Nat /\ r.qty * PriceOf(r.stock) <= Exposure(r)
      BY <2>1, <2>3 DEF worth
    <2> QED BY <1>1, <1>2, <2>3, <2>4
  <1> QED BY <1>1, <1>2, <1>3 DEF Exposure

(* The numbers the legs of a request are made of... *)
LEMMA LegsOf ==
    ASSUME NaturalRequests, TypeOK, NEW w \in Workers, NEW a \in Accounts, Moving(w, a)
    PROVE  /\ req[w].total \in Nat /\ Stake(w, a) \in Nat /\ req[w].total <= Stake(w, a)
           /\ IsTrade(w) => SharesWorth(w) \in Nat /\ SharesWorth(w) <= Stake(w, a)
           /\ req[w].op \in {"deposit", "withdraw", "buy", "sell"}
           /\ pc[w] = "record" => IsTrade(w)
  <1>1. pc[w] # "idle" /\ req[w] \in Request
    BY InFlightServes DEF Moving
  <1>2. req[w].op \in {"deposit", "withdraw", "buy", "sell"}
    BY <1>1, RequestType
  <1>3. pc[w] = "record" => IsTrade(w)
    BY DEF TypeOK, ServiceOK, Fits, IsTrade
  <1>4. Stake(w, a) = Exposure(req[w])
    BY DEF Stake
  <1> QED BY <1>1, <1>2, <1>3, <1>4, StakeCovers DEF IsTrade, SharesWorth

(* ... and how the legs lie: a request is ahead of the books by something the
   reader may see of it, and it can take away and add no more than its stake. *)
LEMMA LegsLie ==
    ASSUME NaturalRequests, TypeOK, NEW w \in Workers, NEW a \in Accounts
    PROVE  /\ AheadLeg(w, a) \in Int /\ BelowLeg(w, a) \in Int /\ AboveLeg(w, a) \in Int
           /\ LeastLeg(w, a) \in Int /\ MostLeg(w, a) \in Int /\ Stake(w, a) \in Int
           /\ LeastLeg(w, a) <= AheadLeg(w, a) /\ AheadLeg(w, a) <= MostLeg(w, a)
           /\ BelowLeg(w, a) >= 0 /\ AboveLeg(w, a) >= 0
           /\ AheadLeg(w, a) <= BelowLeg(w, a) /\ -AheadLeg(w, a) <= AboveLeg(w, a)
  <1>1. CASE ~Moving(w, a)
    BY <1>1 DEF AheadLeg, BelowLeg, AboveLeg, LeastLeg, MostLeg, Stake
  <1>2. CASE Moving(w, a)
    <2> DEFINE t == req[w].total
               v == SharesWorth(w)
               e == Stake(w, a)
    <2>1. /\ t \in Nat /\ e \in Nat /\ t <= e
          /\ IsTrade(w) => v \in Nat /\ v <= e
          /\ req[w].op \in {"deposit", "withdraw", "buy", "sell"}
          /\ pc[w] = "record" => IsTrade(w)
      BY <1>2, LegsOf
    <2>2. BelowLeg(w, a) = LeastLeg(w, a) + e /\ AboveLeg(w, a) = e - MostLeg(w, a)
      BY DEF BelowLeg, AboveLeg
    <2>3. CASE req[w].op = "deposit"
      <3>1. AheadLeg(w, a) = t /\ LeastLeg(w, a) = 0 /\ MostLeg(w, a) = t
        BY <1>2, <2>1, <2>3 DEF AheadLeg, LeastLeg, MostLeg, Signed, IsTrade
      <3> HIDE DEF t, v, e
      <3> QED BY <2>1, <2>2, <3>1 DEF e
    <2>4. CASE req[w].op = "withdraw"
      <3>1. AheadLeg(w, a) = -t /\ LeastLeg(w, a) = -t /\ MostLeg(w, a) = 0
        BY <1>2, <2>1, <2>4 DEF AheadLeg, LeastLeg, MostLeg, Signed, IsTrade
      <3> HIDE DEF t, v, e
      <3> QED BY <2>1, <2>2, <3>1 DEF e
    <2>5. CASE req[w].op = "buy"
      <3>1. /\ AheadLeg(w, a) = IF pc[w] = "record" THEN v - t ELSE -t
            /\ LeastLeg(w, a) = -t
            /\ MostLeg(w, a) = IF pc[w] = "record" THEN v ELSE 0
        BY <1>2, <2>1, <2>5 DEF AheadLeg, LeastLeg, MostLeg, Signed, IsTrade
      <3>2. v \in Nat /\ v <= e
        BY <2>1, <2>5 DEF IsTrade
      <3> HIDE DEF t, v, e
      <3> QED BY <2>1, <2>2, <3>1, <3>2 DEF e
    <2>6. CASE req[w].op = "sell"
      <3>1. /\ AheadLeg(w, a) = IF pc[w] = "record" THEN t - v ELSE t
            /\ LeastLeg(w, a) = IF pc[w] = "record" THEN -v ELSE 0
            /\ MostLeg(w, a) = t
        BY <1>2, <2>1, <2>6 DEF AheadLeg, LeastLeg, MostLeg, Signed, IsTrade
      <3>2. v \in Nat /\ v <= e
        BY <2>1, <2>6 DEF IsTrade
      <3> HIDE DEF t, v, e
      <3> QED BY <2>1, <2>2, <3>1, <3>2 DEF e
    <2> QED BY <2>1, <2>3, <2>4, <2>5, <2>6
  <1> QED BY <1>1, <1>2

-----------------------------------------------------------------------------
(* What one step does to the cash, the holdings and the books of a sound account. *)

LEMMA SoundBefore ==
    ASSUME TypeOK, [Next]_vars, NEW a, Sound(a)'
    PROVE  Sound(a)
  <1>1. ASSUME NEW w \in Workers, Serve(w)
        PROVE  tainted \subseteq tainted' /\ doubled \subseteq doubled'
    BY <1>1 DEF Serve, Receive, Authenticate, CheckBalance, CheckHeld, Credit, Debit,
       LookUpPosition, AddShares, OpenPosition, ReduceShares, RecordTrade, Respond,
       StatementFails
  <1>2. CASE Crash
    BY <1>2 DEF Crash, Sound
  <1>3. ASSUME NEW b \in Batchers, BackgroundBegin(b) \/ BackgroundCommit(b)
        PROVE  tainted' = tainted /\ doubled' = doubled
    BY <1>3 DEF BackgroundBegin, BackgroundCommit, tradeVars
  <1>4. CASE UNCHANGED vars
    BY <1>4 DEF vars, tradeVars, Sound
  <1> QED BY <1>1, <1>2, <1>3, <1>4 DEF Next, Sound

LEMMA Spread ==
    ASSUME NEW x \in Int, NEW y \in Int, NEW z \in Int
    PROVE  (x + y) * z = x * z + y * z
  OBVIOUS

LEMMA HeldWorthType ==
    ASSUME NEW d \in Tables, NEW a \in Accounts
    PROVE  [s \in Stocks |-> Held(d, <<a, s>>) * PriceOf(s)] \in [Stocks -> Int]
  <1> SUFFICES ASSUME NEW s \in Stocks
               PROVE  Held(d, <<a, s>>) * PriceOf(s) \in Int
    OBVIOUS
  <1>1. Held(d, <<a, s>>) \in Int
    BY HeldType DEF Keys
  <1>2. PriceOf(s) \in Int
    BY PriceType
  <1> QED BY <1>1, <1>2

(* The statements that move shares of account a... *)
MovesShares(w, a) == (AddShares(w) \/ OpenPosition(w) \/ ReduceShares(w)) /\ Acct(w) = a

(* ... move the worth of its holdings, and no other step of a request does. *)
LEMMA HeldWorthMoves ==
    ASSUME TypeOK, TypeOK', RowsToMove, NEW w \in Workers, Serve(w),
           NEW a \in Accounts, Sound(a)', MovesShares(w, a)
    PROVE  HeldWorth(a)' = HeldWorth(a) + SignedQty(w) * PriceOf(req[w].stock)
  <1> DEFINE f == [s \in Stocks |-> Held(db, <<a, s>>) * PriceOf(s)]
             g == [s \in Stocks |-> Held(db', <<a, s>>) * PriceOf(s)]
             t == req[w].stock
  <1>1. /\ pc[w] \in {"add", "open", "reduce"} /\ IsTrade(w)
        /\ AddShares(w) \/ OpenPosition(w) \/ ReduceShares(w)
    BY DEF MovesShares, AddShares, OpenPosition, ReduceShares, TypeOK, ServiceOK, Fits,
           IsTrade
  <1>2. t \in Stocks /\ SignedQty(w) \in Int /\ Key(w) = <<a, t>>
    BY <1>1, ServingType DEF MovesShares
  <1>3. ASSUME NEW s \in Stocks
        PROVE  Held(db', <<a, s>>) = IF s = t THEN Held(db, <<a, s>>) + SignedQty(w)
                                              ELSE Held(db, <<a, s>>)
    <2>1. <<a, s>> \in Keys /\ <<a, s>> \notin doubled'
      BY DEF Keys, Sound
    <2>2. Held(db', <<a, s>>) = IF Key(w) = <<a, s>> THEN Held(db, <<a, s>>) + SignedQty(w)
                                                     ELSE Held(db, <<a, s>>)
      BY <1>1, <2>1, SharesMove
    <2> QED BY <1>2, <2>2
  <1>4. f \in [Stocks -> Int] /\ g \in [Stocks -> Int]
    BY HeldWorthType DEF TypeOK, TablesOK
  <1>5. \A s \in Stocks \ {t} : g[s] = f[s]
    BY <1>3
  <1>6. g[t] - f[t] = SignedQty(w) * PriceOf(t)
    <2>1. Held(db, <<a, t>>) \in Int /\ PriceOf(t) \in Int
      BY <1>2, HeldType, PriceType DEF Keys, TypeOK, TablesOK
    <2>2. (Held(db, <<a, t>>) + SignedQty(w)) * PriceOf(t)
            = Held(db, <<a, t>>) * PriceOf(t) + SignedQty(w) * PriceOf(t)
      BY <1>2, <2>1, Spread
    <2>3. Held(db, <<a, t>>) * PriceOf(t) \in Int /\ SignedQty(w) * PriceOf(t) \in Int
      BY <1>2, <2>1
    <2>4. /\ g[t] = (Held(db, <<a, t>>) + SignedQty(w)) * PriceOf(t)
          /\ f[t] = Held(db, <<a, t>>) * PriceOf(t)
      BY <1>2, <1>3
    <2> QED BY <2>2, <2>3, <2>4
  <1>7. HeldWorth(a) = SumFunction(f) /\ HeldWorth(a)' = SumFunction(g)
    BY DEF HeldWorth, Held
  <1> HIDE DEF f, g
  <1>8. SumFunction(g) = SumFunction(f) + (g[t] - f[t])
    BY <1>2, <1>4, <1>5, StocksAssumption, SumChange
  <1> QED BY <1>6, <1>7, <1>8

LEMMA HeldWorthStays ==
    ASSUME TypeOK, TypeOK', RowsToMove, NEW w \in Workers, Serve(w),
           NEW a \in Accounts, Sound(a)', ~MovesShares(w, a)
    PROVE  HeldWorth(a)' = HeldWorth(a)
  <1>1. ASSUME NEW s \in Stocks
        PROVE  Held(db', <<a, s>>) = Held(db, <<a, s>>)
    <2>1. CASE AddShares(w) \/ OpenPosition(w) \/ ReduceShares(w)
      <3>1. pc[w] \in {"add", "open", "reduce"} /\ IsTrade(w) /\ Acct(w) # a
        BY <2>1 DEF MovesShares, AddShares, OpenPosition, ReduceShares, TypeOK, ServiceOK,
               Fits, IsTrade
      <3>2. Key(w) # <<a, s>>
        BY <3>1 DEF Key, Acct
      <3>3. <<a, s>> \in Keys /\ <<a, s>> \notin doubled'
        BY DEF Keys, Sound
      <3> QED BY <2>1, <3>2, <3>3, SharesMove
    <2>2. CASE ~(AddShares(w) \/ OpenPosition(w) \/ ReduceShares(w))
      <3>1. db'.held = db.held
        BY <2>2, HeldStep DEF Serve
      <3> QED BY <3>1 DEF Held
    <2> QED BY <2>1, <2>2
  <1>2. [s \in Stocks |-> Held(db', <<a, s>>) * PriceOf(s)]
          = [s \in Stocks |-> Held(db, <<a, s>>) * PriceOf(s)]
    BY <1>1
  <1>3. HeldWorth(a)' = SumFunction([s \in Stocks |-> Held(db', <<a, s>>) * PriceOf(s)])
    BY DEF HeldWorth, Held
  <1> QED BY <1>2, <1>3 DEF HeldWorth

LEMMA TradedWorthType ==
    ASSUME NEW d \in Tables, NEW a \in Accounts
    PROVE  [s \in Stocks |-> d.traded[<<a, s>>] * PriceOf(s)] \in [Stocks -> Int]
  <1> SUFFICES ASSUME NEW s \in Stocks
               PROVE  d.traded[<<a, s>>] * PriceOf(s) \in Int
    OBVIOUS
  <1>1. d.traded[<<a, s>>] \in Int
    BY DEF Keys, Tables
  <1>2. PriceOf(s) \in Int
    BY PriceType
  <1> QED BY <1>1, <1>2

(* What a trade of account a adds to the books when it is recorded. *)
LEMMA TradedWorthMoves ==
    ASSUME TypeOK, TypeOK', NEW w \in Workers, RecordTrade(w), NEW a \in Accounts
    PROVE  TradedWorth(a)' = TradedWorth(a) +
             (IF Acct(w) = a THEN SignedQty(w) * PriceOf(req[w].stock) ELSE 0)
  <1> DEFINE f == [s \in Stocks |-> db.traded[<<a, s>>] * PriceOf(s)]
             g == [s \in Stocks |-> db'.traded[<<a, s>>] * PriceOf(s)]
             t == req[w].stock
  <1>1. pc[w] = "record" /\ IsTrade(w)
    BY DEF RecordTrade, TypeOK, ServiceOK, Fits, IsTrade
  <1>2. t \in Stocks /\ SignedQty(w) \in Int /\ Key(w) = <<Acct(w), t>>
    BY <1>1, ServingType
  <1>3. ASSUME NEW s \in Stocks
        PROVE  db'.traded[<<a, s>>] =
                 IF Acct(w) = a /\ s = t THEN db.traded[<<a, s>>] + SignedQty(w)
                                        ELSE db.traded[<<a, s>>]
    <2>1. <<a, s>> \in Keys
      BY DEF Keys
    <2>2. db'.traded[<<a, s>>] =
            IF Key(w) = <<a, s>> THEN db.traded[<<a, s>>] + SignedQty(w)
                                 ELSE db.traded[<<a, s>>]
      BY <2>1, RecordStep
    <2> QED BY <1>2, <2>2
  <1>4. f \in [Stocks -> Int] /\ g \in [Stocks -> Int]
    BY TradedWorthType DEF TypeOK, TablesOK
  <1>5. TradedWorth(a) = SumFunction(f) /\ TradedWorth(a)' = SumFunction(g)
    BY DEF TradedWorth
  <1>6. CASE Acct(w) # a
    <2>1. g = f
      BY <1>3, <1>6
    <2> HIDE DEF f, g
    <2>2. SumFunction(f) \in Int
      BY <1>4, StocksAssumption, SumType
    <2> QED BY <1>5, <1>6, <2>1, <2>2
  <1>7. CASE Acct(w) = a
    <2>1. \A s \in Stocks \ {t} : g[s] = f[s]
      BY <1>3
    <2>2. g[t] - f[t] = SignedQty(w) * PriceOf(t)
      <3>1. db.traded[<<a, t>>] \in Int /\ PriceOf(t) \in Int
        BY <1>2, PriceType DEF Keys, Tables, TypeOK, TablesOK
      <3>2. (db.traded[<<a, t>>] + SignedQty(w)) * PriceOf(t)
              = db.traded[<<a, t>>] * PriceOf(t) + SignedQty(w) * PriceOf(t)
        BY <1>2, <3>1, Spread
      <3>3. db.traded[<<a, t>>] * PriceOf(t) \in Int /\ SignedQty(w) * PriceOf(t) \in Int
        BY <1>2, <3>1
      <3>4. /\ g[t] = (db.traded[<<a, t>>] + SignedQty(w)) * PriceOf(t)
            /\ f[t] = db.traded[<<a, t>>] * PriceOf(t)
        BY <1>2, <1>3, <1>7
      <3> QED BY <3>2, <3>3, <3>4
    <2> HIDE DEF f, g
    <2>3. SumFunction(g) = SumFunction(f) + (g[t] - f[t])
      BY <1>2, <1>4, <2>1, StocksAssumption, SumChange
    <2> QED BY <1>5, <1>7, <2>2, <2>3
  <1> QED BY <1>6, <1>7

LEMMA WorthType ==
    ASSUME TypeOK, NEW a \in Accounts
    PROVE  /\ db.cash[a] \in Int /\ HeldWorth(a) \in Int /\ TradedWorth(a) \in Int
           /\ Booked(a) \in Int /\ wallet[a] \in Int /\ db.proceeds[a] \in Int
           /\ Booked(a) = wallet[a] + db.proceeds[a] + TradedWorth(a)
  <1>1. db \in Tables /\ wallet[a] \in Int
    BY DEF TypeOK, TablesOK, HistoryOK
  <1>2. HeldWorth(a) \in Int
    BY <1>1, HeldWorthType, StocksAssumption, SumType DEF HeldWorth
  <1>3. TradedWorth(a) \in Int
    BY <1>1, TradedWorthType, StocksAssumption, SumType DEF TradedWorth
  <1>4. Booked(a) = wallet[a] + db.proceeds[a] + TradedWorth(a)
    BY DEF Booked, TradedWorth
  <1>5. db.cash[a] \in Int /\ db.proceeds[a] \in Int
    BY <1>1 DEF Tables
  <1> QED BY <1>1, <1>2, <1>3, <1>4, <1>5

LEMMA BookedNext ==
    ASSUME NEW a
    PROVE  Booked(a)' = wallet'[a] + db'.proceeds[a] + TradedWorth(a)'
  BY DEF Booked, TradedWorth

(* What the worker's request is about to be able to make a view wrong by. *)
Start(w, a) == IF ~Moving(w, a) /\ Moving(w, a)' THEN Exposure(req[w]) ELSE 0

(***************************************************************************)
(* A step of worker w moves the cash of account a by dc, the worth of its  *)
(* shares by dh and its books by db, and the legs of w follow: those that  *)
(* count what w is ahead by follow exactly, and those that bound what the  *)
(* reader sees follow whether the reader sees the cash move or not, and    *)
(* the shares move or not.                                                 *)
(***************************************************************************)
Swings(w, a, dc, dh, dB) ==
    /\ db'.cash[a] = db.cash[a] + dc
    /\ HeldWorth(a)' = HeldWorth(a) + dh
    /\ Booked(a)' = Booked(a) + dB
    /\ AheadLeg(w, a)' - AheadLeg(w, a) = dc + dh - dB
    /\ \A x \in {0, dc}, y \in {0, dh} :
           /\ BelowLeg(w, a)' - BelowLeg(w, a) <= x + y - dB + Start(w, a)
           /\ AboveLeg(w, a)' - AboveLeg(w, a) <= Start(w, a) - (x + y - dB)

(* Nothing of the account moves. *)
LEMMA SwingNot ==
    ASSUME NaturalRequests, TypeOK, NEW w \in Workers, NEW a \in Accounts,
           db'.cash[a] = db.cash[a], HeldWorth(a)' = HeldWorth(a), Booked(a)' = Booked(a),
           AheadLeg(w, a)' = AheadLeg(w, a), BelowLeg(w, a)' = BelowLeg(w, a),
           AboveLeg(w, a)' = AboveLeg(w, a), Start(w, a) = 0
    PROVE  Swings(w, a, 0, 0, 0)
  <1>1. db.cash[a] \in Int /\ HeldWorth(a) \in Int /\ Booked(a) \in Int
    BY WorthType
  <1>2. AheadLeg(w, a) \in Int /\ BelowLeg(w, a) \in Int /\ AboveLeg(w, a) \in Int
    BY LegsLie
  <1> QED BY <1>1, <1>2 DEF Swings

LEMMA NotMoving ==
    ASSUME NEW w \in Workers, NEW a, ~Moving(w, a)
    PROVE  AheadLeg(w, a) = 0 /\ BelowLeg(w, a) = 0 /\ AboveLeg(w, a) = 0
  BY DEF AheadLeg, BelowLeg, AboveLeg, LeastLeg, MostLeg, Stake

LEMMA NotMovingNext ==
    ASSUME NEW w \in Workers, NEW a, ~Moving(w, a)'
    PROVE  AheadLeg(w, a)' = 0 /\ BelowLeg(w, a)' = 0 /\ AboveLeg(w, a)' = 0
  BY DEF AheadLeg, BelowLeg, AboveLeg, LeastLeg, MostLeg, Stake

(* The cash statement: the request starts to move. *)
LEMMA SwingPays ==
    ASSUME NaturalRequests, TypeOK, TypeOK', RowsToMove, NEW w \in Workers,
           Credit(w) \/ Debit(w), NEW a \in Accounts, Sound(a)', Acct(w) = a
    PROVE  Swings(w, a, Signed(w), 0, 0)
  <1>1. /\ pc[w] = "cash" /\ req' = req /\ Serve(w)
        /\ pc'[w] = AfterCash(req[w].op)
    BY DEF Credit, Debit, GoTo, Serve, TypeOK, ServiceOK
  <1>2. req[w] \in Request /\ req[w].op \in {"deposit", "withdraw", "buy", "sell"}
    BY <1>1, ServingType
  <1>3. /\ db'.cash = [db.cash EXCEPT ![Acct(w)] = @ + Signed(w)]
        /\ db'.proceeds = db.proceeds /\ db'.traded = db.traded /\ wallet' = wallet
    BY CashStatement
  <1>4. db'.cash[a] = db.cash[a] + Signed(w)
    BY <1>3 DEF TypeOK, TablesOK, Tables
  <1>5. HeldWorth(a)' = HeldWorth(a)
    <2>1. ~MovesShares(w, a)
      BY <1>1 DEF MovesShares, AddShares, OpenPosition, ReduceShares
    <2> QED BY <1>1, <2>1, HeldWorthStays
  <1>6. Booked(a)' = Booked(a)
    BY <1>3 DEF Booked
  <1>7. ~Moving(w, a)
    BY <1>1 DEF Moving, CashInFlight
  <1>8. pc'[w] \in {"lookup", "reduce", "ack"} /\ Moving(w, a)'
    BY <1>1, <1>2 DEF Moving, CashInFlight, AfterCash, IsTrade, Acct
  <1> DEFINE t == req[w].total
             e == Exposure(req[w])
  <1>9. Start(w, a) = e
    BY <1>7, <1>8 DEF Start
  <1>10. t \in Nat /\ e \in Nat /\ t <= e
    BY <1>2, StakeCovers
  <1>11. AheadLeg(w, a) = 0 /\ BelowLeg(w, a) = 0 /\ AboveLeg(w, a) = 0
    BY <1>7, NotMoving
  <1>12. /\ AheadLeg(w, a)' = Signed(w)
         /\ LeastLeg(w, a)' = IF req[w].op \in {"withdraw", "buy"} THEN -t ELSE 0
         /\ MostLeg(w, a)' = IF req[w].op \in {"deposit", "sell"} THEN t ELSE 0
    BY <1>1, <1>8 DEF AheadLeg, LeastLeg, MostLeg, Signed
  <1>13. /\ BelowLeg(w, a)' = LeastLeg(w, a)' + e
         /\ AboveLeg(w, a)' = e - MostLeg(w, a)'
    BY <1>1, <1>8 DEF BelowLeg, AboveLeg, Stake
  <1>14. Signed(w) = IF req[w].op \in {"deposit", "sell"} THEN t ELSE -t
    BY DEF Signed
  <1>15. db.cash[a] \in Int /\ HeldWorth(a) \in Int /\ Booked(a) \in Int
    BY WorthType
  <1>16. Signed(w) \in Int
    BY <1>1, ServingType
  <1> HIDE DEF t, e
  <1>17. \A x \in {0, Signed(w)}, y \in {0} :
           /\ BelowLeg(w, a)' - BelowLeg(w, a) <= x + y - 0 + Start(w, a)
           /\ AboveLeg(w, a)' - AboveLeg(w, a) <= Start(w, a) - (x + y - 0)
    BY <1>2, <1>9, <1>10, <1>11, <1>12, <1>13, <1>14
  <1>18. AheadLeg(w, a)' - AheadLeg(w, a) = Signed(w) + 0 - 0
    BY <1>11, <1>12, <1>16
  <1>19. HeldWorth(a)' = HeldWorth(a) + 0 /\ Booked(a)' = Booked(a) + 0
    BY <1>5, <1>6, <1>15
  <1> QED BY <1>4, <1>17, <1>18, <1>19 DEF Swings

(* The statements on positions: the shares follow the cash. *)
LEMMA SwingMoves ==
    ASSUME NaturalRequests, TypeOK, TypeOK', RowsToMove, NEW w \in Workers, Serve(w),
           NEW a \in Accounts, Sound(a)', MovesShares(w, a)
    PROVE  Swings(w, a, 0, SignedQty(w) * PriceOf(req[w].stock), 0)
  <1> DEFINE t == req[w].total
             v == SharesWorth(w)
             e == Stake(w, a)
             move == SignedQty(w) * PriceOf(req[w].stock)
  <1>1. /\ pc[w] \in {"add", "open", "reduce"} /\ req' = req /\ pc'[w] = "record"
        /\ wallet' = wallet /\ Acct(w) = a
        /\ AddShares(w) \/ OpenPosition(w) \/ ReduceShares(w)
    BY DEF MovesShares, AddShares, OpenPosition, ReduceShares, GoTo, TypeOK, ServiceOK
  <1>2. Moving(w, a) /\ Moving(w, a)'
    BY <1>1 DEF Moving, CashInFlight, Acct
  <1>3. /\ t \in Nat /\ e \in Nat /\ t <= e
        /\ IsTrade(w) => v \in Nat /\ v <= e
    BY <1>2, LegsOf
  <1>4. req[w].op \in {"buy", "sell"}
    BY <1>1 DEF TypeOK, ServiceOK, Fits
  <1>5. v \in Nat /\ v <= e
    BY <1>3, <1>4 DEF IsTrade
  <1>6. db'.cash = db.cash /\ db'.proceeds = db.proceeds /\ db'.traded = db.traded
    BY <1>1, CashStep, ProceedsStep, TradedStep
  <1>7. HeldWorth(a)' = HeldWorth(a) + move
    BY HeldWorthMoves
  <1>8. Booked(a)' = Booked(a)
    BY <1>1, <1>6 DEF Booked
  <1>9. Start(w, a) = 0
    BY <1>2 DEF Start
  <1>10. move = IF req[w].op = "buy" THEN v ELSE -v
    <2>1. req[w].qty \in Int /\ PriceOf(req[w].stock) \in Int
      BY <1>1, <1>4, ServingType, PriceType DEF IsTrade
    <2>2. (-req[w].qty) * PriceOf(req[w].stock) = -(req[w].qty * PriceOf(req[w].stock))
      BY <2>1
    <2> QED BY <2>2 DEF SignedQty, SharesWorth
  <1>11. /\ AheadLeg(w, a) = IF req[w].op = "buy" THEN -t ELSE t
         /\ LeastLeg(w, a) = IF req[w].op = "buy" THEN -t ELSE 0
         /\ MostLeg(w, a) = IF req[w].op = "buy" THEN 0 ELSE t
    BY <1>1, <1>2, <1>4 DEF AheadLeg, LeastLeg, MostLeg, Signed
  <1>12. /\ AheadLeg(w, a)' = IF req[w].op = "buy" THEN v - t ELSE t - v
         /\ LeastLeg(w, a)' = IF req[w].op = "buy" THEN -t ELSE -v
         /\ MostLeg(w, a)' = IF req[w].op = "buy" THEN v ELSE t
    BY <1>1, <1>2, <1>4 DEF AheadLeg, LeastLeg, MostLeg, Signed, SharesWorth
  <1>13. /\ BelowLeg(w, a) = LeastLeg(w, a) + e /\ AboveLeg(w, a) = e - MostLeg(w, a)
         /\ BelowLeg(w, a)' = LeastLeg(w, a)' + e /\ AboveLeg(w, a)' = e - MostLeg(w, a)'
    <2>1. Stake(w, a)' = e
      BY <1>1, <1>2 DEF Stake
    <2> QED BY <2>1 DEF BelowLeg, AboveLeg
  <1>14. db.cash[a] \in Int /\ HeldWorth(a) \in Int /\ Booked(a) \in Int
    BY WorthType
  <1> HIDE DEF t, v, e, move
  <1>15. \A x \in {0}, y \in {0, move} :
           /\ BelowLeg(w, a)' - BelowLeg(w, a) <= x + y - 0 + Start(w, a)
           /\ AboveLeg(w, a)' - AboveLeg(w, a) <= Start(w, a) - (x + y - 0)
    BY <1>3, <1>4, <1>5, <1>9, <1>10, <1>11, <1>12, <1>13
  <1>16. AheadLeg(w, a)' - AheadLeg(w, a) = 0 + move - 0
    BY <1>3, <1>4, <1>5, <1>10, <1>11, <1>12
  <1>17. db'.cash[a] = db.cash[a] + 0 /\ Booked(a)' = Booked(a) + 0
    BY <1>6, <1>8, <1>14
  <1> QED BY <1>7, <1>15, <1>16, <1>17 DEF Swings, move

(* The record of the trade, or the answer to the client: the books follow. *)
LEMMA SwingBooks ==
    ASSUME NaturalRequests, TypeOK, TypeOK', RowsToMove, NEW w \in Workers,
           NEW a \in Accounts, Sound(a)', Acct(w) = a,
           RecordTrade(w) \/ (Respond(w) /\ ~IsTrade(w))
    PROVE  Swings(w, a, 0, 0, AheadLeg(w, a))
  <1>1. Serve(w) /\ ~MovesShares(w, a)
    BY DEF Serve, MovesShares, RecordTrade, Respond, AddShares, OpenPosition, ReduceShares
  <1>2. Moving(w, a) /\ ~Moving(w, a)'
    <2>1. CASE RecordTrade(w)
      BY <2>1 DEF RecordTrade, GoTo, Moving, CashInFlight, IsTrade, TypeOK, ServiceOK, Fits
    <2>2. CASE Respond(w) /\ ~IsTrade(w)
      BY <2>2 DEF Respond, Return, Moving, CashInFlight, TypeOK, ServiceOK
    <2> QED BY <2>1, <2>2
  <1>3. db'.cash = db.cash
    BY CashStep
  <1>4. HeldWorth(a)' = HeldWorth(a)
    BY <1>1, HeldWorthStays
  <1>5. /\ db.cash[a] \in Int /\ HeldWorth(a) \in Int /\ TradedWorth(a) \in Int
        /\ Booked(a) \in Int /\ wallet[a] \in Int /\ db.proceeds[a] \in Int
        /\ Booked(a) = wallet[a] + db.proceeds[a] + TradedWorth(a)
    BY WorthType
  <1>6. pc[w] # "idle" /\ Signed(w) \in Int /\ req[w].op \in {"deposit", "withdraw", "buy", "sell"}
    <2>1. pc[w] # "idle"
      BY DEF RecordTrade, Respond
    <2> QED BY <2>1, ServingType
  <1>7. Booked(a)' = Booked(a) + AheadLeg(w, a)
    <2>1. CASE RecordTrade(w)
      <3>1. pc[w] = "record" /\ wallet' = wallet /\ IsTrade(w)
        BY <2>1 DEF RecordTrade, TypeOK, ServiceOK, Fits, IsTrade
      <3>2. Key(w) \in Keys /\ Key(w)[1] = a /\ SignedQty(w) \in Int
            /\ req[w].qty \in Int /\ PriceOf(req[w].stock) \in Int
        BY <1>6, <3>1, ServingType, PriceType
      <3>3. db'.proceeds[a] = db.proceeds[a] + Signed(w)
        <4>1. db \in Tables
          BY DEF TypeOK, TablesOK
        <4>2. db' = AddTrade(db, Key(w), Signed(w), SignedQty(w))
          BY <2>1 DEF RecordTrade, Exec
        <4>3. db'.proceeds = [db.proceeds EXCEPT ![a] = @ + Signed(w)]
          BY <1>6, <3>2, <4>1, <4>2, AddTradeProceeds
        <4> QED BY <4>1, <4>3 DEF Tables
      <3>4. TradedWorth(a)' = TradedWorth(a) + SignedQty(w) * PriceOf(req[w].stock)
        BY <2>1, TradedWorthMoves
      <3>5. SignedQty(w) * PriceOf(req[w].stock)
              = IF req[w].op = "buy" THEN SharesWorth(w) ELSE -SharesWorth(w)
        <4>1. (-req[w].qty) * PriceOf(req[w].stock) = -(req[w].qty * PriceOf(req[w].stock))
          BY <3>2
        <4> QED BY <4>1 DEF SignedQty, SharesWorth
      <3>6. SharesWorth(w) \in Int
        BY <3>2 DEF SharesWorth
      <3>7. AheadLeg(w, a) = Signed(w) + (IF req[w].op = "buy" THEN SharesWorth(w)
                                                              ELSE -SharesWorth(w))
        <4>1. req[w].total \in Int
          BY <1>6, ServingType
        <4> QED BY <1>2, <3>1, <3>6, <4>1 DEF AheadLeg, Signed, IsTrade
      <3> QED BY <1>5, <1>6, <3>1, <3>3, <3>4, <3>5, <3>6, <3>7, BookedNext
    <2>2. CASE Respond(w) /\ ~IsTrade(w)
      <3>1. db' = db /\ pc[w] = "ack" /\ wallet' = [wallet EXCEPT ![a] = @ + Signed(w)]
        BY <2>2 DEF Respond, connVars
      <3>2. wallet'[a] = wallet[a] + Signed(w)
        BY <3>1 DEF TypeOK, HistoryOK
      <3>3. TradedWorth(a)' = TradedWorth(a)
        BY <3>1 DEF TradedWorth
      <3>4. AheadLeg(w, a) = Signed(w)
        BY <1>2, <3>1 DEF AheadLeg
      <3> QED BY <1>5, <1>6, <3>1, <3>2, <3>3, <3>4, BookedNext
    <2> QED BY <2>1, <2>2
  <1>8. AheadLeg(w, a)' = 0 /\ BelowLeg(w, a)' = 0 /\ AboveLeg(w, a)' = 0
    BY <1>2, NotMovingNext
  <1>9. Start(w, a) = 0
    BY <1>2 DEF Start
  <1>10. /\ AheadLeg(w, a) \in Int /\ BelowLeg(w, a) \in Int /\ AboveLeg(w, a) \in Int
         /\ AheadLeg(w, a) <= BelowLeg(w, a) /\ -AheadLeg(w, a) <= AboveLeg(w, a)
    BY LegsLie
  <1> QED BY <1>3, <1>4, <1>5, <1>7, <1>8, <1>9, <1>10 DEF Swings

(* Every step of a request is one of these. *)
LEMMA Swing ==
    ASSUME NaturalRequests, TypeOK, TypeOK', RowsToMove, NEW w \in Workers, Serve(w),
           NEW a \in Accounts, Sound(a)'
    PROVE  \E dc, dh, dB \in Int : Swings(w, a, dc, dh, dB)
  <1>1. CASE \/ Receive(w) \/ Authenticate(w) \/ CheckBalance(w) \/ CheckHeld(w)
             \/ (Respond(w) /\ IsTrade(w))
    <2>1. /\ db' = db /\ wallet' = wallet
          /\ ~CashInFlight(w) /\ ~CashInFlight(w)'
      BY <1>1 DEF Receive, Authenticate, CheckBalance, CheckHeld, Respond, GoTo, Return,
                  connVars, CashInFlight, TypeOK, ServiceOK
    <2>2. ~Moving(w, a) /\ ~Moving(w, a)'
      BY <2>1 DEF Moving
    <2>3. /\ AheadLeg(w, a)' = AheadLeg(w, a) /\ BelowLeg(w, a)' = BelowLeg(w, a)
          /\ AboveLeg(w, a)' = AboveLeg(w, a) /\ Start(w, a) = 0
      BY <2>2, NotMoving, NotMovingNext DEF Start
    <2>4. HeldWorth(a)' = HeldWorth(a) /\ Booked(a)' = Booked(a)
      BY <2>1 DEF HeldWorth, Held, Booked
    <2> QED BY <2>1, <2>3, <2>4, SwingNot
  <1>2. CASE LookUpPosition(w)
    <2>1. /\ db' = db /\ wallet' = wallet /\ pc[w] = "lookup" /\ req' = req
          /\ pc'[w] \in {"add", "open"}
      BY <1>2 DEF LookUpPosition, GoTo, connVars, TypeOK, ServiceOK
    <2>2. CashInFlight(w) /\ CashInFlight(w)'
      BY <2>1 DEF CashInFlight
    <2>3. Moving(w, a)' = Moving(w, a)
      BY <2>1, <2>2 DEF Moving, Acct
    <2>4. /\ AheadLeg(w, a)' = AheadLeg(w, a) /\ BelowLeg(w, a)' = BelowLeg(w, a)
          /\ AboveLeg(w, a)' = AboveLeg(w, a) /\ Start(w, a) = 0
      BY <2>1, <2>3 DEF AheadLeg, BelowLeg, AboveLeg, LeastLeg, MostLeg, Stake, Start,
                        Signed
    <2>5. HeldWorth(a)' = HeldWorth(a) /\ Booked(a)' = Booked(a)
      BY <2>1 DEF HeldWorth, Held, Booked
    <2> QED BY <2>1, <2>4, <2>5, SwingNot
  <1>3. CASE (Credit(w) \/ Debit(w)) /\ Acct(w) = a
    <2>1. Signed(w) \in Int
      BY <1>3, ServingType DEF Credit, Debit
    <2> QED BY <1>3, <2>1, SwingPays
  <1>4. CASE MovesShares(w, a)
    <2>1. SignedQty(w) \in Int /\ PriceOf(req[w].stock) \in Int
      BY <1>4, ServingType, PriceType DEF MovesShares, AddShares, OpenPosition,
         ReduceShares, TypeOK, ServiceOK, Fits, IsTrade
    <2>2. SignedQty(w) * PriceOf(req[w].stock) \in Int
      BY <2>1
    <2> QED BY <1>4, <2>2, SwingMoves
  <1>5. CASE (RecordTrade(w) \/ (Respond(w) /\ ~IsTrade(w))) /\ Acct(w) = a
    BY <1>5, SwingBooks, LegsLie
  <1>6. CASE /\ Acct(w) # a
             /\ \/ Credit(w) \/ Debit(w) \/ AddShares(w) \/ OpenPosition(w)
                \/ ReduceShares(w) \/ RecordTrade(w) \/ (Respond(w) /\ ~IsTrade(w))
    <2>1. ~Moving(w, a) /\ ~Moving(w, a)'
      <3>1. req' = req \/ ~CashInFlight(w)'
        BY <1>6 DEF Credit, Debit, AddShares, OpenPosition, ReduceShares, RecordTrade,
           Respond, GoTo, Return, CashInFlight, TypeOK, ServiceOK
      <3> QED BY <1>6, <3>1 DEF Moving, Acct
    <2>2. /\ AheadLeg(w, a)' = AheadLeg(w, a) /\ BelowLeg(w, a)' = BelowLeg(w, a)
          /\ AboveLeg(w, a)' = AboveLeg(w, a) /\ Start(w, a) = 0
      BY <2>1, NotMoving, NotMovingNext DEF Start
    <2>3. HeldWorth(a)' = HeldWorth(a)
      BY <1>6, HeldWorthStays DEF MovesShares
    <2>4. db'.cash[a] = db.cash[a] /\ Booked(a)' = Booked(a)
      <3>0. db \in Tables /\ Acct(w) \in Accounts /\ Signed(w) \in Int
        <4>1. pc[w] # "idle"
          BY <1>6 DEF Credit, Debit, AddShares, OpenPosition, ReduceShares, RecordTrade, Respond
        <4> QED BY <4>1, ServingType DEF TypeOK, TablesOK
      <3>1. CASE Credit(w) \/ Debit(w)
        <4>1. /\ db'.cash = [db.cash EXCEPT ![Acct(w)] = @ + Signed(w)]
              /\ db'.proceeds = db.proceeds /\ db'.traded = db.traded /\ wallet' = wallet
          BY <3>1, CashStatement
        <4> QED BY <1>6, <3>0, <4>1 DEF Booked, Tables
      <3>2. CASE AddShares(w) \/ OpenPosition(w) \/ ReduceShares(w)
        <4>1. db'.cash = db.cash /\ db'.proceeds = db.proceeds /\ db'.traded = db.traded
          BY <3>2, CashStep, ProceedsStep, TradedStep
        <4>2. wallet' = wallet
          BY <3>2 DEF AddShares, OpenPosition, ReduceShares
        <4> QED BY <4>1, <4>2 DEF Booked
      <3>3. CASE RecordTrade(w)
        <4>1. db'.cash = db.cash
          BY <3>3, CashStep
        <4>2. wallet' = wallet /\ pc[w] = "record" /\ IsTrade(w)
          BY <3>3 DEF RecordTrade, TypeOK, ServiceOK, Fits, IsTrade
        <4>3. Key(w) \in Keys /\ Key(w)[1] = Acct(w) /\ SignedQty(w) \in Int
          BY <4>2, ServingType
        <4>4. db'.proceeds[a] = db.proceeds[a]
          <5>1. db' = AddTrade(db, Key(w), Signed(w), SignedQty(w))
            BY <3>3 DEF RecordTrade, Exec
          <5>2. db'.proceeds = [db.proceeds EXCEPT ![Acct(w)] = @ + Signed(w)]
            BY <3>0, <4>3, <5>1, AddTradeProceeds
          <5> QED BY <1>6, <3>0, <5>2 DEF Tables
        <4>5. TradedWorth(a)' = TradedWorth(a) + 0
          BY <1>6, <3>3, TradedWorthMoves
        <4>6. /\ TradedWorth(a) \in Int /\ Booked(a) = wallet[a] + db.proceeds[a] + TradedWorth(a)
          BY WorthType
        <4> QED BY <4>1, <4>2, <4>4, <4>5, <4>6, BookedNext
      <3>4. CASE Respond(w) /\ ~IsTrade(w)
        <4>1. db' = db /\ wallet' = [wallet EXCEPT ![Acct(w)] = @ + Signed(w)]
          BY <3>4 DEF Respond, connVars
        <4>2. wallet'[a] = wallet[a]
          BY <1>6, <4>1 DEF TypeOK, HistoryOK
        <4> QED BY <4>1, <4>2 DEF Booked
      <3> QED BY <1>6, <3>1, <3>2, <3>3, <3>4
    <2> QED BY <2>2, <2>3, <2>4, SwingNot
  <1>7. CASE StatementFails(w)
    <2>1. /\ db' = db /\ wallet' = wallet /\ tainted' = tainted \cup FaultTaint(w)
          /\ pc[w] \in {"cash", "add", "open", "reduce", "record"}
      BY <1>7 DEF StatementFails, connVars
    <2>2. ~Moving(w, a) /\ ~Moving(w, a)'
      <3>1. CASE pc[w] = "cash" /\ ~IsTrade(w)
        <4>1. pc'[w] = "idle"
          BY <1>7, <3>1 DEF StatementFails, Return, TypeOK, ServiceOK
        <4> QED BY <3>1, <4>1 DEF Moving, CashInFlight
      <3>2. CASE ~(pc[w] = "cash" /\ ~IsTrade(w))
        <4>1. req' = req
          BY <1>7, <3>2 DEF StatementFails, GoTo
        <4>2. Acct(w) # a
          <5>1. CASE pc[w] \in {"cash", "record"}
            <6>1. Acct(w) \in FaultTaint(w)
              BY <3>2, <5>1 DEF FaultTaint
            <6> QED BY <2>1, <6>1 DEF Sound
          <5>2. CASE pc[w] \in {"add", "open", "reduce"}
            <6>1. Key(w) \in tainted' /\ IsTrade(w)
              BY <2>1, <5>2 DEF FaultTaint, TypeOK, ServiceOK, Fits, IsTrade
            <6>2. req[w].stock \in Stocks /\ Key(w) = <<Acct(w), req[w].stock>>
              BY <5>2, <6>1, ServingType
            <6> QED BY <6>1, <6>2 DEF Sound
          <5> QED BY <2>1, <5>1, <5>2
        <4> QED BY <4>1, <4>2 DEF Moving, Acct
      <3> QED BY <3>1, <3>2
    <2>3. /\ AheadLeg(w, a)' = AheadLeg(w, a) /\ BelowLeg(w, a)' = BelowLeg(w, a)
          /\ AboveLeg(w, a)' = AboveLeg(w, a) /\ Start(w, a) = 0
      BY <2>2, NotMoving, NotMovingNext DEF Start
    <2>4. HeldWorth(a)' = HeldWorth(a) /\ Booked(a)' = Booked(a)
      BY <2>1 DEF HeldWorth, Held, Booked
    <2> QED BY <2>1, <2>3, <2>4, SwingNot
  <1> QED BY <1>1, <1>2, <1>3, <1>4, <1>5, <1>6, <1>7 DEF Serve, MovesShares

-----------------------------------------------------------------------------
(* The sums over the workers. *)

LegsTypedFor(a) ==
    /\ [w \in Workers |-> AheadLeg(w, a)] \in [Workers -> Int]
    /\ [w \in Workers |-> BelowLeg(w, a)] \in [Workers -> Int]
    /\ [w \in Workers |-> AboveLeg(w, a)] \in [Workers -> Int]

AllLegsTyped == \A a \in Accounts : LegsTypedFor(a)

LEMMA AllLegs ==
    ASSUME NaturalRequests
    PROVE  TypeOK => AllLegsTyped
  BY LegsLie DEF AllLegsTyped, LegsTypedFor

LEMMA AllLegsNext ==
    ASSUME NaturalRequests
    PROVE  TypeOK' => AllLegsTyped'
  BY AllLegs, PTL

LEMMA SumsTyped ==
    ASSUME NaturalRequests, TypeOK, NEW a \in Accounts
    PROVE  Ahead(a) \in Int /\ Below(a) \in Int /\ Above(a) \in Int
  <1>1. LegsTypedFor(a)
    BY AllLegs DEF AllLegsTyped
  <1> QED BY <1>1, SumType, WorkersAssumption DEF LegsTypedFor, Ahead, Below, Above

(* A step of worker w changes its legs only. *)
LEMMA SumsFollow ==
    ASSUME NaturalRequests, TypeOK, TypeOK', NEW w \in Workers, Serve(w), NEW a \in Accounts
    PROVE  /\ Ahead(a)' = Ahead(a) + (AheadLeg(w, a)' - AheadLeg(w, a))
           /\ Below(a)' = Below(a) + (BelowLeg(w, a)' - BelowLeg(w, a))
           /\ Above(a)' = Above(a) + (AboveLeg(w, a)' - AboveLeg(w, a))
           /\ SumFunction([v \in Workers |-> Start(v, a)]) = Start(w, a)
  <1> DEFINE ahead == [v \in Workers |-> AheadLeg(v, a)]
             aheadN == [v \in Workers |-> AheadLeg(v, a)']
             below == [v \in Workers |-> BelowLeg(v, a)]
             belowN == [v \in Workers |-> BelowLeg(v, a)']
             above == [v \in Workers |-> AboveLeg(v, a)]
             aboveN == [v \in Workers |-> AboveLeg(v, a)']
             start == [v \in Workers |-> Start(v, a)]
  <1>1. ASSUME NEW v \in Workers \ {w}
        PROVE  /\ AheadLeg(v, a)' = AheadLeg(v, a) /\ BelowLeg(v, a)' = BelowLeg(v, a)
               /\ AboveLeg(v, a)' = AboveLeg(v, a) /\ Start(v, a) = 0
    <2>1. pc'[v] = pc[v] /\ req'[v] = req[v]
      BY OthersStay
    <2>2. CashInFlight(v)' = CashInFlight(v)
      BY <2>1 DEF CashInFlight, IsTrade
    <2>3. Moving(v, a)' = Moving(v, a)
      BY <2>1, <2>2 DEF Moving, Acct
    <2> QED BY <2>1, <2>3 DEF AheadLeg, BelowLeg, AboveLeg, LeastLeg, MostLeg, Stake, Start,
                           Signed, SharesWorth
  <1>2. ahead \in [Workers -> Int] /\ below \in [Workers -> Int] /\ above \in [Workers -> Int]
    BY AllLegs DEF AllLegsTyped, LegsTypedFor
  <1>3. aheadN \in [Workers -> Int] /\ belowN \in [Workers -> Int] /\ aboveN \in [Workers -> Int]
    BY AllLegsNext DEF AllLegsTyped, LegsTypedFor
  <1>4. start \in [Workers -> Int] /\ start[w] = Start(w, a)
    <2>1. Start(w, a) \in Int
      <3>1. CASE Moving(w, a)'
        <4>1. [Next]_vars
          BY DEF Next
        <4>2. pc[w] # "idle"
          BY <3>1, <4>1, IdleFirst DEF Moving
        <4> QED BY <4>2, ServingType, ExposureType DEF Start
      <3>2. CASE ~Moving(w, a)'
        BY <3>2 DEF Start
      <3> QED BY <3>1, <3>2
    <2> QED BY <1>1, <2>1
  <1>5. /\ Ahead(a) = SumFunction(ahead) /\ Ahead(a)' = SumFunction(aheadN)
        /\ Below(a) = SumFunction(below) /\ Below(a)' = SumFunction(belowN)
        /\ Above(a) = SumFunction(above) /\ Above(a)' = SumFunction(aboveN)
    BY DEF Ahead, Below, Above
  <1>6. \A v \in Workers \ {w} : /\ aheadN[v] = ahead[v] /\ belowN[v] = below[v]
                                 /\ aboveN[v] = above[v] /\ start[v] = 0
    BY <1>1
  <1>7. /\ ahead[w] = AheadLeg(w, a) /\ aheadN[w] = AheadLeg(w, a)'
        /\ below[w] = BelowLeg(w, a) /\ belowN[w] = BelowLeg(w, a)'
        /\ above[w] = AboveLeg(w, a) /\ aboveN[w] = AboveLeg(w, a)'
    OBVIOUS
  <1> HIDE DEF ahead, aheadN, below, belowN, above, aboveN, start
  <1>8. SumFunction(aheadN) = SumFunction(ahead) + (aheadN[w] - ahead[w])
    BY <1>2, <1>3, <1>6, SumChange, WorkersAssumption
  <1>9. SumFunction(belowN) = SumFunction(below) + (belowN[w] - below[w])
    BY <1>2, <1>3, <1>6, SumChange, WorkersAssumption
  <1>10. SumFunction(aboveN) = SumFunction(above) + (aboveN[w] - above[w])
    BY <1>2, <1>3, <1>6, SumChange, WorkersAssumption
  <1>11. SumFunction(start) = Start(w, a)
    BY <1>4, <1>6, SumSingle, WorkersAssumption
  <1> QED BY <1>5, <1>7, <1>8, <1>9, <1>10, <1>11 DEF start

-----------------------------------------------------------------------------
(***************************************************************************)
(* The account itself: its cash and its holdings are ahead of the books by *)
(* what the requests under way have moved.                                 *)
(***************************************************************************)
WorthInv ==
    \A a \in Accounts :
        Sound(a) => db.cash[a] + HeldWorth(a) - Booked(a) = Ahead(a)

(* A crash leaves a sound account as it was, and nobody was moving it. *)
LEMMA CrashSpares ==
    ASSUME TypeOK, Crash, NEW a \in Accounts, Sound(a)'
    PROVE  /\ db'.cash[a] = db.cash[a] /\ HeldWorth(a)' = HeldWorth(a)
           /\ Booked(a)' = Booked(a)
           /\ Ahead(a) = 0 /\ Ahead(a)' = 0
  <1>1. /\ tainted' = tainted \cup Torn \cup Unsaved /\ db' = disk /\ wallet' = wallet
        /\ \A w \in Workers : pc'[w] = "idle"
    BY DEF Crash, Recover
  <1>2. a \notin Torn \cup Unsaved /\ \A s \in Stocks : <<a, s>> \notin Torn \cup Unsaved
    BY <1>1 DEF Sound
  <1>3. disk.cash[a] = db.cash[a] /\ disk.proceeds[a] = db.proceeds[a]
    BY <1>2 DEF Unsaved
  <1>4. ASSUME NEW s \in Stocks
        PROVE  /\ Held(disk, <<a, s>>) = Held(db, <<a, s>>)
               /\ disk.traded[<<a, s>>] = db.traded[<<a, s>>]
    <2>1. <<a, s>> \in Keys
      BY DEF Keys
    <2> DEFINE k == <<a, s>>
    <2>2. k \in Keys /\ k \notin Unsaved
      BY <1>2, <2>1
    <2> HIDE DEF k
    <2>3. disk.held[k] = db.held[k] /\ disk.traded[k] = db.traded[k]
      BY <2>2 DEF Unsaved
    <2> QED BY <2>3 DEF Held, k
  <1>5. HeldWorth(a)' = HeldWorth(a)
    <2>1. [s \in Stocks |-> Held(disk, <<a, s>>) * PriceOf(s)]
            = [s \in Stocks |-> Held(db, <<a, s>>) * PriceOf(s)]
      BY <1>4
    <2>2. HeldWorth(a)' = SumFunction([s \in Stocks |-> Held(disk, <<a, s>>) * PriceOf(s)])
      BY <1>1 DEF HeldWorth, Held
    <2> QED BY <2>1, <2>2 DEF HeldWorth
  <1>6. TradedWorth(a)' = TradedWorth(a)
    <2>1. [s \in Stocks |-> disk.traded[<<a, s>>] * PriceOf(s)]
            = [s \in Stocks |-> db.traded[<<a, s>>] * PriceOf(s)]
      BY <1>4
    <2> QED BY <1>1, <2>1 DEF TradedWorth
  <1>7. Booked(a)' = Booked(a)
    <2>1. Booked(a) = wallet[a] + db.proceeds[a] + TradedWorth(a)
      BY WorthType
    <2> QED BY <1>1, <1>3, <1>6, <2>1, BookedNext
  <1>8. ASSUME NEW w \in Workers
        PROVE  AheadLeg(w, a) = 0 /\ AheadLeg(w, a)' = 0
    <2>1. ~Moving(w, a)
      BY <1>2 DEF Moving, Torn
    <2>2. ~Moving(w, a)'
      BY <1>1 DEF Moving, CashInFlight
    <2> QED BY <2>1, <2>2, NotMoving, NotMovingNext
  <1>9. Ahead(a) = 0
    <2> DEFINE f == [w \in Workers |-> AheadLeg(w, a)]
    <2>1. f \in [Workers -> Int] /\ \A w \in Workers : f[w] = 0
      BY <1>8
    <2> HIDE DEF f
    <2>2. SumFunction(f) = 0
      BY <2>1, SumZero, WorkersAssumption
    <2> QED BY <2>2 DEF Ahead, f
  <1>10. Ahead(a)' = 0
    <2> DEFINE f == [w \in Workers |-> AheadLeg(w, a)']
    <2>1. f \in [Workers -> Int] /\ \A w \in Workers : f[w] = 0
      BY <1>8
    <2>2. Ahead(a)' = SumFunction(f)
      BY DEF Ahead
    <2> HIDE DEF f
    <2>3. SumFunction(f) = 0
      BY <2>1, SumZero, WorkersAssumption
    <2> QED BY <2>2, <2>3
  <1> QED BY <1>1, <1>3, <1>5, <1>7, <1>9, <1>10

(* A step that touches neither the tables nor a request. *)
LEMMA NothingMoves ==
    ASSUME db' = db, wallet' = wallet, pc' = pc, req' = req, NEW a
    PROVE  /\ db'.cash[a] = db.cash[a] /\ HeldWorth(a)' = HeldWorth(a)
           /\ Booked(a)' = Booked(a)
           /\ Ahead(a)' = Ahead(a) /\ Below(a)' = Below(a) /\ Above(a)' = Above(a)
           /\ \A w \in Workers : Start(w, a) = 0
  <1>1. HeldWorth(a)' = HeldWorth(a) /\ Booked(a)' = Booked(a)
    BY DEF HeldWorth, Booked, Held
  <1>2. \A w \in Workers : Moving(w, a)' = Moving(w, a)
    BY DEF Moving, CashInFlight, IsTrade, Acct
  <1>3. \A w \in Workers :
          /\ AheadLeg(w, a)' = AheadLeg(w, a) /\ BelowLeg(w, a)' = BelowLeg(w, a)
          /\ AboveLeg(w, a)' = AboveLeg(w, a) /\ Start(w, a) = 0
    BY <1>2 DEF AheadLeg, BelowLeg, AboveLeg, LeastLeg, MostLeg, Stake, Start, Signed,
                SharesWorth
  <1>4. Ahead(a)' = Ahead(a) /\ Below(a)' = Below(a) /\ Above(a)' = Above(a)
    <2>1. /\ Ahead(a)' = SumFunction([w \in Workers |-> AheadLeg(w, a)'])
          /\ Below(a)' = SumFunction([w \in Workers |-> BelowLeg(w, a)'])
          /\ Above(a)' = SumFunction([w \in Workers |-> AboveLeg(w, a)'])
      BY DEF Ahead, Below, Above
    <2>2. /\ [w \in Workers |-> AheadLeg(w, a)'] = [w \in Workers |-> AheadLeg(w, a)]
          /\ [w \in Workers |-> BelowLeg(w, a)'] = [w \in Workers |-> BelowLeg(w, a)]
          /\ [w \in Workers |-> AboveLeg(w, a)'] = [w \in Workers |-> AboveLeg(w, a)]
      BY <1>3
    <2> QED BY <2>1, <2>2 DEF Ahead, Below, Above
  <1> QED BY <1>1, <1>3, <1>4

LEMMA WorthInit == Init => WorthInv
  <1> SUFFICES ASSUME Init, NEW a \in Accounts
               PROVE  db.cash[a] + HeldWorth(a) - Booked(a) = Ahead(a)
    BY DEF WorthInv
  <1>1. TypeOK
    BY TypeInit
  <1>2. /\ db.cash[a] = OpeningCash /\ wallet[a] = OpeningCash /\ db.proceeds[a] = 0
        /\ \A w \in Workers : pc[w] = "idle"
    BY DEF Init, ConnInit
  <1>3. ASSUME NEW s \in Stocks
        PROVE  Held(db, <<a, s>>) = db.traded[<<a, s>>]
    <2>1. <<a, s>> \in Keys
      BY DEF Keys
    <2>2. ASSUME NEW k \in Keys
          PROVE  Held(db, k) = db.traded[k]
      <3>0. PICK owned \in SUBSET Keys :
              db = [cash     |-> [b \in Accounts |-> OpeningCash],
                    held     |-> [j \in Keys |-> IF j \in owned THEN <<OpeningShares>>
                                                                 ELSE <<>>],
                    proceeds |-> [b \in Accounts |-> 0],
                    traded   |-> [j \in Keys |-> IF j \in owned THEN OpeningShares ELSE 0]]
        BY DEF Init, ConnInit
      <3>1. /\ db.held[k] = IF k \in owned THEN <<OpeningShares>> ELSE <<>>
            /\ db.traded[k] = IF k \in owned THEN OpeningShares ELSE 0
        BY <3>0
      <3>2. CASE k \in owned
        <4>1. <<OpeningShares>> # <<>> /\ <<OpeningShares>>[1] = OpeningShares
          OBVIOUS
        <4> QED BY <3>1, <3>2, <4>1 DEF Held
      <3>3. CASE k \notin owned
        BY <3>1, <3>3 DEF Held
      <3> QED BY <3>2, <3>3
    <2> QED BY <2>1, <2>2
  <1>4. HeldWorth(a) = TradedWorth(a)
    <2>1. [s \in Stocks |-> Held(db, <<a, s>>) * PriceOf(s)]
            = [s \in Stocks |-> db.traded[<<a, s>>] * PriceOf(s)]
      BY <1>3
    <2> QED BY <2>1 DEF HeldWorth, TradedWorth
  <1>5. Ahead(a) = 0
    <2> DEFINE f == [w \in Workers |-> AheadLeg(w, a)]
    <2>1. \A w \in Workers : ~Moving(w, a)
      BY <1>2 DEF Moving, CashInFlight
    <2>2. f \in [Workers -> Int] /\ \A w \in Workers : f[w] = 0
      BY <2>1, NotMoving
    <2> HIDE DEF f
    <2>3. SumFunction(f) = 0
      BY <2>2, SumZero, WorkersAssumption
    <2> QED BY <2>3 DEF Ahead, f
  <1>6. /\ TradedWorth(a) \in Int /\ Booked(a) = wallet[a] + db.proceeds[a] + TradedWorth(a)
    BY <1>1, WorthType
  <1> QED BY <1>2, <1>4, <1>5, <1>6, OpeningAssumption

LEMMA WorthStep ==
    NaturalRequests /\ TypeOK /\ TypeOK' /\ RowsToMove /\ WorthInv /\ [Next]_vars => WorthInv'
  <1> SUFFICES ASSUME NaturalRequests, TypeOK, TypeOK', RowsToMove, WorthInv, [Next]_vars,
                      NEW a \in Accounts, Sound(a)'
               PROVE  db'.cash[a] + HeldWorth(a)' - Booked(a)' = Ahead(a)'
    BY DEF WorthInv
  <1>1. db.cash[a] + HeldWorth(a) - Booked(a) = Ahead(a)
    BY SoundBefore DEF WorthInv
  <1>2. /\ db.cash[a] \in Int /\ HeldWorth(a) \in Int /\ Booked(a) \in Int
        /\ Ahead(a) \in Int
    BY WorthType, SumsTyped
  <1>3. ASSUME NEW w \in Workers, Serve(w)
        PROVE  db'.cash[a] + HeldWorth(a)' - Booked(a)' = Ahead(a)'
    <2>1. PICK dc \in Int, dh \in Int, dB \in Int : Swings(w, a, dc, dh, dB)
      BY <1>3, Swing
    <2>2. Ahead(a)' = Ahead(a) + (AheadLeg(w, a)' - AheadLeg(w, a))
      BY <1>3, SumsFollow
    <2> QED BY <1>1, <1>2, <2>1, <2>2 DEF Swings
  <1>4. CASE Crash
    BY <1>1, <1>4, CrashSpares
  <1>5. ASSUME NEW b \in Batchers, BackgroundBegin(b) \/ BackgroundCommit(b)
        PROVE  db'.cash[a] + HeldWorth(a)' - Booked(a)' = Ahead(a)'
    <2>1. db' = db /\ wallet' = wallet /\ pc' = pc /\ req' = req
      BY <1>5 DEF BackgroundBegin, BeginBatch, BackgroundCommit, CommitBatch, tradeVars
    <2> QED BY <1>1, <2>1, NothingMoves
  <1>6. CASE UNCHANGED vars
    <2>1. db' = db /\ wallet' = wallet /\ pc' = pc /\ req' = req
      BY <1>6 DEF vars, connVars, tradeVars
    <2> QED BY <1>1, <2>1, NothingMoves
  <1> QED BY <1>3, <1>4, <1>5, <1>6 DEF Next

-----------------------------------------------------------------------------
(***************************************************************************)
(* The reader: what it has read of the account and what it would still     *)
(* read if nothing moved any more.                                         *)
(***************************************************************************)
CashRead == IF stage = "cash" THEN db.cash[viewed] ELSE total

RowsLeft == SumFunction([r \in positions |-> r.quantity * PriceOf(r.stock)])

SharesToRead == IF stage \in {"cash", "positions"} THEN HeldWorth(viewed) ELSE RowsLeft

Reading == CashRead + SharesToRead

(* It differs from the books by no more than the sides of the requests it has
   met, less what those still under way can yet take from it or add to it. *)
BoundsInv ==
    viewed # NoAccount /\ Sound(viewed) =>
        /\ IsFiniteSet(positions)
        /\ Reading - Booked(viewed) >= Below(viewed) - slack
        /\ Reading - Booked(viewed) <= slack - Above(viewed)

LEMMA RowsLeftType ==
    ASSUME ViewTypeOK, IsFiniteSet(positions)
    PROVE  /\ [r \in positions |-> r.quantity * PriceOf(r.stock)] \in [positions -> Int]
           /\ RowsLeft \in Int
  <1>1. [r \in positions |-> r.quantity * PriceOf(r.stock)] \in [positions -> Int]
    <2> SUFFICES ASSUME NEW r \in positions
                 PROVE  r.quantity * PriceOf(r.stock) \in Int
      OBVIOUS
    <2>1. r.quantity \in Int /\ PriceOf(r.stock) \in Int
      BY PriceType DEF ViewTypeOK
    <2> QED BY <2>1
  <1> QED BY <1>1, SumType DEF RowsLeft

LEMMA ReadingType ==
    ASSUME TypeOK, ViewTypeOK, viewed # NoAccount, IsFiniteSet(positions)
    PROVE  /\ viewed \in Accounts
           /\ CashRead \in Int /\ SharesToRead \in Int /\ Reading \in Int
  <1>1. viewed \in Accounts /\ total \in Int
    BY DEF ViewTypeOK
  <1>2. db.cash[viewed] \in Int /\ HeldWorth(viewed) \in Int
    BY <1>1, WorthType
  <1>3. RowsLeft \in Int
    BY RowsLeftType
  <1>4. CashRead \in Int /\ SharesToRead \in Int
    BY <1>1, <1>2, <1>3 DEF CashRead, SharesToRead
  <1> QED BY <1>1, <1>4 DEF Reading

(* The rows of a sound account, each holding counted once, are its holdings. *)
LEMMA RowsAreHoldings ==
    ASSUME TypeOK, OneRow, NEW a \in Accounts, Sound(a)
    PROVE  /\ IsFiniteSet(RowsOf(db, a))
           /\ SumFunction([r \in RowsOf(db, a) |-> r.quantity * PriceOf(r.stock)])
                = HeldWorth(a)
  <1> DEFINE R == RowsOf(db, a)
             to == [r \in R |-> r.stock]
             f == [s \in Stocks |-> Held(db, <<a, s>>) * PriceOf(s)]
             g == [r \in R |-> r.quantity * PriceOf(r.stock)]
  <1>1. ASSUME NEW r \in R
        PROVE  /\ r.stock \in Stocks
               /\ r = [stock |-> r.stock, row |-> 1, quantity |-> Held(db, <<a, r.stock>>)]
    <2>1. PICK s \in Stocks : \E i \in DOMAIN db.held[<<a, s>>] :
              r = [stock |-> s, row |-> i, quantity |-> db.held[<<a, s>>][i]]
      BY DEF RowsOf
    <2>2. PICK i \in DOMAIN db.held[<<a, s>>] :
              r = [stock |-> s, row |-> i, quantity |-> db.held[<<a, s>>][i]]
      BY <2>1
    <2> DEFINE rows == db.held[<<a, s>>]
    <2>3. rows \in Seq(Int) /\ Len(rows) <= 1
      BY DEF OneRow, Sound, Keys, TypeOK, TablesOK, Tables
    <2>4. i = 1 /\ rows # <<>>
      <3>1. i \in DOMAIN rows
        OBVIOUS
      <3> HIDE DEF rows
      <3> QED BY <2>3, <3>1
    <2>5. Held(db, <<a, s>>) = rows[1]
      BY <2>4 DEF Held
    <2> QED BY <2>2, <2>4, <2>5
  <1>2. to \in [R -> Stocks]
    BY <1>1
  <1>3. \A r, q \in R : to[r] = to[q] => r = q
    BY <1>1
  <1>4. IsFiniteSet(R)
    <2> HIDE DEF R, to
    <2>1. to \in Injection(R, Stocks)
      BY <1>2, <1>3 DEF Injection, IsInjective
    <2> QED BY <2>1, StocksAssumption, FS_Injection
  <1>5. f \in [Stocks -> Int]
    BY HeldWorthType DEF TypeOK, TablesOK
  <1>6. \A r \in R : g[r] = f[to[r]]
    BY <1>1
  <1>7. g \in [R -> Int]
    BY <1>2, <1>5, <1>6
  <1>8. ASSUME NEW s \in Stocks, \A r \in R : to[r] # s
        PROVE  f[s] = 0
    <2> DEFINE rows == db.held[<<a, s>>]
    <2>1. rows \in Seq(Int)
      BY DEF Keys, TypeOK, TablesOK, Tables
    <2>2. rows = <<>>
      <3> SUFFICES ASSUME rows # <<>>
                   PROVE  FALSE
        OBVIOUS
      <3>1. 1 \in DOMAIN rows
        <4> HIDE DEF rows
        <4> QED BY <2>1
      <3>2. [stock |-> s, row |-> 1, quantity |-> rows[1]] \in R
        BY <3>1 DEF RowsOf
      <3> QED BY <1>8, <3>2
    <2>3. Held(db, <<a, s>>) = 0 /\ PriceOf(s) \in Int
      BY <2>2, PriceType DEF Held
    <2> QED BY <2>3
  <1>9. HeldWorth(a) = SumFunction(f)
    BY DEF HeldWorth
  <1> HIDE DEF R, to, f, g
  <1>10. SumFunction(g) = SumFunction(f)
    BY <1>2, <1>3, <1>4, <1>5, <1>6, <1>7, <1>8, StocksAssumption, SumRenamed
  <1> QED BY <1>4, <1>9, <1>10 DEF R, g

(* The reader starts: it would read what the account is worth now, and counts
   the requests under way among those it has met. *)
LEMMA BoundsAtAsk ==
    ASSUME NaturalRequests, TypeOK, WorthInv, NEW a \in Accounts, Sound(a)
    PROVE  /\ Below(a) <= Ahead(a) + SlackAtStart(a)
           /\ Ahead(a) + Above(a) <= SlackAtStart(a)
  <1> DEFINE ahead == [w \in Workers |-> AheadLeg(w, a)]
             below == [w \in Workers |-> BelowLeg(w, a)]
             above == [w \in Workers |-> AboveLeg(w, a)]
             stake == [w \in Workers |-> Stake(w, a)]
             most  == [w \in Workers |-> AheadLeg(w, a) + Stake(w, a)]
             both  == [w \in Workers |-> AheadLeg(w, a) + AboveLeg(w, a)]
  <1>1. ASSUME NEW w \in Workers
        PROVE  /\ AheadLeg(w, a) \in Int /\ BelowLeg(w, a) \in Int /\ AboveLeg(w, a) \in Int
               /\ Stake(w, a) \in Int
               /\ BelowLeg(w, a) <= AheadLeg(w, a) + Stake(w, a)
               /\ AheadLeg(w, a) + AboveLeg(w, a) <= Stake(w, a)
    <2>1. /\ AheadLeg(w, a) \in Int /\ BelowLeg(w, a) \in Int /\ AboveLeg(w, a) \in Int
          /\ LeastLeg(w, a) \in Int /\ MostLeg(w, a) \in Int /\ Stake(w, a) \in Int
          /\ LeastLeg(w, a) <= AheadLeg(w, a) /\ AheadLeg(w, a) <= MostLeg(w, a)
      BY LegsLie
    <2>2. /\ BelowLeg(w, a) = LeastLeg(w, a) + Stake(w, a)
          /\ AboveLeg(w, a) = Stake(w, a) - MostLeg(w, a)
      BY DEF BelowLeg, AboveLeg
    <2> QED BY <2>1, <2>2
  <1>2. /\ ahead \in [Workers -> Int] /\ below \in [Workers -> Int]
        /\ above \in [Workers -> Int] /\ stake \in [Workers -> Int]
        /\ most \in [Workers -> Int] /\ both \in [Workers -> Int]
    BY <1>1
  <1>3. \A w \in Workers : /\ most[w] = ahead[w] + stake[w] /\ both[w] = ahead[w] + above[w]
                          /\ below[w] <= most[w] /\ both[w] <= stake[w]
    BY <1>1
  <1>4. SlackAtStart(a) = SumFunction(stake)
    BY DEF SlackAtStart, Stake
  <1>5. /\ Ahead(a) = SumFunction(ahead) /\ Below(a) = SumFunction(below)
        /\ Above(a) = SumFunction(above)
    BY DEF Ahead, Below, Above
  <1> HIDE DEF ahead, below, above, stake, most, both
  <1>6. SumFunction(most) = SumFunction(ahead) + SumFunction(stake)
    BY <1>2, <1>3, SumOfSums, WorkersAssumption
  <1>7. SumFunction(both) = SumFunction(ahead) + SumFunction(above)
    BY <1>2, <1>3, SumOfSums, WorkersAssumption
  <1>8. SumFunction(below) <= SumFunction(most)
    BY <1>2, <1>3, SumAtMost, WorkersAssumption
  <1>9. SumFunction(both) <= SumFunction(stake)
    BY <1>2, <1>3, SumAtMost, WorkersAssumption
  <1> QED BY <1>4, <1>5, <1>6, <1>7, <1>8, <1>9

(* The reader reads: what it has read and what is left to read stay together what
   they were. *)
LEMMA ReaderKeeps ==
    ASSUME TypeOK, ViewTypeOK, OneRow, viewed # NoAccount, Sound(viewed),
           IsFiniteSet(positions),
           ReadCash \/ ReadPositions \/ ValuePosition \/ Total
    PROVE  IsFiniteSet(positions') /\ Reading' = Reading
  <1>0. /\ viewed \in Accounts
        /\ CashRead \in Int /\ SharesToRead \in Int /\ Reading \in Int
    BY ReadingType
  <1>1. CASE ReadCash
    <2>1. /\ stage = "cash" /\ stage' = "positions" /\ total' = db.cash[viewed]
          /\ viewed' = viewed /\ positions' = positions /\ db' = db
      BY <1>1 DEF ReadCash, vars, connVars
    <2>2. CashRead' = CashRead /\ SharesToRead' = SharesToRead
      BY <2>1 DEF CashRead, SharesToRead, HeldWorth, Held
    <2> QED BY <2>1, <2>2 DEF Reading
  <1>2. CASE ReadPositions
    <2>1. /\ stage = "positions" /\ stage' = "values" /\ total' = total
          /\ viewed' = viewed /\ positions' = RowsOf(db, viewed)
      BY <1>2 DEF ReadPositions
    <2>2. /\ IsFiniteSet(positions')
          /\ SumFunction([r \in positions' |-> r.quantity * PriceOf(r.stock)])
               = HeldWorth(viewed)
      BY <1>0, <2>1, RowsAreHoldings
    <2>3. RowsLeft' = HeldWorth(viewed)
      BY <2>2 DEF RowsLeft
    <2>4. CashRead' = CashRead /\ SharesToRead' = SharesToRead
      BY <2>1, <2>3 DEF CashRead, SharesToRead
    <2> QED BY <2>2, <2>4 DEF Reading
  <1>3. CASE ValuePosition
    <2>1. PICK row \in positions : /\ total' = AddValue(total, row, PriceOf(row.stock))
                                   /\ positions' = positions \ {row}
      BY <1>3 DEF ValuePosition
    <2>2. stage = "values" /\ stage' = "values"
      BY <1>3 DEF ValuePosition
    <2> DEFINE f == [r \in positions' |-> r.quantity * PriceOf(r.stock)]
               g == [r \in positions |-> r.quantity * PriceOf(r.stock)]
               worth == row.quantity * PriceOf(row.stock)
    <2>3. g \in [positions -> Int]
      BY RowsLeftType
    <2>4. worth = g[row] /\ worth \in Int
      BY <2>3
    <2>5. IsFiniteSet(positions') /\ row \notin positions'
          /\ positions = positions' \cup {row}
      BY <2>1, FS_RemoveElement
    <2>6. f \in [positions' -> Int] /\ \A r \in positions' : g[r] = f[r]
      BY <2>1, <2>3
    <2>7. RowsLeft = SumFunction(g) /\ RowsLeft' = SumFunction(f)
      BY DEF RowsLeft
    <2>8. total' = total + worth /\ total \in Int
      BY <2>1 DEF AddValue, ViewTypeOK
    <2> HIDE DEF f, g, worth
    <2>9. SumFunction(g) = SumFunction(f) + g[row]
      BY <2>3, <2>5, <2>6, SumExtend
    <2>10. SumFunction(f) \in Int
      BY <2>5, <2>6, SumType
    <2>11. /\ CashRead = total /\ CashRead' = total'
           /\ SharesToRead = RowsLeft /\ SharesToRead' = RowsLeft'
      BY <2>2 DEF CashRead, SharesToRead
    <2> QED BY <2>4, <2>5, <2>7, <2>8, <2>9, <2>10, <2>11 DEF Reading
  <1>4. CASE Total
    <2>1. /\ stage = "values" /\ stage' = "respond" /\ total' = total
          /\ positions' = positions
      BY <1>4 DEF Total
    <2>2. CashRead' = CashRead /\ SharesToRead' = SharesToRead
      BY <2>1 DEF CashRead, SharesToRead, RowsLeft
    <2> QED BY <2>1, <2>2 DEF Reading
  <1> QED BY <1>1, <1>2, <1>3, <1>4

(* The handlers go on: what the reader will have read moves with them or stays. *)
LEMMA ReaderMeets ==
    ASSUME NaturalRequests, TypeOK, TypeOK', RowsToMove, ViewTypeOK, BoundsInv,
           viewed # NoAccount, Sound(viewed)', UNCHANGED readerVars,
           slack' = slack + SlackOfStep, NEW w \in Workers, Serve(w)
    PROVE  /\ Reading' - Booked(viewed)' >= Below(viewed)' - slack'
           /\ Reading' - Booked(viewed)' <= slack' - Above(viewed)'
  <1> DEFINE a == viewed
  <1>1. stage' = stage /\ viewed' = viewed /\ total' = total /\ positions' = positions
    BY DEF readerVars
  <1>2. a \in Accounts /\ slack \in Int
    BY DEF ViewTypeOK
  <1>3. ASSUME NEW b \in Accounts, b = viewed
        PROVE  /\ Reading' - Booked(b)' >= Below(b)' - slack'
               /\ Reading' - Booked(b)' <= slack' - Above(b)'
    <2>1. Sound(b)' /\ Sound(b)
      <3>1. Sound(b)'
        BY <1>1, <1>3 DEF Sound
      <3>2. [Next]_vars
        BY DEF Next
      <3> QED BY <3>1, <3>2, SoundBefore
    <2>2. /\ IsFiniteSet(positions)
          /\ Reading - Booked(b) >= Below(b) - slack
          /\ Reading - Booked(b) <= slack - Above(b)
      BY <1>3, <2>1 DEF BoundsInv
    <2>3. CashRead \in Int /\ SharesToRead \in Int /\ Reading \in Int
      BY <2>2, ReadingType
    <2>4. PICK dc \in Int, dh \in Int, dB \in Int : Swings(w, b, dc, dh, dB)
      BY <2>1, Swing
    <2>5. /\ Below(b)' = Below(b) + (BelowLeg(w, b)' - BelowLeg(w, b))
          /\ Above(b)' = Above(b) + (AboveLeg(w, b)' - AboveLeg(w, b))
          /\ SumFunction([v \in Workers |-> Start(v, b)]) = Start(w, b)
      BY SumsFollow
    <2>6. SlackOfStep = Start(w, b)
      <3>1. SlackOfStep = SumFunction([v \in Workers |-> Start(v, b)])
        BY <1>1, <1>3 DEF SlackOfStep, Start, Moving
      <3> QED BY <2>5, <3>1
    <2> DEFINE x == IF stage = "cash" THEN dc ELSE 0
               y == IF stage \in {"cash", "positions"} THEN dh ELSE 0
    <2>7. CashRead' = CashRead + x
      BY <1>1, <1>3, <2>3, <2>4 DEF CashRead, Swings
    <2>8. SharesToRead' = SharesToRead + y
      <3>1. RowsLeft' = RowsLeft
        BY <1>1 DEF RowsLeft
      <3>2. HeldWorth(viewed)' = HeldWorth(b)'
        BY <1>1, <1>3 DEF HeldWorth
      <3> QED BY <1>1, <1>3, <2>3, <2>4, <3>1, <3>2 DEF SharesToRead, Swings
    <2>9. /\ BelowLeg(w, b)' - BelowLeg(w, b) <= x + y - dB + Start(w, b)
          /\ AboveLeg(w, b)' - AboveLeg(w, b) <= Start(w, b) - (x + y - dB)
          /\ x \in Int /\ y \in Int
      BY <2>4 DEF Swings
    <2>10. /\ Booked(b)' = Booked(b) + dB /\ Booked(b) \in Int
           /\ Below(b) \in Int /\ Above(b) \in Int
      BY <2>4, WorthType, SumsTyped DEF Swings
    <2>11. /\ BelowLeg(w, b) \in Int /\ BelowLeg(w, b)' \in Int
           /\ AboveLeg(w, b) \in Int /\ AboveLeg(w, b)' \in Int /\ Start(w, b) \in Int
      <3>1. /\ BelowLeg(w, b) \in Int /\ AboveLeg(w, b) \in Int
        BY LegsLie
      <3>2. /\ BelowLeg(w, b)' \in Int /\ AboveLeg(w, b)' \in Int
        BY AllLegsNext DEF AllLegsTyped, LegsTypedFor
      <3>3. Start(w, b) \in Int
        <4>1. [Next]_vars
          BY DEF Next
        <4> QED BY <2>6, <4>1, SlackOfStepType
      <3> QED BY <3>1, <3>2, <3>3
    <2>12. Reading' = Reading + x + y
      BY <2>3, <2>7, <2>8, <2>9 DEF Reading
    <2> HIDE DEF x, y
    <2> QED BY <1>2, <2>2, <2>3, <2>5, <2>6, <2>9, <2>10, <2>11, <2>12
  <1> QED BY <1>1, <1>2, <1>3

LEMMA BoundsInit == ViewInit => BoundsInv
  BY DEF ViewInit, BoundsInv

LEMMA BoundsStep ==
    NaturalRequests /\ TypeOK /\ TypeOK' /\ ViewTypeOK /\ ViewTypeOK' /\ RowsToMove
      /\ OneRow /\ WorthInv /\ BoundsInv /\ [ViewNext]_viewVars => BoundsInv'
  <1> SUFFICES ASSUME NaturalRequests, TypeOK, TypeOK', ViewTypeOK, ViewTypeOK', RowsToMove,
                      OneRow, WorthInv, BoundsInv, [ViewNext]_viewVars,
                      viewed' # NoAccount, Sound(viewed)'
               PROVE  /\ IsFiniteSet(positions')
                      /\ Reading' - Booked(viewed)' >= Below(viewed)' - slack'
                      /\ Reading' - Booked(viewed)' <= slack' - Above(viewed)'
    BY DEF BoundsInv
  <1>1. CASE Ask
    <2>1. /\ viewed' \in Accounts /\ slack' = SlackAtStart(viewed')
          /\ stage = "idle" /\ stage' = "cash" /\ positions' = positions
          /\ db' = db /\ wallet' = wallet /\ pc' = pc /\ req' = req
          /\ tainted' = tainted /\ doubled' = doubled
      BY <1>1 DEF Ask, vars, connVars, tradeVars
    <2>2. IsFiniteSet(positions')
      BY <2>1, FS_EmptySet DEF ViewTypeOK
    <2>3. ASSUME NEW a \in Accounts, a = viewed'
          PROVE  /\ Reading' - Booked(a)' >= Below(a)' - slack'
                 /\ Reading' - Booked(a)' <= slack' - Above(a)'
      <3>1. Sound(a)
        BY <2>1, <2>3 DEF Sound
      <3>2. db.cash[a] + HeldWorth(a) - Booked(a) = Ahead(a)
        BY <3>1 DEF WorthInv
      <3>3. /\ Below(a) <= Ahead(a) + SlackAtStart(a)
            /\ Ahead(a) + Above(a) <= SlackAtStart(a)
        BY <3>1, BoundsAtAsk
      <3>4. /\ db.cash[a] \in Int /\ HeldWorth(a) \in Int /\ Booked(a) \in Int
            /\ Ahead(a) \in Int /\ Below(a) \in Int /\ Above(a) \in Int
            /\ SlackAtStart(a) \in Int
        BY WorthType, SumsTyped, SlackAtStartType
      <3>5. /\ HeldWorth(a)' = HeldWorth(a) /\ Booked(a)' = Booked(a)
            /\ Below(a)' = Below(a) /\ Above(a)' = Above(a)
        BY <2>1, NothingMoves
      <3>6. Reading' = db.cash[a] + HeldWorth(a)
        <4>1. HeldWorth(viewed)' = HeldWorth(a)'
          BY <2>3 DEF HeldWorth
        <4> QED BY <2>1, <2>3, <3>5, <4>1 DEF Reading, CashRead, SharesToRead
      <3> QED BY <2>1, <2>3, <3>2, <3>3, <3>4, <3>5, <3>6
    <2> QED BY <2>1, <2>2, <2>3
  <1>2. CASE ReadCash \/ ReadPositions \/ ValuePosition \/ Total
    <2>1. /\ viewed' = viewed /\ slack' = slack /\ UNCHANGED vars
          /\ db' = db /\ wallet' = wallet /\ pc' = pc /\ req' = req
          /\ tainted' = tainted /\ doubled' = doubled
      BY <1>2 DEF ReadCash, ReadPositions, ValuePosition, Total, vars, connVars, tradeVars
    <2>2. viewed # NoAccount /\ Sound(viewed)
      BY <2>1 DEF Sound
    <2>3. /\ IsFiniteSet(positions)
          /\ Reading - Booked(viewed) >= Below(viewed) - slack
          /\ Reading - Booked(viewed) <= slack - Above(viewed)
      BY <2>2 DEF BoundsInv
    <2>4. IsFiniteSet(positions') /\ Reading' = Reading
      BY <1>2, <2>2, <2>3, ReaderKeeps
    <2>5. ASSUME NEW a, a = viewed
          PROVE  Booked(a)' = Booked(a) /\ Below(a)' = Below(a) /\ Above(a)' = Above(a)
      BY <2>1, NothingMoves
    <2> QED BY <2>1, <2>3, <2>4, <2>5
  <1>3. CASE Answer
    BY <1>3 DEF Answer, Forget
  <1>4. CASE OthersRun
    <2>1. CASE Crash /\ Forget
      BY <2>1 DEF Forget
    <2>2. CASE Next /\ crashes' = crashes /\ UNCHANGED readerVars /\ slack' = slack + SlackOfStep
      <3>1. viewed' = viewed /\ positions' = positions /\ stage' = stage /\ total' = total
        BY <2>2 DEF readerVars
      <3>2. Sound(viewed)
        <4>1. viewed \in Accounts
          BY <3>1 DEF ViewTypeOK
        <4>2. \A a : Sound(a)' => Sound(a)
          BY <2>2, SoundBefore
        <4>3. \A a : a = viewed => Sound(a)'
          BY <3>1 DEF Sound
        <4> QED BY <4>2, <4>3
      <3>3. /\ IsFiniteSet(positions)
            /\ Reading - Booked(viewed) >= Below(viewed) - slack
            /\ Reading - Booked(viewed) <= slack - Above(viewed)
        BY <3>1, <3>2 DEF BoundsInv
      <3>4. ASSUME NEW w \in Workers, Serve(w)
            PROVE  /\ Reading' - Booked(viewed)' >= Below(viewed)' - slack'
                   /\ Reading' - Booked(viewed)' <= slack' - Above(viewed)'
        BY <2>2, <3>1, <3>4, ReaderMeets
      <3>5. ASSUME NEW b \in Batchers, BackgroundBegin(b) \/ BackgroundCommit(b)
            PROVE  /\ Reading' - Booked(viewed)' >= Below(viewed)' - slack'
                   /\ Reading' - Booked(viewed)' <= slack' - Above(viewed)'
        <4>1. db' = db /\ wallet' = wallet /\ pc' = pc /\ req' = req
          BY <3>5 DEF BackgroundBegin, BeginBatch, BackgroundCommit, CommitBatch, tradeVars
        <4>2. ASSUME NEW a, a = viewed
              PROVE  /\ Booked(a)' = Booked(a) /\ Below(a)' = Below(a)
                     /\ Above(a)' = Above(a) /\ HeldWorth(a)' = HeldWorth(a)
                     /\ \A w \in Workers : Start(w, a) = 0
          BY <4>1, NothingMoves
        <4>3. Reading' = Reading
          BY <3>1, <4>1, <4>2 DEF Reading, CashRead, SharesToRead, RowsLeft
        <4>4. SlackOfStep = 0
          <5> DEFINE f == [w \in Workers |-> Start(w, viewed)]
          <5>1. \A w \in Workers : f[w] = 0
            BY <4>2
          <5>2. SlackOfStep = SumFunction(f)
            BY <3>1 DEF SlackOfStep, Start, Moving
          <5>3. f \in [Workers -> Int]
            BY <5>1
          <5> HIDE DEF f
          <5>4. SumFunction(f) = 0
            BY <5>1, <5>3, SumZero, WorkersAssumption
          <5> QED BY <5>2, <5>4
        <4>5. slack' = slack
          BY <2>2, <4>4 DEF ViewTypeOK
        <4> QED BY <3>1, <3>3, <4>2, <4>3, <4>5
      <3>6. ~Crash
        BY <2>2 DEF Crash, TypeOK, HistoryOK
      <3> QED BY <2>2, <3>1, <3>3, <3>4, <3>5, <3>6 DEF Next
    <2> QED BY <1>4, <2>1, <2>2 DEF OthersRun
  <1>5. CASE UNCHANGED viewVars
    <2>1. /\ viewed' = viewed /\ positions' = positions /\ stage' = stage /\ total' = total
          /\ slack' = slack /\ db' = db /\ wallet' = wallet /\ pc' = pc /\ req' = req
          /\ tainted' = tainted /\ doubled' = doubled
      BY <1>5 DEF viewVars, vars, connVars, tradeVars, readerVars
    <2>2. /\ IsFiniteSet(positions)
          /\ Reading - Booked(viewed) >= Below(viewed) - slack
          /\ Reading - Booked(viewed) <= slack - Above(viewed)
      BY <2>1 DEF BoundsInv, Sound
    <2>3. ASSUME NEW a, a = viewed
          PROVE  /\ Booked(a)' = Booked(a) /\ Below(a)' = Below(a)
                 /\ Above(a)' = Above(a) /\ HeldWorth(a)' = HeldWorth(a)
      BY <2>1, NothingMoves
    <2>4. Reading' = Reading
      BY <2>1, <2>3 DEF Reading, CashRead, SharesToRead, RowsLeft
    <2> QED BY <2>1, <2>2, <2>3, <2>4
  <1> QED BY <1>1, <1>2, <1>3, <1>4, <1>5 DEF ViewNext

(* What the bounds say when the reader has read everything. *)
LEMMA BoundsGive ==
    ASSUME NaturalRequests, TypeOK, ViewTypeOK, BoundsInv
    PROVE  TotalWithinOverlap
  <1> SUFFICES ASSUME stage = "respond", Sound(viewed)
               PROVE  total - Booked(viewed) \in -slack .. slack
    BY DEF TotalWithinOverlap
  <1>1. viewed # NoAccount /\ viewed \in Accounts /\ total \in Int /\ slack \in Int
        /\ positions = {}
    BY DEF ViewTypeOK
  <1>2. /\ Reading - Booked(viewed) >= Below(viewed) - slack
        /\ Reading - Booked(viewed) <= slack - Above(viewed)
    BY <1>1 DEF BoundsInv
  <1>3. RowsLeft = 0
    <2> DEFINE f == [r \in positions |-> r.quantity * PriceOf(r.stock)]
    <2>1. DOMAIN f = {} /\ f \in [{} -> Int]
      BY <1>1
    <2> HIDE DEF f
    <2>2. SumFunction(f) = 0
      BY <2>1, SumEmpty
    <2> QED BY <2>2 DEF RowsLeft, f
  <1>4. Reading = total
    BY <1>1, <1>3 DEF Reading, CashRead, SharesToRead
  <1>5. Below(viewed) >= 0 /\ Above(viewed) >= 0
    <2> DEFINE below == [w \in Workers |-> BelowLeg(w, viewed)]
               above == [w \in Workers |-> AboveLeg(w, viewed)]
    <2>1. /\ below \in [Workers -> Int] /\ above \in [Workers -> Int]
          /\ \A w \in Workers : below[w] >= 0 /\ above[w] >= 0
      BY <1>1, LegsLie
    <2>2. Below(viewed) = SumFunction(below) /\ Above(viewed) = SumFunction(above)
      BY DEF Below, Above
    <2> HIDE DEF below, above
    <2> QED BY <2>1, <2>2, SumNatural, WorkersAssumption
  <1>6. Below(viewed) \in Int /\ Above(viewed) \in Int /\ Booked(viewed) \in Int
    BY <1>1, SumsTyped, WorthType
  <1> QED BY <1>1, <1>2, <1>4, <1>5, <1>6

(***************************************************************************)
(* For every number of workers, accounts and stocks, every price and every *)
(* choice of listed stocks: the total get_asset reports of an account      *)
(* differs from the books by no more than one side of each request that    *)
(* was moving its cash or shares meanwhile.                                *)
(***************************************************************************)
THEOREM ViewWithinOverlap ==
    ASSUME NaturalRequests
    PROVE  ViewSpec => []TotalWithinOverlap
  <1>1. Spec => [](RowsToMove /\ OneRow /\ WorthInv)
    <2>1. Init => RowsToMove /\ OneRow /\ WorthInv
      BY RowsToMoveInit, OneRowInit, WorthInit
    <2>2. TypeOK /\ TypeOK' /\ RowsToMove /\ OneRow /\ WorthInv /\ [Next]_vars
            => (RowsToMove /\ OneRow /\ WorthInv)'
      BY RowsToMoveStep, OneRowStep, WorthStep
    <2> QED BY <2>1, <2>2, TypeCorrect, PTL DEF Spec
  <1>2. ViewInit => BoundsInv
    BY BoundsInit
  <1>3. TypeOK /\ TypeOK' /\ ViewTypeOK /\ ViewTypeOK' /\ RowsToMove /\ OneRow
          /\ WorthInv /\ BoundsInv /\ [ViewNext]_viewVars => BoundsInv'
    BY BoundsStep
  <1>4. TypeOK /\ ViewTypeOK /\ BoundsInv => TotalWithinOverlap
    BY BoundsGive
  <1> QED BY <1>1, <1>2, <1>3, <1>4, ViewIsTrading, TypeCorrect, ViewTypeCorrect, PTL
          DEF ViewSpec
=============================================================================
