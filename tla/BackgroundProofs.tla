-------------------------- MODULE BackgroundProofs --------------------------
(***************************************************************************)
(* Proofs about Background, for every list of stocks, table to start from, *)
(* list of news, horizon of the predictions and bound.                     *)
(***************************************************************************)
EXTENDS Background, DataTheorems, SequenceTheorems

-----------------------------------------------------------------------------
(* The inductive invariant.                                                *)

(* Rows are predicted in the order of the days, stock after stock. *)
DayInv ==
    /\ predPc \in {"stocks", "verify"} => day \in Days
    /\ predPc = "insert" => day \in Days /\ (stock > Len(snap) => day = 1)
    /\ predPc # "insert" => stock = 1

(* Items are the rest of their page, and the lines name symbols. *)
PageInv ==
    /\ feedPc = "page" =>
         /\ page <= Len(Pages)
         /\ ToSet(items) \subseteq ToSet(Pages[page])
    /\ \A i \in DOMAIN lines : lines[i].code # Blank /\ Head(lines[i].code) = Prefix

TypeInv == TypeOK /\ DayInv /\ PageInv

(* No item has two rows, and the item in hand has none. *)
Once(news) == \A i, j \in DOMAIN news : i # j => news[i] # news[j]

NewsInv ==
    /\ Once(db.news) /\ Once(disk.news)
    /\ newsPc \in {"detail", "insert"} => ~Known(db.news, Head(ids))

(* A code that may be in the list. *)
Plain(c) == c \in {Blank, Null} \/ Head(c) # Prefix

(* The names of the first n pages are in the table. *)
ListedUpTo(stocks, n) ==
    \A p \in 1 .. n : \A k \in DOMAIN Pages[p] : Pages[p][k].name \in NamesIn(stocks)

ListInv ==
    ~cutShort =>
        /\ \A r \in ToSet(db.stocks) : Plain(r.code)
        /\ feedPc \in {"list", "page"} => ListedUpTo(db.stocks, page - 1)
        /\ feedPc = "page" =>
             \A item \in ToSet(Pages[page]) : item.name \in NamesIn(db.stocks) \/ item \in ToSet(items)
        /\ feedPc \notin {"list", "page"} /\ CodesIn(db.stocks) # <<>> => ListedUpTo(db.stocks, Len(Pages))

(* The rows of its code after row i. *)
Newer(preds, i) == {j \in DOMAIN preds : j > i /\ preds[j].code = preds[i].code}

(* The code whose rows are being made, the day of its next row, and how many of
   its newest rows are known to follow the order of the days. *)
InHand(c) == predPc = "insert" /\ stock <= Len(snap) /\ snap[stock].code = c
NextDayOf(c) == IF InHand(c) THEN day ELSE 1
Depth(c) ==
    IF c \notin ragged THEN Horizon ELSE IF InHand(c) /\ ~torn THEN day - 1 ELSE 0

(* The day k + 1 days before day n, round and round. *)
Back(n, k) == IF n - 1 - k > 0 THEN n - 1 - k ELSE n - 1 - k + Horizon

Turns(preds, i, n, depth) ==
    Cardinality(Newer(preds, i)) < depth => preds[i].day = Back(n, Cardinality(Newer(preds, i)))

Cycled(preds, c, n, depth) ==
    \A i \in DOMAIN preds : preds[i].code = c => Turns(preds, i, n, depth)

CycleInv == \A c : Cycled(db.predictions, c, NextDayOf(c), Depth(c))

(* What is on disk is the beginning of what the connection sees. *)
Begins(saved, preds) ==
    \A i \in DOMAIN saved :
        /\ i \in DOMAIN preds
        /\ saved[i].code = preds[i].code /\ saved[i].day = preds[i].day

DiskInv == Begins(disk.predictions, db.predictions)

(* From row i on, the rows of its code are of different days. *)
DaysDiffer(preds, i) ==
    \A j, k \in DOMAIN preds :
        i <= j /\ j < k /\ preds[j].code = preds[i].code /\ preds[k].code = preds[i].code
            => preds[j].day # preds[k].day

Timely(preds, passed) ==
    \A i \in DOMAIN preds \ passed :
        /\ preds[i].status = "pending" => DaysDiffer(preds, i)
        /\ preds[i].status = "verified" /\ preds[i].code = Blank => preds[i].base = preds[i].now

QueueInv ==
    \A a \in DOMAIN queue :
        /\ db.predictions[queue[a]].status = "pending"
        /\ \A b \in DOMAIN queue : a # b => queue[a] # queue[b]

(* While the thread verifies, row i still has to come, *)
Due(preds, i) ==
    /\ day <= preds[i].day
    /\ predPc \in {"stocks", "verify"} /\ preds[i].day = day => i \in ToSet(queue)

(* while it predicts, the row was made in this cycle: its stock is the one in
   hand, the days of its code have come so far, or will not come again. *)
Fresh(preds, i) ==
    \A n \in stock .. Len(snap) : snap[n].code = preds[i].code =>
        /\ n = stock /\ ~Shared(snap[n].code)
        /\ \A j \in DOMAIN preds : i <= j /\ preds[j].code = preds[i].code => preds[j].day < day

PhaseInv ==
    \A i \in DOMAIN db.predictions \ strays :
        db.predictions[i].status = "pending" =>
            IF predPc = "insert" THEN Fresh(db.predictions, i) ELSE Due(db.predictions, i)

TimeInv ==
    /\ Timely(db.predictions, strays) /\ Timely(disk.predictions, strays)
    /\ QueueInv /\ PhaseInv

-----------------------------------------------------------------------------
(* Sequences and the tables.                                               *)

LEMMA SeqType ==
    ASSUME NEW S, NEW s \in Seq(S)
    PROVE  /\ Len(s) \in Nat /\ DOMAIN s = 1 .. Len(s) /\ s \in [1 .. Len(s) -> S]
           /\ \A i \in DOMAIN s : s[i] \in S
           /\ ToSet(s) \subseteq S
           /\ s = <<>> <=> Len(s) = 0
  <1>1. Len(s) \in Nat /\ DOMAIN s = 1 .. Len(s) /\ s \in [1 .. Len(s) -> S]
    BY LenProperties
  <1>2. \A i \in DOMAIN s : s[i] \in S
    BY <1>1, ElementOfSeq
  <1>3. ToSet(s) \subseteq S
    BY <1>2 DEF ToSet
  <1>4. s = <<>> <=> Len(s) = 0
    BY <1>1, EmptySeq
  <1> QED BY <1>1, <1>2, <1>3, <1>4

(* A row more. *)
LEMMA AppendType ==
    ASSUME NEW S, NEW s \in Seq(S), NEW x \in S
    PROVE  /\ Append(s, x) \in Seq(S) /\ Len(Append(s, x)) = Len(s) + 1
           /\ DOMAIN Append(s, x) = 1 .. (Len(s) + 1)
           /\ \A i \in 1 .. Len(s) : Append(s, x)[i] = s[i]
           /\ Append(s, x)[Len(s) + 1] = x
           /\ ToSet(Append(s, x)) = ToSet(s) \cup {x}
  <1>1. Len(s) \in Nat /\ DOMAIN s = 1 .. Len(s)
    BY SeqType
  <1>2. /\ Append(s, x) \in Seq(S) /\ Len(Append(s, x)) = Len(s) + 1
        /\ \A i \in 1 .. Len(s) : Append(s, x)[i] = s[i]
        /\ Append(s, x)[Len(s) + 1] = x
    BY AppendProperties, <1>1
  <1>3. DOMAIN Append(s, x) = 1 .. (Len(s) + 1)
    BY <1>2, SeqType
  <1>4. ToSet(Append(s, x)) = ToSet(s) \cup {x}
    <2>1. \A i \in 1 .. (Len(s) + 1) : i \in 1 .. Len(s) \/ i = Len(s) + 1
      BY <1>1
    <2>2. 1 .. Len(s) \subseteq 1 .. (Len(s) + 1) /\ Len(s) + 1 \in 1 .. (Len(s) + 1)
      BY <1>1
    <2> QED BY <1>1, <1>2, <1>3, <2>1, <2>2 DEF ToSet
  <1> QED BY <1>2, <1>3, <1>4

(* The first element and the rest. *)
LEMMA TailType ==
    ASSUME NEW S, NEW s \in Seq(S), s # <<>>
    PROVE  /\ Head(s) \in S /\ Head(s) = s[1] /\ Tail(s) \in Seq(S)
           /\ Len(Tail(s)) = Len(s) - 1 /\ Len(s) \in Nat \ {0}
           /\ \A i \in DOMAIN Tail(s) : i + 1 \in DOMAIN s /\ Tail(s)[i] = s[i + 1]
           /\ ToSet(s) = {Head(s)} \cup ToSet(Tail(s))
  <1>1. /\ Head(s) \in S /\ Tail(s) \in Seq(S) /\ Len(Tail(s)) = Len(s) - 1
        /\ \A i \in 1 .. Len(Tail(s)) : Tail(s)[i] = s[i + 1]
    BY HeadTailProperties
  <1>2. Len(s) \in Nat \ {0} /\ DOMAIN s = 1 .. Len(s) /\ DOMAIN Tail(s) = 1 .. (Len(s) - 1)
    BY <1>1, SeqType
  <1>3. Head(s) = s[1]
    <2>1. 1 \in 1 .. Len(s) /\ Len(s) \in 1 .. Len(s)
      BY <1>2
    <2>2. Head(SubSeq(s, 1, Len(s))) = s[1]
      BY <2>1, HeadTailOfSubSeq
    <2> QED BY <2>2, SubSeqFull
  <1>4. \A i \in 1 .. (Len(s) - 1) : i + 1 \in 1 .. Len(s)
    BY <1>2
  <1>5. \A i \in 1 .. Len(s) : i = 1 \/ i - 1 \in 1 .. (Len(s) - 1)
    BY <1>2
  <1>6. \A i \in 1 .. Len(s) : i = 1 \/ s[i] = Tail(s)[i - 1]
    <2> SUFFICES ASSUME NEW i \in 1 .. Len(s), i # 1 PROVE s[i] = Tail(s)[i - 1]
      OBVIOUS
    <2>1. i - 1 \in 1 .. Len(Tail(s)) /\ (i - 1) + 1 = i
      BY <1>1, <1>2
    <2> QED BY <1>1, <2>1
  <1>7. 1 \in DOMAIN s
    BY <1>2
  <1>8. ToSet(s) = {Head(s)} \cup ToSet(Tail(s))
    <2>1. ToSet(s) \subseteq {Head(s)} \cup ToSet(Tail(s))
      <3> SUFFICES ASSUME NEW i \in 1 .. Len(s) PROVE s[i] \in {Head(s)} \cup ToSet(Tail(s))
        BY <1>2 DEF ToSet
      <3>1. CASE i = 1
        BY <1>3, <3>1
      <3>2. CASE i # 1
        <4>1. i - 1 \in DOMAIN Tail(s) /\ s[i] = Tail(s)[i - 1]
          BY <1>2, <1>5, <1>6, <3>2
        <4> QED BY <4>1 DEF ToSet
      <3> QED BY <3>1, <3>2
    <2>2. {Head(s)} \cup ToSet(Tail(s)) \subseteq ToSet(s)
      BY <1>1, <1>2, <1>3, <1>4, <1>7 DEF ToSet
    <2> QED BY <2>1, <2>2
  <1> QED BY <1>1, <1>2, <1>3, <1>4, <1>8

(* A sequence given by its elements. *)
LEMMA SeqFrom ==
    ASSUME NEW S, NEW n \in Nat, NEW f \in [1 .. n -> S]
    PROVE  f \in Seq(S) /\ Len(f) = n
  <1>1. f \in Seq(S)
    BY SeqDef
  <1> QED BY <1>1, SeqType

(* The rows a SELECT ... ORDER BY returns of a table. *)
LEMMA SelectType ==
    ASSUME NEW S, NEW s \in Seq(S), NEW D \in SUBSET DOMAIN s
    PROVE  /\ Cardinality(D) \in Nat /\ InOrder(D) \in Seq(D)
           /\ InOrder(D) \in [1 .. Cardinality(D) -> D]
           /\ D # {} => InOrder(D) # <<>>
  <1>1. D \subseteq 1 .. Len(s) /\ Len(s) \in Nat
    BY SeqType
  <1>2. IsFiniteSet(D) /\ D \subseteq Int
    <2>1. IsFiniteSet(1 .. Len(s))
      BY <1>1, FS_Interval
    <2> QED BY <1>1, <2>1, FS_Subset
  <1>3. Cardinality(D) \in Nat /\ InOrder(D) \in [1 .. Cardinality(D) -> D]
    BY <1>2, InOrderIs
  <1>4. InOrder(D) \in Seq(D) /\ Len(InOrder(D)) = Cardinality(D)
    BY <1>3, SeqFrom
  <1>5. D # {} => Cardinality(D) # 0
    BY <1>2, FS_EmptySet
  <1> QED BY <1>3, <1>4, <1>5, SeqType

LEMMA CodesType ==
    ASSUME NEW t \in Seq(StockRows)
    PROVE  /\ CodesIn(t) \in Seq(Seq(Texts))
           /\ CodesIn(t) = <<>> => \A r \in ToSet(t) : r.code \in {Blank, Null}
  <1> DEFINE D == {i \in DOMAIN t : t[i].code \notin {Blank, Null}}
             n == Cardinality(D)
  <1>1. /\ D \in SUBSET DOMAIN t /\ n \in Nat /\ InOrder(D) \in [1 .. n -> D]
        /\ D # {} => InOrder(D) # <<>>
    BY SelectType
  <1>2. CodesIn(t) = [k \in DOMAIN InOrder(D) |-> t[InOrder(D)[k]].code]
    BY DEF CodesIn
  <1>3. \A i \in D : t[i].code \in Seq(Texts)
    <2>1. \A i \in DOMAIN t : t[i] \in StockRows
      BY SeqType
    <2> QED BY <2>1 DEF StockRows
  <1>4. \A r \in ToSet(t) : r.code \in {Blank, Null} \/ D # {}
    BY DEF ToSet
  <1> HIDE DEF D, n
  <1>5. CodesIn(t) \in [1 .. n -> Seq(Texts)]
    BY <1>1, <1>2, <1>3
  <1>6. CodesIn(t) \in Seq(Seq(Texts)) /\ Len(CodesIn(t)) = n
    BY <1>1, <1>5, SeqFrom
  <1>7. InOrder(D) \in Seq(D) /\ Len(InOrder(D)) = n
    BY <1>1, SeqFrom
  <1>8. CodesIn(t) = <<>> => D = {}
    BY <1>1, <1>6, <1>7, SeqType
  <1> QED BY <1>4, <1>6, <1>8

-----------------------------------------------------------------------------
(* Type correctness: the connection and the updater.                       *)

ConnOK ==
    /\ batch \in [Batchers -> {"idle", "open"}] /\ inTxn = (batch[Feed] = "open")
    /\ failures \in 0 .. MaxFailures

TablesOK == db \in Tables /\ disk \in Tables

LEMMA TypeParts ==
    TypeInv <=> TablesOK /\ ConnOK /\ FeedOK /\ NewsOK /\ PredOK /\ DayInv /\ PageInv
  BY DEF TypeInv, TypeOK, TablesOK, ConnOK

(* What a statement, a BEGIN or a COMMIT of one thread does: the tables of the
   others are left alone, and the disk stays as it is or is brought up to date. *)
Touches(stocks, news, predictions) ==
    /\ db' \in Tables /\ disk' \in {disk, db'}
    /\ stocks \/ db'.stocks = db.stocks
    /\ news \/ db'.news = db.news
    /\ predictions \/ db'.predictions = db.predictions

LEMMA TouchesType ==
    ASSUME TablesOK, NEW s \in BOOLEAN, NEW n \in BOOLEAN, NEW p \in BOOLEAN, Touches(s, n, p)
    PROVE  TablesOK'
  BY DEF Touches, TablesOK

LEMMA NothingTouched ==
    ASSUME TablesOK, UNCHANGED db, disk' \in {disk, db}
    PROVE  /\ Touches(TRUE, FALSE, FALSE) /\ Touches(FALSE, TRUE, FALSE)
           /\ Touches(FALSE, FALSE, TRUE)
  BY DEF Touches, TablesOK

LEMMA FailsStep ==
    ASSUME TablesOK, ConnOK, Fails
    PROVE  /\ ConnOK' /\ UNCHANGED <<db, disk, inTxn, batch>>
           /\ Touches(TRUE, FALSE, FALSE) /\ Touches(FALSE, TRUE, FALSE)
           /\ Touches(FALSE, FALSE, TRUE)
  <1>1. UNCHANGED <<db, disk, inTxn, batch>>
    BY DEF Fails, connVars
  <1>2. failures' \in 0 .. MaxFailures
    BY FailuresAssumption DEF Fails, ConnOK
  <1> QED BY <1>1, <1>2, NothingTouched DEF ConnOK

LEMMA StocksWritten ==
    ASSUME TablesOK, ConnOK, NEW t \in Seq(StockRows), Runs([db EXCEPT !.stocks = t])
    PROVE  ConnOK' /\ Touches(TRUE, FALSE, FALSE) /\ db'.stocks = t /\ batch' = batch
  <1>1. db' = [db EXCEPT !.stocks = t] /\ disk' \in {disk, db'} /\ UNCHANGED <<inTxn, batch, failures>>
    BY DEF Runs, Exec
  <1>2. db' \in Tables /\ db'.stocks = t /\ db'.news = db.news /\ db'.predictions = db.predictions
    BY <1>1 DEF TablesOK, Tables
  <1> QED BY <1>1, <1>2 DEF ConnOK, Touches

LEMMA NewsWritten ==
    ASSUME TablesOK, ConnOK, NEW t \in Seq(ToSet(Ids)), Runs([db EXCEPT !.news = t])
    PROVE  ConnOK' /\ Touches(FALSE, TRUE, FALSE) /\ db'.news = t /\ batch' = batch
  <1>1. db' = [db EXCEPT !.news = t] /\ disk' \in {disk, db'} /\ UNCHANGED <<inTxn, batch, failures>>
    BY DEF Runs, Exec
  <1>2. db' \in Tables /\ db'.news = t /\ db'.stocks = db.stocks /\ db'.predictions = db.predictions
    BY <1>1 DEF TablesOK, Tables
  <1> QED BY <1>1, <1>2 DEF ConnOK, Touches

LEMMA PredictionsWritten ==
    ASSUME TablesOK, ConnOK, NEW t \in Seq(PredictionRows), Runs([db EXCEPT !.predictions = t])
    PROVE  /\ ConnOK' /\ Touches(FALSE, FALSE, TRUE) /\ db'.predictions = t
           /\ batch' = batch /\ inTxn' = inTxn
           /\ disk' = IF inTxn THEN disk ELSE db'
  <1>1. /\ db' = [db EXCEPT !.predictions = t] /\ disk' = IF inTxn THEN disk ELSE db'
        /\ UNCHANGED <<inTxn, batch, failures>>
    BY DEF Runs, Exec
  <1>2. db' \in Tables /\ db'.predictions = t /\ db'.stocks = db.stocks /\ db'.news = db.news
    BY <1>1 DEF TablesOK, Tables
  <1> QED BY <1>1, <1>2 DEF ConnOK, Touches

LEMMA ListedType ==
    ASSUME NEW t \in Seq(StockRows), NEW item \in Listings
    PROVE  /\ Listed(t, item) \in Seq(StockRows)
           /\ NamesIn(t) \cup {item.name} \subseteq NamesIn(Listed(t, item))
           /\ \A r \in ToSet(Listed(t, item)) : r \in ToSet(t) \/ r.code = item.code
  <1>1. CASE item.name \in NamesIn(t)
    BY <1>1 DEF Listed
  <1>2. CASE item.name \notin NamesIn(t)
    <2> DEFINE row == [name |-> item.name, code |-> item.code, price |-> 0]
    <2>1. row \in StockRows /\ row.name = item.name /\ row.code = item.code
      BY DEF StockRows, Listings
    <2>2. Listed(t, item) = Append(t, row)
      BY <1>2 DEF Listed
    <2>3. Append(t, row) \in Seq(StockRows) /\ ToSet(Append(t, row)) = ToSet(t) \cup {row}
      BY <2>1, AppendType
    <2> HIDE DEF row
    <2> QED BY <2>1, <2>2, <2>3 DEF NamesIn
  <1> QED BY <1>1, <1>2

LEMMA PricedType ==
    ASSUME NEW t \in Seq(StockRows), NEW line \in StockRows
    PROVE  /\ Priced(t, line) \in Seq(StockRows)
           /\ (\A r \in ToSet(t) : r.code # line.code) => Priced(t, line) = t
  <1> DEFINE f == [i \in DOMAIN t |-> IF t[i].code = line.code
                                       THEN [t[i] EXCEPT !.name = line.name, !.price = line.price]
                                       ELSE t[i]]
  <1>1. DOMAIN t = 1 .. Len(t) /\ Len(t) \in Nat /\ \A i \in DOMAIN t : t[i] \in StockRows
    BY SeqType
  <1>2. \A i \in DOMAIN t : f[i] \in StockRows
    BY <1>1 DEF StockRows
  <1>3. f \in Seq(StockRows)
    <2>1. f \in [1 .. Len(t) -> StockRows]
      BY <1>1, <1>2
    <2> HIDE DEF f
    <2> QED BY <1>1, <2>1, SeqFrom
  <1>4. Priced(t, line) \in {f, t}
    BY DEF Priced
  <1>5. ASSUME \A r \in ToSet(t) : r.code # line.code PROVE f = t
    <2>1. \A i \in DOMAIN t : f[i] = t[i]
      BY <1>5 DEF ToSet
    <2>2. f = [i \in DOMAIN t |-> t[i]]
      BY <2>1
    <2>3. t = [i \in DOMAIN t |-> t[i]]
      BY SeqType
    <2> QED BY <2>2, <2>3
  <1> HIDE DEF f
  <1> QED BY <1>3, <1>4, <1>5

LEMMA RowType ==
    ASSUME NEW symbol \in Seq(Texts), NEW name \in Texts, NEW price \in Nat
    PROVE  [code |-> symbol, name |-> name, price |-> price] \in StockRows
  BY DEF StockRows

(* What the service says of a code is under the code's symbol. *)
LEMMA LinesType ==
    ASSUME NEW c \in Seq(Texts)
    PROVE  /\ Lines(c) \subseteq StockRows
           /\ \A line \in Lines(c) : line.code # Blank /\ Head(line.code) = Prefix
  <1>1. Symbol(c) \in Seq(Texts) /\ Symbol(c) # Blank /\ Head(Symbol(c)) = Prefix
    <2>1. <<Prefix>> \in Seq(Texts) /\ Len(<<Prefix>>) = 1 /\ <<Prefix>>[1] = Prefix
      <3>1. Prefix \in Texts
        BY TextsAssumption
      <3> QED BY <3>1
    <2>2. /\ Symbol(c) \in Seq(Texts) /\ Len(Symbol(c)) = 1 + Len(c)
          /\ \A i \in 1 .. (1 + Len(c)) : i <= 1 => Symbol(c)[i] = <<Prefix>>[i]
      BY <2>1, ConcatProperties DEF Symbol
    <2>3. Len(c) \in Nat
      BY SeqType
    <2>4. Symbol(c) # <<>> /\ Symbol(c)[1] = Prefix
      BY <2>1, <2>2, <2>3, SeqType
    <2> QED BY <2>2, <2>4, TailType DEF Blank
  <1>2. \A n \in Names(c) : n \in Texts
    <2>1. \A p \in ToSet(Pages) : p \in Seq(Listings)
      BY ListAssumption, SeqType DEF Listings
    <2>2. \A p \in ToSet(Pages) : \A i \in ToSet(p) : i \in Listings
      BY <2>1, SeqType
    <2> QED BY <2>2 DEF Names, Listings
  <1>3. \A line \in Lines(c) : line \in StockRows /\ line.code = Symbol(c)
    <2>1. CASE Names(c) = {}
      <3> DEFINE none == ""
      <3>1. Lines(c) = {[code |-> Symbol(c), name |-> none, price |-> 0]}
        BY <2>1 DEF Lines
      <3>2. none \in Texts
        BY TextsAssumption
      <3> HIDE DEF none
      <3>3. [code |-> Symbol(c), name |-> none, price |-> 0] \in StockRows
        BY ONLY <1>1, <3>2, RowType
      <3> QED BY <3>1, <3>3
    <2>2. CASE Names(c) # {}
      <3> SUFFICES ASSUME NEW line \in Lines(c)
                   PROVE  line \in StockRows /\ line.code = Symbol(c)
        OBVIOUS
      <3>1. \E n \in Names(c), q \in Quotes : line = [code |-> Symbol(c), name |-> n, price |-> q]
        BY <2>2 DEF Lines
      <3>2. PICK n \in Names(c), q \in Quotes : line = [code |-> Symbol(c), name |-> n, price |-> q]
        BY <3>1
      <3>3. n \in Texts /\ q \in Nat
        BY <1>2, QuotesAssumption
      <3>4. [code |-> Symbol(c), name |-> n, price |-> q] \in StockRows
        BY ONLY <1>1, <3>3, RowType
      <3> QED BY <3>2, <3>4
    <2> QED BY <2>1, <2>2
  <1> QED BY <1>1, <1>3

LEMMA PagesType ==
    /\ Len(Pages) \in Nat /\ DOMAIN Pages = 1 .. Len(Pages)
    /\ \A p \in 1 .. Len(Pages) : Pages[p] \in Seq(Listings)
    /\ \A p \in 1 .. Len(Pages) : \A item \in ToSet(Pages[p]) : item \in Listings /\ Plain(item.code)
  <1>1. Pages \in Seq(Seq(Listings))
    BY ListAssumption DEF Listings
  <1>2. /\ Len(Pages) \in Nat /\ DOMAIN Pages = 1 .. Len(Pages)
        /\ \A p \in 1 .. Len(Pages) : Pages[p] \in Seq(Listings)
    BY <1>1, SeqType
  <1>3. ASSUME NEW p \in 1 .. Len(Pages), NEW item \in ToSet(Pages[p])
        PROVE  item \in Listings /\ Plain(item.code)
    <2>1. Pages[p] \in ToSet(Pages)
      BY <1>2 DEF ToSet
    <2>2. item \in Listings
      BY <1>2, <1>3, SeqType
    <2> QED BY <2>1, <2>2, <1>3, ListAssumption DEF Plain
  <1> QED BY <1>2, <1>3

LEMMA SelectCodesType ==
    ASSUME TypeInv, SelectCodes
    PROVE  ConnOK' /\ FeedOK' /\ PageInv' /\ Touches(TRUE, FALSE, FALSE)
  <1>1. TablesOK /\ ConnOK /\ FeedOK /\ PageInv
    BY TypeParts
  <1>2. UNCHANGED <<db, disk, inTxn, batch, failures>>
    BY DEF SelectCodes, statementVars, connVars
  <1>3. CodesIn(db.stocks) \in Seq(Seq(Texts))
    <2>1. db.stocks \in Seq(StockRows)
      BY <1>1 DEF TablesOK, Tables
    <2> QED BY <2>1, CodesType
  <1>4. Len(CodesIn(db.stocks)) \in Nat
    BY <1>3, SeqType
  <1>5. FeedOK'
    BY <1>1, <1>2, <1>3, <1>4, FeedAssumption DEF FeedOK, SelectCodes
  <1>6. PageInv'
    BY <1>1 DEF PageInv, SelectCodes
  <1> QED BY <1>1, <1>2, <1>5, <1>6, NothingTouched DEF ConnOK

LEMMA ListEndsType ==
    ASSUME TypeInv, PageFails \/ LastPage
    PROVE  ConnOK' /\ FeedOK' /\ PageInv' /\ Touches(TRUE, FALSE, FALSE)
  <1>1. TablesOK /\ ConnOK /\ FeedOK /\ PageInv
    BY TypeParts
  <1>2. UNCHANGED <<db, disk, inTxn, batch, failures>>
    BY DEF PageFails, LastPage, statementVars, connVars
  <1>3. /\ feedPc = "list" /\ feedPc' = AfterList /\ page' = 1 /\ cutShort' \in {TRUE, cutShort}
        /\ UNCHANGED <<items, codes, asked, lines, passes, quoted>>
    BY DEF PageFails, LastPage
  <1>4. /\ feedPc' \in {"asleep", "ask"} /\ (feedPc' = "asleep" => codes = <<>>)
        /\ page' \in 1 .. Len(Pages) + 1
    BY <1>3, PagesType DEF AfterList
  <1>5. FeedOK'
    BY <1>1, <1>2, <1>3, <1>4 DEF FeedOK
  <1>6. PageInv'
    BY <1>1, <1>3, <1>4 DEF PageInv
  <1> QED BY <1>1, <1>2, <1>5, <1>6, NothingTouched DEF ConnOK

(* BEGIN and COMMIT of the updater. *)
LEMMA BatchType ==
    ASSUME TablesOK, ConnOK, UNCHANGED failures, BeginBatch(Feed) \/ CommitBatch(Feed)
    PROVE  /\ ConnOK' /\ Touches(TRUE, FALSE, FALSE) /\ db' = db
           /\ batch'[Feed] = IF BeginBatch(Feed) THEN "open" ELSE "idle"
           /\ disk' = IF BeginBatch(Feed) THEN disk ELSE db
  <1>1. CASE BeginBatch(Feed)
    <2>1. batch' = [batch EXCEPT ![Feed] = "open"] /\ inTxn' = TRUE /\ UNCHANGED <<db, disk>>
      BY <1>1 DEF BeginBatch
    <2>2. batch' \in [Batchers -> {"idle", "open"}] /\ batch'[Feed] = "open"
      BY <2>1, FeedAssumption DEF ConnOK
    <2> QED BY <1>1, <2>1, <2>2, NothingTouched DEF ConnOK
  <1>2. CASE ~BeginBatch(Feed)
    <2>1. /\ batch' = [batch EXCEPT ![Feed] = "idle"] /\ inTxn' = FALSE /\ disk' = db
          /\ UNCHANGED db
      BY <1>2 DEF CommitBatch
    <2>2. batch' \in [Batchers -> {"idle", "open"}] /\ batch'[Feed] = "idle"
      BY <2>1, FeedAssumption DEF ConnOK
    <2> QED BY <1>2, <2>1, <2>2, NothingTouched DEF ConnOK
  <1> QED BY <1>1, <1>2

LEMMA BeginPageType ==
    ASSUME TypeInv, BeginPage
    PROVE  ConnOK' /\ FeedOK' /\ PageInv' /\ Touches(TRUE, FALSE, FALSE)
  <1>1. TablesOK /\ ConnOK /\ FeedOK /\ PageInv
    BY TypeParts
  <1>2. ConnOK' /\ Touches(TRUE, FALSE, FALSE) /\ batch'[Feed] = "open"
    BY <1>1, BatchType DEF BeginPage
  <1>3. page \in 1 .. Len(Pages) /\ items' = Pages[page]
    BY <1>1, PagesType DEF BeginPage, FeedOK
  <1>4. items' \in Seq(Listings)
    BY <1>3, PagesType
  <1>5. FeedOK'
    BY <1>1, <1>2, <1>4 DEF FeedOK, BeginPage
  <1>6. PageInv'
    <2>1. items' = Pages[page] /\ page' = page /\ lines' = lines
      BY DEF BeginPage
    <2> QED BY <1>1, <1>3, <2>1 DEF PageInv
  <1> QED BY <1>2, <1>5, <1>6

LEMMA InsertStockType ==
    ASSUME TypeInv, InsertStock
    PROVE  ConnOK' /\ FeedOK' /\ PageInv' /\ Touches(TRUE, FALSE, FALSE)
  <1>1. TablesOK /\ ConnOK /\ FeedOK /\ PageInv
    BY TypeParts
  <1>2. /\ Head(items) \in Listings /\ Tail(items) \in Seq(Listings)
        /\ ToSet(items) = {Head(items)} \cup ToSet(Tail(items))
    <2>1. items \in Seq(Listings) /\ items # <<>>
      BY <1>1 DEF FeedOK, InsertStock
    <2> QED BY <2>1, TailType
  <1>3. ConnOK' /\ Touches(TRUE, FALSE, FALSE) /\ batch' = batch
    <2>1. CASE Fails
      BY <1>1, <2>1, FailsStep
    <2>2. CASE Runs([db EXCEPT !.stocks = Listed(@, Head(items))])
      <3>1. db.stocks \in Seq(StockRows)
        BY <1>1 DEF TablesOK, Tables
      <3>2. Listed(db.stocks, Head(items)) \in Seq(StockRows)
        BY <1>2, <3>1, ListedType
      <3>3. Runs([db EXCEPT !.stocks = Listed(db.stocks, Head(items))])
        BY <2>2
      <3> QED BY <1>1, <3>2, <3>3, StocksWritten
    <2> QED BY <2>1, <2>2 DEF InsertStock
  <1>4. cutShort' \in BOOLEAN
    BY <1>1 DEF InsertStock, FeedOK
  <1>5. codes' \in Seq(Seq(Texts)) /\ Len(codes') = Len(codes) + 1 /\ Len(codes) \in Nat
    <2>1. Head(items).code \in Seq(Texts) /\ codes \in Seq(Seq(Texts))
      BY <1>1, <1>2 DEF FeedOK, Listings
    <2>2. codes' = Append(codes, Head(items).code)
      BY DEF InsertStock
    <2> QED BY <2>1, <2>2, AppendType, SeqType
  <1>6. /\ feedPc = "page" /\ items' = Tail(items)
        /\ UNCHANGED <<feedPc, page, asked, lines, passes, quoted>>
    BY DEF InsertStock
  <1>7. FeedOK'
    BY <1>1, <1>2, <1>3, <1>4, <1>5, <1>6 DEF FeedOK
  <1>8. PageInv'
    BY <1>1, <1>2, <1>6 DEF PageInv
  <1> QED BY <1>3, <1>7, <1>8

LEMMA CommitPageType ==
    ASSUME TypeInv, CommitPage
    PROVE  ConnOK' /\ FeedOK' /\ PageInv' /\ Touches(TRUE, FALSE, FALSE)
  <1>1. TablesOK /\ ConnOK /\ FeedOK /\ PageInv
    BY TypeParts
  <1>2. ConnOK' /\ Touches(TRUE, FALSE, FALSE) /\ batch'[Feed] = "idle"
    <2>1. CommitBatch(Feed) /\ UNCHANGED failures /\ ~BeginBatch(Feed)
      BY DEF CommitPage, CommitBatch, BeginBatch
    <2> QED BY <1>1, <2>1, BatchType
  <1>3. page' \in 1 .. Len(Pages) + 1
    BY <1>1, PagesType DEF CommitPage, FeedOK, PageInv
  <1>4. FeedOK'
    BY <1>1, <1>2, <1>3 DEF FeedOK, CommitPage
  <1>5. PageInv'
    BY <1>1 DEF PageInv, CommitPage
  <1> QED BY <1>2, <1>4, <1>5

(* What is asked for next. *)
LEMMA AskingType ==
    ASSUME TypeInv, asked < Len(codes)
    PROVE  /\ BatchEnd \in 0 .. Len(codes)
           /\ Asking \in Seq(Seq(Texts)) /\ Len(Asking) \in Nat \ {0}
  <1>1. codes \in Seq(Seq(Texts)) /\ asked \in Nat /\ Len(codes) \in Nat
    <2>1. codes \in Seq(Seq(Texts)) /\ asked \in 0 .. Len(codes)
      BY DEF TypeInv, TypeOK, FeedOK
    <2> QED BY <2>1, SeqType
  <1>2. BatchEnd \in (asked + 1) .. Len(codes)
    BY <1>1, FeedAssumption DEF BatchEnd
  <1>3. BatchEnd \in 0 .. Len(codes) /\ asked + 1 \in 1 .. Len(codes) + 1
        /\ asked + 1 \in 1 .. Len(codes)
    BY <1>1, <1>2
  <1> HIDE DEF BatchEnd
  <1>4. Asking \in Seq(Seq(Texts)) /\ Len(Asking) = BatchEnd - asked
    <2>1. /\ SubSeq(codes, asked + 1, BatchEnd) \in Seq(Seq(Texts))
          /\ Len(SubSeq(codes, asked + 1, BatchEnd))
               = IF asked + 1 <= BatchEnd THEN BatchEnd - (asked + 1) + 1 ELSE 0
      <3>1. BatchEnd \in asked .. Len(codes)
        BY <1>1, <1>2
      <3>2. \A i \in (asked + 1) .. BatchEnd : codes[i] \in Seq(Texts)
        <4>1. \A i \in (asked + 1) .. BatchEnd : i \in 1 .. Len(codes)
          BY <1>1, <1>3
        <4> QED BY <1>1, <4>1, SeqType
      <3> QED BY <1>1, <1>2, <1>3, <3>1, <3>2, SubSeqProperties
    <2> QED BY <1>1, <1>2, <2>1 DEF Asking
  <1>5. Len(Asking) \in Nat \ {0}
    BY <1>1, <1>2, <1>4
  <1> QED BY <1>3, <1>4, <1>5

LEMMA PricesFailType ==
    ASSUME TypeInv, PricesFail
    PROVE  ConnOK' /\ FeedOK' /\ PageInv' /\ Touches(TRUE, FALSE, FALSE)
  <1>1. TablesOK /\ ConnOK /\ FeedOK /\ PageInv
    BY TypeParts
  <1>2. UNCHANGED <<db, disk, inTxn, batch, failures>>
    BY DEF PricesFail, statementVars, connVars
  <1>3. asked' \in 0 .. Len(codes) /\ feedPc = "ask"
        /\ UNCHANGED <<feedPc, page, items, codes, lines, passes, cutShort, quoted>>
    BY AskingType DEF PricesFail
  <1>4. FeedOK'
    BY <1>1, <1>2, <1>3 DEF FeedOK
  <1>5. PageInv'
    BY <1>1, <1>3 DEF PageInv
  <1> QED BY <1>1, <1>2, <1>4, <1>5, NothingTouched DEF ConnOK

LEMMA BeginPricesType ==
    ASSUME TypeInv, BeginPrices
    PROVE  ConnOK' /\ FeedOK' /\ PageInv' /\ Touches(TRUE, FALSE, FALSE)
  <1>1. TablesOK /\ ConnOK /\ FeedOK /\ PageInv
    BY TypeParts
  <1>2. ConnOK' /\ Touches(TRUE, FALSE, FALSE) /\ batch'[Feed] = "open"
    BY <1>1, BatchType DEF BeginPrices
  <1>3. /\ asked' \in 0 .. Len(codes) /\ Asking \in Seq(Seq(Texts)) /\ Len(Asking) \in Nat \ {0}
        /\ feedPc = "ask" /\ feedPc' = "update" /\ UNCHANGED <<page, items, codes, passes, cutShort>>
    BY AskingType DEF BeginPrices
  <1>4. PICK answer \in [1 .. Len(Asking) -> UNION {Lines(c) : c \in ToSet(Asking)}] :
             /\ \A i \in DOMAIN answer : answer[i] \in Lines(Asking[i])
             /\ lines' = answer
             /\ quoted' = [c \in DOMAIN quoted \cup ToSet(Asking) |->
                              IF c \in ToSet(Asking)
                              THEN answer[CHOOSE i \in DOMAIN answer : Asking[i] = c].price
                              ELSE quoted[c]]
    BY DEF BeginPrices
  <1> HIDE DEF Asking
  <1>5. DOMAIN answer = 1 .. Len(Asking) /\ DOMAIN Asking = 1 .. Len(Asking)
        /\ ToSet(Asking) \subseteq Seq(Texts) /\ \A i \in 1 .. Len(Asking) : Asking[i] \in Seq(Texts)
    BY <1>3, <1>4, SeqType
  <1>6. \A i \in 1 .. Len(Asking) :
            answer[i] \in StockRows /\ answer[i].code # Blank /\ Head(answer[i].code) = Prefix
    BY <1>4, <1>5, LinesType
  <1>7. lines' \in Seq(StockRows)
    <2>1. answer \in [1 .. Len(Asking) -> StockRows]
      BY <1>5, <1>6, <1>4
    <2> QED BY <1>3, <1>4, <2>1, SeqFrom
  <1>8. PageInv'
    <2>1. \A i \in DOMAIN lines' : lines'[i].code # Blank /\ Head(lines'[i].code) = Prefix
      BY <1>4, <1>5, <1>6
    <2> QED BY <1>3, <2>1 DEF PageInv
  <1>9. DOMAIN quoted' \subseteq Seq(Texts) /\ quoted' \in [DOMAIN quoted' -> Nat]
    <2>1. DOMAIN quoted \subseteq Seq(Texts) /\ quoted \in [DOMAIN quoted -> Nat]
      BY <1>1 DEF FeedOK
    <2>2. ASSUME NEW c \in ToSet(Asking)
          PROVE  answer[CHOOSE i \in DOMAIN answer : Asking[i] = c].price \in Nat
      <3>1. \E i \in DOMAIN answer : Asking[i] = c
        BY <1>5, <2>2 DEF ToSet
      <3>2. (CHOOSE i \in DOMAIN answer : Asking[i] = c) \in 1 .. Len(Asking)
        BY <1>5, <3>1
      <3> QED BY <1>6, <3>2 DEF StockRows
    <2>3. DOMAIN quoted' = DOMAIN quoted \cup ToSet(Asking)
      BY <1>4
    <2>4. \A c \in DOMAIN quoted' : quoted'[c] \in Nat
      BY <1>4, <2>1, <2>2
    <2>5. quoted' = [c \in DOMAIN quoted' |-> quoted'[c]]
      BY <1>4
    <2> QED BY <1>5, <2>1, <2>3, <2>4, <2>5
  <1>10. FeedOK'
    BY <1>1, <1>2, <1>3, <1>7, <1>9 DEF FeedOK
  <1> QED BY <1>2, <1>8, <1>10

LEMMA UpdateStockType ==
    ASSUME TypeInv, UpdateStock
    PROVE  ConnOK' /\ FeedOK' /\ PageInv' /\ Touches(TRUE, FALSE, FALSE)
  <1>1. TablesOK /\ ConnOK /\ FeedOK /\ PageInv
    BY TypeParts
  <1>2. /\ Head(lines) \in StockRows /\ Tail(lines) \in Seq(StockRows)
        /\ \A i \in DOMAIN Tail(lines) : i + 1 \in DOMAIN lines /\ Tail(lines)[i] = lines[i + 1]
    <2>1. lines \in Seq(StockRows) /\ lines # <<>>
      BY <1>1 DEF FeedOK, UpdateStock
    <2> QED BY <2>1, TailType
  <1>3. ConnOK' /\ Touches(TRUE, FALSE, FALSE) /\ batch' = batch
    <2>1. CASE Fails
      BY <1>1, <2>1, FailsStep
    <2>2. CASE Runs([db EXCEPT !.stocks = Priced(@, Head(lines))])
      <3>1. db.stocks \in Seq(StockRows)
        BY <1>1 DEF TablesOK, Tables
      <3>2. Priced(db.stocks, Head(lines)) \in Seq(StockRows)
        BY <1>2, <3>1, PricedType
      <3>3. Runs([db EXCEPT !.stocks = Priced(db.stocks, Head(lines))])
        BY <2>2
      <3> QED BY <1>1, <3>2, <3>3, StocksWritten
    <2> QED BY <2>1, <2>2 DEF UpdateStock
  <1>4. /\ feedPc = "update" /\ lines' = Tail(lines)
        /\ UNCHANGED <<feedPc, page, items, codes, asked, passes, cutShort, quoted>>
    BY DEF UpdateStock
  <1>5. FeedOK'
    BY <1>1, <1>2, <1>3, <1>4 DEF FeedOK
  <1>6. PageInv'
    BY <1>1, <1>2, <1>4 DEF PageInv
  <1> QED BY <1>3, <1>5, <1>6

LEMMA CommitPricesType ==
    ASSUME TypeInv, CommitPrices
    PROVE  ConnOK' /\ FeedOK' /\ PageInv' /\ Touches(TRUE, FALSE, FALSE)
  <1>1. TablesOK /\ ConnOK /\ FeedOK /\ PageInv
    BY TypeParts
  <1>2. ConnOK' /\ Touches(TRUE, FALSE, FALSE) /\ batch'[Feed] = "idle"
    <2>1. CommitBatch(Feed) /\ UNCHANGED failures /\ ~BeginBatch(Feed)
      BY DEF CommitPrices, CommitBatch, BeginBatch
    <2> QED BY <1>1, <2>1, BatchType
  <1>3. /\ feedPc = "update" /\ feedPc' = "ask" /\ lines = <<>>
        /\ UNCHANGED <<page, items, codes, asked, lines, passes, cutShort, quoted>>
    BY DEF CommitPrices
  <1>4. FeedOK'
    BY <1>1, <1>2, <1>3 DEF FeedOK
  <1>5. PageInv'
    BY <1>1, <1>3 DEF PageInv
  <1> QED BY <1>2, <1>4, <1>5

LEMMA EndPassType ==
    ASSUME TypeInv, EndPass
    PROVE  ConnOK' /\ FeedOK' /\ PageInv' /\ Touches(TRUE, FALSE, FALSE)
  <1>1. TablesOK /\ ConnOK /\ FeedOK /\ PageInv
    BY TypeParts
  <1>2. UNCHANGED <<db, disk, inTxn, batch, failures>>
    BY DEF EndPass, statementVars, connVars
  <1>3. /\ feedPc = "ask" /\ feedPc' = "asleep" /\ codes' = <<>> /\ asked' = 0 /\ quoted' = <<>>
        /\ UNCHANGED <<page, items, lines, passes, cutShort>>
    BY DEF EndPass, PricesDone
  <1>4. codes' \in Seq(Seq(Texts)) /\ Len(codes') = 0 /\ DOMAIN quoted' = {} /\ quoted' \in [{} -> Nat]
    BY <1>3
  <1>5. FeedOK'
    BY <1>1, <1>2, <1>3, <1>4 DEF FeedOK
  <1>6. PageInv'
    BY <1>1, <1>3 DEF PageInv
  <1> QED BY <1>1, <1>2, <1>5, <1>6, NothingTouched DEF ConnOK

LEMMA FeedType ==
    ASSUME TypeInv, FeedNext
    PROVE  ConnOK' /\ FeedOK' /\ PageInv' /\ Touches(TRUE, FALSE, FALSE)
  BY SelectCodesType, ListEndsType, BeginPageType, InsertStockType, CommitPageType, PricesFailType,
     BeginPricesType, UpdateStockType, CommitPricesType, EndPassType DEF FeedNext, FeedBatch

-----------------------------------------------------------------------------
(* Type correctness: the news thread.                                      *)

LEMMA IdsType ==
    ASSUME NewsOK, ids # <<>>
    PROVE  /\ Head(ids) \in ToSet(Ids) /\ Tail(ids) \in Seq(ToSet(Ids))
           /\ Len(Tail(ids)) <= Len(Ids)
           /\ Tail(ids) = SubSeq(Ids, Len(Ids) - Len(Tail(ids)) + 1, Len(Ids))
  <1>1. /\ ids \in Seq(ToSet(Ids)) /\ Len(ids) <= Len(Ids)
        /\ ids = SubSeq(Ids, Len(Ids) - Len(ids) + 1, Len(Ids))
    BY DEF NewsOK
  <1>2. Ids \in Seq(ToSet(Ids)) /\ Len(Ids) \in Nat
    BY IdsAssumption, SeqType
  <1>3. /\ Head(ids) \in ToSet(Ids) /\ Tail(ids) \in Seq(ToSet(Ids))
        /\ Len(Tail(ids)) = Len(ids) - 1 /\ Len(ids) \in Nat \ {0}
    BY <1>1, TailType
  <1> DEFINE m == Len(Ids) - Len(ids) + 1
             n == Len(Ids)
  <1>4. m \in 1 .. n /\ n \in Nat /\ Len(Ids) - Len(Tail(ids)) + 1 = m + 1
    BY <1>1, <1>2, <1>3
  <1>5. ids = SubSeq(Ids, m, n)
    BY <1>1
  <1> HIDE DEF m, n
  <1>6. Tail(SubSeq(Ids, m, n)) = SubSeq(Ids, m + 1, n)
    <2>1. \A i \in m .. n : Ids[i] \in ToSet(Ids)
      BY <1>2, <1>4, SeqType DEF n
    <2>2. n \in m .. Len(Ids) /\ m \in 1 .. Len(Ids)
      BY <1>4 DEF n
    <2> QED BY <1>2, <1>4, <2>1, <2>2, HeadTailOfSubSeq
  <1>7. Len(Tail(ids)) <= Len(Ids)
    BY <1>1, <1>2, <1>3
  <1> QED BY <1>3, <1>4, <1>5, <1>6, <1>7 DEF n

LEMMA NewsType ==
    ASSUME TypeInv, NewsNext
    PROVE  ConnOK' /\ NewsOK' /\ Touches(FALSE, TRUE, FALSE) /\ batch' = batch
  <1>1. TablesOK /\ ConnOK /\ NewsOK
    BY TypeParts
  <1>2. CASE InsertNews
    <2>1. ids # <<>> /\ newsPc' = "check" /\ ids' = Tail(ids)
      BY <1>1, <1>2 DEF InsertNews, NewsOK, NextId
    <2>2. NewsOK'
      BY <1>1, <2>1, IdsType DEF NewsOK
    <2>3. CASE Fails
      BY <1>1, <2>2, <2>3, FailsStep
    <2>4. CASE Runs([db EXCEPT !.news = Append(@, Head(ids))])
      <3>1. db.news \in Seq(ToSet(Ids))
        BY <1>1 DEF TablesOK, Tables
      <3>2. Append(db.news, Head(ids)) \in Seq(ToSet(Ids))
        BY <1>1, <2>1, <3>1, IdsType, AppendType
      <3>3. Runs([db EXCEPT !.news = Append(db.news, Head(ids))])
        BY <2>4
      <3> QED BY <1>1, <2>2, <3>2, <3>3, NewsWritten
    <2> QED BY <1>2, <2>3, <2>4 DEF InsertNews
  <1>3. CASE NewsList \/ CheckId \/ DetailFails \/ DetailArrives
    <2>1. UNCHANGED <<db, disk, inTxn, batch, failures>>
      BY <1>3 DEF NewsList, CheckId, DetailFails, DetailArrives, statementVars, connVars
    <2>2. CASE NewsList
      <3>1. Len(Ids) \in Nat /\ Ids = SubSeq(Ids, 1, Len(Ids))
        BY IdsAssumption, SeqType, SubSeqFull
      <3>2. Len(Ids) <= Len(Ids) /\ Len(Ids) - Len(Ids) + 1 = 1
        BY <3>1
      <3>3. NewsOK'
        BY <1>1, <2>2, <3>1, <3>2, IdsAssumption DEF NewsOK, NewsList
      <3> QED BY <1>1, <2>1, <3>3, NothingTouched DEF ConnOK
    <2>3. CASE CheckId
      <3>1. NewsOK'
        BY <1>1, <2>3, IdsType DEF NewsOK, CheckId, NextId
      <3> QED BY <1>1, <2>1, <3>1, NothingTouched DEF ConnOK
    <2>4. CASE DetailFails \/ DetailArrives
      <3>1. NewsOK'
        BY <1>1, <2>4, IdsType DEF NewsOK, DetailFails, DetailArrives, NextId
      <3> QED BY <1>1, <2>1, <3>1, NothingTouched DEF ConnOK
    <2> QED BY <1>3, <2>2, <2>3, <2>4
  <1> QED BY <1>2, <1>3 DEF NewsNext

-----------------------------------------------------------------------------
(* Type correctness: the predictor.                                        *)

LEMMA PriceType ==
    ASSUME NEW t \in Seq(StockRows), NEW c
    PROVE  PriceIn(t, c) \in Nat
  <1> DEFINE own == {i \in DOMAIN t : t[i].code = c}
             first == CHOOSE i \in own : \A j \in own : i <= j
  <1>1. Len(t) \in Nat /\ DOMAIN t = 1 .. Len(t) /\ \A i \in DOMAIN t : t[i] \in StockRows
    BY SeqType
  <1>2. IsFiniteSet(own) /\ own \subseteq Int /\ own \subseteq DOMAIN t
    <2>1. IsFiniteSet(1 .. Len(t)) /\ own \subseteq 1 .. Len(t)
      BY <1>1, FS_Interval
    <2> QED BY <1>1, <2>1, FS_Subset
  <1>3. PriceIn(t, c) = IF own = {} THEN 0 ELSE t[first].price
    BY DEF PriceIn
  <1> HIDE DEF own
  <1>4. own # {} => first \in own
    BY <1>2, LeastExists
  <1>5. own # {} => t[first].price \in Nat
    <2> HIDE DEF first
    <2> QED BY <1>1, <1>2, <1>4 DEF StockRows
  <1> QED BY <1>3, <1>5

(* A row keeps everything but what was found out of it. *)
LEMMA VerifiedType ==
    ASSUME NEW t \in Seq(PredictionRows), NEW id \in DOMAIN t, NEW price \in Nat
    PROVE  /\ Verified(t, id, price) \in Seq(PredictionRows)
           /\ DOMAIN Verified(t, id, price) = DOMAIN t
           /\ \A i \in DOMAIN t :
                 /\ Verified(t, id, price)[i].code = t[i].code
                 /\ Verified(t, id, price)[i].day = t[i].day
                 /\ i # id => Verified(t, id, price)[i] = t[i]
           /\ Verified(t, id, price)[id].now = t[id].now
           /\ Verified(t, id, price)[id].base \in {0, t[id].now}
           /\ Verified(t, id, price)[id].actual = price
  <1>1. Len(t) \in Nat /\ DOMAIN t = 1 .. Len(t) /\ \A i \in DOMAIN t : t[i] \in PredictionRows
    BY SeqType
  <1> DEFINE base == BaseOf(t, id)
             row == [t[id] EXCEPT !.status = "verified", !.actual = price, !.base = base]
  <1>2. base \in {0, t[id].now} /\ base \in Nat
    BY <1>1 DEF BaseOf, PredictionRows
  <1>3. Verified(t, id, price) = [t EXCEPT ![id] = row]
    BY DEF Verified
  <1> HIDE DEF base
  <1>4. row \in PredictionRows /\ row.code = t[id].code /\ row.day = t[id].day
        /\ row.now = t[id].now /\ row.base = base /\ row.actual = price
    <2>1. t[id] \in PredictionRows
      BY <1>1
    <2> QED BY <1>2, <2>1 DEF PredictionRows
  <1> HIDE DEF row
  <1>5. \A i \in DOMAIN t : Verified(t, id, price)[i] = IF i = id THEN row ELSE t[i]
    BY <1>1, <1>3
  <1>6. Verified(t, id, price) = [i \in 1 .. Len(t) |-> IF i = id THEN row ELSE t[i]]
    BY <1>1, <1>3
  <1>7. Verified(t, id, price) \in [1 .. Len(t) -> PredictionRows]
    BY <1>1, <1>4, <1>6
  <1>8. Verified(t, id, price) \in Seq(PredictionRows)
    BY <1>1, <1>7, SeqFrom
  <1> QED BY <1>1, <1>2, <1>4, <1>5, <1>6, <1>8

LEMMA VerifiedKeeps ==
    ASSUME NEW t \in Seq(PredictionRows), NEW id \in DOMAIN t, NEW price \in Nat
    PROVE  /\ Verified(t, id, price) \in Seq(PredictionRows)
           /\ DOMAIN Verified(t, id, price) = DOMAIN t
           /\ \A i \in DOMAIN t : Verified(t, id, price)[i].code = t[i].code
           /\ \A i \in DOMAIN t : Verified(t, id, price)[i].day = t[i].day
  <1> DEFINE v == Verified(t, id, price)
  <1>1. /\ v \in Seq(PredictionRows) /\ DOMAIN v = DOMAIN t
        /\ \A i \in DOMAIN t : v[i].code = t[i].code /\ v[i].day = t[i].day
    BY VerifiedType
  <1> HIDE DEF v
  <1>2. \A i \in DOMAIN t : v[i].code = t[i].code
    BY <1>1
  <1>3. \A i \in DOMAIN t : v[i].day = t[i].day
    BY <1>1
  <1> QED BY <1>1, <1>2, <1>3 DEF v

LEMMA GetPendingType ==
    ASSUME TypeInv, GetPending
    PROVE  ConnOK' /\ PredOK' /\ DayInv' /\ Touches(FALSE, FALSE, TRUE) /\ batch' = batch
  <1>1. TablesOK /\ ConnOK /\ PredOK /\ DayInv
    BY TypeParts
  <1>2. UNCHANGED <<db, disk, inTxn, batch, failures, snap, stock, cycles, torn, ragged, strays>>
    BY DEF GetPending, statementVars, connVars
  <1> DEFINE D == {i \in DOMAIN db.predictions :
                       db.predictions[i].status = "pending" /\ db.predictions[i].day = day}
  <1>3. db.predictions \in Seq(PredictionRows)
    BY <1>1 DEF TablesOK, Tables
  <1>4. queue' = InOrder(D) /\ predPc = "pending" /\ day \in Days
        /\ \/ queue' = <<>> /\ day' = day + 1 /\ predPc' = "pending"
           \/ predPc' = "stocks" /\ day' = day
    BY DEF GetPending, Pending
  <1>5. D \in SUBSET DOMAIN db.predictions
    OBVIOUS
  <1>6. \A i \in D : db.predictions[i].day = day
    OBVIOUS
  <1> HIDE DEF D
  <1>7. queue' \in Seq(D) /\ \A i \in DOMAIN queue' : queue'[i] \in D
    BY <1>3, <1>4, <1>5, SelectType, SeqType
  <1>8. queue' \in Seq(DOMAIN db.predictions)
    BY <1>5, <1>7
  <1>9. /\ day' \in 1 .. Horizon + 1
        /\ \A i \in DOMAIN queue' : db.predictions[queue'[i]].day = day'
    BY <1>4, <1>6, <1>7, HorizonAssumption DEF Days
  <1>10. PredOK'
    BY <1>1, <1>2, <1>4, <1>8, <1>9 DEF PredOK
  <1>11. DayInv'
    BY <1>1, <1>2, <1>4 DEF DayInv, Days
  <1> QED BY <1>1, <1>2, <1>10, <1>11, NothingTouched DEF ConnOK

(* The steps that neither write nor ask for pending rows *)
LEMMA PredPausesType ==
    ASSUME TypeInv, GetStocks \/ EndOfDay \/ GetAllStocks \/ SkipPredicting \/ EndOfCycle
    PROVE  ConnOK' /\ PredOK' /\ DayInv' /\ Touches(FALSE, FALSE, TRUE) /\ batch' = batch
  <1>1. TablesOK /\ ConnOK /\ PredOK /\ DayInv
    BY TypeParts
  <1>2. UNCHANGED <<db, disk, inTxn, batch, failures>>
    BY DEF GetStocks, EndOfDay, GetAllStocks, SkipPredicting, EndOfCycle, statementVars, connVars
  <1>3. db.stocks \in Seq(StockRows) /\ Len(db.stocks) \in Nat
    BY <1>1, SeqType DEF TablesOK, Tables
  <1>4. Horizon \in Nat \ {0} /\ MaxCycles \in Nat /\ 1 \in 1 .. Horizon + 1 /\ 1 \in 1 .. Len(db.stocks) + 1
    BY <1>3, HorizonAssumption
  <1>5. CASE GetStocks
    <2>1. /\ predPc = "stocks" /\ predPc' = "verify" /\ snap' = db.stocks /\ stock = 1
          /\ UNCHANGED <<day, queue, stock, cycles, torn, ragged, strays>>
      BY <1>1, <1>5 DEF GetStocks, DayInv
    <2>2. PredOK'
      BY <1>1, <1>2, <1>3, <1>4, <2>1 DEF PredOK
    <2>3. DayInv'
      BY <1>1, <2>1 DEF DayInv
    <2> QED BY <1>1, <1>2, <2>2, <2>3, NothingTouched DEF ConnOK
  <1>6. CASE EndOfDay
    <2>1. /\ predPc = "verify" /\ predPc' = "pending" /\ queue = <<>> /\ day \in Days
          /\ day' = day + 1 /\ snap' = <<>> /\ stock = 1
          /\ UNCHANGED <<queue, stock, cycles, torn, ragged, strays>>
      BY <1>1, <1>6 DEF EndOfDay, DayInv
    <2>2. snap' \in Seq(StockRows) /\ Len(snap') = 0 /\ day' \in 1 .. Horizon + 1
      BY <1>4, <2>1 DEF Days
    <2>3. PredOK'
      BY <1>1, <1>2, <1>4, <2>1, <2>2 DEF PredOK
    <2>4. DayInv'
      BY <2>1 DEF DayInv
    <2> QED BY <1>1, <1>2, <2>3, <2>4, NothingTouched DEF ConnOK
  <1>7. CASE GetAllStocks
    <2>1. /\ predPc = "pending" /\ predPc' = "insert" /\ cycles' \in 0 .. MaxCycles
          /\ snap' = db.stocks /\ stock' = 1 /\ day' = 1
          /\ UNCHANGED <<queue, torn, ragged, strays>>
      BY <1>1, <1>4, <1>7 DEF GetAllStocks, PredOK
    <2>2. queue = <<>>
      BY <1>1, <2>1 DEF PredOK
    <2>3. PredOK'
      BY <1>1, <1>2, <1>3, <1>4, <2>1, <2>2 DEF PredOK
    <2>4. DayInv'
      BY <1>4, <2>1 DEF DayInv, Days
    <2> QED BY <1>1, <1>2, <2>3, <2>4, NothingTouched DEF ConnOK
  <1>8. CASE SkipPredicting
    <2>1. /\ predPc = "pending" /\ day' = 1
          /\ UNCHANGED <<predPc, queue, snap, stock, cycles, torn, ragged, strays>>
      BY <1>8 DEF SkipPredicting
    <2>2. queue = <<>>
      BY <1>1, <2>1 DEF PredOK
    <2>3. PredOK'
      BY <1>1, <1>2, <1>4, <2>1, <2>2 DEF PredOK
    <2>4. DayInv'
      BY <1>1, <2>1 DEF DayInv
    <2> QED BY <1>1, <1>2, <2>3, <2>4, NothingTouched DEF ConnOK
  <1>9. CASE EndOfCycle
    <2>1. /\ predPc = "insert" /\ predPc' = "pending" /\ snap' = <<>> /\ stock' = 1
          /\ UNCHANGED <<day, queue, cycles, torn, ragged, strays>>
      BY <1>9 DEF EndOfCycle
    <2>2. queue = <<>> /\ snap' \in Seq(StockRows) /\ Len(snap') = 0
      BY <1>1, <2>1 DEF PredOK
    <2>3. PredOK'
      BY <1>1, <1>2, <1>4, <2>1, <2>2 DEF PredOK
    <2>4. DayInv'
      BY <2>1 DEF DayInv
    <2> QED BY <1>1, <1>2, <2>3, <2>4, NothingTouched DEF ConnOK
  <1> QED BY <1>5, <1>6, <1>7, <1>8, <1>9

(* What a step of the verification writes, if it writes. *)
LEMMA VerifyStep ==
    ASSUME TypeInv, VerifyOne
    PROVE  /\ predPc = "verify" /\ queue # <<>> /\ queue' = Tail(queue)
           /\ Head(queue) \in DOMAIN db.predictions /\ Tail(queue) \in Seq(DOMAIN db.predictions)
           /\ UNCHANGED <<predPc, day, snap, stock, cycles, torn, ragged>>
           /\ \/ strays' = strays \cup {Head(queue)} /\ (UNCHANGED statementVars \/ Fails)
              \/ /\ strays' = strays
                 /\ \E price \in Nat \ {0} :
                      Runs([db EXCEPT !.predictions = Verified(db.predictions, Head(queue), price)])
  <1>1. TablesOK /\ PredOK
    BY TypeParts
  <1>2. queue \in Seq(DOMAIN db.predictions) /\ queue # <<>> /\ snap \in Seq(StockRows)
    BY <1>1 DEF PredOK, VerifyOne
  <1>3. Head(queue) \in DOMAIN db.predictions /\ Tail(queue) \in Seq(DOMAIN db.predictions)
    BY <1>2, TailType
  <1> DEFINE cur == PriceIn(snap, db.predictions[Head(queue)].code)
  <1>4. cur \in Nat
    BY <1>2, PriceType
  <1>5. \/ /\ cur # 0 /\ strays' = strays
           /\ Runs([db EXCEPT !.predictions = Verified(@, Head(queue), cur)])
        \/ strays' = strays \cup {Head(queue)} /\ (UNCHANGED statementVars \/ Fails)
    BY DEF VerifyOne
  <1> HIDE DEF cur
  <1>6. \/ strays' = strays \cup {Head(queue)} /\ (UNCHANGED statementVars \/ Fails)
        \/ /\ strays' = strays
           /\ \E price \in Nat \ {0} :
                Runs([db EXCEPT !.predictions = Verified(db.predictions, Head(queue), price)])
    BY <1>4, <1>5
  <1> QED BY <1>2, <1>3, <1>6 DEF VerifyOne

LEMMA VerifyOneType ==
    ASSUME TypeInv, VerifyOne
    PROVE  ConnOK' /\ PredOK' /\ DayInv' /\ Touches(FALSE, FALSE, TRUE) /\ batch' = batch
  <1>1. TablesOK /\ ConnOK /\ PredOK /\ DayInv
    BY TypeParts
  <1>2. /\ predPc = "verify" /\ queue # <<>> /\ queue' = Tail(queue)
        /\ Head(queue) \in DOMAIN db.predictions /\ Tail(queue) \in Seq(DOMAIN db.predictions)
        /\ UNCHANGED <<predPc, day, snap, stock, cycles, torn, ragged>>
        /\ strays' \subseteq strays \cup {Head(queue)}
    BY VerifyStep
  <1>3. db.predictions \in Seq(PredictionRows)
    BY <1>1 DEF TablesOK, Tables
  <1> DEFINE Kept == /\ DOMAIN db'.predictions = DOMAIN db.predictions
                     /\ \A i \in DOMAIN db.predictions :
                            db'.predictions[i].day = db.predictions[i].day
  <1>4. ConnOK' /\ Touches(FALSE, FALSE, TRUE) /\ batch' = batch /\ Kept
    <2>1. CASE UNCHANGED statementVars
      <3>1. UNCHANGED <<db, disk, inTxn, batch, failures>>
        BY <2>1 DEF statementVars, connVars
      <3> QED BY <1>1, <3>1, NothingTouched DEF ConnOK
    <2>2. CASE Fails
      BY <1>1, <2>2, FailsStep
    <2>3. ASSUME NEW price \in Nat \ {0},
                 Runs([db EXCEPT !.predictions = Verified(db.predictions, Head(queue), price)])
          PROVE  ConnOK' /\ Touches(FALSE, FALSE, TRUE) /\ batch' = batch /\ Kept
      <3> DEFINE id == Head(queue)
                 t == Verified(db.predictions, id, price)
      <3>1. /\ t \in Seq(PredictionRows) /\ DOMAIN t = DOMAIN db.predictions
            /\ \A i \in DOMAIN db.predictions : t[i].day = db.predictions[i].day
        <4> DEFINE p == db.predictions
        <4>1. price \in Nat /\ id \in DOMAIN p /\ p \in Seq(PredictionRows)
          BY <1>2, <1>3
        <4> HIDE DEF id, p
        <4>2. /\ Verified(p, id, price) \in Seq(PredictionRows)
              /\ DOMAIN Verified(p, id, price) = DOMAIN p
              /\ \A i \in DOMAIN p : Verified(p, id, price)[i].code = p[i].code
              /\ \A i \in DOMAIN p : Verified(p, id, price)[i].day = p[i].day
          BY ONLY <4>1, VerifiedKeeps
        <4> QED BY <4>2 DEF p
      <3> HIDE DEF t
      <3>2. Runs([db EXCEPT !.predictions = t])
        BY <2>3 DEF t
      <3>3. ConnOK' /\ Touches(FALSE, FALSE, TRUE) /\ batch' = batch /\ db'.predictions = t
        BY <1>1, <3>1, <3>2, PredictionsWritten
      <3> QED BY <3>1, <3>3
    <2> QED BY <2>1, <2>2, <2>3, VerifyStep
  <1>5. /\ queue' \in Seq(DOMAIN db.predictions)
        /\ \A i \in DOMAIN queue' : queue'[i] \in DOMAIN db.predictions
        /\ \A i \in DOMAIN queue' : db.predictions[queue'[i]].day = day
    <2>1. queue \in Seq(DOMAIN db.predictions)
          /\ \A i \in DOMAIN queue : db.predictions[queue[i]].day = day
      BY <1>1 DEF PredOK
    <2>2. \A i \in DOMAIN Tail(queue) : i + 1 \in DOMAIN queue /\ Tail(queue)[i] = queue[i + 1]
      BY <1>2, <2>1, TailType
    <2>3. \A i \in DOMAIN Tail(queue) : Tail(queue)[i] \in DOMAIN db.predictions
      BY <1>2, SeqType
    <2> QED BY <1>2, <2>1, <2>2, <2>3
  <1>6. PredOK'
    <2>1. /\ queue' \in Seq(DOMAIN db'.predictions)
          /\ \A i \in DOMAIN queue' : db'.predictions[queue'[i]].day = day'
      BY <1>2, <1>4, <1>5
    <2>2. strays' \subseteq DOMAIN db'.predictions
      BY <1>1, <1>2, <1>4 DEF PredOK
    <2> QED BY <1>1, <1>2, <2>1, <2>2 DEF PredOK
  <1>7. DayInv'
    BY <1>1, <1>2 DEF DayInv
  <1> QED BY <1>4, <1>6, <1>7

(* The row the predictor is about to insert. *)
NextRow == [code |-> snap[stock].code, day |-> day, now |-> snap[stock].price,
            status |-> "pending", actual |-> 0, base |-> 0]

LEMMA NextRowType ==
    ASSUME PredOK, DayInv, predPc = "insert", stock <= Len(snap)
    PROVE  /\ NextRow \in PredictionRows /\ NextRow.status = "pending"
           /\ NextRow.code = snap[stock].code /\ NextRow.day = day
           /\ snap[stock].code \in Seq(Texts)
           /\ Len(snap) \in Nat /\ stock \in 1 .. Len(snap) /\ day \in Days
  <1>1. snap \in Seq(StockRows) /\ stock \in 1 .. Len(snap) + 1 /\ day \in Days
    BY DEF PredOK, DayInv
  <1>2. Len(snap) \in Nat /\ DOMAIN snap = 1 .. Len(snap) /\ \A i \in DOMAIN snap : snap[i] \in StockRows
    BY <1>1, SeqType
  <1>3. stock \in 1 .. Len(snap)
    BY <1>1, <1>2
  <1>4. snap[stock].code \in Seq(Texts) /\ snap[stock].price \in Nat
    BY <1>2, <1>3 DEF StockRows
  <1>5. \A c \in Seq(Texts), n \in Nat, d \in Days :
            [code |-> c, day |-> d, now |-> n, status |-> "pending", actual |-> 0, base |-> 0]
                \in PredictionRows
    BY DEF PredictionRows
  <1>6. NextRow \in PredictionRows
    BY <1>1, <1>4, <1>5 DEF NextRow
  <1> QED BY <1>1, <1>2, <1>3, <1>4, <1>6 DEF NextRow

LEMMA InsertPredictionType ==
    ASSUME TypeInv, InsertPrediction
    PROVE  ConnOK' /\ PredOK' /\ DayInv' /\ Touches(FALSE, FALSE, TRUE) /\ batch' = batch
  <1>1. TablesOK /\ ConnOK /\ PredOK /\ DayInv
    BY TypeParts
  <1>2. /\ predPc = "insert" /\ stock <= Len(snap)
        /\ \/ /\ Runs([db EXCEPT !.predictions = Append(db.predictions, NextRow)])
              /\ strays' \subseteq strays \cup {Len(db.predictions) + 1}
           \/ Fails /\ strays' = strays
        /\ day' = IF day = Horizon THEN 1 ELSE day + 1
        /\ stock' = IF day = Horizon THEN stock + 1 ELSE stock
        /\ torn' \in BOOLEAN /\ ragged' \subseteq ragged \cup {snap[stock].code}
        /\ UNCHANGED <<predPc, queue, snap, cycles>>
    BY DEF InsertPrediction, NextRow, Shared
  <1>3. db.predictions \in Seq(PredictionRows)
    BY <1>1 DEF TablesOK, Tables
  <1>4. /\ NextRow \in PredictionRows /\ snap[stock].code \in Seq(Texts)
        /\ Len(snap) \in Nat /\ stock \in 1 .. Len(snap) /\ day \in Days
    BY <1>1, <1>2, NextRowType
  <1>5. /\ ConnOK' /\ Touches(FALSE, FALSE, TRUE) /\ batch' = batch
        /\ strays' \subseteq DOMAIN db'.predictions
    <2>1. CASE Fails /\ strays' = strays
      BY <1>1, <2>1, FailsStep DEF PredOK
    <2>2. CASE /\ Runs([db EXCEPT !.predictions = Append(db.predictions, NextRow)])
               /\ strays' \subseteq strays \cup {Len(db.predictions) + 1}
      <3>1. /\ Append(db.predictions, NextRow) \in Seq(PredictionRows)
            /\ DOMAIN Append(db.predictions, NextRow) = 1 .. (Len(db.predictions) + 1)
            /\ DOMAIN db.predictions = 1 .. Len(db.predictions) /\ Len(db.predictions) \in Nat
        BY <1>3, <1>4, AppendType, SeqType
      <3>2. strays' \subseteq DOMAIN Append(db.predictions, NextRow)
        BY <1>1, <2>2, <3>1 DEF PredOK
      <3> QED BY <1>1, <2>2, <3>1, <3>2, PredictionsWritten
    <2> QED BY <1>2, <2>1, <2>2
  <1>6. /\ day' \in Days /\ stock' \in 1 .. Len(snap) + 1
        /\ (stock' > Len(snap) => day' = 1) /\ Days \subseteq 1 .. Horizon + 1
    BY <1>2, <1>4, HorizonAssumption DEF Days
  <1>7. queue' = <<>> /\ queue' \in Seq(DOMAIN db'.predictions)
    BY <1>1, <1>2 DEF PredOK
  <1>8. PredOK'
    BY <1>1, <1>2, <1>4, <1>5, <1>6, <1>7 DEF PredOK
  <1>9. DayInv'
    BY <1>2, <1>6 DEF DayInv
  <1> QED BY <1>5, <1>8, <1>9

LEMMA PredType ==
    ASSUME TypeInv, PredNext
    PROVE  ConnOK' /\ PredOK' /\ DayInv' /\ Touches(FALSE, FALSE, TRUE) /\ batch' = batch
  BY GetPendingType, PredPausesType, VerifyOneType, InsertPredictionType DEF PredNext

-----------------------------------------------------------------------------
(* Type correctness: restarts and the theorem.                             *)

(* What a restart does, whatever brought it about. *)
LEMMA RestartStep ==
    ASSUME TypeInv, Killed \/ Thrown
    PROVE  Restart /\ ConnOK' /\ TablesOK' /\ db' = disk /\ disk' = disk
  <1>1. TablesOK /\ ConnOK
    BY TypeParts
  <1>2. Restart /\ failures' \in 0 .. MaxFailures
    BY <1>1, FailuresAssumption DEF Killed, Thrown, ConnOK
  <1>3. /\ db' = disk /\ disk' = disk /\ inTxn' = FALSE
        /\ batch' = [b \in Batchers |-> "idle"]
    BY <1>2 DEF Restart, Recover
  <1>4. batch' \in [Batchers -> {"idle", "open"}] /\ batch'[Feed] = "idle"
    BY <1>3, FeedAssumption
  <1> QED BY <1>1, <1>2, <1>3, <1>4 DEF TablesOK, ConnOK

LEMMA RestartType ==
    ASSUME TypeInv, Killed \/ Thrown
    PROVE  TypeInv'
  <1>1. TablesOK /\ ConnOK /\ FeedOK /\ NewsOK /\ PredOK
    BY TypeParts
  <1>2. Restart /\ ConnOK' /\ TablesOK' /\ db' = disk /\ disk' = disk
    BY RestartStep
  <1>3. FeedOK' /\ PageInv'
    <2>1. /\ feedPc' = "asleep" /\ page' = 1 /\ items' = <<>> /\ codes' = <<>> /\ asked' = 0
          /\ lines' = <<>> /\ quoted' = <<>> /\ cutShort' \in BOOLEAN /\ passes' = passes
      BY <1>2 DEF Restart, FeedRestart
    <2>2. page' \in 1 .. Len(Pages) + 1 /\ Len(codes') = 0 /\ DOMAIN quoted' = {} /\ quoted' \in [{} -> Nat]
      BY <2>1, PagesType
    <2>3. batch'[Feed] = "idle"
      BY <1>2, FeedAssumption DEF Restart, Recover
    <2> QED BY <1>1, <2>1, <2>2, <2>3 DEF FeedOK, PageInv
  <1>4. NewsOK'
    <2>1. newsPc' = "check" /\ ids' = <<>> /\ Len(ids') = 0
      BY <1>2 DEF Restart, NewsRestart
    <2>2. Ids \in Seq(ToSet(Ids)) /\ Len(Ids) \in Nat
      BY IdsAssumption, SeqType
    <2>3. ids' = SubSeq(Ids, Len(Ids) - Len(ids') + 1, Len(Ids))
      <3>1. SubSeq(Ids, Len(Ids) + 1, Len(Ids)) = <<>>
        BY <2>2, SubSeqEmpty
      <3> QED BY <2>1, <2>2, <3>1
    <2>4. Len(ids') <= Len(Ids) /\ ids' \in Seq(ToSet(Ids))
      BY <2>1, <2>2
    <2> QED BY <2>1, <2>3, <2>4 DEF NewsOK
  <1>5. PredOK' /\ DayInv'
    <2>1. /\ predPc' = "pending" /\ day' = 1 /\ queue' = <<>> /\ snap' = <<>> /\ stock' = 1
          /\ torn' = FALSE /\ cycles' = cycles /\ strays' \subseteq DOMAIN db'.predictions
      BY <1>2 DEF Restart, PredRestart
    <2>2. ragged' \subseteq Seq(Texts)
      <3>1. \A i \in DOMAIN db.predictions : db.predictions[i].code \in Seq(Texts)
        <4>1. db.predictions \in Seq(PredictionRows)
          BY <1>1 DEF TablesOK, Tables
        <4>2. \A i \in DOMAIN db.predictions : db.predictions[i] \in PredictionRows
          BY <4>1, SeqType
        <4> QED BY <4>2 DEF PredictionRows
      <3>2. predPc = "insert" /\ day > 1 => snap[stock].code \in Seq(Texts)
        <4> SUFFICES ASSUME predPc = "insert", day > 1 PROVE snap[stock].code \in Seq(Texts)
          OBVIOUS
        <4>1. DayInv
          BY TypeParts
        <4>2. ~(stock > Len(snap))
          BY <4>1 DEF DayInv
        <4>3. stock <= Len(snap)
          <5>1. stock \in Nat /\ Len(snap) \in Nat
            BY <1>1, SeqType DEF PredOK
          <5> QED BY <4>2, <5>1
        <4> QED BY <1>1, <4>1, <4>3, NextRowType
      <3> QED BY <1>1, <1>2, <3>1, <3>2 DEF Restart, PredRestart, PredOK
    <2>3. /\ day' \in 1 .. Horizon + 1 /\ cycles' \in 0 .. MaxCycles
          /\ snap' \in Seq(StockRows) /\ stock' \in 1 .. Len(snap') + 1
          /\ DOMAIN queue' = {} /\ queue' \in Seq(DOMAIN db'.predictions)
      BY <1>1, <2>1, HorizonAssumption DEF PredOK
    <2> QED BY <2>1, <2>2, <2>3 DEF PredOK, DayInv
  <1>6. (TablesOK /\ ConnOK /\ FeedOK /\ NewsOK /\ PredOK /\ DayInv /\ PageInv)'
    BY <1>2, <1>3, <1>4, <1>5
  <1> QED BY <1>6, TypeParts, PTL

LEMMA TypeInit == Init => TypeInv
  <1> SUFFICES ASSUME Init PROVE TypeInv
    OBVIOUS
  <1>1. PICK stocks \in ByHand :
             StatementsInit([stocks |-> stocks, news |-> <<>>, predictions |-> <<>>])
    BY DEF Init
  <1>2. TablesOK
    <2>1. db = [stocks |-> stocks, news |-> <<>>, predictions |-> <<>>] /\ disk = db
      BY <1>1 DEF StatementsInit, ConnInit
    <2>2. stocks \in Seq(StockRows)
      BY TableAssumption
    <2> QED BY <2>1, <2>2 DEF TablesOK, Tables
  <1>3. ConnOK /\ batch[Feed] = "idle"
    <2>1. /\ batch = [b \in Batchers |-> "idle"] /\ inTxn = FALSE /\ failures = 0
      BY <1>1 DEF StatementsInit, ConnInit
    <2>2. batch \in [Batchers -> {"idle", "open"}] /\ batch[Feed] = "idle"
      BY <2>1, FeedAssumption
    <2>3. (batch[Feed] = "open") = FALSE /\ failures \in 0 .. MaxFailures
      BY <2>1, <2>2, FailuresAssumption
    <2> QED BY <2>1, <2>2, <2>3 DEF ConnOK
  <1>4. FeedOK /\ PageInv
    <2>1. FeedInit
      BY DEF Init
    <2>2. page \in 1 .. Len(Pages) + 1 /\ Len(codes) = 0 /\ DOMAIN quoted = {} /\ quoted \in [{} -> Nat]
      BY <2>1, PagesType DEF FeedInit
    <2> QED BY <1>3, <2>1, <2>2, FeedAssumption DEF FeedInit, FeedOK, PageInv
  <1>5. NewsOK
    <2>1. newsPc = "check" /\ ids = <<>> /\ Len(ids) = 0
      BY DEF Init, NewsInit
    <2>2. Ids \in Seq(ToSet(Ids)) /\ Len(Ids) \in Nat
      BY IdsAssumption, SeqType
    <2>3. ids = SubSeq(Ids, Len(Ids) - Len(ids) + 1, Len(Ids))
      <3>1. SubSeq(Ids, Len(Ids) + 1, Len(Ids)) = <<>>
        BY <2>2, SubSeqEmpty
      <3> QED BY <2>1, <2>2, <3>1
    <2> QED BY <2>1, <2>2, <2>3 DEF NewsOK
  <1>6. PredOK /\ DayInv
    <2>1. PredInit
      BY DEF Init
    <2>2. /\ day \in 1 .. Horizon + 1 /\ cycles \in 0 .. MaxCycles
          /\ snap \in Seq(StockRows) /\ stock \in 1 .. Len(snap) + 1
          /\ DOMAIN queue = {} /\ queue \in Seq(DOMAIN db.predictions)
      BY <2>1, HorizonAssumption DEF PredInit
    <2> QED BY <2>1, <2>2 DEF PredInit, PredOK, DayInv
  <1> QED BY <1>2, <1>3, <1>4, <1>5, <1>6, TypeParts

LEMMA TypeStep == TypeInv /\ [Next]_vars => TypeInv'
  <1> SUFFICES ASSUME TypeInv, [Next]_vars PROVE TypeInv'
    OBVIOUS
  <1>1. TablesOK /\ ConnOK /\ FeedOK /\ NewsOK /\ PredOK /\ DayInv /\ PageInv
    BY TypeParts
  <1> DEFINE Parts == TablesOK /\ ConnOK /\ FeedOK /\ NewsOK /\ PredOK /\ DayInv /\ PageInv
  <1>2. CASE FeedNext /\ UNCHANGED <<newsVars, predVars>>
    <2>1. ConnOK' /\ FeedOK' /\ PageInv' /\ Touches(TRUE, FALSE, FALSE)
      BY <1>2, FeedType
    <2>2. TablesOK' /\ db'.predictions = db.predictions
      BY <1>1, <2>1, TouchesType DEF Touches
    <2>3. NewsOK' /\ PredOK' /\ DayInv'
      BY <1>1, <1>2, <2>2 DEF NewsOK, PredOK, DayInv, newsVars, predVars
    <2>4. Parts'
      BY <2>1, <2>2, <2>3
    <2> QED BY <2>4, TypeParts, PTL
  <1>3. CASE NewsNext /\ UNCHANGED <<feedVars, predVars>>
    <2>1. ConnOK' /\ NewsOK' /\ batch' = batch /\ Touches(FALSE, TRUE, FALSE)
      BY <1>3, NewsType
    <2>2. TablesOK' /\ db'.predictions = db.predictions
      BY <1>1, <2>1, TouchesType DEF Touches
    <2>3. FeedOK' /\ PageInv' /\ PredOK' /\ DayInv'
      BY <1>1, <1>3, <2>1, <2>2 DEF FeedOK, PageInv, PredOK, DayInv, feedVars, predVars
    <2>4. Parts'
      BY <2>1, <2>2, <2>3
    <2> QED BY <2>4, TypeParts, PTL
  <1>4. CASE PredNext /\ UNCHANGED <<feedVars, newsVars>>
    <2>1. ConnOK' /\ PredOK' /\ DayInv' /\ batch' = batch /\ Touches(FALSE, FALSE, TRUE)
      BY <1>4, PredType
    <2>2. TablesOK'
      BY <1>1, <2>1, TouchesType
    <2>3. FeedOK' /\ PageInv' /\ NewsOK'
      BY <1>1, <1>4, <2>1 DEF FeedOK, PageInv, NewsOK, feedVars, newsVars
    <2>4. Parts'
      BY <2>1, <2>2, <2>3
    <2> QED BY <2>4, TypeParts, PTL
  <1>5. CASE Killed \/ Thrown
    BY <1>5, RestartType
  <1>6. CASE UNCHANGED vars
    <2>1. UNCHANGED <<db, disk, inTxn, batch, failures, feedVars, newsVars, predVars>>
      BY <1>6 DEF vars, statementVars, connVars
    <2>2. TablesOK' /\ ConnOK' /\ NewsOK'
      BY <1>1, <2>1 DEF TablesOK, ConnOK, NewsOK, newsVars
    <2>3. FeedOK' /\ PageInv'
      BY <1>1, <2>1 DEF FeedOK, PageInv, feedVars
    <2>4. PredOK' /\ DayInv'
      BY <1>1, <2>1 DEF PredOK, DayInv, predVars
    <2>5. Parts'
      BY <2>2, <2>3, <2>4
    <2> QED BY <2>5, TypeParts, PTL
  <1> QED BY <1>2, <1>3, <1>4, <1>5, <1>6 DEF Next

LEMMA TypeInvariant == Spec => []TypeInv
  BY TypeInit, TypeStep, PTL DEF Spec

(* Every state of the three threads and of the connection is of its shape: among
   other things the updater is inside its transaction exactly while it inserts
   or updates rows (phases 1 and 2 of fetch_and_update_stocks), the ids in hand
   are the rest of the list, and the queue of the verification holds the numbers
   of rows that exist and are of the day being verified, whatever fails and
   whenever the process ends. *)
THEOREM TypeCorrect == Spec => []TypeOK
  <1>1. TypeInv => TypeOK
    BY DEF TypeInv
  <1> QED BY <1>1, TypeInvariant, PTL

-----------------------------------------------------------------------------
(* One row for each item.                                                  *)

LEMMA NewsByOthers ==
    ASSUME TypeInv, NewsInv, UNCHANGED newsVars, db'.news = db.news, disk' \in {disk, db'}
    PROVE  NewsInv'
  BY DEF NewsInv, newsVars

LEMMA AppendedOnce ==
    ASSUME NEW S, NEW t \in Seq(S), NEW id \in S, Once(t), ~Known(t, id)
    PROVE  Once(Append(t, id))
  <1>1. /\ Len(t) \in Nat /\ DOMAIN t = 1 .. Len(t) /\ DOMAIN Append(t, id) = 1 .. (Len(t) + 1)
        /\ \A i \in 1 .. Len(t) : Append(t, id)[i] = t[i]
        /\ Append(t, id)[Len(t) + 1] = id
    BY AppendType, SeqType
  <1>2. \A i \in 1 .. (Len(t) + 1) : i \in 1 .. Len(t) \/ i = Len(t) + 1
    BY <1>1
  <1>3. \A i \in 1 .. Len(t) : t[i] # id
    BY <1>1 DEF Known
  <1> QED BY <1>1, <1>2, <1>3 DEF Once

LEMMA NewsStep == TypeInv /\ NewsInv /\ [Next]_vars => NewsInv'
  <1> SUFFICES ASSUME TypeInv, NewsInv, [Next]_vars PROVE NewsInv'
    OBVIOUS
  <1>1. CASE FeedNext /\ UNCHANGED <<newsVars, predVars>>
    <2>1. Touches(TRUE, FALSE, FALSE)
      BY <1>1, FeedType
    <2> QED BY <1>1, <2>1, NewsByOthers DEF Touches
  <1>2. CASE PredNext /\ UNCHANGED <<feedVars, newsVars>>
    <2>1. Touches(FALSE, FALSE, TRUE)
      BY <1>2, PredType
    <2> QED BY <1>2, <2>1, NewsByOthers DEF Touches
  <1>3. CASE Killed \/ Thrown
    <2>1. db' = disk /\ disk' = disk /\ newsPc' = "check"
      BY <1>3, RestartStep DEF Restart, NewsRestart
    <2> QED BY <2>1 DEF NewsInv
  <1>4. CASE NewsNext
    <2>1. CASE NewsList \/ CheckId \/ DetailFails \/ DetailArrives
      BY <2>1 DEF NewsInv, NewsList, CheckId, DetailFails, DetailArrives, NextId,
                  statementVars, connVars
    <2>2. CASE InsertNews
      <3>1. newsPc = "insert" /\ newsPc' = "check"
        BY <2>2 DEF InsertNews, NextId
      <3>2. CASE Fails
        BY <3>1, <3>2 DEF NewsInv, Fails, connVars
      <3>3. CASE Runs([db EXCEPT !.news = Append(@, Head(ids))])
        <4>1. db.news \in Seq(ToSet(Ids)) /\ TablesOK /\ ConnOK /\ NewsOK
          BY TypeParts DEF TablesOK, Tables
        <4>2. Head(ids) \in ToSet(Ids)
          BY <3>1, <4>1, IdsType DEF NewsOK
        <4>3. Append(db.news, Head(ids)) \in Seq(ToSet(Ids))
          BY <4>1, <4>2, AppendType
        <4>4. Runs([db EXCEPT !.news = Append(db.news, Head(ids))])
          BY <3>3
        <4>5. db'.news = Append(db.news, Head(ids)) /\ disk' \in {disk, db'}
          BY <4>1, <4>3, <4>4, NewsWritten DEF Touches
        <4>6. Once(Append(db.news, Head(ids)))
          BY <3>1, <4>1, <4>2, AppendedOnce DEF NewsInv
        <4> QED BY <3>1, <4>5, <4>6 DEF NewsInv
      <3> QED BY <2>2, <3>2, <3>3 DEF InsertNews
    <2> QED BY <1>4, <2>1, <2>2 DEF NewsNext
  <1>5. CASE UNCHANGED vars
    BY <1>5 DEF NewsInv, vars, statementVars, connVars, newsVars
  <1> QED BY <1>1, <1>2, <1>3, <1>4, <1>5 DEF Next

LEMMA NewsInit0 == Init => NewsInv
  BY DEF Init, StatementsInit, ConnInit, NewsInit, NewsInv, Once

(* fetch_and_analyze_news asks exists(source_id) and inserts later, in a table
   without a key, and yet no item gets two rows: not where the service lists it
   twice, not after a failed INSERT, and not after a restart that gave back a
   row made inside another thread's transaction. *)
THEOREM NoItemTwice == Spec => []OneRowPerItem
  <1>1. NewsInv => OneRowPerItem
    BY DEF NewsInv, Once, OneRowPerItem
  <1>2. Spec => []NewsInv
    BY NewsInit0, NewsStep, TypeInvariant, PTL DEF Spec
  <1> QED BY <1>1, <1>2, PTL

-----------------------------------------------------------------------------
(* The listing.                                                            *)

LEMMA ListKept ==
    ASSUME ListInv, db'.stocks = db.stocks, UNCHANGED feedVars
    PROVE  ListInv'
  BY DEF ListInv, ListedUpTo, feedVars

(* Outside a listing nothing is listed. *)
LEMMA ListRests ==
    ASSUME ListInv, db'.stocks = db.stocks, cutShort' = cutShort,
           feedPc \notin {"list", "page"}, feedPc' \notin {"list", "page"}
    PROVE  ListInv'
  BY DEF ListInv, ListedUpTo

LEMMA SelectCodesList == TypeInv /\ ListInv /\ SelectCodes => ListInv'
  <1> SUFFICES ASSUME TypeInv, ListInv, SelectCodes PROVE ListInv'
    OBVIOUS
  <1>1. db' = db /\ cutShort' = cutShort /\ feedPc = "asleep" /\ page' = page
    BY DEF SelectCodes, statementVars, connVars
  <1>2. CASE feedPc' = "list"
    <2>1. page = 1
      BY <1>1, TypeParts DEF FeedOK
    <2>2. ListedUpTo(db'.stocks, page' - 1)
      BY <1>1, <2>1 DEF ListedUpTo
    <2> QED BY <1>1, <1>2, <2>2 DEF ListInv
  <1>3. CASE feedPc' = "ask"
    BY <1>1, <1>3, ListRests
  <1> QED BY <1>2, <1>3 DEF SelectCodes

LEMMA ListEndsList == TypeInv /\ ListInv /\ (PageFails \/ LastPage) => ListInv'
  <1> SUFFICES ASSUME TypeInv, ListInv, PageFails \/ LastPage PROVE ListInv'
    OBVIOUS
  <1>1. CASE PageFails
    BY <1>1 DEF ListInv, PageFails
  <1>2. CASE LastPage
    <2>1. db' = db /\ cutShort' = cutShort /\ feedPc = "list" /\ page > Len(Pages)
          /\ feedPc' \in {"asleep", "ask"}
      BY <1>2 DEF LastPage, AfterList, statementVars, connVars
    <2>2. page - 1 = Len(Pages)
      <3>1. page \in 1 .. Len(Pages) + 1
        BY TypeParts DEF FeedOK
      <3> QED BY <2>1, <3>1, PagesType
    <2>3. ~cutShort => ListedUpTo(db'.stocks, Len(Pages))
      BY <2>1, <2>2 DEF ListInv, ListedUpTo
    <2> QED BY <2>1, <2>3 DEF ListInv
  <1> QED BY <1>1, <1>2

LEMMA PageList == TypeInv /\ ListInv /\ (BeginPage \/ CommitPage) => ListInv'
  <1> SUFFICES ASSUME TypeInv, ListInv, BeginPage \/ CommitPage PROVE ListInv'
    OBVIOUS
  <1>1. CASE BeginPage
    <2>1. db' = db /\ cutShort' = cutShort /\ feedPc = "list" /\ feedPc' = "page"
          /\ page' = page /\ items' = Pages[page]
      BY <1>1 DEF BeginPage, BeginBatch
    <2>2. ~cutShort => ListedUpTo(db'.stocks, page' - 1)
      BY <2>1 DEF ListInv, ListedUpTo
    <2> QED BY <2>1, <2>2 DEF ListInv
  <1>2. CASE CommitPage
    <2>1. db' = db /\ cutShort' = cutShort /\ feedPc = "page" /\ feedPc' = "list"
          /\ page' = page + 1 /\ items = <<>>
      BY <1>2 DEF CommitPage, CommitBatch
    <2>2. page \in 1 .. Len(Pages) /\ page' - 1 = page /\ Pages[page] \in Seq(Listings)
      <3>1. page \in 1 .. Len(Pages) + 1 /\ page <= Len(Pages)
        BY <2>1, TypeParts DEF FeedOK, PageInv
      <3> QED BY <2>1, <3>1, PagesType
    <2>3. ASSUME ~cutShort PROVE ListedUpTo(db'.stocks, page' - 1)
      <3>1. ListedUpTo(db.stocks, page - 1)
        BY <2>1, <2>3 DEF ListInv
      <3>2. \A k \in DOMAIN Pages[page] : Pages[page][k].name \in NamesIn(db.stocks)
        <4>1. \A item \in ToSet(Pages[page]) : item.name \in NamesIn(db.stocks) \/ item \in ToSet(items)
          BY <2>1, <2>3 DEF ListInv
        <4>2. ToSet(items) = {}
          BY <2>1 DEF ToSet
        <4> QED BY <4>1, <4>2 DEF ToSet
      <3>3. \A p \in 1 .. page : p \in 1 .. (page - 1) \/ p = page
        BY <2>2
      <3>4. ListedUpTo(db.stocks, page)
        BY <3>1, <3>2, <3>3 DEF ListedUpTo
      <3> QED BY <2>1, <2>2, <3>4
    <2> QED BY <2>1, <2>3 DEF ListInv
  <1> QED BY <1>1, <1>2

LEMMA InsertStockList == TypeInv /\ ListInv /\ InsertStock => ListInv'
  <1> SUFFICES ASSUME TypeInv, ListInv, InsertStock, ~cutShort' PROVE ListInv'
    BY DEF ListInv
  <1>1. TablesOK /\ ConnOK /\ FeedOK /\ PageInv
    BY TypeParts
  <1>2. /\ feedPc = "page" /\ feedPc' = "page" /\ page' = page /\ items # <<>>
        /\ items' = Tail(items) /\ cutShort' = cutShort
        /\ Runs([db EXCEPT !.stocks = Listed(db.stocks, Head(items))])
    BY DEF InsertStock
  <1> DEFINE item == Head(items)
             t == db.stocks
             new == Listed(t, item)
  <1>3. t \in Seq(StockRows) /\ items \in Seq(Listings)
    BY <1>1 DEF TablesOK, Tables, FeedOK
  <1>4. item \in Listings /\ ToSet(items) = {item} \cup ToSet(items')
    BY <1>2, <1>3, TailType
  <1>5. Plain(item.code)
    <2>1. item \in ToSet(Pages[page]) /\ page \in 1 .. Len(Pages) + 1 /\ page <= Len(Pages)
      BY <1>1, <1>2, <1>4 DEF PageInv, FeedOK
    <2>2. page \in 1 .. Len(Pages)
      BY <2>1, PagesType
    <2> QED BY <2>1, <2>2, PagesType
  <1>6. \A r \in ToSet(t) : Plain(r.code)
    BY <1>2 DEF ListInv
  <1>7. ListedUpTo(t, page - 1)
    BY <1>2 DEF ListInv
  <1>8. \A i \in ToSet(Pages[page]) : i.name \in NamesIn(t) \/ i \in ToSet(items)
    BY <1>2 DEF ListInv
  <1>9. Runs([db EXCEPT !.stocks = new])
    BY <1>2
  <1> HIDE DEF item, t
  <1>10. /\ new \in Seq(StockRows) /\ NamesIn(t) \cup {item.name} \subseteq NamesIn(new)
         /\ \A r \in ToSet(new) : r \in ToSet(t) \/ r.code = item.code
    BY <1>3, <1>4, ListedType
  <1> HIDE DEF new
  <1>11. db'.stocks = new
    BY <1>1, <1>9, <1>10, StocksWritten
  <1>12. \A r \in ToSet(new) : Plain(r.code)
    BY <1>5, <1>6, <1>10
  <1>13. ListedUpTo(new, page - 1)
    BY <1>7, <1>10 DEF ListedUpTo
  <1>14. \A i \in ToSet(Pages[page]) : i.name \in NamesIn(new) \/ i \in ToSet(items')
    BY <1>4, <1>8, <1>10
  <1> QED BY <1>2, <1>11, <1>12, <1>13, <1>14 DEF ListInv

(* Until the list has been cut short no line is about a code of the table. *)
LEMMA UpdateStockList == TypeInv /\ ListInv /\ UpdateStock => ListInv'
  <1> SUFFICES ASSUME TypeInv, ListInv, UpdateStock, ~cutShort PROVE ListInv'
    BY DEF ListInv, UpdateStock
  <1>1. TablesOK /\ ConnOK /\ FeedOK /\ PageInv
    BY TypeParts
  <1>2. /\ feedPc = "update" /\ feedPc' = feedPc /\ lines # <<>> /\ cutShort' = cutShort
        /\ Fails \/ Runs([db EXCEPT !.stocks = Priced(db.stocks, Head(lines))])
    BY DEF UpdateStock
  <1> DEFINE line == Head(lines)
             t == db.stocks
  <1>3. t \in Seq(StockRows) /\ lines \in Seq(StockRows)
    BY <1>1 DEF TablesOK, Tables, FeedOK
  <1>4. line \in StockRows /\ line.code # Blank /\ Head(line.code) = Prefix
    <2>1. line \in StockRows /\ line = lines[1] /\ Len(lines) \in Nat \ {0}
      BY <1>2, <1>3, TailType
    <2>2. 1 \in DOMAIN lines
      BY <1>3, <2>1, SeqType
    <2> QED BY <1>1, <2>1, <2>2 DEF PageInv
  <1>5. \A r \in ToSet(t) : Plain(r.code)
    BY DEF ListInv
  <1>6. Fails \/ Runs([db EXCEPT !.stocks = Priced(t, line)])
    BY <1>2
  <1>7. t = db.stocks
    OBVIOUS
  <1> HIDE DEF line, t
  <1>8. \A r \in ToSet(t) : r.code # line.code
    <2>1. Head(Null) # Prefix
      BY DEF Null, Prefix
    <2> QED BY <1>4, <1>5, <2>1 DEF Plain
  <1>9. Priced(t, line) = t
    BY <1>3, <1>4, <1>8, PricedType
  <1>10. db'.stocks = t
    <2>1. CASE Fails
      BY <1>7, <2>1 DEF Fails, connVars
    <2>2. CASE Runs([db EXCEPT !.stocks = Priced(t, line)])
      BY <1>1, <1>3, <1>9, <2>2, StocksWritten
    <2> QED BY <1>6, <2>1, <2>2
  <1> QED BY <1>2, <1>7, <1>10, ListRests

LEMMA FeedList == TypeInv /\ ListInv /\ FeedNext => ListInv'
  <1> SUFFICES ASSUME TypeInv, ListInv, FeedNext PROVE ListInv'
    OBVIOUS
  <1>1. CASE PricesFail \/ EndPass
    <2>1. db' = db /\ cutShort' = cutShort /\ feedPc = "ask" /\ feedPc' \in {"ask", "asleep"}
      BY <1>1 DEF PricesFail, EndPass, PricesDone, statementVars, connVars
    <2> QED BY <2>1, ListRests
  <1>2. CASE BeginPrices
    <2>1. db' = db /\ cutShort' = cutShort /\ feedPc = "ask" /\ feedPc' = "update"
      BY <1>2 DEF BeginPrices, BeginBatch
    <2> QED BY <2>1, ListRests
  <1>3. CASE CommitPrices
    <2>1. db' = db /\ cutShort' = cutShort /\ feedPc = "update" /\ feedPc' = "ask"
      BY <1>3 DEF CommitPrices, CommitBatch
    <2> QED BY <2>1, ListRests
  <1> QED BY <1>1, <1>2, <1>3, SelectCodesList, ListEndsList, PageList, InsertStockList,
             UpdateStockList DEF FeedNext, FeedBatch

LEMMA ListStep == TypeInv /\ ListInv /\ [Next]_vars => ListInv'
  <1> SUFFICES ASSUME TypeInv, ListInv, [Next]_vars PROVE ListInv'
    OBVIOUS
  <1>1. CASE FeedNext
    BY <1>1, FeedList
  <1>2. CASE NewsNext /\ UNCHANGED <<feedVars, predVars>>
    BY <1>2, NewsType, ListKept DEF Touches
  <1>3. CASE PredNext /\ UNCHANGED <<feedVars, newsVars>>
    BY <1>3, PredType, ListKept DEF Touches
  <1>4. CASE Killed \/ Thrown
    <2>1. /\ db' = disk /\ feedPc' = "asleep"
          /\ cutShort' = (cutShort \/ feedPc \in {"list", "page"} \/ db.stocks # disk.stocks)
      BY <1>4, RestartStep DEF Restart, FeedRestart
    <2>2. CASE cutShort'
      BY <2>2 DEF ListInv
    <2>3. CASE ~cutShort'
      <3>1. ~cutShort /\ feedPc \notin {"list", "page"} /\ db'.stocks = db.stocks
        BY <2>1, <2>3
      <3> QED BY <2>1, <3>1 DEF ListInv
    <2> QED BY <2>2, <2>3
  <1>5. CASE UNCHANGED vars
    BY <1>5, ListKept DEF vars, statementVars, connVars, feedVars
  <1> QED BY <1>1, <1>2, <1>3, <1>4, <1>5 DEF Next

LEMMA ListInit == Init => ListInv
  <1> SUFFICES ASSUME Init, ~cutShort PROVE ListInv
    BY DEF ListInv
  <1>1. feedPc = "asleep" /\ CodesIn(db.stocks) = <<>>
    BY DEF Init, FeedInit
  <1>2. db.stocks \in Seq(StockRows)
    BY TypeInit DEF TypeInv, TypeOK, Tables
  <1>3. \A r \in ToSet(db.stocks) : Plain(r.code)
    BY <1>1, <1>2, CodesType DEF Plain
  <1> QED BY <1>1, <1>3 DEF ListInv

(* fetch_and_update_stocks asks for the list only while no stock has a code:
   whatever the other threads do, whatever the service answers for prices and
   wherever its passes end, a list that was never cut short is complete. *)
THEOREM NothingMissed == Spec => []ListingWhole
  <1>1. ListInv => ListingWhole
    <2> SUFFICES ASSUME ListedUpTo(db.stocks, Len(Pages)) PROVE AllNames \subseteq NamesIn(db.stocks)
      BY DEF ListInv, ListingWhole
    <2>1. \A p \in ToSet(Pages) : \A item \in ToSet(p) : item.name \in NamesIn(db.stocks)
      BY PagesType DEF ListedUpTo, ToSet
    <2> QED BY <2>1 DEF AllNames
  <1>2. Spec => []ListInv
    BY ListInit, ListStep, TypeInvariant, PTL DEF Spec
  <1> QED BY <1>1, <1>2, PTL

-----------------------------------------------------------------------------
(* The days of the newest rows: the rows of a code and how they turn.      *)

LEMMA NewerType ==
    ASSUME NEW p \in Seq(PredictionRows), NEW i \in DOMAIN p
    PROVE  /\ IsFiniteSet(Newer(p, i)) /\ Cardinality(Newer(p, i)) \in Nat
           /\ Newer(p, i) \subseteq DOMAIN p /\ DOMAIN p = 1 .. Len(p) /\ Len(p) \in Nat
  <1>1. DOMAIN p = 1 .. Len(p) /\ Len(p) \in Nat
    BY SeqType
  <1>2. Newer(p, i) \subseteq 1 .. Len(p)
    BY <1>1 DEF Newer
  <1>3. IsFiniteSet(1 .. Len(p))
    BY <1>1, FS_Interval
  <1>4. IsFiniteSet(Newer(p, i))
    BY <1>2, <1>3, FS_Subset
  <1> QED BY <1>1, <1>2, <1>4, FS_CardinalityType

LEMMA OlderHasMore ==
    ASSUME NEW p \in Seq(PredictionRows), NEW i \in DOMAIN p, NEW j \in DOMAIN p,
           i < j, p[i].code = p[j].code
    PROVE  Cardinality(Newer(p, j)) < Cardinality(Newer(p, i))
  <1> DEFINE A == Newer(p, j)
             B == Newer(p, i)
  <1>1. /\ IsFiniteSet(A) /\ Cardinality(A) \in Nat /\ IsFiniteSet(B) /\ Cardinality(B) \in Nat
        /\ DOMAIN p \subseteq Int
    BY NewerType
  <1>2. A \subseteq B
    <2> SUFFICES ASSUME NEW k \in DOMAIN p, k > j, p[k].code = p[j].code
                 PROVE  k > i /\ p[k].code = p[i].code
      BY DEF Newer
    <2> QED BY <1>1
  <1>3. j \in B /\ j \notin A
    <2>1. j \in Int /\ ~(j > j)
      BY <1>1
    <2> QED BY <2>1 DEF Newer
  <1> HIDE DEF A, B
  <1>4. Cardinality(A) <= Cardinality(B) /\ (Cardinality(A) = Cardinality(B) => A = B)
    BY <1>1, <1>2, FS_Subset
  <1> QED BY <1>1, <1>3, <1>4 DEF A, B

(* A row more is newer than all the rows of its code. *)
LEMMA NewerAppended ==
    ASSUME NEW p \in Seq(PredictionRows), NEW row \in PredictionRows
    PROVE  /\ Cardinality(Newer(Append(p, row), Len(p) + 1)) = 0
           /\ \A i \in DOMAIN p :
                 Cardinality(Newer(Append(p, row), i))
                   = IF p[i].code = row.code THEN Cardinality(Newer(p, i)) + 1
                                             ELSE Cardinality(Newer(p, i))
  <1> DEFINE q == Append(p, row)
             n == Len(p) + 1
  <1>1. /\ Len(p) \in Nat /\ DOMAIN p = 1 .. Len(p) /\ DOMAIN q = 1 .. n
        /\ \A i \in 1 .. Len(p) : q[i] = p[i]
        /\ q[n] = row
    BY AppendType, SeqType
  <1>2. n \in Nat /\ n \notin DOMAIN p /\ \A i \in 1 .. n : i \in DOMAIN p \/ i = n
    BY <1>1
  <1> HIDE DEF q
  <1>3. Newer(q, n) = {}
    <2>1. \A j \in 1 .. n : ~(j > n)
      BY <1>1
    <2> QED BY <1>1, <2>1 DEF Newer
  <1>4. ASSUME NEW i \in DOMAIN p
        PROVE  Newer(q, i) = IF p[i].code = row.code THEN Newer(p, i) \cup {n} ELSE Newer(p, i)
    <2>1. i \in DOMAIN q /\ q[i] = p[i] /\ n \in DOMAIN q /\ n > i
      BY <1>1, <1>4
    <2>2. \A j \in DOMAIN q : (j \in DOMAIN p /\ q[j] = p[j]) \/ j = n
      BY <1>1, <1>2
    <2>3. \A j \in DOMAIN p : j \in DOMAIN q /\ q[j] = p[j]
      BY <1>1
    <2> HIDE DEF n
    <2> QED BY <1>1, <1>2, <2>1, <2>2, <2>3 DEF Newer
  <1>5. ASSUME NEW i \in DOMAIN p
        PROVE  Cardinality(Newer(p, i) \cup {n}) = Cardinality(Newer(p, i)) + 1
    <2>1. IsFiniteSet(Newer(p, i)) /\ n \notin Newer(p, i)
      BY <1>2, <1>5, NewerType
    <2> QED BY <2>1, FS_AddElement
  <1>6. Cardinality({}) = 0
    BY FS_EmptySet
  <1> QED BY <1>3, <1>4, <1>5, <1>6 DEF q

(* Where rows keep their codes and days nothing turns. *)
LEMMA CycledKept ==
    ASSUME NEW p, NEW q, DOMAIN q = DOMAIN p,
           \A i \in DOMAIN p : q[i].code = p[i].code /\ q[i].day = p[i].day,
           NEW c, NEW n, NEW depth, Cycled(p, c, n, depth)
    PROVE  Cycled(q, c, n, depth)
  <1>1. \A i \in DOMAIN p : Newer(q, i) = Newer(p, i)
    BY DEF Newer
  <1> QED BY <1>1 DEF Cycled, Turns

LEMMA BackTurns ==
    ASSUME NEW n \in Days, NEW k \in Nat
    PROVE  /\ Back(n + 1, 0) = n /\ Back(1, 0) = Horizon
           /\ Back(n + 1, k + 1) = Back(n, k)
           /\ k + 1 < Horizon => Back(1, k + 1) = Back(Horizon, k)
  BY HorizonAssumption DEF Back, Days

LEMMA BackDiffers ==
    ASSUME NEW n \in Days, NEW k \in 0 .. (Horizon - 1), NEW l \in 0 .. (Horizon - 1), k # l
    PROVE  Back(n, k) # Back(n, l)
  BY HorizonAssumption DEF Back, Days

(* The next row of a code is of the next day. *)
LEMMA CycledAppended ==
    ASSUME NEW p \in Seq(PredictionRows), NEW row \in PredictionRows, NEW n \in Days, row.day = n,
           NEW depth \in Nat, Cycled(p, row.code, n, depth),
           NEW depth2 \in Nat, depth2 <= depth + 1, depth2 <= Horizon
    PROVE  Cycled(Append(p, row), row.code, IF n = Horizon THEN 1 ELSE n + 1, depth2)
  <1> DEFINE q == Append(p, row)
             next == IF n = Horizon THEN 1 ELSE n + 1
  <1>1. /\ Len(p) \in Nat /\ DOMAIN p = 1 .. Len(p) /\ DOMAIN q = 1 .. (Len(p) + 1)
        /\ \A i \in 1 .. Len(p) : q[i] = p[i]
        /\ q[Len(p) + 1] = row
    BY AppendType, SeqType
  <1>2. /\ Cardinality(Newer(q, Len(p) + 1)) = 0
        /\ \A i \in DOMAIN p : p[i].code = row.code
               => Cardinality(Newer(q, i)) = Cardinality(Newer(p, i)) + 1
    BY NewerAppended
  <1>3. Turns(q, Len(p) + 1, next, depth2)
    <2>1. Back(next, 0) = n
      BY BackTurns, HorizonAssumption DEF Days
    <2> QED BY <1>1, <1>2, <2>1 DEF Turns
  <1>4. ASSUME NEW i \in DOMAIN p, p[i].code = row.code
        PROVE  Turns(q, i, next, depth2)
    <2> DEFINE k == Cardinality(Newer(p, i))
    <2>1. k \in Nat /\ Cardinality(Newer(q, i)) = k + 1 /\ q[i] = p[i]
      BY <1>1, <1>2, <1>4, NewerType
    <2>2. k < depth => p[i].day = Back(n, k)
      BY <1>4 DEF Cycled, Turns
    <2> HIDE DEF k, q
    <2>3. ASSUME k + 1 < depth2 PROVE k < depth /\ k + 1 < Horizon
      BY <2>1, <2>3, HorizonAssumption
    <2>4. k + 1 < Horizon => Back(next, k + 1) = Back(n, k)
      BY <2>1, BackTurns
    <2> HIDE DEF next
    <2> QED BY <2>1, <2>2, <2>3, <2>4 DEF Turns
  <1>5. \A i \in 1 .. (Len(p) + 1) : i \in DOMAIN p \/ i = Len(p) + 1
    BY <1>1
  <1> HIDE DEF q, next
  <1>6. Cycled(q, row.code, next, depth2)
    BY <1>1, <1>3, <1>4, <1>5 DEF Cycled
  <1> QED BY <1>6 DEF q, next

(* To the other codes it is as if nothing had happened. *)
LEMMA CycledBeside ==
    ASSUME NEW p \in Seq(PredictionRows), NEW row \in PredictionRows,
           NEW c, c # row.code, NEW n, NEW depth, Cycled(p, c, n, depth)
    PROVE  Cycled(Append(p, row), c, n, depth)
  <1> DEFINE q == Append(p, row)
  <1>1. /\ Len(p) \in Nat /\ DOMAIN p = 1 .. Len(p) /\ DOMAIN q = 1 .. (Len(p) + 1)
        /\ \A i \in 1 .. Len(p) : q[i] = p[i]
        /\ q[Len(p) + 1] = row
    BY AppendType, SeqType
  <1>2. \A i \in DOMAIN p : p[i].code = c => Cardinality(Newer(q, i)) = Cardinality(Newer(p, i))
    BY NewerAppended
  <1>3. \A i \in 1 .. (Len(p) + 1) : i \in DOMAIN p \/ i = Len(p) + 1
    BY <1>1
  <1> HIDE DEF q
  <1>4. Cycled(q, c, n, depth)
    BY <1>1, <1>2, <1>3 DEF Cycled, Turns
  <1> QED BY <1>4 DEF q

-----------------------------------------------------------------------------
(* The days of the newest rows: the steps.                                 *)

LEMMA CycleKept ==
    ASSUME CycleInv, DOMAIN db'.predictions = DOMAIN db.predictions,
           \A i \in DOMAIN db.predictions :
               /\ db'.predictions[i].code = db.predictions[i].code
               /\ db'.predictions[i].day = db.predictions[i].day,
           \A c : NextDayOf(c)' = NextDayOf(c) /\ Depth(c)' = Depth(c)
    PROVE  CycleInv'
  <1> DEFINE p == db.predictions
             q == db'.predictions
  <1>1. ASSUME NEW c PROVE Cycled(q, c, NextDayOf(c)', Depth(c)')
    <2>1. Cycled(p, c, NextDayOf(c), Depth(c))
      BY DEF CycleInv
    <2>2. NextDayOf(c)' = NextDayOf(c) /\ Depth(c)' = Depth(c)
      OBVIOUS
    <2>3. DOMAIN q = DOMAIN p /\ \A i \in DOMAIN p : q[i].code = p[i].code /\ q[i].day = p[i].day
      OBVIOUS
    <2> HIDE DEF p, q
    <2>4. Cycled(q, c, NextDayOf(c), Depth(c))
      BY ONLY <2>1, <2>3, CycledKept
    <2> QED BY <2>2, <2>4
  <1> QED BY <1>1 DEF CycleInv

LEMMA HandKept ==
    ASSUME UNCHANGED predVars
    PROVE  \A c : NextDayOf(c)' = NextDayOf(c) /\ Depth(c)' = Depth(c)
  BY DEF NextDayOf, Depth, InHand, predVars

(* The steps of the others, and what does not touch the predictions *)
LEMMA CycleBeside ==
    ASSUME CycleInv, db'.predictions = db.predictions,
           \A c : NextDayOf(c)' = NextDayOf(c) /\ Depth(c)' = Depth(c)
    PROVE  CycleInv'
  BY CycleKept

(* Between two stocks nothing is in hand. *)
LEMMA PausesCycle ==
    ASSUME TypeInv, CycleInv,
           GetPending \/ GetStocks \/ EndOfDay \/ GetAllStocks \/ SkipPredicting \/ EndOfCycle
    PROVE  CycleInv'
  <1>1. db' = db /\ ragged' = ragged
    BY DEF GetPending, GetStocks, EndOfDay, GetAllStocks, SkipPredicting, EndOfCycle,
           statementVars, connVars
  <1>2. \A c : ~InHand(c)
    <2>1. stock \in Nat /\ Len(snap) \in Nat
      BY SeqType, TypeParts DEF PredOK
    <2>2. predPc # "insert" \/ stock > Len(snap)
      BY DEF GetPending, GetStocks, EndOfDay, GetAllStocks, SkipPredicting, EndOfCycle
    <2> QED BY <2>1, <2>2 DEF InHand
  <1>3. predPc' # "insert" \/ day' = 1
    BY DEF GetPending, GetStocks, EndOfDay, GetAllStocks, SkipPredicting, EndOfCycle
  <1>4. \A c : NextDayOf(c)' = NextDayOf(c) /\ Depth(c)' = Depth(c)
    BY <1>1, <1>2, <1>3 DEF NextDayOf, Depth, InHand
  <1> QED BY <1>1, <1>4, CycleBeside

LEMMA VerifyOneCycle ==
    ASSUME TypeInv, CycleInv, VerifyOne
    PROVE  CycleInv'
  <1>1. TablesOK /\ ConnOK /\ PredOK /\ db.predictions \in Seq(PredictionRows)
    BY TypeParts DEF TablesOK, Tables
  <1>2. \A c : NextDayOf(c)' = NextDayOf(c) /\ Depth(c)' = Depth(c)
    <2>1. UNCHANGED <<predPc, day, snap, stock, torn, ragged>>
      BY DEF VerifyOne
    <2> QED BY <2>1 DEF NextDayOf, Depth, InHand
  <1>3. CASE UNCHANGED statementVars \/ Fails
    BY <1>2, <1>3, CycleBeside DEF statementVars, connVars, Fails
  <1>4. ASSUME NEW price \in Nat \ {0},
               Runs([db EXCEPT !.predictions = Verified(db.predictions, Head(queue), price)])
        PROVE  CycleInv'
    <2> DEFINE id == Head(queue)
               p == db.predictions
               t == Verified(p, id, price)
    <2>1. price \in Nat /\ id \in DOMAIN p /\ p \in Seq(PredictionRows)
      BY <1>1, VerifyStep
    <2>2. Runs([db EXCEPT !.predictions = t])
      BY <1>4
    <2>3. p = db.predictions
      OBVIOUS
    <2> HIDE DEF id, p
    <2>4. /\ t \in Seq(PredictionRows) /\ DOMAIN t = DOMAIN p
          /\ \A i \in DOMAIN p : t[i].code = p[i].code /\ t[i].day = p[i].day
      <3>1. /\ Verified(p, id, price) \in Seq(PredictionRows)
            /\ DOMAIN Verified(p, id, price) = DOMAIN p
            /\ \A i \in DOMAIN p : Verified(p, id, price)[i].code = p[i].code
            /\ \A i \in DOMAIN p : Verified(p, id, price)[i].day = p[i].day
        BY ONLY <2>1, VerifiedKeeps
      <3> QED BY <3>1
    <2> HIDE DEF t
    <2>5. db'.predictions = t
      BY <1>1, <2>2, <2>4, PredictionsWritten
    <2> QED BY <1>2, <2>3, <2>4, <2>5, CycleKept
  <1> QED BY <1>3, <1>4, VerifyStep

LEMMA InsertPredictionCycle ==
    ASSUME TypeInv, CycleInv, InsertPrediction
    PROVE  CycleInv'
  <1> DEFINE p == db.predictions
             row == NextRow
  <1>1. TablesOK /\ ConnOK /\ PredOK /\ DayInv /\ p \in Seq(PredictionRows)
    BY TypeParts DEF TablesOK, Tables
  <1>2. PICK mine : mine = snap[stock].code
    OBVIOUS
  <1>3. /\ predPc = "insert" /\ predPc' = "insert" /\ stock <= Len(snap) /\ snap' = snap
        /\ day' = IF day = Horizon THEN 1 ELSE day + 1
        /\ stock' = IF day = Horizon THEN stock + 1 ELSE stock
        /\ \/ /\ Runs([db EXCEPT !.predictions = Append(p, row)])
              /\ torn' = (torn /\ day # Horizon)
              /\ ragged' = IF day = Horizon /\ ~torn THEN ragged \ {mine} ELSE ragged
           \/ /\ Fails
              /\ torn' = (day # Horizon)
              /\ ragged' = ragged \cup {mine}
    BY <1>2 DEF InsertPrediction, NextRow
  <1>4. row \in PredictionRows /\ row.code = mine /\ row.day = day /\ day \in Days
    BY <1>1, <1>2, <1>3, NextRowType
  <1>5. Horizon \in Nat \ {0} /\ day \in 1 .. Horizon /\ torn \in BOOLEAN
    BY <1>1, <1>4, HorizonAssumption DEF PredOK, Days
  <1>6. \A c : Cycled(p, c, NextDayOf(c), Depth(c))
    BY DEF CycleInv
  <1>7. p = db.predictions
    OBVIOUS
  <1> HIDE DEF p, row
  <1>8. /\ InHand(mine) /\ NextDayOf(mine) = day
        /\ NextDayOf(mine)' = IF day = Horizon THEN 1 ELSE day + 1
    BY <1>2, <1>3 DEF NextDayOf, InHand
  <1>9. ASSUME NEW c, c # mine
        PROVE  /\ NextDayOf(c) = 1 /\ NextDayOf(c)' = 1
               /\ Depth(c)' = Depth(c)
    <2>1. ~InHand(c) /\ (InHand(c)' => day' = 1)
      BY <1>2, <1>3, <1>9 DEF InHand
    <2>2. c \in ragged' <=> c \in ragged
      BY <1>3, <1>9
    <2> QED BY <2>1, <2>2 DEF NextDayOf, Depth
  <1>10. CASE Fails /\ torn' = (day # Horizon) /\ ragged' = ragged \cup {mine}
    <2>1. db'.predictions = p
      BY <1>7, <1>10 DEF Fails, connVars
    <2>2. Depth(mine)' = 0
      <3>1. mine \in ragged' /\ (torn' \/ day' = 1)
        BY <1>3, <1>10
      <3> QED BY <3>1 DEF Depth
    <2>3. Cycled(p, mine, NextDayOf(mine)', 0)
      <3>1. \A i \in DOMAIN p : ~(Cardinality(Newer(p, i)) < 0)
        BY <1>1, NewerType
      <3> QED BY <3>1 DEF Cycled, Turns
    <2>4. ASSUME NEW c PROVE Cycled(p, c, NextDayOf(c)', Depth(c)')
      <3>1. CASE c = mine
        BY <2>2, <2>3, <3>1
      <3>2. CASE c # mine
        <4>1. Cycled(p, c, 1, Depth(c)) /\ NextDayOf(c)' = 1 /\ Depth(c)' = Depth(c)
          BY <1>6, <1>9, <3>2
        <4> QED BY <4>1
      <3> QED BY <3>1, <3>2
    <2> QED BY <2>1, <2>4 DEF CycleInv
  <1>11. CASE /\ Runs([db EXCEPT !.predictions = Append(p, row)])
              /\ torn' = (torn /\ day # Horizon)
              /\ ragged' = IF day = Horizon /\ ~torn THEN ragged \ {mine} ELSE ragged
    <2> DEFINE q == Append(p, row)
               old == IF mine \notin ragged THEN Horizon ELSE IF ~torn THEN day - 1 ELSE 0
               new == IF mine \notin ragged \/ (day = Horizon /\ ~torn) THEN Horizon
                      ELSE IF ~torn THEN day ELSE 0
    <2>1. q \in Seq(PredictionRows)
      BY <1>1, <1>4, AppendType
    <2>2. db'.predictions = q
      <3> HIDE DEF q
      <3>1. Runs([db EXCEPT !.predictions = q])
        BY <1>11 DEF q
      <3> QED BY <1>1, <2>1, <3>1, PredictionsWritten
    <2>3. Depth(mine) = old
      BY <1>8 DEF Depth
    <2>4. Depth(mine)' = new
      <3>1. CASE mine \notin ragged \/ (day = Horizon /\ ~torn)
        <4>1. mine \notin ragged'
          BY <1>11, <3>1
        <4> QED BY <3>1, <4>1 DEF Depth
      <3>2. CASE mine \in ragged /\ day = Horizon /\ torn
        <4>1. mine \in ragged' /\ day' = 1
          BY <1>3, <1>11, <3>2
        <4> QED BY <3>2, <4>1 DEF Depth
      <3>3. CASE mine \in ragged /\ day # Horizon
        <4>1. mine \in ragged' /\ InHand(mine)' /\ torn' = torn /\ day' = day + 1
          BY <1>2, <1>3, <1>5, <1>11, <3>3 DEF InHand
        <4>2. Depth(mine)' = IF ~torn THEN (day + 1) - 1 ELSE 0
          BY <4>1 DEF Depth
        <4> QED BY <1>5, <3>3, <4>2
      <3> QED BY <1>5, <3>1, <3>2, <3>3
    <2>5. old \in Nat /\ new \in Nat /\ new <= old + 1 /\ new <= Horizon
      BY <1>5
    <2>6. Cycled(p, mine, day, old)
      <3>1. Cycled(p, mine, NextDayOf(mine), Depth(mine))
        BY <1>6
      <3> HIDE DEF old
      <3> QED BY <1>8, <2>3, <3>1
    <2> HIDE DEF old, new
    <2>7. Cycled(q, mine, IF day = Horizon THEN 1 ELSE day + 1, new)
      BY <1>1, <1>4, <2>5, <2>6, CycledAppended
    <2>8. Cycled(q, mine, NextDayOf(mine)', Depth(mine)')
      <3> HIDE DEF q
      <3> QED BY <1>8, <2>4, <2>7
    <2>9. ASSUME NEW c, c # mine PROVE Cycled(q, c, NextDayOf(c)', Depth(c)')
      <3>1. Cycled(p, c, 1, Depth(c)) /\ NextDayOf(c)' = 1 /\ Depth(c)' = Depth(c)
        BY <1>6, <1>9, <2>9
      <3>2. Cycled(q, c, 1, Depth(c))
        BY <1>1, <1>4, <2>9, <3>1, CycledBeside
      <3> QED BY <3>1, <3>2
    <2> HIDE DEF q
    <2>10. \A c : Cycled(q, c, NextDayOf(c)', Depth(c)')
      BY <2>8, <2>9
    <2> QED BY <2>2, <2>10 DEF CycleInv
  <1> QED BY <1>3, <1>10, <1>11

-----------------------------------------------------------------------------
(* The days of the newest rows: restarts, the disk and the theorem.        *)

(* A code that lost no row and was not in hand shows what it showed. *)
LEMMA RestartCycle ==
    ASSUME TypeInv, DiskInv, CycleInv, Killed \/ Thrown
    PROVE  CycleInv'
  <1> DEFINE p == db.predictions
             q == disk.predictions
  <1>1. TablesOK /\ p \in Seq(PredictionRows) /\ q \in Seq(PredictionRows)
    BY TypeParts DEF TablesOK, Tables
  <1>2. db' = disk /\ predPc' = "pending"
        /\ ragged' = ragged
              \cup {p[i].code : i \in {j \in DOMAIN p : j \notin DOMAIN q}}
              \cup (IF predPc = "insert" /\ day > 1 THEN {snap[stock].code} ELSE {})
    BY RestartStep DEF Restart, PredRestart
  <1>3. Begins(q, p) /\ \A c : Cycled(p, c, NextDayOf(c), Depth(c))
    BY DEF DiskInv, CycleInv
  <1>4. predPc = "insert" => day \in Days
    BY TypeParts DEF DayInv
  <1>5. q = disk.predictions
    OBVIOUS
  <1> HIDE DEF p, q
  <1>6. ASSUME NEW c PROVE Cycled(q, c, NextDayOf(c)', Depth(c)')
    <2>1. CASE c \in ragged'
      <3>1. Depth(c)' = 0
        BY <1>2, <2>1 DEF Depth, InHand
      <3>2. \A i \in DOMAIN q : ~(Cardinality(Newer(q, i)) < 0)
        BY <1>1, NewerType
      <3> QED BY <3>1, <3>2 DEF Cycled, Turns
    <2>2. CASE c \notin ragged'
      <3>1. c \notin ragged /\ \A j \in DOMAIN p : p[j].code = c => j \in DOMAIN q
        BY <1>2, <2>2
      <3>2. Depth(c) = Horizon /\ Depth(c)' = Horizon /\ NextDayOf(c)' = 1
        BY <1>2, <2>2, <3>1 DEF Depth, NextDayOf, InHand
      <3>3. NextDayOf(c) = 1
        <4>1. CASE ~InHand(c)
          BY <4>1 DEF NextDayOf
        <4>2. CASE InHand(c)
          <5>1. ~(day > 1)
            BY <1>2, <2>2, <4>2 DEF InHand
          <5>2. day \in Days
            BY <1>4, <4>2 DEF InHand
          <5> QED BY <4>2, <5>1, <5>2, HorizonAssumption DEF NextDayOf, Days
        <4> QED BY <4>1, <4>2
      <3>4. Cycled(p, c, 1, Horizon)
        BY <1>3, <3>2, <3>3
      <3>5. \A i \in DOMAIN q : q[i].code = c => Newer(q, i) = Newer(p, i)
        BY <1>3, <3>1 DEF Newer, Begins
      <3>6. Cycled(q, c, 1, Horizon)
        BY <1>3, <3>4, <3>5 DEF Cycled, Turns, Begins
      <3> QED BY <3>2, <3>6
    <2> QED BY <2>1, <2>2
  <1> QED BY <1>2, <1>5, <1>6 DEF CycleInv

LEMMA CycleStep == TypeInv /\ DiskInv /\ CycleInv /\ [Next]_vars => CycleInv'
  <1> SUFFICES ASSUME TypeInv, DiskInv, CycleInv, [Next]_vars PROVE CycleInv'
    OBVIOUS
  <1>1. CASE FeedNext /\ UNCHANGED <<newsVars, predVars>>
    BY <1>1, FeedType, HandKept, CycleBeside DEF Touches
  <1>2. CASE NewsNext /\ UNCHANGED <<feedVars, predVars>>
    BY <1>2, NewsType, HandKept, CycleBeside DEF Touches
  <1>3. CASE PredNext
    BY <1>3, PausesCycle, VerifyOneCycle, InsertPredictionCycle DEF PredNext
  <1>4. CASE Killed \/ Thrown
    BY <1>4, RestartCycle
  <1>5. CASE UNCHANGED vars
    <2>1. db' = db /\ UNCHANGED predVars
      BY <1>5 DEF vars, statementVars, connVars
    <2> QED BY <2>1, HandKept, CycleBeside
  <1> QED BY <1>1, <1>2, <1>3, <1>4, <1>5 DEF Next

LEMMA BeginsItself == ASSUME NEW p PROVE Begins(p, p)
  BY DEF Begins

(* The predictions only grow and keep their codes and days. *)
LEMMA DiskKept ==
    ASSUME DiskInv, disk' \in {disk, db'}, Begins(db.predictions, db'.predictions)
    PROVE  DiskInv'
  BY DEF DiskInv, Begins

LEMMA DiskStep == TypeInv /\ DiskInv /\ [Next]_vars => DiskInv'
  <1> SUFFICES ASSUME TypeInv, DiskInv, [Next]_vars PROVE DiskInv'
    OBVIOUS
  <1>1. CASE FeedNext
    BY <1>1, FeedType, BeginsItself, DiskKept DEF Touches
  <1>2. CASE NewsNext
    BY <1>2, NewsType, BeginsItself, DiskKept DEF Touches
  <1>3. CASE Killed \/ Thrown
    BY <1>3, RestartStep, BeginsItself DEF DiskInv
  <1>4. CASE PredNext
    <2>1. TablesOK /\ ConnOK /\ PredOK /\ DayInv /\ db.predictions \in Seq(PredictionRows)
      BY TypeParts DEF TablesOK, Tables
    <2>2. disk' \in {disk, db'}
      BY <1>4, PredType DEF Touches
    <2>3. CASE db' = db
      BY <2>2, <2>3, BeginsItself, DiskKept
    <2>4. CASE VerifyOne
      <3>1. CASE UNCHANGED statementVars \/ Fails
        BY <2>3, <3>1 DEF statementVars, connVars, Fails
      <3>2. ASSUME NEW price \in Nat \ {0},
                   Runs([db EXCEPT !.predictions = Verified(db.predictions, Head(queue), price)])
            PROVE  DiskInv'
        <4> DEFINE id == Head(queue)
                   p == db.predictions
                   t == Verified(p, id, price)
        <4>1. price \in Nat /\ id \in DOMAIN p /\ p \in Seq(PredictionRows)
          BY <2>1, <2>4, VerifyStep
        <4>2. Runs([db EXCEPT !.predictions = t])
          BY <3>2
        <4>3. p = db.predictions
          OBVIOUS
        <4> HIDE DEF id, p
        <4>4. /\ Verified(p, id, price) \in Seq(PredictionRows)
              /\ DOMAIN Verified(p, id, price) = DOMAIN p
              /\ \A i \in DOMAIN p : Verified(p, id, price)[i].code = p[i].code
              /\ \A i \in DOMAIN p : Verified(p, id, price)[i].day = p[i].day
          BY ONLY <4>1, VerifiedKeeps
        <4>5. t \in Seq(PredictionRows) /\ Begins(p, t)
          BY <4>4 DEF Begins
        <4> HIDE DEF t
        <4>6. db'.predictions = t
          BY <2>1, <4>2, <4>5, PredictionsWritten
        <4> QED BY <2>2, <4>3, <4>5, <4>6, DiskKept
      <3> QED BY <2>4, <3>1, <3>2, VerifyStep
    <2>5. CASE InsertPrediction
      <3>1. CASE Fails
        BY <2>3, <3>1 DEF Fails, connVars
      <3>2. CASE Runs([db EXCEPT !.predictions = Append(db.predictions, NextRow)])
        <4> DEFINE p == db.predictions
                   q == Append(p, NextRow)
        <4>1. NextRow \in PredictionRows
          BY <2>1, <2>5, NextRowType DEF InsertPrediction
        <4>2. /\ q \in Seq(PredictionRows) /\ DOMAIN q = 1 .. (Len(p) + 1)
              /\ \A i \in 1 .. Len(p) : q[i] = p[i]
              /\ Len(p) \in Nat /\ DOMAIN p = 1 .. Len(p)
          BY <2>1, <4>1, AppendType, SeqType
        <4>3. Begins(p, q)
          <5>1. \A i \in 1 .. Len(p) : i \in 1 .. (Len(p) + 1)
            BY <4>2
          <5> HIDE DEF p, q
          <5> QED BY <4>2, <5>1 DEF Begins
        <4>4. db'.predictions = q
          BY <2>1, <3>2, <4>2, PredictionsWritten
        <4> QED BY <2>2, <4>3, <4>4, DiskKept
      <3> QED BY <2>5, <3>1, <3>2 DEF InsertPrediction, NextRow
    <2>6. CASE GetPending \/ GetStocks \/ EndOfDay \/ GetAllStocks \/ SkipPredicting \/ EndOfCycle
      BY <2>3, <2>6 DEF GetPending, GetStocks, EndOfDay, GetAllStocks, SkipPredicting,
                        EndOfCycle, statementVars, connVars
    <2> QED BY <1>4, <2>4, <2>5, <2>6 DEF PredNext
  <1>5. CASE UNCHANGED vars
    BY <1>5 DEF DiskInv, vars, statementVars, connVars
  <1> QED BY <1>1, <1>2, <1>3, <1>4, <1>5 DEF Next

LEMMA CycleInit == Init => DiskInv /\ CycleInv
  BY DEF Init, StatementsInit, ConnInit, DiskInv, Begins, CycleInv, Cycled

(* predictor_loop writes the rows of a code one by one, five and five again, and
   get_for_code reads the newest five whenever it is asked: between the rows of
   two cycles, with stocks that share a code, with other threads' transactions
   rolled back by a restart, no day is shown twice, unless an INSERT of the code
   failed, rows of it were lost or its turn was cut short. *)
THEOREM EachDayOnce == Spec => []ShownCoverEachDay
  <1>1. TypeInv /\ CycleInv => ShownCoverEachDay
    <2> DEFINE p == db.predictions
    <2>1. SUFFICES ASSUME TypeInv, CycleInv, NEW c, c \notin ragged,
                          NEW i \in Latest(p, c), NEW j \in Latest(p, c), i # j
                   PROVE  p[i].day # p[j].day
      BY DEF ShownCoverEachDay
    <2>2. p \in Seq(PredictionRows) /\ PredOK /\ DayInv
      BY <2>1, TypeParts DEF TablesOK, Tables
    <2>3. Cycled(p, c, NextDayOf(c), Horizon)
      <3>1. Cycled(p, c, NextDayOf(c), Depth(c))
        BY <2>1 DEF CycleInv
      <3>2. Depth(c) = Horizon
        BY <2>1 DEF Depth
      <3> HIDE DEF p
      <3> QED BY <3>1, <3>2
    <2>4. NextDayOf(c) \in Days
      BY <2>2, HorizonAssumption DEF NextDayOf, InHand, DayInv, Days
    <2> HIDE DEF p
    <2>5. ASSUME NEW k \in Latest(p, c)
          PROVE  /\ k \in DOMAIN p /\ p[k].code = c
                 /\ Cardinality(Newer(p, k)) \in 0 .. (Horizon - 1)
                 /\ p[k].day = Back(NextDayOf(c), Cardinality(Newer(p, k)))
      <3>1. k \in DOMAIN p /\ p[k].code = c
        BY <2>5 DEF Latest
      <3>2. Newer(p, k) = {l \in DOMAIN p : l > k /\ p[l].code = c}
        BY <3>1 DEF Newer
      <3>3. Cardinality(Newer(p, k)) < Horizon
        BY <2>5, <3>2 DEF Latest
      <3>4. Cardinality(Newer(p, k)) \in Nat
        BY <2>2, <3>1, NewerType
      <3> QED BY <2>3, <3>1, <3>3, <3>4, HorizonAssumption DEF Cycled, Turns
    <2>6. i \in DOMAIN p /\ j \in DOMAIN p /\ p[i].code = c /\ p[j].code = c
      BY <2>5
    <2>7. i < j \/ j < i
      <3>1. DOMAIN p \subseteq Int
        BY <2>2, SeqType
      <3> QED BY <2>1, <2>6, <3>1
    <2>8. Cardinality(Newer(p, i)) # Cardinality(Newer(p, j))
      <3>1. CASE i < j
        <4>1. Cardinality(Newer(p, j)) < Cardinality(Newer(p, i))
          BY <2>2, <2>6, <3>1, OlderHasMore
        <4> QED BY <2>5, <4>1, HorizonAssumption
      <3>2. CASE j < i
        <4>1. Cardinality(Newer(p, i)) < Cardinality(Newer(p, j))
          BY <2>2, <2>6, <3>2, OlderHasMore
        <4> QED BY <2>5, <4>1, HorizonAssumption
      <3> QED BY <2>7, <3>1, <3>2
    <2> QED BY <2>4, <2>5, <2>8, BackDiffers
  <1>2. Spec => [](DiskInv /\ CycleInv)
    BY CycleInit, DiskStep, CycleStep, TypeInvariant, PTL DEF Spec
  <1> QED BY <1>1, <1>2, TypeInvariant, PTL

-----------------------------------------------------------------------------
(* Verified in time: the rows.                                             *)

(* Of the rows of a code there are fewer newer ones than days. *)
LEMMA DifferingAreLatest ==
    ASSUME NEW p \in Seq(PredictionRows), NEW i \in DOMAIN p, DaysDiffer(p, i)
    PROVE  i \in Latest(p, p[i].code)
  <1> DEFINE N == Newer(p, i)
             T == Days \ {p[i].day}
             f == [j \in N |-> p[j].day]
  <1>1. /\ N \subseteq DOMAIN p /\ DOMAIN p \subseteq Int /\ i \in Int
        /\ \A j \in N : i < j /\ p[j].code = p[i].code
        /\ \A j \in DOMAIN p : p[j].day \in Days
    <2>1. DOMAIN p = 1 .. Len(p) /\ \A j \in DOMAIN p : p[j] \in PredictionRows
      BY SeqType
    <2>2. N \subseteq DOMAIN p /\ DOMAIN p \subseteq Int /\ i \in Int
      BY <2>1, NewerType
    <2>3. \A j \in DOMAIN p : p[j].day \in Days
      BY <2>1 DEF PredictionRows
    <2>4. \A j \in N : j \in DOMAIN p /\ j > i /\ p[j].code = p[i].code
      BY DEF Newer
    <2>5. \A j \in N : i < j
      BY <2>2, <2>4
    <2> QED BY <2>2, <2>3, <2>4, <2>5
  <1>2. \A j \in N : p[j].day \in T
    BY <1>1 DEF DaysDiffer
  <1>3. \A j, k \in N : j # k => p[j].day # p[k].day
    <2>1. ASSUME NEW j \in N, NEW k \in N, j < k PROVE p[j].day # p[k].day
      BY <1>1, <2>1 DEF DaysDiffer
    <2>2. \A j, k \in N : j # k => j < k \/ k < j
      BY <1>1
    <2> QED BY <2>1, <2>2
  <1>4. IsFiniteSet(T) /\ Cardinality(T) = Horizon - 1 /\ Horizon \in Nat \ {0}
    <2>1. IsFiniteSet(Days) /\ Cardinality(Days) = Horizon /\ Horizon \in Nat \ {0}
      BY FS_Interval, HorizonAssumption DEF Days
    <2>2. p[i].day \in Days
      BY <1>1
    <2> QED BY <2>1, <2>2, FS_RemoveElement
  <1>5. Cardinality(N) = Cardinality({j \in DOMAIN p : j > i /\ p[j].code = p[i].code})
    BY DEF Newer
  <1>6. Cardinality(N) \in Nat
    BY NewerType
  <1> HIDE DEF N, T
  <1>7. f \in Injection(N, T)
    <2>1. f \in [N -> T]
      BY <1>2
    <2>2. \A j, k \in N : f[j] = f[k] => j = k
      BY <1>3
    <2> HIDE DEF f
    <2> QED BY <2>1, <2>2 DEF Injection, IsInjective
  <1> HIDE DEF f
  <1>8. Cardinality(N) <= Cardinality(T)
    BY <1>4, <1>7, FS_Injection
  <1> QED BY <1>4, <1>5, <1>6, <1>8 DEF Latest

LEMMA DifferKept ==
    ASSUME NEW p, NEW q, DOMAIN q = DOMAIN p,
           \A i \in DOMAIN p : q[i].code = p[i].code /\ q[i].day = p[i].day,
           NEW i \in DOMAIN p, DaysDiffer(p, i)
    PROVE  DaysDiffer(q, i)
  BY DEF DaysDiffer

(* A row more, of another code or of a day of its own *)
LEMMA DifferAppended ==
    ASSUME NEW p \in Seq(PredictionRows), NEW row \in PredictionRows,
           NEW i \in DOMAIN p, DaysDiffer(p, i),
           p[i].code = row.code =>
               \A j \in DOMAIN p : i <= j /\ p[j].code = row.code => p[j].day # row.day
    PROVE  DaysDiffer(Append(p, row), i)
  <1> DEFINE q == Append(p, row)
             n == Len(p) + 1
  <1>1. /\ Len(p) \in Nat /\ DOMAIN p = 1 .. Len(p) /\ DOMAIN q = 1 .. n
        /\ \A j \in 1 .. Len(p) : q[j] = p[j]
        /\ q[n] = row
    BY AppendType, SeqType
  <1> HIDE DEF q
  <1> SUFFICES ASSUME NEW j \in DOMAIN q, NEW k \in DOMAIN q, i <= j, j < k,
                      q[j].code = q[i].code, q[k].code = q[i].code
               PROVE  q[j].day # q[k].day
    BY DEF DaysDiffer, q
  <1>2. j \in DOMAIN p /\ q[j] = p[j] /\ q[i] = p[i] /\ (k = n \/ k \in DOMAIN p)
    BY <1>1
  <1>3. CASE k \in DOMAIN p
    BY <1>1, <1>2, <1>3 DEF DaysDiffer
  <1>4. CASE k = n
    BY <1>1, <1>2, <1>4
  <1> QED BY <1>2, <1>3, <1>4

LEMMA DifferLast ==
    ASSUME NEW p \in Seq(PredictionRows), NEW row \in PredictionRows
    PROVE  DaysDiffer(Append(p, row), Len(p) + 1)
  <1>1. DOMAIN Append(p, row) = 1 .. (Len(p) + 1) /\ Len(p) \in Nat
    BY AppendType, SeqType
  <1>2. \A j, k \in 1 .. (Len(p) + 1) : ~(Len(p) + 1 <= j /\ j < k)
    BY <1>1
  <1> QED BY <1>1, <1>2 DEF DaysDiffer

LEMMA TimelyMore ==
    ASSUME NEW p, NEW a, NEW b, a \subseteq b, Timely(p, a)
    PROVE  Timely(p, b)
  BY DEF Timely

-----------------------------------------------------------------------------
(* Verified in time: the steps.                                            *)

(* The other threads *)
LEMMA TimeBeside ==
    ASSUME TimeInv, db'.predictions = db.predictions, disk' \in {disk, db'}, UNCHANGED predVars
    PROVE  TimeInv'
  <1>1. /\ strays' = strays /\ queue' = queue /\ predPc' = predPc /\ day' = day
        /\ stock' = stock /\ snap' = snap
    BY DEF predVars
  <1>2. disk'.predictions \in {disk.predictions, db.predictions}
    OBVIOUS
  <1>3. Timely(disk'.predictions, strays)
    BY <1>2 DEF TimeInv
  <1>4. QueueInv' /\ PhaseInv'
    BY <1>1 DEF TimeInv, QueueInv, PhaseInv, Due, Fresh, Shared
  <1> QED BY <1>1, <1>3, <1>4 DEF TimeInv

(* The rows of a day are taken up. *)
LEMMA GetPendingTime == TypeInv /\ TimeInv /\ GetPending => TimeInv'
  <1> SUFFICES ASSUME TypeInv, TimeInv, GetPending PROVE TimeInv'
    OBVIOUS
  <1> DEFINE p == db.predictions
             D == {i \in DOMAIN p : p[i].status = "pending" /\ p[i].day = day}
  <1>1. TablesOK /\ PredOK /\ p \in Seq(PredictionRows)
    BY TypeParts DEF TablesOK, Tables
  <1>2. /\ UNCHANGED <<db, disk, strays>> /\ predPc = "pending"
        /\ queue' = InOrder(D) /\ day \in Days
        /\ \/ queue' = <<>> /\ day' = day + 1 /\ predPc' = "pending"
           \/ predPc' = "stocks" /\ day' = day
    BY DEF GetPending, Pending, statementVars, connVars
  <1>3. p = db.predictions /\ D \subseteq DOMAIN p
        /\ \A i \in DOMAIN p : i \in D <=> p[i].status = "pending" /\ p[i].day = day
    OBVIOUS
  <1>4. \A i \in DOMAIN p : p[i].day \in Days
    <2>1. \A i \in DOMAIN p : p[i] \in PredictionRows
      BY <1>1, SeqType
    <2> QED BY <2>1 DEF PredictionRows
  <1> HIDE DEF p, D
  <1>5. /\ DOMAIN queue' = 1 .. Cardinality(D) /\ Cardinality(D) \in Nat
        /\ \A a \in DOMAIN queue' : queue'[a] \in D
        /\ \A a, b \in DOMAIN queue' : a < b => queue'[a] < queue'[b]
        /\ \A i \in D : \E a \in DOMAIN queue' : queue'[a] = i
    <2>1. DOMAIN p = 1 .. Len(p) /\ Len(p) \in Nat
      BY <1>1, SeqType
    <2>2. IsFiniteSet(D) /\ D \subseteq Int
      <3>1. IsFiniteSet(1 .. Len(p))
        BY <2>1, FS_Interval
      <3> QED BY <1>3, <2>1, <3>1, FS_Subset
    <2>3. /\ Cardinality(D) \in Nat
          /\ InOrder(D) \in [1 .. Cardinality(D) -> D]
          /\ \A a, b \in 1 .. Cardinality(D) : a < b => InOrder(D)[a] < InOrder(D)[b]
          /\ \A i \in D : \E n \in 1 .. Cardinality(D) : InOrder(D)[n] = i
      BY <2>2, InOrderIs
    <2> QED BY <1>2, <2>3
  <1>6. QueueInv'
    <2>1. \A a, b \in DOMAIN queue' : a # b => queue'[a] # queue'[b]
      <3>1. \A a, b \in DOMAIN queue' : a # b => a < b \/ b < a
        BY <1>5
      <3>2. D \subseteq Int
        <4>1. DOMAIN p = 1 .. Len(p) /\ Len(p) \in Nat
          BY <1>1, SeqType
        <4> QED BY <1>3, <4>1
      <3>3. ASSUME NEW a \in DOMAIN queue', NEW b \in DOMAIN queue', a < b
            PROVE  queue'[a] # queue'[b]
        <4>1. queue'[a] < queue'[b] /\ queue'[a] \in Int
          BY <1>5, <3>2, <3>3
        <4> QED BY <4>1
      <3> QED BY <3>1, <3>3
    <2>2. \A a \in DOMAIN queue' : p[queue'[a]].status = "pending"
      BY <1>3, <1>5
    <2> QED BY <1>2, <1>3, <2>1, <2>2 DEF QueueInv
  <1>7. ASSUME NEW i \in DOMAIN p \ strays, p[i].status = "pending"
        PROVE  /\ day' <= p[i].day
               /\ predPc' \in {"stocks", "verify"} /\ p[i].day = day' => i \in ToSet(queue')
    <2>1. day <= p[i].day /\ p[i].day \in Days
      BY <1>2, <1>3, <1>4, <1>7 DEF TimeInv, PhaseInv, Due
    <2>2. CASE predPc' = "stocks" /\ day' = day
      <3>1. p[i].day = day => i \in ToSet(queue')
        BY <1>3, <1>5, <1>7 DEF ToSet
      <3> QED BY <2>1, <2>2, <3>1
    <2>3. CASE queue' = <<>> /\ day' = day + 1 /\ predPc' = "pending"
      <3>1. D = {}
        <4>1. DOMAIN queue' = {}
          BY <2>3
        <4> QED BY <1>5, <4>1
      <3>2. p[i].day # day
        BY <1>3, <1>7, <3>1
      <3> QED BY <1>2, <2>1, <2>3, <3>2 DEF Days
    <2> QED BY <1>2, <2>2, <2>3
  <1>8. PhaseInv'
    <2>1. db'.predictions = p /\ strays' = strays /\ predPc' # "insert"
      BY <1>2, <1>3
    <2> QED BY <1>7, <2>1 DEF PhaseInv, Due
  <1>9. Timely(db.predictions, strays)' /\ Timely(disk.predictions, strays)'
    BY <1>2 DEF TimeInv
  <1> QED BY <1>6, <1>8, <1>9 DEF TimeInv

(* The steps that write nothing *)
LEMMA PausesTime ==
    TypeInv /\ TimeInv /\ (GetStocks \/ EndOfDay \/ GetAllStocks \/ SkipPredicting \/ EndOfCycle)
        => TimeInv'
  <1> SUFFICES ASSUME TypeInv, TimeInv,
                      GetStocks \/ EndOfDay \/ GetAllStocks \/ SkipPredicting \/ EndOfCycle
               PROVE  TimeInv'
    OBVIOUS
  <1> DEFINE p == db.predictions
  <1>1. PredOK /\ DayInv /\ p \in Seq(PredictionRows) /\ Horizon \in Nat \ {0}
    BY TypeParts, HorizonAssumption DEF TablesOK, Tables
  <1>2. UNCHANGED <<db, disk, strays, queue>>
    BY DEF GetStocks, EndOfDay, GetAllStocks, SkipPredicting, EndOfCycle, statementVars, connVars
  <1>3. \A i \in DOMAIN p : p[i].day \in Days
    <2>1. \A i \in DOMAIN p : p[i] \in PredictionRows
      BY <1>1, SeqType
    <2> QED BY <2>1 DEF PredictionRows
  <1>4. day \in 1 .. Horizon + 1 /\ (predPc = "verify" => day \in Days)
    BY <1>1 DEF PredOK, DayInv
  <1>5. p = db.predictions
    OBVIOUS
  <1> HIDE DEF p
  <1>6. ASSUME NEW i \in DOMAIN p \ strays, p[i].status = "pending"
        PROVE  IF predPc' = "insert"
               THEN predPc = "pending" /\ day \notin Days
               ELSE /\ day' <= p[i].day
                    /\ predPc' \in {"stocks", "verify"} /\ p[i].day = day' => i \in ToSet(queue)
    <2>1. p[i].day \in Days
      BY <1>3, <1>6
    <2>2. predPc # "insert" =>
              /\ day <= p[i].day
              /\ predPc \in {"stocks", "verify"} /\ p[i].day = day => i \in ToSet(queue)
      BY <1>5, <1>6 DEF TimeInv, PhaseInv, Due
    <2>3. CASE GetStocks
      BY <2>2, <2>3 DEF GetStocks
    <2>4. CASE EndOfDay
      <3>1. /\ predPc = "verify" /\ predPc' = "pending" /\ day' = day + 1 /\ queue = <<>>
        BY <2>4 DEF EndOfDay
      <3>2. i \notin ToSet(queue)
        BY <3>1 DEF ToSet
      <3> QED BY <1>4, <2>1, <2>2, <3>1, <3>2 DEF Days
    <2>5. CASE GetAllStocks
      BY <2>5 DEF GetAllStocks
    <2>6. CASE SkipPredicting
      BY <1>1, <2>1, <2>6 DEF SkipPredicting, Days
    <2>7. CASE EndOfCycle
      <3>1. day' = 1 /\ predPc' = "pending"
        BY <1>1, <2>7 DEF EndOfCycle, DayInv
      <3> QED BY <2>1, <3>1 DEF Days
    <2> QED BY <2>3, <2>4, <2>5, <2>6, <2>7
  <1>7. ASSUME NEW i \in DOMAIN p \ strays, p[i].status = "pending",
               predPc = "pending", day \notin Days
        PROVE  FALSE
    <2>1. p[i].day \in Days /\ day <= p[i].day
      BY <1>3, <1>5, <1>7 DEF TimeInv, PhaseInv, Due
    <2> QED BY <1>1, <1>4, <1>7, <2>1 DEF Days
  <1>8. QueueInv' /\ Timely(db.predictions, strays)' /\ Timely(disk.predictions, strays)'
    BY <1>2 DEF TimeInv, QueueInv
  <1>9. PhaseInv'
    <2>1. db'.predictions = p /\ strays' = strays /\ queue' = queue
      BY <1>2, <1>5
    <2>2. ASSUME NEW i \in DOMAIN p \ strays, p[i].status = "pending"
          PROVE  /\ predPc' # "insert" /\ day' <= p[i].day
                 /\ predPc' \in {"stocks", "verify"} /\ p[i].day = day' => i \in ToSet(queue)
      BY <1>6, <1>7, <2>2
    <2> QED BY <2>1, <2>2 DEF PhaseInv, Due
  <1> QED BY <1>8, <1>9 DEF TimeInv

(* A row is verified: it still was among the newest. *)
LEMMA VerifiedTimely ==
    ASSUME NEW t \in Seq(PredictionRows), NEW passed, Timely(t, passed),
           NEW id \in DOMAIN t, t[id].status = "pending", NEW price \in Nat
    PROVE  /\ Timely(Verified(t, id, price), passed)
           /\ \A i \in DOMAIN t : i # id => Verified(t, id, price)[i] = t[i]
           /\ Verified(t, id, price)[id].status = "verified"
  <1> DEFINE v == Verified(t, id, price)
  <1>1. /\ DOMAIN v = DOMAIN t
        /\ \A i \in DOMAIN t : v[i].code = t[i].code /\ v[i].day = t[i].day
        /\ \A i \in DOMAIN t : i # id => v[i] = t[i]
        /\ v[id].now = t[id].now
    BY VerifiedType
  <1>2. v[id].status = "verified" /\ v[id].base = BaseOf(t, id)
    <2> DEFINE row == [t[id] EXCEPT !.status = "verified", !.actual = price, !.base = BaseOf(t, id)]
    <2>1. t[id] \in PredictionRows
      BY SeqType
    <2>2. row.status = "verified" /\ row.base = BaseOf(t, id)
      BY <2>1 DEF PredictionRows
    <2>3. v[id] = row
      BY DEF Verified
    <2> HIDE DEF row, v
    <2> QED BY <2>2, <2>3
  <1> HIDE DEF v
  <1>3. ASSUME NEW i \in DOMAIN t \ passed
        PROVE  /\ v[i].status = "pending" => DaysDiffer(v, i)
               /\ v[i].status = "verified" /\ v[i].code = Blank => v[i].base = v[i].now
    <2>1. CASE i = id
      <3>1. v[i].status # "pending"
        BY <1>2, <2>1
      <3>2. ASSUME v[i].code = Blank PROVE v[i].base = v[i].now
        <4>1. DaysDiffer(t, id) /\ t[id].code = Blank
          BY <1>1, <1>3, <2>1, <3>2 DEF Timely
        <4>2. id \in Latest(t, Blank)
          BY <4>1, DifferingAreLatest
        <4>3. BaseOf(t, id) = t[id].now
          BY <4>2 DEF BaseOf
        <4> QED BY <1>1, <1>2, <2>1, <4>3
      <3> QED BY <3>1, <3>2
    <2>2. CASE i # id
      <3>1. v[i] = t[i]
        BY <1>1, <1>3, <2>2
      <3>2. t[i].status = "pending" => DaysDiffer(v, i)
        BY <1>1, <1>3, DifferKept DEF Timely
      <3> QED BY <1>3, <3>1, <3>2 DEF Timely
    <2> QED BY <2>1, <2>2
  <1>4. Timely(v, passed)
    BY <1>1, <1>3 DEF Timely
  <1> QED BY <1>1, <1>2, <1>4 DEF v

(* The row in hand leaves the queue verified or passed over. *)
LEMMA VerifyOneTime == TypeInv /\ TimeInv /\ VerifyOne => TimeInv'
  <1> SUFFICES ASSUME TypeInv, TimeInv, VerifyOne PROVE TimeInv'
    OBVIOUS
  <1> DEFINE p == db.predictions
             id == Head(queue)
  <1>1. TablesOK /\ ConnOK /\ PredOK /\ p \in Seq(PredictionRows)
    BY TypeParts DEF TablesOK, Tables
  <1>2. /\ predPc = "verify" /\ predPc' = "verify" /\ day' = day
        /\ queue # <<>> /\ queue' = Tail(queue)
        /\ id \in DOMAIN p
        /\ \/ strays' = strays \cup {id} /\ (UNCHANGED statementVars \/ Fails)
           \/ /\ strays' = strays
              /\ \E price \in Nat \ {0} : Runs([db EXCEPT !.predictions = Verified(p, id, price)])
    BY VerifyStep
  <1>3. disk' \in {disk, db'}
    BY VerifyOneType DEF Touches
  <1>4. /\ ToSet(queue) = {id} \cup ToSet(Tail(queue))
        /\ \A a \in DOMAIN Tail(queue) :
              /\ p[Tail(queue)[a]].status = "pending" /\ Tail(queue)[a] # id
              /\ \A b \in DOMAIN Tail(queue) : a # b => Tail(queue)[a] # Tail(queue)[b]
        /\ p[id].status = "pending"
    <2>1. queue \in Seq(DOMAIN p)
      BY <1>1 DEF PredOK
    <2>2. /\ id = queue[1] /\ Len(queue) \in Nat \ {0} /\ DOMAIN queue = 1 .. Len(queue)
          /\ Len(Tail(queue)) = Len(queue) - 1 /\ DOMAIN Tail(queue) = 1 .. Len(Tail(queue))
          /\ \A a \in DOMAIN Tail(queue) : a + 1 \in DOMAIN queue /\ Tail(queue)[a] = queue[a + 1]
          /\ ToSet(queue) = {id} \cup ToSet(Tail(queue))
      BY <1>2, <2>1, TailType, SeqType
    <2>3. \A a \in DOMAIN queue :
              /\ p[queue[a]].status = "pending"
              /\ \A b \in DOMAIN queue : a # b => queue[a] # queue[b]
      BY DEF TimeInv, QueueInv
    <2>4. 1 \in DOMAIN queue
      BY <2>2
    <2> HIDE DEF id
    <2>5. ASSUME NEW a \in DOMAIN Tail(queue)
          PROVE  /\ p[Tail(queue)[a]].status = "pending" /\ Tail(queue)[a] # id
                 /\ \A b \in DOMAIN Tail(queue) : a # b => Tail(queue)[a] # Tail(queue)[b]
      <3>1. a \in Nat \ {0}
        BY <2>2
      <3>2. a + 1 \in DOMAIN queue /\ Tail(queue)[a] = queue[a + 1] /\ a + 1 # 1
        BY <2>2, <3>1
      <3>3. \A b \in DOMAIN Tail(queue) : a # b => a + 1 # b + 1
        BY <2>2, <3>1
      <3> QED BY <2>2, <2>3, <2>4, <3>2, <3>3
    <2> QED BY <2>2, <2>3, <2>4, <2>5
  <1>5. ASSUME NEW i \in DOMAIN p \ strays, p[i].status = "pending"
        PROVE  day <= p[i].day /\ (p[i].day = day => i = id \/ i \in ToSet(Tail(queue)))
    <2>1. day <= p[i].day /\ (p[i].day = day => i \in ToSet(queue))
      BY <1>2, <1>5 DEF TimeInv, PhaseInv, Due
    <2> QED BY <1>4, <2>1
  <1>6. Timely(p, strays) /\ Timely(disk.predictions, strays)
    BY DEF TimeInv
  <1>7. p = db.predictions
    OBVIOUS
  <1>8. CASE strays' = strays \cup {id} /\ (UNCHANGED statementVars \/ Fails)
    <2>1. db' = db
      BY <1>8 DEF statementVars, connVars, Fails
    <2> HIDE DEF id, p
    <2>2. db'.predictions = p /\ disk'.predictions \in {disk.predictions, p}
      BY <1>3, <1>7, <2>1
    <2>3. strays \subseteq strays'
      BY <1>8
    <2>4. Timely(p, strays') /\ Timely(disk.predictions, strays')
      BY <1>6, <2>3, TimelyMore
    <2>5. QueueInv'
      BY <1>2, <1>4, <2>2 DEF QueueInv
    <2>6. PhaseInv'
      BY <1>2, <1>5, <1>8, <2>2 DEF PhaseInv, Due
    <2> QED BY <2>2, <2>4, <2>5, <2>6 DEF TimeInv
  <1>9. ASSUME strays' = strays, NEW price \in Nat \ {0},
               Runs([db EXCEPT !.predictions = Verified(p, id, price)])
        PROVE  TimeInv'
    <2> DEFINE t == Verified(p, id, price)
    <2>1. Runs([db EXCEPT !.predictions = t])
      BY <1>9
    <2> HIDE DEF id, p
    <2>2. /\ t \in Seq(PredictionRows) /\ DOMAIN t = DOMAIN p
          /\ \A i \in DOMAIN p : t[i].day = p[i].day
      BY <1>1, <1>2, <1>9, VerifiedKeeps
    <2>3. /\ Timely(t, strays) /\ t[id].status = "verified"
          /\ \A i \in DOMAIN p : i # id => t[i] = p[i]
      BY <1>1, <1>2, <1>4, <1>6, <1>9, VerifiedTimely
    <2> HIDE DEF t
    <2>4. db'.predictions = t /\ disk'.predictions \in {disk.predictions, t}
      BY <1>1, <1>3, <2>1, <2>2, PredictionsWritten
    <2>5. QueueInv'
      <3>1. \A a \in DOMAIN Tail(queue) : Tail(queue)[a] \in DOMAIN p
        <4>1. Tail(queue) \in Seq(DOMAIN p)
          BY <1>7, VerifyStep
        <4> QED BY <4>1, SeqType
      <3>2. \A a \in DOMAIN Tail(queue) : t[Tail(queue)[a]].status = "pending"
        BY <1>4, <2>3, <3>1
      <3> QED BY <1>2, <1>4, <2>4, <3>2 DEF QueueInv
    <2>6. PhaseInv'
      <3> SUFFICES ASSUME NEW i \in DOMAIN t \ strays, t[i].status = "pending"
                   PROVE  day <= t[i].day /\ (t[i].day = day => i \in ToSet(Tail(queue)))
        BY <1>2, <1>9, <2>4 DEF PhaseInv, Due
      <3>1. i # id
        BY <2>3
      <3>2. t[i] = p[i] /\ i \in DOMAIN p \ strays
        BY <2>2, <2>3, <3>1
      <3> QED BY <1>5, <3>1, <3>2
    <2> QED BY <1>6, <1>9, <2>3, <2>4, <2>5, <2>6 DEF TimeInv
  <1> QED BY <1>2, <1>8, <1>9

(* The next row is of the next day, and of a code that comes up once. *)
LEMMA InsertPredictionTime == TypeInv /\ TimeInv /\ InsertPrediction => TimeInv'
  <1> SUFFICES ASSUME TypeInv, TimeInv, InsertPrediction PROVE TimeInv'
    OBVIOUS
  <1> DEFINE p == db.predictions
             row == NextRow
             n == Len(p) + 1
  <1>1. TablesOK /\ ConnOK /\ PredOK /\ DayInv /\ p \in Seq(PredictionRows)
    BY TypeParts DEF TablesOK, Tables
  <1>2. /\ predPc = "insert" /\ predPc' = "insert" /\ stock <= Len(snap) /\ snap' = snap
        /\ day' = IF day = Horizon THEN 1 ELSE day + 1
        /\ stock' = IF day = Horizon THEN stock + 1 ELSE stock
        /\ queue' = queue
        /\ \/ /\ Runs([db EXCEPT !.predictions = Append(p, row)])
              /\ strays' = IF Shared(snap[stock].code) THEN strays \cup {n} ELSE strays
           \/ Fails /\ strays' = strays
    BY DEF InsertPrediction, NextRow
  <1>3. /\ row \in PredictionRows /\ row.status = "pending"
        /\ row.code = snap[stock].code /\ row.day = day
        /\ Len(snap) \in Nat /\ stock \in 1 .. Len(snap) /\ day \in Days
    BY <1>1, <1>2, NextRowType
  <1>4. Horizon \in Nat \ {0} /\ day \in 1 .. Horizon /\ DOMAIN snap = 1 .. Len(snap)
    BY <1>1, <1>3, HorizonAssumption, SeqType DEF Days, PredOK
  <1>5. disk' \in {disk, db'}
    BY InsertPredictionType DEF Touches
  <1>6. queue = <<>>
    BY <1>1, <1>2 DEF PredOK
  <1>7. QueueInv'
    <2>1. DOMAIN queue' = {}
      BY <1>2, <1>6
    <2> QED BY <2>1 DEF QueueInv
  <1>8. Timely(p, strays) /\ Timely(disk.predictions, strays) /\ strays \subseteq strays'
    BY <1>2 DEF TimeInv
  <1>9. ASSUME NEW i \in DOMAIN p \ strays, p[i].status = "pending",
               NEW m \in stock .. Len(snap), snap[m].code = p[i].code
        PROVE  /\ m = stock /\ ~Shared(snap[m].code)
               /\ \A j \in DOMAIN p : i <= j /\ p[j].code = p[i].code => p[j].day < day
    BY <1>2, <1>9 DEF TimeInv, PhaseInv, Fresh
  <1>10. \A c : Shared(c) <=> \E m \in 1 .. Len(snap) : m # stock /\ snap[m].code = c
    BY <1>4 DEF Shared
  <1>11. p = db.predictions
    OBVIOUS
  <1>12. Len(p) \in Nat /\ DOMAIN p = 1 .. Len(p) /\ \A i \in DOMAIN p : p[i].day \in Days
    <2>1. Len(p) \in Nat /\ DOMAIN p = 1 .. Len(p) /\ \A i \in DOMAIN p : p[i] \in PredictionRows
      BY <1>1, SeqType
    <2> QED BY <2>1 DEF PredictionRows
  <1> HIDE DEF p, row
  (* What is left of the snapshot has one stock of the code, or none any more. *)
  <1>13. ASSUME NEW m \in stock' .. Len(snap), NEW c, snap[m].code = c,
                (c = snap[stock].code => ~Shared(c)),
                (c # snap[stock].code => \A l \in stock .. Len(snap) : snap[l].code # c)
         PROVE  m = stock /\ day' = day + 1 /\ stock' = stock /\ c = snap[stock].code
    <2>1. m \in stock .. Len(snap) /\ m \in 1 .. Len(snap)
      BY <1>2, <1>3
    <2>2. c = snap[stock].code
      BY <1>13, <2>1
    <2>3. m = stock
      BY <1>10, <1>13, <2>1, <2>2
    <2>4. day # Horizon
      <3>1. day = Horizon => stock' = stock + 1
        BY <1>2
      <3> QED BY <1>3, <1>13, <2>3, <3>1
    <2> QED BY <1>2, <2>2, <2>3, <2>4
  (* A row of this cycle, also of the code that the row inserted has *)
  <1>14. ASSUME NEW i \in DOMAIN p \ strays, p[i].status = "pending", NEW m \in stock' .. Len(snap),
                snap[m].code = p[i].code
         PROVE  /\ m = stock' /\ ~Shared(snap[m].code)' /\ day' = day + 1
                /\ p[i].code = snap[stock].code
                /\ \A j \in DOMAIN p : i <= j /\ p[j].code = p[i].code => p[j].day < day
    <2>1. m \in stock .. Len(snap)
      BY <1>2, <1>3
    <2>2. m = stock /\ ~Shared(snap[m].code)
      BY <1>9, <1>14, <2>1
    <2>3. p[i].code = snap[stock].code /\ ~Shared(p[i].code)
      BY <1>14, <2>2
    <2>4. day' = day + 1 /\ stock' = stock
      BY <1>13, <1>14, <2>3
    <2>5. Shared(snap[m].code)' = Shared(snap[m].code)
      BY <1>2, <2>4 DEF Shared
    <2> QED BY <1>9, <1>14, <2>1, <2>2, <2>3, <2>4, <2>5
  <1>15. CASE Fails /\ strays' = strays
    <2>1. db'.predictions = p /\ disk'.predictions \in {disk.predictions, p}
      <3>1. db' = db
        BY <1>15 DEF Fails, connVars
      <3> QED BY <1>5, <1>11, <3>1
    <2>2. PhaseInv'
      <3> SUFFICES ASSUME NEW i \in DOMAIN p \ strays, p[i].status = "pending",
                          NEW m \in stock' .. Len(snap), snap[m].code = p[i].code
                   PROVE  /\ m = stock' /\ ~Shared(snap[m].code)'
                          /\ \A j \in DOMAIN p : i <= j /\ p[j].code = p[i].code => p[j].day < day'
        BY <1>2, <1>15, <2>1 DEF PhaseInv, Fresh
      <3>1. \A j \in DOMAIN p : p[j].day < day => p[j].day < day + 1
        BY <1>4, <1>12 DEF Days
      <3> QED BY <1>14, <3>1
    <2> QED BY <1>7, <1>8, <1>15, <2>1, <2>2 DEF TimeInv
  <1>16. CASE /\ Runs([db EXCEPT !.predictions = Append(p, row)])
              /\ strays' = IF Shared(snap[stock].code) THEN strays \cup {n} ELSE strays
    <2> DEFINE q == Append(p, row)
    <2>1. /\ q \in Seq(PredictionRows) /\ DOMAIN q = 1 .. n
          /\ \A i \in 1 .. Len(p) : q[i] = p[i]
          /\ q[n] = row /\ n \in Nat /\ n \notin DOMAIN p
      BY <1>1, <1>3, <1>12, AppendType
    <2>2. \A i \in 1 .. n : i \in DOMAIN p \/ i = n
      BY <1>12
    <2>3. ASSUME NEW i \in DOMAIN p \ strays, p[i].status = "pending" PROVE DaysDiffer(q, i)
      <3>1. DaysDiffer(p, i)
        BY <1>8, <2>3 DEF Timely
      <3>2. p[i].code = row.code =>
                \A j \in DOMAIN p : i <= j /\ p[j].code = row.code => p[j].day # row.day
        <4> SUFFICES ASSUME p[i].code = row.code, NEW j \in DOMAIN p, i <= j, p[j].code = row.code
                     PROVE  p[j].day # row.day
          OBVIOUS
        <4>1. stock \in stock .. Len(snap) /\ snap[stock].code = p[i].code
          BY <1>3
        <4>2. p[j].day < day
          BY <1>9, <2>3, <4>1
        <4> QED BY <1>3, <1>4, <1>12, <4>2 DEF Days
      <3> QED BY <1>1, <1>3, <2>3, <3>1, <3>2, DifferAppended
    <2>4. DaysDiffer(q, n)
      BY <1>1, <1>3, DifferLast
    <2> HIDE DEF q, n
    <2>5. db'.predictions = q /\ disk'.predictions \in {disk.predictions, q}
      <3>1. Runs([db EXCEPT !.predictions = q])
        BY <1>16 DEF q
      <3> QED BY <1>1, <1>5, <2>1, <3>1, PredictionsWritten
    <2>6. Timely(q, strays')
      <3> SUFFICES ASSUME NEW i \in 1 .. n, i \notin strays'
                   PROVE  /\ q[i].status = "pending" => DaysDiffer(q, i)
                          /\ q[i].status = "verified" /\ q[i].code = Blank => q[i].base = q[i].now
        BY <2>1 DEF Timely
      <3>1. CASE i = n
        BY <1>3, <2>1, <2>4, <3>1
      <3>2. CASE i \in DOMAIN p
        <4>1. q[i] = p[i] /\ i \in DOMAIN p \ strays
          BY <1>8, <1>12, <2>1, <3>2
        <4> QED BY <1>8, <2>3, <4>1 DEF Timely
      <3> QED BY <2>2, <3>1, <3>2
    <2>7. PhaseInv'
      <3> SUFFICES ASSUME NEW i \in 1 .. n, i \notin strays', q[i].status = "pending",
                          NEW m \in stock' .. Len(snap), snap[m].code = q[i].code
                   PROVE  /\ m = stock' /\ ~Shared(snap[m].code)'
                          /\ \A j \in 1 .. n : i <= j /\ q[j].code = q[i].code => q[j].day < day'
        BY <1>2, <2>1, <2>5 DEF PhaseInv, Fresh
      <3>1. CASE i = n
        <4>1. q[i].code = snap[stock].code /\ ~Shared(snap[stock].code)
          BY <1>3, <1>16, <2>1, <3>1
        <4>2. /\ m = stock' /\ day' = day + 1
              /\ Shared(snap[m].code)' = Shared(snap[m].code)
          <5>1. m = stock /\ day' = day + 1 /\ stock' = stock
            BY <1>13, <4>1
          <5> QED BY <1>2, <5>1 DEF Shared
        <4>3. \A j \in 1 .. n : i <= j => j = n
          BY <2>1, <3>1
        <4>4. q[n].day < day'
          BY <1>3, <1>4, <2>1, <4>2
        <4>5. ~Shared(snap[m].code)
          BY <4>1
        <4> QED BY <4>2, <4>3, <4>4, <4>5
      <3>2. CASE i \in DOMAIN p
        <4>1. q[i] = p[i] /\ i \in DOMAIN p \ strays
          BY <1>8, <1>12, <2>1, <3>2
        <4>2. /\ m = stock' /\ ~Shared(snap[m].code)' /\ day' = day + 1
              /\ \A j \in DOMAIN p : i <= j /\ p[j].code = p[i].code => p[j].day < day
          BY <1>14, <4>1
        <4>3. ASSUME NEW j \in 1 .. n, i <= j, q[j].code = q[i].code PROVE q[j].day < day'
          <5>1. CASE j = n
            BY <1>3, <1>4, <2>1, <4>2, <5>1
          <5>2. CASE j \in DOMAIN p
            <6>1. q[j] = p[j] /\ p[j].day < day /\ p[j].day \in Days
              BY <1>12, <2>1, <4>1, <4>2, <4>3, <5>2
            <6> QED BY <1>4, <4>2, <6>1 DEF Days
          <5> QED BY <2>2, <5>1, <5>2
        <4> QED BY <4>2, <4>3
      <3> QED BY <2>2, <3>1, <3>2
    <2>8. Timely(disk.predictions, strays')
      BY <1>8, TimelyMore
    <2> QED BY <1>7, <2>5, <2>6, <2>7, <2>8 DEF TimeInv
  <1> QED BY <1>2, <1>15, <1>16

(* What was on disk was timely already, and nothing is being verified. *)
LEMMA RestartTime == TypeInv /\ TimeInv /\ (Killed \/ Thrown) => TimeInv'
  <1> SUFFICES ASSUME TypeInv, TimeInv, Killed \/ Thrown PROVE TimeInv'
    OBVIOUS
  <1> DEFINE q == disk.predictions
  <1>1. /\ db'.predictions = q /\ disk'.predictions = q
        /\ predPc' = "pending" /\ day' = 1 /\ queue' = <<>>
        /\ strays' = strays \cap DOMAIN q
    BY RestartStep DEF Restart, PredRestart
  <1>2. \A i \in DOMAIN q : q[i].day \in Days
    <2>1. q \in Seq(PredictionRows)
      BY TypeParts DEF TablesOK, Tables
    <2>2. \A i \in DOMAIN q : q[i] \in PredictionRows
      BY <2>1, SeqType
    <2> QED BY <2>2 DEF PredictionRows
  <1>3. Timely(q, strays)
    BY DEF TimeInv
  <1> HIDE DEF q
  <1>4. Timely(q, strays')
    BY <1>1, <1>3 DEF Timely
  <1>5. QueueInv'
    <2>1. DOMAIN queue' = {}
      BY <1>1
    <2> QED BY <2>1 DEF QueueInv
  <1>6. PhaseInv'
    <2>1. \A i \in DOMAIN q : 1 <= q[i].day
      BY <1>2, HorizonAssumption DEF Days
    <2> QED BY <1>1, <2>1 DEF PhaseInv, Due
  <1> QED BY <1>1, <1>4, <1>5, <1>6 DEF TimeInv

LEMMA TimeStep == TypeInv /\ TimeInv /\ [Next]_vars => TimeInv'
  <1> SUFFICES ASSUME TypeInv, TimeInv, [Next]_vars PROVE TimeInv'
    OBVIOUS
  <1>1. CASE FeedNext /\ UNCHANGED <<newsVars, predVars>>
    BY <1>1, FeedType, TimeBeside DEF Touches
  <1>2. CASE NewsNext /\ UNCHANGED <<feedVars, predVars>>
    BY <1>2, NewsType, TimeBeside DEF Touches
  <1>3. CASE PredNext
    BY <1>3, GetPendingTime, PausesTime, VerifyOneTime, InsertPredictionTime DEF PredNext
  <1>4. CASE Killed \/ Thrown
    BY <1>4, RestartTime
  <1>5. CASE UNCHANGED vars
    <2>1. db' = db /\ disk' = disk /\ UNCHANGED predVars
      BY <1>5 DEF vars, statementVars, connVars
    <2> QED BY <2>1, TimeBeside
  <1> QED BY <1>1, <1>2, <1>3, <1>4, <1>5 DEF Next

LEMMA TimeInit == Init => TimeInv
  <1> SUFFICES ASSUME Init PROVE TimeInv
    OBVIOUS
  <1>1. db.predictions = <<>> /\ disk.predictions = <<>> /\ queue = <<>>
    BY DEF Init, StatementsInit, ConnInit, PredInit
  <1>2. DOMAIN db.predictions = {} /\ DOMAIN disk.predictions = {} /\ DOMAIN queue = {}
    BY <1>1
  <1> QED BY <1>2 DEF TimeInv, Timely, QueueInv, PhaseInv

(* predictor_loop verifies day after day, and only then makes the rows of all
   days again, stock after stock: for every number of days and stocks a pending
   row is among the newest five of its code until it is verified, although rows
   of other stocks, failed INSERTs and restarts that roll back verifications and
   rows come in between, unless a cycle passed it over or two stocks share the
   code.  The only rows verify finds the price_now of, those without a code,
   so get it. *)
THEOREM NoneDroppedUnverified == Spec => []VerifiedInTime
  <1>1. TypeInv /\ TimeInv => VerifiedInTime
    <2> SUFFICES ASSUME TypeInv, TimeInv, NEW i \in DOMAIN db.predictions \ strays
                 PROVE  LET p == db.predictions[i]
                        IN  /\ p.status = "pending" => i \in Latest(db.predictions, p.code)
                            /\ p.status = "verified" /\ p.code = Blank => p.base = p.now
      BY DEF VerifiedInTime
    <2>1. db.predictions \in Seq(PredictionRows)
      BY TypeParts DEF TablesOK, Tables
    <2> QED BY <2>1, DifferingAreLatest DEF TimeInv, Timely
  <1>2. Spec => []TimeInv
    BY TimeInit, TimeStep, TypeInvariant, PTL DEF Spec
  <1> QED BY <1>1, <1>2, TypeInvariant, PTL

=============================================================================
