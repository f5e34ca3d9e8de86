------------------------------ MODULE PriceFeed ------------------------------
(***************************************************************************)
(* The price updater: phases 1 and 2 of fetch_and_update_stocks.  If no    *)
(* stock has a code it fetches the list of stocks, page by page, and       *)
(* inserts names and codes; then it asks for the prices of the codes it    *)
(* knows, a batch at a time, and updates the rows they belong to.  Phases  *)
(* 3 and 4 are the subject of History; here they only read the table.      *)
(***************************************************************************)
EXTENDS Statements, StockTable

CONSTANTS
    Feed,          \* the thread
    Pages,         \* the pages of the list, sequences of [name, code]
    ByHand,        \* what the stocks table may hold at the start
    Quotes,        \* prices the service may report
    BatchSize,     \* codes asked for at a time
    MaxPasses      \* bound: passes of the updater

ASSUME FeedAssumption == Feed \in Batchers /\ BatchSize \in Nat \ {0} /\ MaxPasses \in Nat
ASSUME QuotesAssumption == Quotes \subseteq Nat \ {0}
ASSUME TableAssumption == ByHand \subseteq Seq(StockRows)

(* The list gives a name and a bare code; an item without is passed over. *)
ASSUME ListAssumption ==
    /\ Pages \in Seq(Seq([name : Texts, code : Seq(Texts)]))
    /\ \A p \in ToSet(Pages) : \A item \in ToSet(p) :
           item.code \notin {Blank, Null} /\ Head(item.code) # Prefix

VARIABLES
    feedPc,     \* "asleep", "list", "page", "ask", "update"
    page,       \* the page asked for next
    items,      \* items of the page still to be inserted
    codes,      \* the codes known in this pass
    asked,      \* how many of them have been asked for
    lines,      \* lines of the answer still to be looked at
    passes,
    cutShort,   \* the list was made by hand, or a listing was cut short
    quoted      \* [codes -> price]: what the service reported in this pass

feedVars == <<feedPc, page, items, codes, asked, lines, passes, cutShort, quoted>>

(* "sh" or "sz" before the code *)
Symbol(c) == <<Prefix>> \o c

(* INSERT ... ON CONFLICT(name) DO NOTHING: no price yet *)
Listed(stocks, item) ==
    IF item.name \in NamesIn(stocks) THEN stocks
    ELSE Append(stocks, [name |-> item.name, code |-> item.code, price |-> 0])

(* UPDATE stocks SET name=?, price=?, ... WHERE code=?, which fails if it would
   give two rows one name *)
Priced(stocks, line) ==
    LET new == [i \in DOMAIN stocks |->
                    IF stocks[i].code = line.code
                    THEN [stocks[i] EXCEPT !.name = line.name, !.price = line.price]
                    ELSE stocks[i]]
    IN  IF \A i, j \in DOMAIN new : i # j => new[i].name # new[j].name THEN new ELSE stocks

(* What the service may say of a code: its name and price under its symbol, or
   a line without data if there is no such symbol. *)
Names(c) == {item.name : item \in {i \in UNION {ToSet(p) : p \in ToSet(Pages)} : i.code = c}}
Lines(c) ==
    IF Names(c) = {} THEN {[code |-> Symbol(c), name |-> "", price |-> 0]}
    ELSE [code : {Symbol(c)}, name : Names(c), price : Quotes]

-----------------------------------------------------------------------------
FeedInit ==
    /\ feedPc = "asleep"
    /\ page = 1 /\ items = <<>> /\ codes = <<>> /\ asked = 0 /\ lines = <<>>
    /\ passes = 0 /\ cutShort = (CodesIn(db.stocks) # <<>>) /\ quoted = <<>>

(* A pass begins: the SELECT of the codes. *)
SelectCodes ==
    /\ feedPc = "asleep" /\ passes < MaxPasses
    /\ passes' = passes + 1
    /\ codes' = CodesIn(db.stocks)
    /\ feedPc' = IF codes' = <<>> THEN "list" ELSE "ask"
    /\ UNCHANGED <<statementVars, page, items, asked, lines, cutShort, quoted>>

(* "codes.empty()": nothing to ask prices for, and the pass is over *)
AfterList == IF codes = <<>> THEN "asleep" ELSE "ask"

(* No answer: the listing stops with what it has. *)
PageFails ==
    /\ feedPc = "list"
    /\ feedPc' = AfterList /\ page' = 1
    /\ cutShort' = TRUE
    /\ UNCHANGED <<statementVars, items, codes, asked, lines, passes, quoted>>

(* A page without items is the end of the list. *)
LastPage ==
    /\ feedPc = "list" /\ page > Len(Pages)
    /\ feedPc' = AfterList /\ page' = 1
    /\ UNCHANGED <<statementVars, items, codes, asked, lines, passes, cutShort, quoted>>

BeginPage ==
    /\ feedPc = "list" /\ page <= Len(Pages)
    /\ items' = Pages[page]
    /\ BeginBatch(Feed)
    /\ feedPc' = "page"
    /\ UNCHANGED <<failures, page, codes, asked, lines, passes, cutShort, quoted>>

InsertStock ==
    /\ feedPc = "page" /\ items # <<>>
    /\ codes' = Append(codes, Head(items).code)
    /\ items' = Tail(items)
    /\ \/ Runs([db EXCEPT !.stocks = Listed(@, Head(items))]) /\ UNCHANGED cutShort
       \/ Fails /\ cutShort' = TRUE
    /\ UNCHANGED <<feedPc, page, asked, lines, passes, quoted>>

(* A faulty variant of CommitPage: every other page is skipped. *)
CommitPageSkipping ==
    /\ feedPc = "page" /\ items = <<>>
    /\ CommitBatch(Feed)
    /\ page' = page + 2
    /\ feedPc' = "list"
    /\ UNCHANGED <<failures, items, codes, asked, lines, passes, cutShort, quoted>>

CommitPage ==
    /\ feedPc = "page" /\ items = <<>>
    /\ CommitBatch(Feed)
    /\ page' = page + 1
    /\ feedPc' = "list"
    /\ UNCHANGED <<failures, items, codes, asked, lines, passes, cutShort, quoted>>

(* The codes of the next batch *)
BatchEnd == IF asked + BatchSize <= Len(codes) THEN asked + BatchSize ELSE Len(codes)
Asking == SubSeq(codes, asked + 1, BatchEnd)

(* No answer: the batch is skipped. *)
PricesFail ==
    /\ feedPc = "ask" /\ asked < Len(codes)
    /\ asked' = BatchEnd
    /\ UNCHANGED <<statementVars, feedPc, page, items, codes, lines, passes, cutShort, quoted>>

BeginPrices ==
    /\ feedPc = "ask" /\ asked < Len(codes)
    /\ asked' = BatchEnd
    /\ \E answer \in [1 .. Len(Asking) -> UNION {Lines(c) : c \in ToSet(Asking)}] :
           /\ \A i \in DOMAIN answer : answer[i] \in Lines(Asking[i])
           /\ lines' = answer
           /\ quoted' = [c \in DOMAIN quoted \cup ToSet(Asking) |->
                            IF c \in ToSet(Asking)
                            THEN answer[CHOOSE i \in DOMAIN answer : Asking[i] = c].price
                            ELSE quoted[c]]
    /\ BeginBatch(Feed)
    /\ feedPc' = "update"
    /\ UNCHANGED <<failures, page, items, codes, passes, cutShort>>

(* A line whose numbers do not parse ends the process here, as a kill would. *)
UpdateStock ==
    /\ feedPc = "update" /\ lines # <<>>
    /\ lines' = Tail(lines)
    /\ Runs([db EXCEPT !.stocks = Priced(@, Head(lines))]) \/ Fails
    /\ UNCHANGED <<feedPc, page, items, codes, asked, passes, cutShort, quoted>>

CommitPrices ==
    /\ feedPc = "update" /\ lines = <<>>
    /\ CommitBatch(Feed)
    /\ feedPc' = "ask"
    /\ UNCHANGED <<failures, page, items, codes, asked, lines, passes, cutShort, quoted>>

(* Phases 3 and 4 follow. Phase 4 calls get_all_stocks if some stock with a code
   has no history yet, and may throw there. *)
PricesDone == feedPc = "ask" /\ asked = Len(codes)
FeedThrows == PricesDone /\ Unreadable(db.stocks) /\ CodesIn(db.stocks) # <<>>

EndPass ==
    /\ PricesDone
    /\ feedPc' = "asleep"
    /\ codes' = <<>> /\ asked' = 0 /\ quoted' = <<>>
    /\ UNCHANGED <<statementVars, page, items, lines, passes, cutShort>>

(* What the thread has to do between BEGIN and COMMIT. *)
FeedBatch == InsertStock \/ CommitPage \/ UpdateStock \/ CommitPrices

FeedNext ==
    \/ SelectCodes \/ PageFails \/ LastPage \/ BeginPage
    \/ PricesFail \/ BeginPrices \/ EndPass
    \/ FeedBatch

(* The process has died and starts again. *)
FeedRestart ==
    /\ feedPc' = "asleep"
    /\ page' = 1 /\ items' = <<>> /\ codes' = <<>> /\ asked' = 0 /\ lines' = <<>>
    /\ quoted' = <<>>
    /\ cutShort' = (cutShort \/ feedPc \in {"list", "page"} \/ db.stocks # disk.stocks)
    /\ UNCHANGED passes

-----------------------------------------------------------------------------
(* Properties *)

AllNames == {item.name : item \in UNION {ToSet(p) : p \in ToSet(Pages)}}

Listings == [name : Texts, code : Seq(Texts)]

FeedOK ==
    /\ items \in Seq(Listings) /\ codes \in Seq(Seq(Texts)) /\ lines \in Seq(StockRows)
    /\ DOMAIN quoted \subseteq Seq(Texts) /\ quoted \in [DOMAIN quoted -> Nat]
    /\ feedPc \in {"asleep", "list", "page", "ask", "update"}
    /\ page \in 1 .. Len(Pages) + 1 /\ asked \in 0 .. Len(codes) /\ passes \in 0 .. MaxPasses
    /\ cutShort \in BOOLEAN
    /\ feedPc # "page" => items = <<>>
    /\ feedPc # "update" => lines = <<>>
    /\ feedPc = "asleep" => codes = <<>>
    /\ feedPc \notin {"list", "page"} => page = 1
    /\ feedPc \notin {"ask", "update"} => asked = 0 /\ quoted = <<>>
    /\ (feedPc \in {"page", "update"}) <=> (batch[Feed] = "open")

(***************************************************************************)
(* Once a stock has a code the list is never asked for again, so what it   *)
(* lacks then it lacks for good: outside a listing, a table with a code    *)
(* has every stock of the list, unless its rows were made by hand or a     *)
(* listing was cut short, by a page that was not answered, an INSERT that  *)
(* failed, or the end of the process.                                      *)
(***************************************************************************)
ListingWhole ==
    (feedPc \notin {"list", "page"} /\ CodesIn(db.stocks) # <<>> /\ ~cutShort)
        => AllNames \subseteq NamesIn(db.stocks)

(***************************************************************************)
(* What the comment in the listing loop says: "insert code and name first, *)
(* the price comes from Sina afterwards".  When the prices have been gone  *)
(* through, a stock whose price was reported has it.                       *)
(***************************************************************************)
PricesArrive ==
    PricesDone =>
        \A r \in ToSet(db.stocks) :
            r.code \in DOMAIN quoted /\ quoted[r.code] # 0 => r.price = quoted[r.code]
=============================================================================
