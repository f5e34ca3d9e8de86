------------------------------ MODULE Background ------------------------------
(***************************************************************************)
(* The three background threads of one process: the price updater, the     *)
(* news thread and the prediction thread.  They share the connection, so   *)
(* that what the others write inside one of the updater's batches is saved *)
(* or lost with it, and the process: an exception none of them catches     *)
(* ends it for all three.                                                  *)
(***************************************************************************)
EXTENDS PriceFeed, NewsFeed, Predictor

vars == <<statementVars, feedVars, newsVars, predVars>>

Init ==
    /\ \E stocks \in ByHand :
           StatementsInit([stocks |-> stocks, news |-> <<>>, predictions |-> <<>>])
    /\ FeedInit /\ NewsInit /\ PredInit

Restart == Recover /\ FeedRestart /\ NewsRestart /\ PredRestart

(* A kill, at any moment; an answer that does not parse is one at that moment. *)
Killed ==
    /\ failures < MaxFailures /\ failures' = failures + 1
    /\ Restart

(* The code of a stock is NULL: as often as the process starts. *)
Thrown == (FeedThrows \/ PredThrows) /\ UNCHANGED failures /\ Restart

Next ==
    \/ FeedNext /\ UNCHANGED <<newsVars, predVars>>
    \/ NewsNext /\ UNCHANGED <<feedVars, predVars>>
    \/ PredNext /\ UNCHANGED <<feedVars, newsVars>>
    \/ Killed \/ Thrown

Spec == Init /\ [][Next]_vars

(* Each thread goes on as long as it has something to do; between BEGIN and
   COMMIT the updater does not even wait for an answer. The news service
   answers now and then. *)
Fairness ==
    /\ WF_vars(FeedBatch /\ UNCHANGED <<newsVars, predVars>>)
    /\ WF_vars(PredNext /\ UNCHANGED <<feedVars, newsVars>>)
    /\ WF_vars(NewsNext /\ UNCHANGED <<feedVars, predVars>>)
    /\ SF_vars(DetailArrives /\ UNCHANGED <<feedVars, predVars>>)

FairSpec == Spec /\ Fairness

-----------------------------------------------------------------------------
(* Properties *)

Tables == [stocks : Seq(StockRows), news : Seq(ToSet(Ids)), predictions : Seq(PredictionRows)]

(* Shape of the state: the threads' own parts, and the connection's. *)
TypeOK ==
    /\ db \in Tables /\ disk \in Tables
    /\ batch \in [Batchers -> {"idle", "open"}] /\ inTxn = (batch[Feed] = "open")
    /\ failures \in 0 .. MaxFailures
    /\ FeedOK /\ NewsOK /\ PredOK

(***************************************************************************)
(* Every item the service lists is stored in the end, on disk, whatever    *)
(* fails or dies on the way: an item that was not answered for, or whose   *)
(* row was lost, is taken up in a later pass.  A stock whose code is NULL  *)
(* is the exception: with it in the table the process dies again and again *)
(* before the news thread is through.                                      *)
(***************************************************************************)
EveryItemStored ==
    \/ Unreadable(db.stocks)
    \/ \A id \in ToSet(Ids) : <>[](Known(disk.news, id))
=============================================================================
