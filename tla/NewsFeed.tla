------------------------------ MODULE NewsFeed ------------------------------
(***************************************************************************)
(* The news thread, fetch_and_analyze_news: the list of ids, and for each  *)
(* id that has no row yet the details, the language model's tags and an    *)
(* INSERT.  What the tags say is left out: with the model down an item is  *)
(* stored without any, and nothing in the code looks at its row again.     *)
(***************************************************************************)
EXTENDS Statements, Sequences, SequencesExt

CONSTANT Ids    \* the ids the service lists, in its order, an id possibly twice

ASSUME IdsAssumption == Ids \in Seq(ToSet(Ids))

VARIABLES
    newsPc,     \* "asleep", "check", "detail", "insert"
    ids         \* the ids still to be looked at, the one in hand first; none: asleep

newsVars == <<newsPc, ids>>

NewsInit == newsPc = "check" /\ ids = <<>>

(* exists(source_id) *)
Known(news, id) == \E i \in DOMAIN news : news[i] = id

-----------------------------------------------------------------------------
(* The list is answered. Without an answer, or with one that holds no list, the
   thread goes back to sleep; one that does not parse ends the process. *)
NewsList ==
    /\ newsPc = "check" /\ ids = <<>>
    /\ ids' = Ids
    /\ UNCHANGED <<statementVars, newsPc>>

(* A faulty variant of NextId: it goes on with the stage it was in. *)
NextIdNoContinue == ids' = Tail(ids) /\ UNCHANGED newsPc

NextId == ids' = Tail(ids) /\ newsPc' = "check"

(* A faulty variant of CheckId: exists is not asked. *)
CheckIdUnasked ==
    /\ newsPc = "check" /\ ids # <<>>
    /\ newsPc' = "detail"
    /\ UNCHANGED <<statementVars, ids>>

CheckId ==
    /\ newsPc = "check" /\ ids # <<>>
    /\ IF Known(db.news, Head(ids)) THEN NextId ELSE newsPc' = "detail" /\ UNCHANGED ids
    /\ UNCHANGED statementVars

(* No answer: the item is left for the next pass. *)
DetailFails == newsPc = "detail" /\ NextId /\ UNCHANGED statementVars

(* Then ollama_tag: whatever the model says, or fails to say, the item is stored. *)
DetailArrives ==
    /\ newsPc = "detail" /\ newsPc' = "insert"
    /\ UNCHANGED <<statementVars, ids>>

(* A faulty variant of InsertNews: the thread waits for the item in hand again. *)
InsertNewsForgotten ==
    newsPc = "insert" /\ NextId /\ UNCHANGED statementVars

InsertNews ==
    /\ newsPc = "insert"
    /\ Runs([db EXCEPT !.news = Append(@, Head(ids))]) \/ Fails
    /\ NextId

NewsNext ==
    \/ NewsList \/ CheckId \/ DetailFails \/ DetailArrives \/ InsertNews

NewsRestart == newsPc' = "check" /\ ids' = <<>>

-----------------------------------------------------------------------------
(* Properties *)

NewsOK ==
    /\ newsPc \in {"check", "detail", "insert"}
    /\ ids \in Seq(ToSet(Ids)) /\ Len(ids) <= Len(Ids)
    /\ ids = SubSeq(Ids, Len(Ids) - Len(ids) + 1, Len(Ids))
    /\ newsPc # "check" => ids # <<>>

(* The key news_analysis has not got: whatever the service lists twice, the
   thread does twice, a failure interrupts or a crash takes back, no item has
   two rows. *)
OneRowPerItem ==
    \A news \in {db.news, disk.news} :
        \A i, j \in DOMAIN news : i # j => news[i] # news[j]
=============================================================================
