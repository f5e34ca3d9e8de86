---------------------------- MODULE MCBackground ----------------------------
(* Two listed stocks, one news item, predictions for two days. *)
EXTENDS Background

C(c) == <<c>>
Item(n, c) == [name |-> n, code |-> C(c)]
Row(n, c, p) == [name |-> n, code |-> c, price |-> p]

MCPages == << <<Item("n1", "c1")>>, <<Item("n2", "c2")>> >>
MCIds == <<1>>

(* Nothing; rows with prices, with and without a code; a row whose code is NULL. *)
MCByHand == {<<>>,
             <<Row("n1", Blank, 3), Row("n2", C("c2"), 4)>>,
             <<Row("n1", Null, 3)>>}
NoneByHand == {<<>>}

MCTexts == {"", Prefix, "NULL", "n1", "n2", "c1", "c2"}

(* No news. *)
MCNoIds == <<>>
=============================================================================
