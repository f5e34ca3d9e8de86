----------------------------- MODULE StockTable -----------------------------
(***************************************************************************)
(* The stocks table as the background threads see it: the sequence of its  *)
(* rows, [name, code, price].  A code is a sequence of parts, <<"600519">> *)
(* say, or that with the prefix of its exchange; it may be blank or NULL   *)
(* in rows made by hand, before the updater has listed any.                *)
(***************************************************************************)
EXTENDS Sequences, SequencesExt, Ordering

CONSTANT Texts    \* names, and parts of codes

Prefix == "sh or sz"

ASSUME TextsAssumption == {"", Prefix} \subseteq Texts

Blank == <<>>
Null == <<"NULL">>

(* Rows of the table *)
StockRows == [name : Texts, code : Seq(Texts), price : Nat]

(* SELECT code FROM stocks WHERE code != '', which a NULL does not pass either *)
CodesIn(stocks) ==
    LET coded == InOrder({i \in DOMAIN stocks : stocks[i].code \notin {Blank, Null}})
    IN  [n \in DOMAIN coded |-> stocks[coded[n]].code]

NamesIn(stocks) == {r.name : r \in ToSet(stocks)}

(* get_all_stocks copies the code of every row into a std::string, which throws
   where the code is NULL. *)
Unreadable(stocks) == \E r \in ToSet(stocks) : r.code = Null
=============================================================================
