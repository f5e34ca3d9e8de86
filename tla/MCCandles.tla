----------------------------- MODULE MCCandles -----------------------------
(* A calendar of weeks of three days and months of four. *)
EXTENDS Candles

MCShapes == {[high |-> 3, low |-> 2], [high |-> 2, low |-> 1]}
=============================================================================
