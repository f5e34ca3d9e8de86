----------------------------- MODULE MCTrading -----------------------------
(* A small server: two worker threads and one background thread. *)
EXTENDS TradingLedger, TLC

CONSTANTS w1, w2

Symmetry == Permutations({w1, w2})
=============================================================================
