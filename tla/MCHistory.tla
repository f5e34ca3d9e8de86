----------------------------- MODULE MCHistory -----------------------------
(* Two worker threads and the updater, on one stock. *)
EXTENDS History, TLC

CONSTANTS w1, w2

Symmetry == Permutations({w1, w2})
=============================================================================
