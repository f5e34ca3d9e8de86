--------------------------- MODULE MCRegistration ---------------------------
(* Two worker threads, two accounts and one background thread. *)
EXTENDS Registration, TLC

CONSTANTS w1, w2, a1, a2

Symmetry == Permutations({w1, w2}) \cup Permutations({a1, a2})
=============================================================================
