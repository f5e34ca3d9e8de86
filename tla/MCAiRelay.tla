------------------------------ MODULE MCAiRelay ------------------------------
(* Three worker threads asking at once. *)
EXTENDS AiRelay, TLC

CONSTANTS w1, w2, w3

Symmetry == Permutations({w1, w2, w3})
=============================================================================
