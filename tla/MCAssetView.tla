----------------------------- MODULE MCAssetView -----------------------------
(* Two workers that trade, beside one reader of the account's worth. *)
EXTENDS AssetView, TLC

CONSTANTS w1, w2

Symmetry == Permutations({w1, w2})
=============================================================================
