----------------------------- MODULE MCBatching -----------------------------
(* Two threads that run batches of two rows, beside two HTTP workers. *)
EXTENDS Batching
=============================================================================
