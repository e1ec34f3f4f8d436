--------------------------- MODULE MCBatcherOnPool ---------------------------
(* The pool with the batcher, as a small instance for TLC. *)
EXTENDS BatcherOnPool
=============================================================================
