------------------------------ MODULE MCCHPool ------------------------------
(* The pool alone, as a small instance for TLC. *)
EXTENDS CHPool
=============================================================================
