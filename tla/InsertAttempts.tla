--------------------------- MODULE InsertAttempts ---------------------------
(***************************************************************************)
(* What CHWriter.InsertBatch promises about its attempts, and no more: at  *)
(* most MaxAttempts of them, numbered in turn, one after the other; the    *)
(* next begins only after one has failed, and none begins once the context *)
(* of the insert has ended.  Ingest follows the ticks through this loop,   *)
(* BatcherOnPool the connections.                                          *)
(***************************************************************************)
EXTENDS Naturals

CONSTANT MaxAttempts

VARIABLES
  stage, \* "idle" (no insert), "check" (the top of the loop) or "trying"
  tries, \* number of the attempt, 0 while idle
  ended  \* the context of the insert has ended

vars == <<stage, tries, ended>>

Init == stage = "idle" /\ tries = 0 /\ ended = FALSE

\* The context may come from one that has ended already.
Begin == stage = "idle" /\ stage' = "check" /\ tries' = 1 /\ ended' \in BOOLEAN
CtxEnds == stage # "idle" /\ ~ended /\ ended' = TRUE /\ UNCHANGED <<stage, tries>>
Try == stage = "check" /\ ~ended /\ stage' = "trying" /\ UNCHANGED <<tries, ended>>

Return == stage' = "idle" /\ tries' = 0 /\ ended' = FALSE
Refused == stage = "check" /\ ended /\ Return
Succeeds == stage = "trying" /\ Return
Fails ==
  /\ stage = "trying"
  /\ \/ tries < MaxAttempts /\ stage' = "check" /\ tries' = tries + 1 /\ UNCHANGED ended
     \/ tries = MaxAttempts /\ Return

Next == Begin \/ CtxEnds \/ Try \/ Refused \/ Succeeds \/ Fails

Spec == Init /\ [][Next]_vars
=============================================================================
