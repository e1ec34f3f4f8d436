---------------------------- MODULE TickDelivery ----------------------------
(***************************************************************************)
(* What the write path promises about every single tick, and no more: the  *)
(* channel may take it or not, a tick that was taken is "held" until it is *)
(* stored or lost, both of which are final, and it is not held forever.    *)
(* Rows of one tick are not counted here (a retry may store it twice).     *)
(***************************************************************************)
CONSTANT Ticks
VARIABLE status  \* status[t]: "new", "held", "stored" or "lost"

Init == status = [t \in Ticks |-> "new"]

Move(S, from, to) ==
  /\ \A t \in S : status[t] = from
  /\ status' = [t \in Ticks |-> IF t \in S THEN to ELSE status[t]]

Accept == \E t \in Ticks : Move({t}, "new", "held")
Store  == \E S \in SUBSET Ticks : Move(S, "held", "stored")
Lose   == \E S \in SUBSET Ticks : Move(S, "held", "lost")
Next   == Accept \/ Store \/ Lose

Settle(t) == (Store \/ Lose) /\ status[t] = "held" /\ status'[t] # "held"
Spec == Init /\ [][Next]_status
Fairness == \A t \in Ticks : WF_status(Settle(t))
=============================================================================
