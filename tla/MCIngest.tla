------------------------------ MODULE MCIngest ------------------------------
(* Small instances of Ingest for TLC.                                      *)
EXTENDS Ingest, TLC

CONSTANTS h1, g1, g2, m1, m2, m3, b1, b2, b3, b4, \* ticks
          Http, Single, Batch, Wrong, Big,        \* ingest calls
          Query                                   \* a gRPC query

\* Two calls that compete, m2 is the invalid tick in the middle of the batch;
\* an invalid tick alone, and a request above MaxRequest = 3.
MCTicks == {g1, g2, m1, m2, m3, b1, b2, b3, b4}
MCValid == MCTicks \ {g2, m2}
MCCalls == {Single, Batch, Wrong, Big}
MCKind == (Single :> "tick") @@ (Batch :> "ticks") @@ (Wrong :> "tick") @@ (Big :> "ticks")
MCPayload == (Single :> <<g1>>) @@ (Batch :> <<m1, m2, m3>>) @@ (Wrong :> <<g2>>)
             @@ (Big :> <<b1, b2, b3, b4>>)

\* For the liveness properties: two calls that compete for
\* a channel of one place.
LiveTicks == {h1, m1, m2}
LiveCalls == {Http, Batch}
LiveKind == (Http :> "http") @@ (Batch :> "ticks")
LivePayload == (Http :> <<h1>>) @@ (Batch :> <<m1, m2>>)
=============================================================================
