------------------------------ MODULE MCQueries ------------------------------
(* Small instances of Queries for TLC.                                      *)
EXTENDS Queries, TLC

CONSTANTS a1, a2, a3, b1, A, B

\* a1 leaves the last day when the clock goes on; a2 and a3 fall into one
\* interval of 5 ms; a3 and b1 have the same time, which lies ahead of the
\* first instant and is past at the second.
MCRows == {a1, a2, a3, b1}
MCTime == a1 :> 4 @@ a2 :> 10 @@ a3 :> 12 @@ b1 :> 12
MCKey == a1 :> A @@ a2 :> A @@ a3 :> A @@ b1 :> B
=============================================================================
