------------------------------ MODULE ConnLease ------------------------------
(***************************************************************************)
(* What a connection pool promises about every single connection: it is    *)
(* closed, with the pool, or with one user, who has no other; it goes from *)
(* user to user through the pool only, and only who has it closes it.      *)
(* How many connections there are and when they are closed is left open.   *)
(***************************************************************************)
CONSTANTS Conn, Users, Pool, Closed

VARIABLE owner  \* owner[c]: Closed, Pool or the user that has connection c

Init == owner = [c \in Conn |-> Closed]

Free(u) == \A c \in Conn : owner[c] # u

Dial(c)      == owner[c] = Closed /\ owner' = [owner EXCEPT ![c] = Pool]
DialFor(c, u) == owner[c] = Closed /\ Free(u) /\ owner' = [owner EXCEPT ![c] = u]
Lend(c, u)   == owner[c] = Pool /\ Free(u) /\ owner' = [owner EXCEPT ![c] = u]
Return(c, u) == owner[c] = u /\ owner' = [owner EXCEPT ![c] = Pool]
Discard(c, u) == owner[c] = u /\ owner' = [owner EXCEPT ![c] = Closed]
\* The cleanup closes one idle connection, Close all of them.
Shut(S) == /\ \A c \in S : owner[c] = Pool
           /\ owner' = [c \in Conn |-> IF c \in S THEN Closed ELSE owner[c]]

Next == \/ \E c \in Conn : \/ Dial(c)
                           \/ \E u \in Users : \/ DialFor(c, u) \/ Lend(c, u)
                                               \/ Return(c, u) \/ Discard(c, u)
        \/ \E S \in SUBSET Conn : Shut(S)

Spec == Init /\ [][Next]_owner
=============================================================================
