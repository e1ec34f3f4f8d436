----------------------------- MODULE CHPoolLease -----------------------------
(***************************************************************************)
(* Proof that CHPool implements ConnLease: every step of the pool is a     *)
(* step of the abstract specification, or leaves the owners alone.         *)
(***************************************************************************)
EXTENDS CHPoolProofs

\* OneOwner and the types, of any open connections S, held connections h and
\* pooled connections P.
Owning(S, h, P) ==
  /\ h \in [Users -> Conn \cup {NoConn}] /\ S \subseteq Conn
  /\ S = P \cup (Range(h) \ {NoConn}) /\ P \cap (Range(h) \ {NoConn}) = {}
  /\ \A u, v \in Users : h[u] = h[v] /\ h[u] # NoConn => u = v

\* The owner of a connection is determined by where the connection is.
LEMMA OwnerValue ==
  ASSUME NEW S, NEW h, NEW P, Owning(S, h, P)
  PROVE  /\ \A c \in Conn \ S : OwnerIn(S, h, P)[c] = "closed"
         /\ \A c \in P : c \in Conn /\ OwnerIn(S, h, P)[c] = "pool"
         /\ \A u \in Users : h[u] # NoConn => h[u] \in Conn /\ OwnerIn(S, h, P)[h[u]] = u
         /\ \A u \in Users : h[u] = NoConn => \A c \in Conn : OwnerIn(S, h, P)[c] # u
<1>1. \A u \in Users : h[u] # NoConn => h[u] \in Conn /\ h[u] \in S /\ h[u] \notin P
  BY DEF Owning, Range
<1>2. \A c \in S : c \in P \/ \E u \in Users : h[u] = c
  BY DEF Owning, Range
<1>3. \A c \in Conn \ S : OwnerIn(S, h, P)[c] = "closed"
  BY DEF OwnerIn
<1>4. ASSUME NEW c \in P PROVE c \in Conn /\ OwnerIn(S, h, P)[c] = "pool"
  <2>1. c \in S /\ c \in Conn /\ c # NoConn BY ConnAssumption DEF Owning
  <2>2. ~\E u \in Users : h[u] = c BY <1>1, <2>1
  <2> QED BY <2>1, <2>2 DEF OwnerIn
<1>5. ASSUME NEW u \in Users, h[u] # NoConn PROVE h[u] \in Conn /\ OwnerIn(S, h, P)[h[u]] = u
  <2>1. \A v \in Users : h[v] = h[u] => v = u BY <1>5 DEF Owning
  <2>2. (CHOOSE v \in Users : h[v] = h[u]) = u BY <2>1
  <2> QED BY <1>1, <1>5, <2>2 DEF OwnerIn
<1>6. ASSUME NEW u \in Users, h[u] = NoConn, NEW c \in Conn PROVE OwnerIn(S, h, P)[c] # u
  <2>1. CASE c \notin S \/ c \in P BY <1>3, <1>4, <2>1, OwnerAssumption
  <2>2. CASE c \in S /\ c \notin P
    <3>1. PICK v \in Users : h[v] = c BY <1>2, <2>2
    <3> QED BY <1>5, <1>6, <3>1, ConnAssumption
  <2> QED BY <2>1, <2>2
<1> QED BY <1>3, <1>4, <1>5, <1>6

\* When only the place of connection d changes, only the owner of d does.
LEMMA OwnerExcept ==
  ASSUME NEW S, NEW h, NEW P, Owning(S, h, P), NEW S2, NEW h2, NEW P2, Owning(S2, h2, P2),
         NEW d \in Conn,
         \A c \in Conn \ {d} : /\ (c \in S <=> c \in S2) /\ (c \in P <=> c \in P2)
                               /\ \A u \in Users : h[u] = c <=> h2[u] = c
  PROVE  OwnerIn(S2, h2, P2) = [OwnerIn(S, h, P) EXCEPT ![d] = OwnerIn(S2, h2, P2)[d]]
<1>1. ASSUME NEW c \in Conn \ {d} PROVE OwnerIn(S2, h2, P2)[c] = OwnerIn(S, h, P)[c]
  <2>1. CASE c \notin S BY <1>1, <2>1, OwnerValue
  <2>2. CASE c \in P BY <1>1, <2>2, OwnerValue
  <2>3. CASE c \in S /\ c \notin P
    <3>1. PICK u \in Users : h[u] = c BY <2>3 DEF Owning, Range
    <3>2. h2[u] = c /\ c # NoConn BY <1>1, <3>1, ConnAssumption
    <3> QED BY <3>1, <3>2, OwnerValue
  <2> QED BY <2>1, <2>2, <2>3
<1>2. OwnerIn(S, h, P) = [c \in Conn |-> OwnerIn(S, h, P)[c]] BY DEF OwnerIn
<1>3. OwnerIn(S2, h2, P2) = [c \in Conn |-> OwnerIn(S2, h2, P2)[c]] BY DEF OwnerIn
<1> QED BY <1>1, <1>2, <1>3

\* The invariant gives Owning, before and after a step.
LEMMA OwningNow ==
  ASSUME TypeOK, OneOwner
  PROVE  Owning(open, held, Pooled)
BY DEF TypeOK, PoolOK, UsersOK, OneOwner, Owning, Pooled, Handed
\* The same after the step.
LEMMA OwningNext ==
  ASSUME TypeOK', OneOwner'
  PROVE  Owning(open', held', Pooled')
BY DEF TypeOK, PoolOK, UsersOK, OneOwner, Owning, Pooled, Handed

\* Owner as OwnerValue says, before the step.
LEMMA OwnerNow ==
  ASSUME Owning(open, held, Pooled)
  PROVE  /\ \A c \in Conn \ open : Owner[c] = "closed"
         /\ \A c \in Pooled : c \in Conn /\ Owner[c] = "pool"
         /\ \A u \in Users : held[u] # NoConn => held[u] \in Conn /\ Owner[held[u]] = u
         /\ \A u \in Users : held[u] = NoConn => \A c \in Conn : Owner[c] # u
<1>1. Owner = OwnerIn(open, held, Pooled) BY DEF Owner
<1> QED BY <1>1, OwnerValue
\* The same after the step.
LEMMA OwnerAfter ==
  ASSUME Owning(open', held', Pooled')
  PROVE  /\ \A c \in Conn \ open' : Owner'[c] = "closed"
         /\ \A c \in Pooled' : c \in Conn /\ Owner'[c] = "pool"
         /\ \A u \in Users : held'[u] # NoConn => held'[u] \in Conn /\ Owner'[held'[u]] = u
<1>1. Owner' = OwnerIn(open', held', Pooled') BY DEF Owner
<1> QED BY <1>1, OwnerValue

\* A step that may change the place of connection d, and of no other.
OnlyMoves(d) ==
  \A c \in Conn \ {d} :
    /\ (c \in open <=> c \in open') /\ (c \in Pooled <=> c \in Pooled')
    /\ \A u \in Users : held[u] = c <=> held'[u] = c
\* OwnerExcept of such a step.
LEMMA OneOwnerMoves ==
  ASSUME Owning(open, held, Pooled), Owning(open', held', Pooled'), NEW d \in Conn, OnlyMoves(d)
  PROVE  Owner' = [Owner EXCEPT ![d] = Owner'[d]]
<1>1. Owner = OwnerIn(open, held, Pooled) BY DEF Owner
<1>2. Owner' = OwnerIn(open', held', Pooled') BY DEF Owner
<1>3. OwnerIn(open', held', Pooled') =
        [OwnerIn(open, held, Pooled) EXCEPT ![d] = OwnerIn(open', held', Pooled')[d]]
  BY OwnerExcept DEF OnlyMoves
<1> QED BY <1>1, <1>2, <1>3

-----------------------------------------------------------------------------
(* One lemma for each thing that can happen to a connection.               *)

\* A step that moves no connection in or out of a hand leaves the owners alone.
LEMMA Kept ==
  ASSUME UNCHANGED <<open, held>>, Pooled' = Pooled
  PROVE  Owner' = Owner
BY DEF Owner

\* A user without a connection takes one from the pool.
LEMMA Lent ==
  ASSUME IInv, IInv', NEW u \in Users, NEW c \in Pooled, held[u] = NoConn, Holds(u, c),
         open' = open, Pooled' = Pooled \ {c}
  PROVE  Lease!Lend(c, u) /\ c \in Conn
<1>1. Owning(open, held, Pooled) /\ Owning(open', held', Pooled')
  BY OwningNow, OwningNext DEF IInv
<1>2. c \in Conn /\ Owner[c] = "pool" /\ \A d \in Conn : Owner[d] # u
  BY <1>1, OwnerNow
<1>3. held'[u] = c /\ c # NoConn /\ \A v \in Users \ {u} : held'[v] = held[v]
  BY <1>1, <1>2, ConnAssumption DEF Holds, Owning
<1>4. Owner'[c] = u BY <1>1, <1>3, OwnerAfter
<1>5. \A d \in Conn \ {c} : \A v \in Users : held[v] = d <=> held'[v] = d
  BY <1>3, ConnAssumption
<1>6. Owner' = [Owner EXCEPT ![c] = Owner'[c]]
  <2>1. OnlyMoves(c) BY <1>5 DEF OnlyMoves
  <2> QED BY <1>1, <1>2, <2>1, OneOwnerMoves
<1> QED BY <1>2, <1>4, <1>6 DEF Lease!Lend, Lease!Free

\* A user without a connection opens one for itself.
LEMMA DialledFor ==
  ASSUME IInv, IInv', NEW u \in Users, NEW c \in Conn \ open, held[u] = NoConn, Holds(u, c),
         open' = open \cup {c}, Pooled' = Pooled
  PROVE  Lease!DialFor(c, u)
<1>1. Owning(open, held, Pooled) /\ Owning(open', held', Pooled')
  BY OwningNow, OwningNext DEF IInv
<1>2. Owner[c] = "closed" /\ \A d \in Conn : Owner[d] # u
  BY <1>1, OwnerNow
<1>3. held'[u] = c /\ c # NoConn /\ \A v \in Users \ {u} : held'[v] = held[v]
  BY <1>1, <1>2, ConnAssumption DEF Holds, Owning
<1>4. Owner'[c] = u BY <1>1, <1>3, OwnerAfter
<1>5. \A d \in Conn \ {c} : \A v \in Users : held[v] = d <=> held'[v] = d
  BY <1>3, ConnAssumption
<1>6. Owner' = [Owner EXCEPT ![c] = Owner'[c]]
  <2>1. OnlyMoves(c) BY <1>5 DEF OnlyMoves
  <2> QED BY <1>1, <1>2, <2>1, OneOwnerMoves
<1> QED BY <1>2, <1>4, <1>6 DEF Lease!DialFor, Lease!Free

\* A user gives its connection back, or closes it.
LEMMA GivenUp ==
  ASSUME IInv, IInv', NEW u \in Users, held[u] # NoConn, Holds(u, NoConn)
  PROVE  /\ held[u] \in Conn
         /\ open' = open /\ Pooled' = Pooled \cup {held[u]} => Lease!Return(held[u], u)
         /\ open' = open \ {held[u]} /\ Pooled' = Pooled => Lease!Discard(held[u], u)
<1>1. Owning(open, held, Pooled) /\ Owning(open', held', Pooled')
  BY OwningNow, OwningNext DEF IInv
<1>2. held[u] \in Conn /\ Owner[held[u]] = u
  BY <1>1, OwnerNow
<1>3. held'[u] = NoConn /\ \A v \in Users \ {u} : held'[v] = held[v] /\ held[v] # held[u]
  BY <1>1 DEF Holds, Owning
<1>4. \A d \in Conn \ {held[u]} : \A v \in Users : held[v] = d <=> held'[v] = d
  BY <1>3, ConnAssumption
<1>5. ASSUME open' = open, Pooled' = Pooled \cup {held[u]} PROVE Lease!Return(held[u], u)
  <2>1. Owner'[held[u]] = "pool" BY <1>1, <1>5, OwnerAfter
  <2>2. OnlyMoves(held[u]) BY <1>4, <1>5 DEF OnlyMoves
  <2>3. Owner' = [Owner EXCEPT ![held[u]] = Owner'[held[u]]]
    BY <1>1, <1>2, <2>2, OneOwnerMoves
  <2> QED BY <1>2, <2>1, <2>3 DEF Lease!Return
<1>6. ASSUME open' = open \ {held[u]}, Pooled' = Pooled PROVE Lease!Discard(held[u], u)
  <2>1. Owner'[held[u]] = "closed" BY <1>1, <1>2, <1>6, OwnerAfter
  <2>2. OnlyMoves(held[u]) BY <1>4, <1>6 DEF OnlyMoves
  <2>3. Owner' = [Owner EXCEPT ![held[u]] = Owner'[held[u]]]
    BY <1>1, <1>2, <2>2, OneOwnerMoves
  <2> QED BY <1>2, <2>1, <2>3 DEF Lease!Discard
<1> QED BY <1>2, <1>5, <1>6

\* The pool opens a connection for itself.
LEMMA Dialled ==
  ASSUME IInv, IInv', NEW c \in Conn \ open, held' = held, open' = open \cup {c},
         Pooled' = Pooled \cup {c}
  PROVE  Lease!Dial(c)
<1>1. Owning(open, held, Pooled) /\ Owning(open', held', Pooled')
  BY OwningNow, OwningNext DEF IInv
<1>2. Owner[c] = "closed" /\ Owner'[c] = "pool" BY <1>1, OwnerNow, OwnerAfter
<1>3. OnlyMoves(c) BY DEF OnlyMoves
<1>4. Owner' = [Owner EXCEPT ![c] = Owner'[c]] BY <1>1, <1>3, OneOwnerMoves
<1> QED BY <1>2, <1>4 DEF Lease!Dial

\* The pool closes some of the connections it has.
LEMMA ShutDown ==
  ASSUME IInv, IInv', NEW C \in SUBSET Pooled, held' = held, open' = open \ C,
         Pooled' = Pooled \ C
  PROVE  Lease!Shut(C) /\ C \in SUBSET Conn
<1>1. Owning(open, held, Pooled) /\ Owning(open', held', Pooled')
  BY OwningNow, OwningNext DEF IInv
<1>2. C \subseteq Conn /\ \A c \in C : Owner[c] = "pool" BY <1>1, OwnerNow
<1>3. \A c \in C : Owner'[c] = "closed" BY <1>1, <1>2, OwnerAfter
<1>4. ASSUME NEW c \in Conn \ C PROVE Owner'[c] = Owner[c]
  <2>1. CASE c \notin open BY <1>1, <1>4, <2>1, OwnerNow, OwnerAfter
  <2>2. CASE c \in Pooled BY <1>1, <1>4, <2>2, OwnerNow, OwnerAfter
  <2>3. CASE c \in open /\ c \notin Pooled
    <3>1. PICK u \in Users : held[u] = c BY <1>1, <2>3 DEF Owning, Range
    <3>2. c # NoConn BY <1>4, ConnAssumption
    <3> QED BY <1>1, <3>1, <3>2, OwnerNow, OwnerAfter
  <2> QED BY <2>1, <2>2, <2>3
<1>5. Owner' = [c \in Conn |-> Owner'[c]] BY DEF Owner, OwnerIn
<1>6. Owner' = [c \in Conn |-> IF c \in C THEN "closed" ELSE Owner[c]] BY <1>3, <1>4, <1>5
<1> QED BY <1>2, <1>6 DEF Lease!Shut
-----------------------------------------------------------------------------
(* The refinement                                                          *)

\* A step of Get lends or dials at most one connection, or closes one.
LEMMA GetLease ==
  ASSUME IInv, IInv', NEW u \in Users, Get(u)
  PROVE  [Lease!Next]_Owner
<1>0. /\ conns \in Seq(Conn) /\ (held[u] = NoConn <=> pc[u] \notin Held)
      /\ IsInjective(conns) /\ Range(conns) \cap Range(valid) = {}
  BY DEF IInv, TypeOK, PoolOK, UsersOK, OneOwner
<1>1. CASE GetTake(u) \/ GetWaited(u)
  <2>1. /\ conns # <<>> /\ conns' = Tail(conns) /\ Holds(u, Head(conns))
        /\ UNCHANGED <<open, valid>> /\ held[u] = NoConn
    BY <1>0, <1>1 DEF GetTake, GetWaited, TakeFrom, cleanupVars, Held
  <2>2. /\ Range(conns) = Range(Tail(conns)) \cup {Head(conns)}
        /\ Head(conns) \notin Range(Tail(conns))
    BY <1>0, <2>1, RangeTail
  <2>3. Head(conns) \in Pooled /\ Pooled' = Pooled \ {Head(conns)}
    BY <1>0, <2>1, <2>2 DEF Pooled
  <2>4. Lease!Lend(Head(conns), u) /\ Head(conns) \in Conn BY <2>1, <2>3, Lent
  <2> QED BY <2>4 DEF Lease!Next
<1>2. CASE GetPingFails(u)
  <2>1. /\ held[u] # NoConn /\ Holds(u, NoConn) /\ open' = open \ {held[u]}
        /\ Pooled' = Pooled
    BY <1>0, <1>2 DEF GetPingFails, Closes, Held, Pooled, cleanupVars
  <2>2. held[u] \in Conn /\ Lease!Discard(held[u], u) BY <2>1, GivenUp
  <2> QED BY <2>2 DEF Lease!Next
<1>3. CASE GetReplaced(u) \/ GetCreated(u)
  <2>1. PICK c \in Conn : Opens(c) /\ Holds(u, c) BY <1>3 DEF GetReplaced, GetCreated
  <2>2. held[u] = NoConn /\ c \notin open /\ open' = open \cup {c} /\ Pooled' = Pooled
    BY <1>0, <1>3, <2>1 DEF GetReplaced, GetCreated, Opens, Held, Pooled, cleanupVars
  <2>3. Lease!DialFor(c, u) BY <2>1, <2>2, DialledFor
  <2> QED BY <2>3 DEF Lease!Next
<1>4. CASE UNCHANGED <<open, conns, valid, held>>
  BY <1>4, Kept DEF Pooled
<1> QED BY <1>1, <1>2, <1>3, <1>4
        DEF Get, GetStart, GetEmpty, GetGivesUp, GetPingOk, GetNotReplaced, GetIdleCounted, GetCheck,
            GetNotCreated, GetCounted, cleanupVars

\* A step of Put returns or closes the connection of the user.
LEMMA PutLease ==
  ASSUME IInv, IInv', NEW u \in Users, Put(u)
  PROVE  [Lease!Next]_Owner
<1>0. /\ conns \in Seq(Conn) /\ (held[u] = NoConn <=> pc[u] \notin Held)
      /\ held[u] \in Conn \cup {NoConn}
  BY DEF IInv, TypeOK, PoolOK, UsersOK
<1>1. CASE PutReturns(u) \/ PutCloses(u)
  <2>1. held[u] # NoConn /\ held[u] \in Conn /\ Holds(u, NoConn)
    BY <1>0, <1>1 DEF PutReturns, PutCloses, Held
  <2>2. CASE PutReturns(u)
    <3>1. open' = open /\ Pooled' = Pooled \cup {held[u]}
      BY <1>0, <2>1, <2>2, RangeAppend DEF PutReturns, Pooled, cleanupVars
    <3>2. Lease!Return(held[u], u) BY <2>1, <3>1, GivenUp
    <3> QED BY <2>1, <3>2 DEF Lease!Next
  <2>3. CASE PutCloses(u)
    <3>1. open' = open \ {held[u]} /\ Pooled' = Pooled
      BY <2>3 DEF PutCloses, Closes, Pooled, cleanupVars
    <3>2. Lease!Discard(held[u], u) BY <2>1, <3>1, GivenUp
    <3> QED BY <2>1, <3>2 DEF Lease!Next
  <2> QED BY <1>1, <2>2, <2>3
<1>2. CASE UNCHANGED <<open, conns, valid, held>>
  BY <1>2, Kept DEF Pooled
<1> QED BY <1>1, <1>2 DEF Put, PutStart, PutIdleCounted, PutClosedCounted, cleanupVars

\* A step of the cleanup closes or dials at most one connection; moving one
\* between the channel and its list changes no owner.
LEMMA CleanLease ==
  ASSUME IInv, IInv', Clean
  PROVE  [Lease!Next]_Owner
<1>0. /\ conns \in Seq(Conn) /\ valid \in Seq(Conn) /\ IsInjective(conns) /\ IsInjective(valid)
      /\ Range(conns) \cap Range(valid) = {}
  BY DEF IInv, TypeOK, PoolOK, CleanupOK, OneOwner
<1>1. CASE CleanKeep \/ CleanDiscard
  <2>1. conns # <<>> /\ conns' = Tail(conns) /\ held' = held BY <1>1 DEF CleanKeep, CleanDiscard
  <2>2. /\ Head(conns) \in Conn /\ Range(conns) = Range(Tail(conns)) \cup {Head(conns)}
        /\ Head(conns) \notin Range(Tail(conns))
    BY <1>0, <2>1, RangeTail
  <2>3. CASE CleanKeep
    <3>1. open' = open /\ Range(valid') = Range(valid) \cup {Head(conns)}
      BY <1>0, <2>2, <2>3, RangeAppend DEF CleanKeep
    <3>2. Pooled' = Pooled BY <2>1, <2>2, <3>1 DEF Pooled
    <3> QED BY <2>1, <3>1, <3>2, Kept
  <2>4. CASE CleanDiscard
    <3>1. open' = open \ {Head(conns)} /\ valid' = valid BY <2>4 DEF CleanDiscard, Closes, cleanupVars
    <3>2. {Head(conns)} \in SUBSET Pooled /\ Pooled' = Pooled \ {Head(conns)}
      BY <1>0, <2>1, <2>2, <3>1 DEF Pooled
    <3>3. Lease!Shut({Head(conns)}) /\ {Head(conns)} \in SUBSET Conn
      BY <2>1, <3>1, <3>2, ShutDown
    <3> QED BY <3>3 DEF Lease!Next
  <2> QED BY <1>1, <2>3, <2>4
<1>2. CASE CleanPutBack
  <2>1. valid # <<>> /\ valid' = Tail(valid) /\ held' = held BY <1>2 DEF CleanPutBack
  <2>2. /\ Head(valid) \in Conn /\ Range(valid) = Range(Tail(valid)) \cup {Head(valid)}
        /\ Head(valid) \notin Range(Tail(valid))
    BY <1>0, <2>1, RangeTail
  <2>3. CASE Room
    <3>1. open' = open /\ conns' = Append(conns, Head(valid)) BY <1>2, <2>3 DEF CleanPutBack
    <3>2. Range(conns') = Range(conns) \cup {Head(valid)} BY <1>0, <2>2, <3>1, RangeAppend
    <3>3. Pooled' = Pooled BY <2>1, <2>2, <3>2 DEF Pooled
    <3> QED BY <2>1, <3>1, <3>3, Kept
  <2>4. CASE ~Room
    <3>1. conns' = conns /\ open' = open \ {Head(valid)} BY <1>2, <2>4 DEF CleanPutBack, Closes
    <3>2. {Head(valid)} \in SUBSET Pooled /\ Pooled' = Pooled \ {Head(valid)}
      BY <1>0, <2>1, <2>2, <3>1 DEF Pooled
    <3>3. Lease!Shut({Head(valid)}) /\ {Head(valid)} \in SUBSET Conn
      BY <2>1, <3>1, <3>2, ShutDown
    <3> QED BY <3>3 DEF Lease!Next
  <2> QED BY <2>3, <2>4
<1>3. CASE CleanCreates
  <2>1. PICK c \in Conn : /\ c \notin open
                          /\ \/ conns' = Append(conns, c) /\ open' = open \cup {c}
                             \/ UNCHANGED <<conns, open>>
    BY <1>3 DEF CleanCreates
  <2>2. valid' = valid /\ held' = held BY <1>3 DEF CleanCreates, cleanupVars
  <2>3. CASE conns' = Append(conns, c) /\ open' = open \cup {c}
    <3>1. Pooled' = Pooled \cup {c} BY <1>0, <2>2, <2>3, RangeAppend DEF Pooled
    <3>2. Lease!Dial(c) BY <2>1, <2>2, <2>3, <3>1, Dialled
    <3> QED BY <3>2 DEF Lease!Next
  <2>4. CASE UNCHANGED <<conns, open>> BY <2>2, <2>4, Kept DEF Pooled
  <2> QED BY <2>1, <2>3, <2>4
<1>4. CASE UNCHANGED <<open, conns, valid, held>>
  BY <1>4, Kept DEF Pooled
<1> QED BY <1>1, <1>2, <1>3, <1>4 DEF Clean, CleanStart, CleanDrained, CleanRefill, CleanEnd

\* The constructors dial connections, and close all of them at once.
LEMMA ConstructLease ==
  ASSUME IInv, IInv', Construct
  PROVE  [Lease!Next]_Owner
<1>0. conns \in Seq(Conn) /\ Range(conns) \cap Range(valid) = {}
  BY DEF IInv, TypeOK, PoolOK, OneOwner
<1>1. CASE InitialConnection
  <2>1. PICK c \in Conn : Opens(c) /\ conns' = Append(conns, c) BY <1>1 DEF InitialConnection
  <2>2. /\ c \notin open /\ open' = open \cup {c} /\ held' = held
        /\ Pooled' = Pooled \cup {c}
    BY <1>0, <1>1, <2>1, RangeAppend DEF InitialConnection, Opens, Pooled, cleanupVars
  <2>3. Lease!Dial(c) BY <2>2, Dialled
  <2> QED BY <2>3 DEF Lease!Next
<1>2. CASE Close
  <2>1. conns' = <<>> /\ open' = open \ Range(conns) /\ valid' = valid /\ held' = held
    BY <1>2 DEF Close, cleanupVars
  <2>2. Range(conns) \in SUBSET Pooled /\ Pooled' = Pooled \ Range(conns)
    BY <1>0, <2>1, RangeEmpty DEF Pooled
  <2>3. Lease!Shut(Range(conns)) /\ Range(conns) \in SUBSET Conn BY <2>1, <2>2, ShutDown
  <2> QED BY <2>3 DEF Lease!Next
<1>3. CASE Built \/ Serve
  BY <1>3, Kept DEF Built, Serve, Pooled, cleanupVars
<1> QED BY <1>1, <1>2, <1>3 DEF Construct

\* The pool (NewCHPool, Get, Put, Close and the cleanup) implements ConnLease
\* for every number of users and connections: it never lends a connection
\* twice, hands one over past the pool, or closes one under its user.
THEOREM PoolImplementsLease == Spec => ImplementsLease
<1>1. Init => Lease!Init
  <2> SUFFICES ASSUME Init PROVE Lease!Init OBVIOUS
  <2>1. open = {} BY DEF Init
  <2> QED BY <2>1 DEF Lease!Init, Owner, OwnerIn
<1>2. IInv /\ IInv' /\ [Next]_vars => [Lease!Next]_Owner
  <2> SUFFICES ASSUME IInv, IInv', [Next]_vars PROVE [Lease!Next]_Owner OBVIOUS
  <2>1. CASE ServerFlips \/ UNCHANGED vars
    BY <2>1, Kept DEF ServerFlips, vars, Pooled, cleanupVars
  <2> QED BY <2>1, GetLease, PutLease, CleanLease, ConstructLease DEF Next
<1> QED BY <1>1, <1>2, PoolInvariant, PTL DEF Spec, ImplementsLease, Lease!Spec
=============================================================================
