---------------------------- MODULE CHPoolProofs ----------------------------
(***************************************************************************)
(* Proofs about CHPool for every set of users and connections and every    *)
(* MinConnections < MaxConnections.                                        *)
(***************************************************************************)
EXTENDS CHPool, SeqLemmas, FiniteSetTheorems

-----------------------------------------------------------------------------
(* Type correctness                                                        *)

\* A user that goes to l and then holds x keeps the types of the users.
LEMMA MoveTypes ==
  ASSUME UsersOK, NEW u \in Users, NEW x \in Conn \cup {NoConn},
         NEW l \in Held \cup {"out", "take", "replace", "check", "create", "wait", "putIdle",
                              "putClosed"},
         Goto(u, l), held' = held \/ Holds(u, x), held'[u] # NoConn <=> l \in Held
  PROVE  UsersOK'
BY DEF UsersOK, Goto, Holds

\* A step of Get keeps the types.
LEMMA GetTypes ==
  ASSUME TypeOK, NEW u \in Users, Get(u)
  PROVE  TypeOK'
<1> USE DEF TypeOK
<1>0. held[u] \in Conn \cup {NoConn} /\ (held[u] # NoConn <=> pc[u] \in Held)
      /\ NoConn \in Conn \cup {NoConn} /\ held \in [Users -> Conn \cup {NoConn}]
  BY DEF UsersOK
<1>1. CASE GetTake(u) \/ GetWaited(u)
  <2>1. Head(conns) \in Conn /\ Tail(conns) \in Seq(Conn) /\ Len(Tail(conns)) <= MaxConnections
    BY <1>1, RangeTail, LenProperties, SizeAssumption DEF PoolOK, GetTake, GetWaited, TakeFrom
  <2>2. UsersOK'
    BY <1>0, <1>1, <2>1, MoveTypes, ConnAssumption DEF GetTake, GetWaited, TakeFrom, Holds, Held
  <2> QED BY <1>1, <2>1, <2>2 DEF PoolOK, CleanupOK, GetTake, GetWaited, TakeFrom, cleanupVars, stats
<1>2. CASE GetPingFails(u)
  <2>1. UsersOK' BY <1>0, <1>2, MoveTypes DEF GetPingFails, Holds, Held
  <2> QED BY <1>2, <2>1 DEF PoolOK, CleanupOK, GetPingFails, Closes, cleanupVars, stats
<1>3. CASE GetReplaced(u) \/ GetCreated(u)
  <2>1. PICK c \in Conn : Opens(c) /\ Holds(u, c) BY <1>3 DEF GetReplaced, GetCreated
  <2>2. UsersOK'
    BY <1>0, <1>3, <2>1, MoveTypes, ConnAssumption DEF GetReplaced, GetCreated, Holds, Held
  <2> QED BY <1>3, <2>1, <2>2
          DEF PoolOK, CleanupOK, GetReplaced, GetCreated, Opens, cleanupVars, stats
<1>4. CASE GetStart(u) \/ GetEmpty(u) \/ GetPingOk(u) \/ GetIdleCounted(u)
  <2>1. UsersOK'
    BY <1>0, <1>4, MoveTypes DEF GetStart, GetEmpty, GetPingOk, GetIdleCounted, Held
  <2> QED BY <1>4, <2>1
          DEF PoolOK, CleanupOK, GetStart, GetEmpty, GetPingOk, GetIdleCounted, cleanupVars, stats
<1>5. CASE GetGivesUp(u) \/ GetNotReplaced(u) \/ GetNotCreated(u)
  <2>1. UsersOK'
    BY <1>0, <1>5, MoveTypes DEF GetGivesUp, GetNotReplaced, GetNotCreated, Held
  <2> QED BY <1>5, <2>1
          DEF PoolOK, CleanupOK, GetGivesUp, GetNotReplaced, GetNotCreated, GetError, cleanupVars, stats
<1>6. CASE GetCheck(u) \/ GetCounted(u)
  <2>1. UsersOK'
    BY <1>0, <1>6, MoveTypes DEF GetCheck, GetCounted, Held
  <2> QED BY <1>6, <2>1 DEF PoolOK, CleanupOK, GetCheck, GetCounted, cleanupVars, stats
<1> QED BY <1>1, <1>2, <1>3, <1>4, <1>5, <1>6 DEF Get

\* A step of Put keeps the types.
LEMMA PutTypes ==
  ASSUME TypeOK, NEW u \in Users, Put(u)
  PROVE  TypeOK'
<1> USE DEF TypeOK
<1>0. held[u] \in Conn \cup {NoConn} /\ (held[u] # NoConn <=> pc[u] \in Held)
      /\ NoConn \in Conn \cup {NoConn} /\ held \in [Users -> Conn \cup {NoConn}]
  BY DEF UsersOK
<1>1. UsersOK'
  BY <1>0, MoveTypes
  DEF Put, PutStart, PutReturns, PutCloses, PutIdleCounted, PutClosedCounted, Holds, Held
<1>2. CASE PutReturns(u)
  <2>1. held[u] \in Conn BY <1>0, <1>2 DEF PutReturns, Held
  <2>2. Append(conns, held[u]) \in Seq(Conn) /\ Len(Append(conns, held[u])) <= MaxConnections
    BY <1>2, <2>1, RangeAppend, LenProperties, SizeAssumption DEF PoolOK, PutReturns, Room
  <2> QED BY <1>1, <1>2, <2>2 DEF PoolOK, CleanupOK, PutReturns, cleanupVars, stats
<1>3. CASE PutStart(u) \/ PutCloses(u) \/ PutIdleCounted(u) \/ PutClosedCounted(u)
  BY <1>1, <1>3 DEF PoolOK, CleanupOK, PutStart, PutCloses, PutIdleCounted, PutClosedCounted, Closes,
                    cleanupVars, stats
<1> QED BY <1>2, <1>3 DEF Put

\* A step of the cleanup goroutine keeps the types.
LEMMA CleanTypes ==
  ASSUME TypeOK, Clean
  PROVE  TypeOK'
<1> USE DEF TypeOK
<1>1. UsersOK'
  BY DEF Clean, CleanStart, CleanKeep, CleanDiscard, CleanDrained, CleanPutBack, CleanRefill,
         CleanCreates, CleanEnd, UsersOK
<1>2. CASE CleanStart \/ CleanDrained \/ CleanRefill \/ CleanEnd
  BY <1>1, <1>2 DEF PoolOK, CleanupOK, CleanStart, CleanDrained, CleanRefill, CleanEnd, stats
<1>3. CASE CleanKeep \/ CleanDiscard
  <2>1. Head(conns) \in Conn /\ Tail(conns) \in Seq(Conn) /\ Len(Tail(conns)) <= MaxConnections
    BY <1>3, RangeTail, LenProperties, SizeAssumption DEF PoolOK, CleanKeep, CleanDiscard
  <2>2. Append(valid, Head(conns)) \in Seq(Conn)
    BY <2>1, RangeAppend DEF CleanupOK
  <2>3. CleanupOK'
    BY <1>3, <2>2 DEF CleanupOK, CleanKeep, CleanDiscard, cleanupVars
  <2>4. /\ conns' = Tail(conns) /\ UNCHANGED <<phase, active, up, leaked>> /\ open' \subseteq open
        /\ (total' = total \/ total' = total - 1) /\ (idle' = idle \/ idle' = idle - 1)
    BY <1>3 DEF CleanKeep, CleanDiscard, Closes, stats
  <2> QED BY <1>1, <2>1, <2>3, <2>4 DEF PoolOK
<1>4. CASE CleanPutBack
  <2>1. Head(valid) \in Conn /\ Tail(valid) \in Seq(Conn)
    BY <1>4, RangeTail DEF CleanupOK, CleanPutBack
  <2>2. Room => Append(conns, Head(valid)) \in Seq(Conn)
                /\ Len(Append(conns, Head(valid))) <= MaxConnections
    BY <2>1, RangeAppend, LenProperties, SizeAssumption DEF PoolOK, Room
  <2>3. CleanupOK'
    BY <1>4, <2>1 DEF CleanupOK, CleanPutBack
  <2>4. PoolOK'
    <3>1. CASE Room BY <1>4, <2>2, <3>1 DEF PoolOK, CleanPutBack
    <3>2. CASE ~Room BY <1>4, <3>2 DEF PoolOK, CleanPutBack, Closes
    <3> QED BY <3>1, <3>2
  <2> QED BY <1>1, <2>3, <2>4
<1>5. CASE CleanCreates
  <2>1. PICK c \in Conn : /\ up /\ c \notin open
                          /\ IF Room THEN conns' = Append(conns, c) /\ open' = open \cup {c}
                                          /\ total' = total + 1 /\ idle' = idle + 1
                                     ELSE UNCHANGED <<conns, open, total, idle>>
    BY <1>5 DEF CleanCreates
  <2>2. Room => Append(conns, c) \in Seq(Conn) /\ Len(Append(conns, c)) <= MaxConnections
    BY RangeAppend, LenProperties, SizeAssumption DEF PoolOK, Room
  <2>3. CleanupOK'
    BY <1>5 DEF CleanupOK, CleanCreates, cleanupVars
  <2>4. PoolOK'
    <3>1. CASE Room BY <1>5, <2>1, <2>2, <3>1 DEF PoolOK, CleanCreates
    <3>2. CASE ~Room BY <1>5, <2>1, <3>2 DEF PoolOK, CleanCreates
    <3> QED BY <3>1, <3>2
  <2> QED BY <1>1, <2>3, <2>4
<1> QED BY <1>2, <1>3, <1>4, <1>5 DEF Clean

\* A step of the constructors keeps the types; the first connections fit into
\* the channel because nobody takes or returns one before the pool is built.
LEMMA ConstructTypes ==
  ASSUME TypeOK, Phases, Construct
  PROVE  TypeOK'
<1> USE DEF TypeOK
<1>1. CASE InitialConnection
  <2>1. PICK c \in Conn : Opens(c) /\ conns' = Append(conns, c) BY <1>1 DEF InitialConnection
  <2>2. conns' \in Seq(Conn) /\ Len(conns') <= MaxConnections
    BY <1>1, <2>1, RangeAppend, LenProperties, SizeAssumption DEF InitialConnection, Phases, PoolOK
  <2> QED BY <1>1, <2>1, <2>2 DEF InitialConnection, PoolOK, UsersOK, CleanupOK, Opens, cleanupVars
<1>2. CASE Built \/ Serve
  BY <1>2 DEF Built, Serve, PoolOK, UsersOK, CleanupOK, cleanupVars, stats
<1>3. CASE Close
  <2>1. conns' \in Seq(Conn) /\ Len(conns') <= MaxConnections
    BY <1>3, RangeEmpty, SizeAssumption DEF Close
  <2> QED BY <1>3, <2>1 DEF Close, PoolOK, UsersOK, CleanupOK, cleanupVars, stats
<1> QED BY <1>1, <1>2, <1>3 DEF Construct

-----------------------------------------------------------------------------
(* Phases: nobody uses the pool before it is built and after it is closed. *)

\* Before it is built and after it is closed only the constructors act.
LEMMA NobodyOutside ==
  ASSUME Phases, phase \in {"building", "closed"}
  PROVE  ~Clean /\ \A u \in Users : ~Get(u) /\ ~Put(u)
<1>1. cpc = "sleep" /\ \A u \in Users : pc[u] = "out" BY DEF Phases, AllOut
<1>2. ~Clean
  BY <1>1 DEF Clean, CleanStart, CleanKeep, CleanDiscard, CleanDrained, CleanPutBack, CleanRefill,
              CleanCreates, CleanEnd
<1>3. ASSUME NEW u \in Users PROVE ~Get(u) /\ ~Put(u)
  BY <1>1
  DEF Get, GetStart, GetTake, GetWaited, TakeFrom, GetEmpty, GetGivesUp, GetPingOk, GetPingFails,
      GetReplaced, GetNotReplaced, GetIdleCounted, GetCheck, GetCreated, GetNotCreated, GetCounted,
      Put, PutStart, PutReturns, PutCloses, PutIdleCounted, PutClosedCounted
<1> QED BY <1>2, <1>3

\* Every step keeps Phases.
LEMMA PhasesStep ==
  ASSUME TypeOK, Phases, [Next]_vars
  PROVE  Phases'
<1>1. CASE Clean \/ \E u \in Users : Get(u) \/ Put(u)
  <2>1. phase \notin {"building", "closed"} BY <1>1, NobodyOutside
  <2>2. phase' = phase \/ phase' = "failed"
    BY <1>1
    DEF Get, GetStart, GetTake, GetWaited, TakeFrom, GetEmpty, GetGivesUp, GetPingOk, GetPingFails,
        GetReplaced, GetNotReplaced, GetIdleCounted, GetCheck, GetCreated, GetNotCreated, GetCounted,
        GetError, Put, PutStart, PutReturns, PutCloses, PutIdleCounted, PutClosedCounted,
        Clean, CleanStart, CleanKeep, CleanDiscard, CleanDrained, CleanPutBack, CleanRefill,
        CleanCreates, CleanEnd
  <2> QED BY <2>1, <2>2 DEF Phases
<1>2. CASE InitialConnection
  <2>1. PICK c \in Conn : conns' = Append(conns, c) BY <1>2 DEF InitialConnection
  <2>2. Len(conns') = Len(conns) + 1 BY <2>1, RangeAppend DEF TypeOK, PoolOK
  <2> QED BY <1>2, <2>2 DEF InitialConnection, Phases, AllOut, cleanupVars
<1>3. CASE Built \/ Serve \/ ServerFlips
  BY <1>3 DEF Built, Serve, ServerFlips, Phases, AllOut, cleanupVars, stats
<1>4. CASE Close
  BY <1>4 DEF Close, Phases, AllOut, MuFree, cleanupVars
<1>5. CASE UNCHANGED vars
  BY <1>5 DEF vars, Phases, AllOut, cleanupVars, stats
<1> QED BY <1>1, <1>2, <1>3, <1>4, <1>5 DEF Next, Construct

-----------------------------------------------------------------------------
(* Slots: how far TotalConnections can exceed MaxConnections.              *)

Creating == {"create", "count"}

\* The users that may still count a connection are finitely many.
LEMMA CreatingCount ==
  /\ Counted(Creating) \in Nat /\ IsFiniteSet(At(Creating))
  /\ Counted(Creating) <= Cardinality(Users) /\ Cardinality(Users) \in Nat
<1>1. At(Creating) \in SUBSET Users BY DEF At
<1> QED BY <1>1, UsersAssumption, FS_Subset, FS_CardinalityType DEF Counted

\* A user that does not start to create a connection takes no slot.
LEMMA NoNewSlot ==
  ASSUME UsersOK, NEW u \in Users, NEW l, Goto(u, l), l \in Creating => pc[u] \in Creating
  PROVE  /\ Counted(Creating)' <= Counted(Creating) /\ Counted(Creating)' \in Nat
         /\ pc[u] \in Creating /\ l \notin Creating => Counted(Creating)' = Counted(Creating) - 1
<1>1. At(Creating)' \in SUBSET At(Creating) BY DEF At, Goto, UsersOK
<1>2. Counted(Creating)' <= Counted(Creating) /\ Counted(Creating)' \in Nat
  BY <1>1, CreatingCount, FS_Subset, FS_CardinalityType DEF Counted
<1>3. ASSUME pc[u] \in Creating, l \notin Creating PROVE Counted(Creating)' = Counted(Creating) - 1
  <2>1. At(Creating)' = At(Creating) \ {u} /\ u \in At(Creating) BY <1>3 DEF At, Goto, UsersOK
  <2> QED BY <2>1, CreatingCount, FS_RemoveElement DEF Counted
<1> QED BY <1>2, <1>3

\* Every step keeps Slots: a user that takes a slot saw TotalConnections below
\* MaxConnections, and every other step that counts a connection saw it below
\* MinConnections or gives the slot up.
LEMMA SlotsStep ==
  ASSUME TypeOK, Phases, Slots, [Next]_vars
  PROVE  Slots'
<1> USE DEF Slots
<1>0. /\ Counted(Creating) \in Nat /\ Counted(Creating) <= Cardinality(Users)
      /\ Cardinality(Users) \in Nat /\ total \in Int /\ MaxConnections \in Nat
      /\ MinConnections \in Nat /\ MinConnections < MaxConnections
      /\ total + Counted(Creating) <= MaxConnections + Cardinality(Users) - 1
  BY CreatingCount, SizeAssumption DEF TypeOK, PoolOK, Creating
<1>1. ASSUME NEW u \in Users, GetCheck(u) PROVE Slots'
  <2>1. CASE total < MaxConnections
    <3>1. At(Creating)' \in SUBSET Users BY DEF At
    <3>2. Counted(Creating)' \in Nat /\ Counted(Creating)' <= Cardinality(Users)
      BY <3>1, UsersAssumption, FS_Subset, FS_CardinalityType DEF Counted
    <3> QED BY <1>0, <1>1, <2>1, <3>2 DEF GetCheck, stats, Creating
  <2>2. CASE ~(total < MaxConnections)
    <3>1. Goto(u, "wait") /\ "wait" \notin Creating BY <1>1, <2>2 DEF GetCheck, Creating
    <3>2. Counted(Creating)' <= Counted(Creating) /\ Counted(Creating)' \in Nat
      BY <3>1, NoNewSlot DEF TypeOK
    <3> QED BY <1>0, <1>1, <3>2 DEF GetCheck, stats, Creating
  <2> QED BY <2>1, <2>2
<1>2. ASSUME NEW u \in Users, GetCounted(u) PROVE Slots'
  <2>1. Goto(u, "use") /\ "use" \notin Creating /\ pc[u] \in Creating BY <1>2 DEF GetCounted, Creating
  <2>2. Counted(Creating)' = Counted(Creating) - 1 BY <2>1, NoNewSlot DEF TypeOK
  <2> QED BY <1>0, <1>2, <2>2 DEF GetCounted, Creating
<1>3. ASSUME NEW u \in Users, Get(u) \/ Put(u), ~GetCheck(u), ~GetCounted(u) PROVE Slots'
  <2>1. \E l \in Held \cup {"out", "take", "replace", "check", "create", "wait", "putIdle", "putClosed"} :
           Goto(u, l) /\ (l \in Creating => pc[u] \in Creating)
    BY <1>3
    DEF Get, GetStart, GetTake, GetWaited, TakeFrom, GetEmpty, GetGivesUp, GetPingOk, GetPingFails,
        GetReplaced, GetNotReplaced, GetIdleCounted, GetCreated, GetNotCreated,
        Put, PutStart, PutReturns, PutCloses, PutIdleCounted, PutClosedCounted, Creating, Held
  <2>2. total' = total \/ total' = total - 1
    BY <1>3
    DEF Get, GetStart, GetTake, GetWaited, TakeFrom, GetEmpty, GetGivesUp, GetPingOk, GetPingFails,
        GetReplaced, GetNotReplaced, GetIdleCounted, GetCreated, GetNotCreated,
        Put, PutStart, PutReturns, PutCloses, PutIdleCounted, PutClosedCounted, stats
  <2>3. Counted(Creating)' <= Counted(Creating) /\ Counted(Creating)' \in Nat
    BY <2>1, NoNewSlot DEF TypeOK
  <2> QED BY <1>0, <2>2, <2>3 DEF Creating
<1>4. CASE Clean \/ Construct \/ ServerFlips \/ UNCHANGED vars
  <2>1. pc' = pc
    BY <1>4
    DEF Clean, CleanStart, CleanKeep, CleanDiscard, CleanDrained, CleanPutBack, CleanRefill,
        CleanCreates, CleanEnd, Construct, InitialConnection, Built, Serve, Close, ServerFlips, vars
  <2>2. Counted(Creating)' = Counted(Creating) BY <2>1 DEF Counted, At
  <2>3. \/ total' = total \/ total' = total - 1
        \/ total < MinConnections /\ total' = total + 1
    BY <1>4
    DEF Clean, CleanStart, CleanKeep, CleanDiscard, CleanDrained, CleanPutBack, CleanRefill,
        CleanCreates, CleanEnd, Construct, InitialConnection, Built, Serve, Close, ServerFlips, vars,
        stats
  <2> QED BY <1>0, <2>2, <2>3 DEF Creating
<1> QED BY <1>1, <1>2, <1>3, <1>4 DEF Next

-----------------------------------------------------------------------------
(* Ownership                                                               *)

\* The connections that users hold, after u exchanged the one it holds for x.
LEMMA HandedAfter ==
  ASSUME UsersOK, OneOwner, NEW u \in Users, NEW x \in Conn \cup {NoConn}, Holds(u, x)
  PROVE  /\ Handed' = (Handed \ {held[u]}) \cup ({x} \ {NoConn})
         /\ x \notin Handed =>
              \A v, w \in Users : held'[v] = held'[w] /\ held'[v] # NoConn => v = w
<1>1. held \in [Users -> Conn \cup {NoConn}] /\ held' = [held EXCEPT ![u] = x]
  BY DEF UsersOK, Holds
<1>2. \A v \in Users : held[v] # NoConn => held[v] \in Handed
  BY <1>1 DEF Handed, Range
<1>3. \A v, w \in Users : held[v] = held[w] /\ held[v] # NoConn => v = w
  BY DEF OneOwner
<1>4. Handed' \subseteq (Handed \ {held[u]}) \cup ({x} \ {NoConn})
  <2>1. ASSUME NEW c \in Handed' PROVE c \in (Handed \ {held[u]}) \cup ({x} \ {NoConn})
    <3>1. PICK v \in Users : held'[v] = c /\ c # NoConn BY <1>1, <2>1 DEF Handed, Range
    <3>2. CASE v = u BY <1>1, <3>1, <3>2
    <3>3. CASE v # u BY <1>1, <1>2, <1>3, <3>1, <3>3
    <3> QED BY <3>2, <3>3
  <2> QED BY <2>1
<1>5. (Handed \ {held[u]}) \cup ({x} \ {NoConn}) \subseteq Handed'
  <2>1. ASSUME NEW c \in Handed \ {held[u]} PROVE c \in Handed'
    <3>1. PICK v \in Users : held[v] = c /\ c # NoConn BY <1>1, <2>1 DEF Handed, Range
    <3>2. held'[v] = c BY <1>1, <2>1, <3>1
    <3> QED BY <1>1, <3>1, <3>2 DEF Handed, Range
  <2>2. x # NoConn => x \in Handed' BY <1>1 DEF Handed, Range
  <2> QED BY <2>1, <2>2
<1>6. x \notin Handed => \A v, w \in Users : held'[v] = held'[w] /\ held'[v] # NoConn => v = w
  BY <1>1, <1>2, <1>3
<1> QED BY <1>4, <1>5, <1>6

\* A connection in the channel, with the cleanup or with a user is open.
LEMMA OwnedOpen ==
  ASSUME UsersOK, OneOwner
  PROVE  /\ Range(conns) \subseteq open /\ Range(valid) \subseteq open /\ Handed \subseteq open
         /\ \A u \in Users : held[u] # NoConn => held[u] \in Handed
BY DEF UsersOK, OneOwner, Handed, Range

\* A step of Get keeps OneOwner: the user takes the head of the channel, closes
\* what it holds, opens what it then holds, or does neither.
LEMMA GetOwner ==
  ASSUME TypeOK, OneOwner, NEW u \in Users, Get(u)
  PROVE  OneOwner'
<1>0. UsersOK /\ conns \in Seq(Conn) /\ NoConn \in Conn \cup {NoConn}
      /\ (held[u] = NoConn <=> pc[u] \notin Held)
  BY DEF TypeOK, PoolOK, UsersOK
<1>1. CASE GetTake(u) \/ GetWaited(u)
  <2>1. /\ conns # <<>> /\ conns' = Tail(conns) /\ Holds(u, Head(conns))
        /\ UNCHANGED <<open, valid>> /\ held[u] = NoConn
    BY <1>0, <1>1 DEF GetTake, GetWaited, TakeFrom, cleanupVars, Held
  <2>2. /\ Head(conns) \in Conn /\ Range(conns) = Range(Tail(conns)) \cup {Head(conns)}
        /\ IsInjective(Tail(conns)) /\ Head(conns) \notin Range(Tail(conns))
    BY <1>0, <2>1, RangeTail DEF OneOwner
  <2>3. Head(conns) \notin Handed /\ NoConn \notin Handed BY <2>2 DEF OneOwner, Handed
  <2>4. /\ Handed' = Handed \cup {Head(conns)}
        /\ \A v, w \in Users : held'[v] = held'[w] /\ held'[v] # NoConn => v = w
    BY <1>0, <2>1, <2>2, <2>3, HandedAfter, ConnAssumption
  <2> QED BY <2>1, <2>2, <2>3, <2>4 DEF OneOwner
<1>2. CASE GetPingFails(u)
  <2>1. held[u] # NoConn /\ Holds(u, NoConn) /\ open' = open \ {held[u]} /\ UNCHANGED <<conns, valid>>
    BY <1>0, <1>2 DEF GetPingFails, Closes, Held, cleanupVars
  <2>2. /\ Handed' = Handed \ {held[u]}
        /\ \A v, w \in Users : held'[v] = held'[w] /\ held'[v] # NoConn => v = w
    BY <1>0, <2>1, HandedAfter DEF Handed
  <2> QED BY <1>0, <2>1, <2>2, OwnedOpen DEF OneOwner
<1>3. CASE GetReplaced(u) \/ GetCreated(u)
  <2>1. PICK c \in Conn : Opens(c) /\ Holds(u, c) BY <1>3 DEF GetReplaced, GetCreated
  <2>2. held[u] = NoConn /\ UNCHANGED <<conns, valid>>
    BY <1>0, <1>3 DEF GetReplaced, GetCreated, Held, cleanupVars
  <2>3. c \notin open /\ open' = open \cup {c} /\ c \notin Handed /\ NoConn \notin Handed
    BY <2>1 DEF Opens, OneOwner, Handed
  <2>4. /\ Handed' = Handed \cup {c}
        /\ \A v, w \in Users : held'[v] = held'[w] /\ held'[v] # NoConn => v = w
    BY <1>0, <2>1, <2>2, <2>3, HandedAfter, ConnAssumption
  <2> QED BY <2>2, <2>3, <2>4 DEF OneOwner
<1>4. CASE UNCHANGED <<open, conns, valid, held>>
  BY <1>4 DEF OneOwner, Handed
<1> QED BY <1>1, <1>2, <1>3, <1>4
        DEF Get, GetStart, GetEmpty, GetGivesUp, GetPingOk, GetNotReplaced, GetIdleCounted, GetCheck,
            GetNotCreated, GetCounted, cleanupVars

\* A step of Put keeps OneOwner.
LEMMA PutOwner ==
  ASSUME TypeOK, OneOwner, NEW u \in Users, Put(u)
  PROVE  OneOwner'
<1>0. UsersOK /\ conns \in Seq(Conn) /\ NoConn \in Conn \cup {NoConn}
      /\ held[u] \in Conn \cup {NoConn} /\ (held[u] = NoConn <=> pc[u] \notin Held)
  BY DEF TypeOK, PoolOK, UsersOK
<1>1. CASE PutReturns(u) \/ PutCloses(u)
  <2>1. Holds(u, NoConn) /\ held[u] # NoConn /\ held[u] \in Conn /\ valid' = valid
        /\ held[u] \in Handed
    BY <1>0, <1>1, OwnedOpen DEF PutReturns, PutCloses, Held, cleanupVars
  <2>2. /\ Handed' = Handed \ {held[u]}
        /\ \A v, w \in Users : held'[v] = held'[w] /\ held'[v] # NoConn => v = w
    BY <1>0, <2>1, HandedAfter DEF Handed
  <2>3. CASE PutReturns(u)
    <3>1. open' = open /\ conns' = Append(conns, held[u]) BY <2>3 DEF PutReturns
    <3>2. Range(conns') = Range(conns) \cup {held[u]} /\ IsInjective(conns')
      BY <1>0, <2>1, <3>1, RangeAppend DEF OneOwner
    <3> QED BY <2>1, <2>2, <3>1, <3>2 DEF OneOwner
  <2>4. CASE PutCloses(u)
    BY <2>1, <2>2, <2>4 DEF PutCloses, Closes, OneOwner
  <2> QED BY <1>1, <2>3, <2>4
<1>2. CASE UNCHANGED <<open, conns, valid, held>>
  BY <1>2 DEF OneOwner, Handed
<1> QED BY <1>1, <1>2 DEF Put, PutStart, PutIdleCounted, PutClosedCounted, cleanupVars

\* A step of the cleanup keeps OneOwner.
LEMMA CleanOwner ==
  ASSUME TypeOK, OneOwner, Clean
  PROVE  OneOwner'
<1>0. conns \in Seq(Conn) /\ valid \in Seq(Conn) BY DEF TypeOK, PoolOK, CleanupOK
<1>1. ASSUME held' = held PROVE Handed' = Handed BY <1>1 DEF Handed
<1>2. CASE CleanKeep \/ CleanDiscard
  <2>1. conns # <<>> /\ conns' = Tail(conns) /\ held' = held BY <1>2 DEF CleanKeep, CleanDiscard
  <2>2. /\ Head(conns) \in Conn /\ Range(conns) = Range(Tail(conns)) \cup {Head(conns)}
        /\ IsInjective(Tail(conns)) /\ Head(conns) \notin Range(Tail(conns))
    BY <1>0, <2>1, RangeTail DEF OneOwner
  <2>3. CASE CleanKeep
    <3>1. open' = open /\ valid' = Append(valid, Head(conns)) BY <2>3 DEF CleanKeep
    <3>2. Range(valid') = Range(valid) \cup {Head(conns)} /\ IsInjective(valid')
      <4>1. Head(conns) \notin Range(valid) BY <2>2 DEF OneOwner
      <4> QED BY <1>0, <2>2, <3>1, <4>1, RangeAppend DEF OneOwner
    <3> QED BY <1>1, <2>1, <2>2, <3>1, <3>2 DEF OneOwner
  <2>4. CASE CleanDiscard
    BY <1>1, <2>1, <2>2, <2>4 DEF CleanDiscard, Closes, OneOwner, cleanupVars
  <2> QED BY <1>2, <2>3, <2>4
<1>3. CASE CleanPutBack
  <2>1. valid # <<>> /\ valid' = Tail(valid) /\ held' = held BY <1>3 DEF CleanPutBack
  <2>2. /\ Head(valid) \in Conn /\ Range(valid) = Range(Tail(valid)) \cup {Head(valid)}
        /\ IsInjective(Tail(valid)) /\ Head(valid) \notin Range(Tail(valid))
    BY <1>0, <2>1, RangeTail DEF OneOwner
  <2>3. CASE Room
    <3>1. open' = open /\ conns' = Append(conns, Head(valid)) BY <1>3, <2>3 DEF CleanPutBack
    <3>2. Range(conns') = Range(conns) \cup {Head(valid)} /\ IsInjective(conns')
      <4>1. Head(valid) \notin Range(conns) BY <2>2 DEF OneOwner
      <4> QED BY <1>0, <2>2, <3>1, <4>1, RangeAppend DEF OneOwner
    <3> QED BY <1>1, <2>1, <2>2, <3>1, <3>2 DEF OneOwner
  <2>4. CASE ~Room
    <3>1. conns' = conns /\ open' = open \ {Head(valid)} BY <1>3, <2>4 DEF CleanPutBack, Closes
    <3> QED BY <1>1, <2>1, <2>2, <3>1 DEF OneOwner
  <2> QED BY <2>3, <2>4
<1>4. CASE CleanCreates
  <2>1. PICK c \in Conn : /\ c \notin open
                          /\ \/ conns' = Append(conns, c) /\ open' = open \cup {c}
                             \/ UNCHANGED <<conns, open>>
    BY <1>4 DEF CleanCreates
  <2>2. valid' = valid /\ held' = held BY <1>4 DEF CleanCreates, cleanupVars
  <2>3. c \notin Range(conns) /\ c \notin Range(valid) /\ c \notin Handed BY <2>1 DEF OneOwner
  <2>4. /\ Range(Append(conns, c)) = Range(conns) \cup {c} /\ IsInjective(Append(conns, c))
    BY <1>0, <2>3, RangeAppend DEF OneOwner
  <2> QED BY <1>1, <2>1, <2>2, <2>3, <2>4 DEF OneOwner
<1>5. CASE UNCHANGED <<open, conns, valid, held>>
  BY <1>1, <1>5 DEF OneOwner
<1> QED BY <1>2, <1>3, <1>4, <1>5 DEF Clean, CleanStart, CleanDrained, CleanRefill, CleanEnd

\* A step of the constructors keeps OneOwner.
LEMMA ConstructOwner ==
  ASSUME TypeOK, OneOwner, Construct
  PROVE  OneOwner'
<1>0. conns \in Seq(Conn) BY DEF TypeOK, PoolOK
<1>1. ASSUME held' = held PROVE Handed' = Handed BY <1>1 DEF Handed
<1>2. CASE InitialConnection
  <2>1. PICK c \in Conn : Opens(c) /\ conns' = Append(conns, c) BY <1>2 DEF InitialConnection
  <2>2. c \notin open /\ open' = open \cup {c} /\ valid' = valid /\ held' = held
    BY <1>2, <2>1 DEF InitialConnection, Opens, cleanupVars
  <2>3. c \notin Range(conns) /\ c \notin Range(valid) /\ c \notin Handed BY <2>2 DEF OneOwner
  <2>4. Range(conns') = Range(conns) \cup {c} /\ IsInjective(conns')
    BY <1>0, <2>1, <2>3, RangeAppend DEF OneOwner
  <2> QED BY <1>1, <2>2, <2>3, <2>4 DEF OneOwner
<1>3. CASE Close
  <2>1. /\ conns' = <<>> /\ open' = open \ Range(conns) /\ valid' = valid /\ held' = held
    BY <1>3 DEF Close, cleanupVars
  <2>2. Range(conns') = {} /\ IsInjective(conns') BY <2>1, RangeEmpty
  <2> QED BY <1>1, <2>1, <2>2 DEF OneOwner
<1>4. CASE Built \/ Serve
  BY <1>1, <1>4 DEF Built, Serve, OneOwner, cleanupVars
<1> QED BY <1>2, <1>3, <1>4 DEF Construct

-----------------------------------------------------------------------------
(* The inductive invariant and the theorems                                *)

\* The pool starts empty.
LEMMA IInvInit == Init => IInv
<1> SUFFICES ASSUME Init PROVE IInv OBVIOUS
<1>1. TypeOK
  BY RangeEmpty, SizeAssumption DEF Init, TypeOK, PoolOK, UsersOK, CleanupOK, Held
<1>2. OneOwner
  <2>1. Handed = {} /\ \A u \in Users : held[u] = NoConn BY DEF Init, Handed, Range
  <2> QED BY <2>1, RangeEmpty DEF Init, OneOwner
<1>3. Phases
  BY RangeEmpty DEF Init, Phases, AllOut
<1>4. Slots
  <2>1. At(Creating) = {} BY DEF Init, At, Creating
  <2>2. Counted(Creating) = 0 BY <2>1, FS_EmptySet DEF Counted
  <2>3. Cardinality(Users) \in Nat /\ Cardinality(Users) # 0
    BY UsersAssumption, FS_CardinalityType, FS_EmptySet
  <2> QED BY <2>2, <2>3, SizeAssumption DEF Init, Slots, Creating
<1> QED BY <1>1, <1>2, <1>3, <1>4 DEF IInv

\* Every step keeps the invariant.
LEMMA IInvStep == IInv /\ [Next]_vars => IInv'
<1> SUFFICES ASSUME IInv, [Next]_vars PROVE IInv' OBVIOUS
<1>1. Phases' /\ Slots' BY PhasesStep, SlotsStep DEF IInv
<1>2. TypeOK' /\ OneOwner'
  <2>1. CASE Construct BY <2>1, ConstructTypes, ConstructOwner DEF IInv
  <2>2. CASE Clean BY <2>2, CleanTypes, CleanOwner DEF IInv
  <2>3. ASSUME NEW u \in Users, Get(u) \/ Put(u) PROVE TypeOK' /\ OneOwner'
    BY <2>3, GetTypes, PutTypes, GetOwner, PutOwner DEF IInv
  <2>4. CASE ServerFlips
    BY <2>4 DEF ServerFlips, IInv, TypeOK, PoolOK, UsersOK, CleanupOK, OneOwner, Handed, cleanupVars,
                stats
  <2>5. CASE UNCHANGED vars
    BY <2>5 DEF vars, IInv, TypeOK, PoolOK, UsersOK, CleanupOK, OneOwner, Handed, cleanupVars, stats
  <2> QED BY <2>1, <2>2, <2>3, <2>4, <2>5 DEF Next
<1> QED BY <1>1, <1>2 DEF IInv

\* The inductive invariant holds in every reachable state.
THEOREM PoolInvariant == Spec => []IInv
BY IInvInit, IInvStep, PTL DEF Spec

\* A user holds a connection exactly while it pings, counts or uses one, and
\* the channel never holds more than its capacity.
THEOREM TypeCorrect == Spec => []TypeOK
BY PoolInvariant, PTL DEF IInv

\* Two goroutines never use one connection at the same time, no goroutine uses
\* a closed one, and the pool forgets no open connection.
THEOREM OneOwnerAlways == Spec => []OneOwner
BY PoolInvariant, PTL DEF IInv

\* With n users the count of connections stays below MaxConnections + n, which
\* bounds what the unlocked creation in Get can do.
THEOREM OversubscriptionBounded == Spec => []Oversubscription
<1>1. IInv => Oversubscription
  <2> SUFFICES ASSUME IInv PROVE Oversubscription OBVIOUS
  <2>1. total + Counted(Creating) <= MaxConnections + Cardinality(Users) - 1
    BY DEF IInv, Slots, Creating
  <2>2. total \in Int /\ MaxConnections \in Nat BY SizeAssumption DEF IInv, TypeOK, PoolOK
  <2> QED BY <2>1, <2>2, CreatingCount DEF Oversubscription
<1> QED BY <1>1, PoolInvariant, PTL

\* A pool that was closed has no connection open.
THEOREM CloseIsComplete == Spec => []CloseClosesAll
<1>1. IInv => CloseClosesAll
  <2> SUFFICES ASSUME IInv, phase = "closed" PROVE open = {} BY DEF CloseClosesAll
  <2>1. conns = <<>> /\ cpc = "sleep" /\ \A u \in Users : pc[u] = "out" BY DEF IInv, Phases, AllOut
  <2>2. valid = <<>> BY <2>1 DEF IInv, TypeOK, CleanupOK
  <2>3. Handed = {}
    <3>1. \A u \in Users : held[u] = NoConn BY <2>1 DEF IInv, TypeOK, UsersOK, Held
    <3> QED BY <3>1 DEF Handed, Range, IInv, TypeOK, UsersOK
  <2> QED BY <2>1, <2>2, <2>3, RangeEmpty DEF IInv, OneOwner
<1> QED BY <1>1, PoolInvariant, PTL

-----------------------------------------------------------------------------
(* The statistics                                                          *)

\* The places of the users whose step is not in the statistics yet, or still is.
Uncounted == {"count"}
Closing == {"putClosed", "replace"}
InUse == {"use", "return", "putIdle", "putClosed"}
Taking == {"ping", "replace", "gotIdle"}
GivingBack == {"putIdle"}

Is(x, S) == IF x \in S THEN 1 ELSE 0

\* The users at some places are finitely many.
LEMMA CountedNat ==
  ASSUME NEW S
  PROVE  IsFiniteSet(At(S)) /\ Counted(S) \in Nat /\ Counted(S)' \in Nat /\ IsFiniteSet(At(S)')
<1>1. At(S) \in SUBSET Users /\ At(S)' \in SUBSET Users BY DEF At
<1>2. IsFiniteSet(At(S)) /\ IsFiniteSet(At(S)') BY <1>1, UsersAssumption, FS_Subset
<1> QED BY <1>2, FS_CardinalityType DEF Counted

\* When one user moves, the count of a set of places changes by at most one.
LEMMA CountedMove ==
  ASSUME UsersOK, NEW S, NEW u \in Users, NEW l, Goto(u, l)
  PROVE  Counted(S)' = Counted(S) + Is(l, S) - Is(pc[u], S)
<1> DEFINE A == At(S)
           B == At(S)'
<1>1. pc'[u] = l /\ \A v \in Users \ {u} : pc'[v] = pc[v] BY DEF Goto, UsersOK
<1>2. IsFiniteSet(A) /\ IsFiniteSet(B) BY CountedNat
<1>3. Cardinality(A) \in Nat /\ Cardinality(B) \in Nat BY <1>2, FS_CardinalityType
<1>4. CASE pc[u] \in S <=> l \in S
  <2>1. A = B BY <1>1, <1>4 DEF At
  <2> QED BY <1>3, <1>4, <2>1 DEF Counted, Is
<1>5. CASE pc[u] \in S /\ l \notin S
  <2>1. B = A \ {u} /\ u \in A BY <1>1, <1>5 DEF At
  <2>2. Cardinality(B) = Cardinality(A) - 1
    <3> HIDE DEF A, B
    <3> QED BY <1>2, <2>1, FS_RemoveElement
  <2> QED BY <1>3, <1>5, <2>2 DEF Counted, Is
<1>6. CASE pc[u] \notin S /\ l \in S
  <2>1. B = A \cup {u} /\ u \notin A BY <1>1, <1>6 DEF At
  <2>2. Cardinality(B) = Cardinality(A) + 1
    <3> HIDE DEF A, B
    <3> QED BY <1>2, <2>1, FS_AddElement
  <2> QED BY <1>3, <1>6, <2>2 DEF Counted, Is
<1> QED BY <1>4, <1>5, <1>6

\* How a step changes the counts the statistics depend on.
CountedBy(k, c, i, t, r) ==
  /\ Counted(Uncounted)' = Counted(Uncounted) + k /\ Counted(Closing)' = Counted(Closing) + c
  /\ Counted(InUse)' = Counted(InUse) + i /\ Counted(Taking)' = Counted(Taking) + t
  /\ Counted(GivingBack)' = Counted(GivingBack) + r

Idle == {"out", "take", "wait", "check", "create"}

\* When one user moves from its place to l, each count changes by what the two places add to it.
LEMMA CountsMove ==
  ASSUME UsersOK, NEW u \in Users, NEW l, Goto(u, l)
  PROVE  CountedBy(Is(l, Uncounted) - Is(pc[u], Uncounted), Is(l, Closing) - Is(pc[u], Closing),
                   Is(l, InUse) - Is(pc[u], InUse), Is(l, Taking) - Is(pc[u], Taking),
                   Is(l, GivingBack) - Is(pc[u], GivingBack))
<1> DEFINE D(S) == Is(l, S) - Is(pc[u], S)
<1>1. ASSUME NEW S PROVE Counted(S)' = Counted(S) + D(S)
  <2>1. Counted(S) \in Nat BY CountedNat
  <2>2. Is(l, S) \in Int /\ Is(pc[u], S) \in Int BY DEF Is
  <2> QED BY <2>1, <2>2, CountedMove
<1>2. /\ Counted(Uncounted)' = Counted(Uncounted) + D(Uncounted)
      /\ Counted(Closing)' = Counted(Closing) + D(Closing)
      /\ Counted(InUse)' = Counted(InUse) + D(InUse)
      /\ Counted(Taking)' = Counted(Taking) + D(Taking)
      /\ Counted(GivingBack)' = Counted(GivingBack) + D(GivingBack)
  BY <1>1
<1> QED BY <1>2 DEF CountedBy

\* The counts along the steps of Get and Put.
LEMMA CountsTable ==
  ASSUME UsersOK, NEW u \in Users
  PROVE  /\ \A l \in Idle : pc[u] \in Idle /\ Goto(u, l) => CountedBy(0, 0, 0, 0, 0)
         /\ pc[u] \in {"take", "wait"} /\ Goto(u, "ping") => CountedBy(0, 0, 0, 1, 0)
         /\ pc[u] \in {"take", "wait"} /\ Goto(u, "gotIdle") => CountedBy(0, 0, 0, 1, 0)
         /\ pc[u] = "ping" /\ Goto(u, "gotIdle") => CountedBy(0, 0, 0, 0, 0)
         /\ pc[u] = "ping" /\ Goto(u, "replace") => CountedBy(0, 1, 0, 0, 0)
         /\ pc[u] = "replace" /\ Goto(u, "gotIdle") => CountedBy(0, -1, 0, 0, 0)
         /\ pc[u] = "replace" /\ Goto(u, "out") => CountedBy(0, -1, 0, -1, 0)
         /\ pc[u] = "gotIdle" /\ Goto(u, "use") => CountedBy(0, 0, 1, -1, 0)
         /\ pc[u] = "create" /\ Goto(u, "count") => CountedBy(1, 0, 0, 0, 0)
         /\ pc[u] = "count" /\ Goto(u, "use") => CountedBy(-1, 0, 1, 0, 0)
         /\ pc[u] = "use" /\ Goto(u, "return") => CountedBy(0, 0, 0, 0, 0)
         /\ pc[u] = "return" /\ Goto(u, "putIdle") => CountedBy(0, 0, 0, 0, 1)
         /\ pc[u] = "return" /\ Goto(u, "putClosed") => CountedBy(0, 1, 0, 0, 0)
         /\ pc[u] = "putIdle" /\ Goto(u, "out") => CountedBy(0, 0, -1, 0, -1)
         /\ pc[u] = "putClosed" /\ Goto(u, "out") => CountedBy(0, -1, -1, 0, 0)
<1> DEFINE At5(l, k, c, i, t, r) == /\ Is(l, Uncounted) = k /\ Is(l, Closing) = c /\ Is(l, InUse) = i
                                    /\ Is(l, Taking) = t /\ Is(l, GivingBack) = r
<1>1. /\ \A l \in Idle : At5(l, 0, 0, 0, 0, 0)
      /\ At5("ping", 0, 0, 0, 1, 0) /\ At5("gotIdle", 0, 0, 0, 1, 0) /\ At5("replace", 0, 1, 0, 1, 0)
      /\ At5("use", 0, 0, 1, 0, 0) /\ At5("return", 0, 0, 1, 0, 0) /\ At5("count", 1, 0, 0, 0, 0)
      /\ At5("putIdle", 0, 0, 1, 0, 1) /\ At5("putClosed", 0, 1, 1, 0, 0)
  BY DEF Is, Uncounted, Closing, InUse, Taking, GivingBack, Idle
<1>2. ASSUME NEW l, Goto(u, l), NEW k \in {0, 1}, NEW c \in {0, 1}, NEW i \in {0, 1},
             NEW t \in {0, 1}, NEW r \in {0, 1}, At5(l, k, c, i, t, r)
      PROVE  /\ At5(pc[u], 0, 0, 0, 0, 0) => CountedBy(k, c, i, t, r)
             /\ At5(pc[u], 0, 0, 0, 1, 0) => CountedBy(k, c, i, t - 1, r)
             /\ At5(pc[u], 0, 1, 0, 1, 0) => CountedBy(k, c - 1, i, t - 1, r)
             /\ At5(pc[u], 0, 0, 1, 0, 0) => CountedBy(k, c, i - 1, t, r)
             /\ At5(pc[u], 1, 0, 0, 0, 0) => CountedBy(k - 1, c, i, t, r)
             /\ At5(pc[u], 0, 0, 1, 0, 1) => CountedBy(k, c, i - 1, t, r - 1)
             /\ At5(pc[u], 0, 1, 1, 0, 0) => CountedBy(k, c - 1, i - 1, t, r)
  BY <1>2, CountsMove
<1>3. {"out", "take", "wait", "create"} \subseteq Idle BY DEF Idle
<1> HIDE DEF At5
<1>4. \A l \in Idle : pc[u] \in Idle /\ Goto(u, l) => CountedBy(0, 0, 0, 0, 0)
  BY <1>1, <1>2, <1>3
<1>5. /\ pc[u] \in {"take", "wait"} /\ Goto(u, "ping") => CountedBy(0, 0, 0, 1, 0)
      /\ pc[u] \in {"take", "wait"} /\ Goto(u, "gotIdle") => CountedBy(0, 0, 0, 1, 0)
      /\ pc[u] = "create" /\ Goto(u, "count") => CountedBy(1, 0, 0, 0, 0)
  BY <1>1, <1>2, <1>3
<1>6. /\ pc[u] = "ping" /\ Goto(u, "gotIdle") => CountedBy(0, 0, 0, 0, 0)
      /\ pc[u] = "ping" /\ Goto(u, "replace") => CountedBy(0, 1, 0, 0, 0)
  BY <1>1, <1>2, <1>3
<1>7. /\ pc[u] = "replace" /\ Goto(u, "gotIdle") => CountedBy(0, -1, 0, 0, 0)
      /\ pc[u] = "replace" /\ Goto(u, "out") => CountedBy(0, -1, 0, -1, 0)
  BY <1>1, <1>2, <1>3
<1>8. pc[u] = "gotIdle" /\ Goto(u, "use") => CountedBy(0, 0, 1, -1, 0)
  BY <1>1, <1>2, <1>3
<1>9. pc[u] = "count" /\ Goto(u, "use") => CountedBy(-1, 0, 1, 0, 0)
  BY <1>1, <1>2, <1>3
<1>10. /\ pc[u] = "use" /\ Goto(u, "return") => CountedBy(0, 0, 0, 0, 0)
       /\ pc[u] = "return" /\ Goto(u, "putIdle") => CountedBy(0, 0, 0, 0, 1)
       /\ pc[u] = "return" /\ Goto(u, "putClosed") => CountedBy(0, 1, 0, 0, 0)
  BY <1>1, <1>2, <1>3
<1>11. pc[u] = "putIdle" /\ Goto(u, "out") => CountedBy(0, 0, -1, 0, -1)
  BY <1>1, <1>2, <1>3
<1>12. pc[u] = "putClosed" /\ Goto(u, "out") => CountedBy(0, -1, -1, 0, 0)
  BY <1>1, <1>2, <1>3
<1> QED BY <1>4, <1>5, <1>6, <1>7, <1>8, <1>9, <1>10, <1>11, <1>12

\* The counts are numbers.
LEMMA CountsNat ==
  /\ Counted(Uncounted) \in Nat /\ Counted(Closing) \in Nat /\ Counted(InUse) \in Nat
  /\ Counted(Taking) \in Nat /\ Counted(GivingBack) \in Nat
BY CountedNat

\* Finitely many connections are open; opening one and closing one change their number by one.
LEMMA OpenCount ==
  ASSUME TypeOK, OneOwner
  PROVE  /\ IsFiniteSet(open) /\ Cardinality(open) \in Nat
         /\ \A c : c \notin open => Cardinality(open \cup {c}) = Cardinality(open) + 1
         /\ \A c \in open : Cardinality(open \ {c}) = Cardinality(open) - 1
<1>1. IsFiniteSet(Range(conns)) /\ IsFiniteSet(Range(valid))
  BY RangeCount DEF TypeOK, PoolOK, CleanupOK
<1>2. held \in Surjection(Users, Range(held))
  <2>1. DOMAIN held = Users BY DEF TypeOK, UsersOK
  <2>2. held \in [Users -> Range(held)] BY <2>1 DEF Range, TypeOK, UsersOK
  <2>3. \A t \in Range(held) : \E u \in Users : held[u] = t BY <2>1 DEF Range
  <2> QED BY <2>2, <2>3 DEF Surjection
<1>3. IsFiniteSet(Range(held)) BY <1>2, UsersAssumption, FS_Surjection
<1>4. IsFiniteSet(Handed) BY <1>3, FS_Difference DEF Handed
<1>5. IsFiniteSet(open) BY <1>1, <1>4, FS_Union DEF OneOwner
<1> QED BY <1>5, FS_CardinalityType, FS_AddElement, FS_RemoveElement

\* What TotalConnections and IdleConnections count, but for failed replacements, and
\* with these what Accounting says of a pool that is not closed.
Owned == Cardinality(open) - Counted(Uncounted) + Counted(Closing)
Resting == Len(conns) + Len(valid) + Counted(Taking) - Counted(GivingBack)
Accounts == total = Owned + leaked /\ active = Counted(InUse) /\ idle = Resting + leaked

\* A step of Get counts what it takes and creates, sooner or later.
LEMMA GetAccounts ==
  ASSUME TypeOK, OneOwner, Accounts, NEW u \in Users, Get(u)
  PROVE  Accounts'
<1>0. /\ UsersOK /\ conns \in Seq(Conn) /\ Len(conns) \in Nat /\ Len(valid) \in Nat
      /\ total \in Int /\ active \in Int /\ idle \in Int /\ leaked \in Nat
      /\ (pc[u] \in Held => held[u] \in open)
  BY LenProperties, OwnedOpen DEF TypeOK, PoolOK, UsersOK, CleanupOK
<1>nat. /\ Cardinality(open) \in Nat /\ Len(conns) \in Nat /\ Len(valid) \in Nat
        /\ total \in Int /\ active \in Int /\ idle \in Int /\ leaked \in Nat
        /\ Counted(Uncounted) \in Nat /\ Counted(Closing) \in Nat /\ Counted(InUse) \in Nat
        /\ Counted(Taking) \in Nat /\ Counted(GivingBack) \in Nat
        /\ Owned \in Int /\ Resting \in Int
  BY <1>0, OpenCount, CountsNat, LenProperties DEF Owned, Resting
<1>ints. /\ Cardinality(open) \in Int /\ Counted(Uncounted) \in Int /\ Counted(Closing) \in Int
         /\ Len(conns) \in Int /\ Len(valid) \in Int
         /\ Counted(Taking) \in Int /\ Counted(GivingBack) \in Int
  BY <1>nat
<1>1. CASE GetTake(u) \/ GetWaited(u)
  <2>1. /\ \/ pc[u] = "take" /\ Goto(u, "ping")
           \/ pc[u] = "wait" /\ Goto(u, "gotIdle")
        /\ Len(conns') = Len(conns) - 1 /\ UNCHANGED <<open, total, active, idle, valid, leaked>>
    BY <1>0, <1>1, OpenCount, RangeTail DEF GetTake, GetWaited, TakeFrom, stats, cleanupVars
  <2>2. CountedBy(0, 0, 0, 1, 0) BY <1>0, <2>1, CountsTable DEF Idle
  <2>3. Owned' = Owned BY <1>ints, <2>1, <2>2 DEF Owned, CountedBy
  <2>4. Resting' = Resting BY <1>ints, <2>1, <2>2 DEF Resting, CountedBy
  <2>5. Counted(InUse)' = Counted(InUse) BY <1>nat, <2>2 DEF CountedBy
  <2> QED BY <1>nat, <2>1, <2>3, <2>4, <2>5 DEF Accounts
<1>2. CASE GetStart(u) \/ GetEmpty(u) \/ GetGivesUp(u) \/ GetPingOk(u) \/ GetCheck(u) \/ GetNotCreated(u)
  <2>1. /\ \/ pc[u] \in {"out", "take", "wait", "check", "create"}
              /\ \E l \in {"out", "take", "check", "create", "wait"} : Goto(u, l)
           \/ pc[u] = "ping" /\ Goto(u, "gotIdle")
        /\ UNCHANGED <<open, conns, total, active, idle, valid, leaked>>
    BY <1>0, <1>2, OpenCount
       DEF GetStart, GetEmpty, GetGivesUp, GetPingOk, GetCheck, GetNotCreated, stats, cleanupVars
  <2>2. CountedBy(0, 0, 0, 0, 0) BY <1>0, <2>1, CountsTable DEF Idle
  <2>3. Owned' = Owned BY <1>ints, <2>1, <2>2 DEF Owned, CountedBy
  <2>4. Resting' = Resting BY <1>ints, <2>1, <2>2 DEF Resting, CountedBy
  <2>5. Counted(InUse)' = Counted(InUse) BY <1>nat, <2>2 DEF CountedBy
  <2> QED BY <1>nat, <2>1, <2>3, <2>4, <2>5 DEF Accounts
<1>3. CASE GetPingFails(u)
  <2>1. /\ pc[u] = "ping" /\ Goto(u, "replace") /\ Cardinality(open') = Cardinality(open) - 1
        /\ UNCHANGED <<conns, total, active, idle, valid, leaked>>
    BY <1>0, <1>3, OpenCount DEF GetPingFails, Closes, Held, stats, cleanupVars
  <2>2. CountedBy(0, 1, 0, 0, 0) BY <1>0, <2>1, CountsTable DEF Idle
  <2>3. Owned' = Owned BY <1>ints, <2>1, <2>2 DEF Owned, CountedBy
  <2>4. Resting' = Resting BY <1>ints, <2>1, <2>2 DEF Resting, CountedBy
  <2>5. Counted(InUse)' = Counted(InUse) BY <1>nat, <2>2 DEF CountedBy
  <2> QED BY <1>nat, <2>1, <2>3, <2>4, <2>5 DEF Accounts
<1>4. CASE GetReplaced(u) \/ GetCreated(u)
  <2>1. /\ \/ pc[u] = "replace" /\ Goto(u, "gotIdle")
           \/ pc[u] = "create" /\ Goto(u, "count")
        /\ Cardinality(open') = Cardinality(open) + 1
        /\ UNCHANGED <<conns, total, active, idle, valid, leaked>>
    BY <1>0, <1>4, OpenCount DEF GetReplaced, GetCreated, Opens, stats, cleanupVars
  <2>2. CountedBy(0, -1, 0, 0, 0) \/ CountedBy(1, 0, 0, 0, 0) BY <1>0, <2>1, CountsTable DEF Idle
  <2>3. Owned' = Owned
    <3>1. Owned' = Cardinality(open') - Counted(Uncounted)' + Counted(Closing)' BY DEF Owned
    <3>2. Owned = Cardinality(open) - Counted(Uncounted) + Counted(Closing) BY DEF Owned
    <3>3. Cardinality(open') = Cardinality(open) + 1 BY <2>1
    <3>4. Cardinality(open) \in Int /\ Counted(Uncounted) \in Int /\ Counted(Closing) \in Int BY <1>nat
    <3>5. CASE CountedBy(0, -1, 0, 0, 0)
      <4>1. Counted(Uncounted)' = Counted(Uncounted) /\ Counted(Closing)' = Counted(Closing) - 1
        BY <3>4, <3>5 DEF CountedBy
      <4> QED BY <3>1, <3>2, <3>3, <3>4, <4>1
    <3>6. CASE CountedBy(1, 0, 0, 0, 0)
      <4>1. Counted(Uncounted)' = Counted(Uncounted) + 1 /\ Counted(Closing)' = Counted(Closing)
        BY <3>4, <3>6 DEF CountedBy
      <4> QED BY <3>1, <3>2, <3>3, <3>4, <4>1
    <3> QED BY <2>2, <3>5, <3>6
  <2>4. Resting' = Resting BY <1>ints, <2>1, <2>2 DEF Resting, CountedBy
  <2>5. Counted(InUse)' = Counted(InUse) BY <1>nat, <2>2 DEF CountedBy
  <2> QED BY <1>nat, <2>1, <2>3, <2>4, <2>5 DEF Accounts
<1>5. CASE GetNotReplaced(u)
  <2>1. /\ pc[u] = "replace" /\ Goto(u, "out") /\ leaked' = leaked + 1
        /\ UNCHANGED <<open, conns, total, active, idle, valid>>
    BY <1>0, <1>5, OpenCount DEF GetNotReplaced, stats, cleanupVars
  <2>2. CountedBy(0, -1, 0, -1, 0) BY <1>0, <2>1, CountsTable DEF Idle
  <2>3. Owned' = Owned - 1 BY <1>ints, <2>1, <2>2 DEF Owned, CountedBy
  <2>4. Resting' = Resting - 1 BY <1>ints, <2>1, <2>2 DEF Resting, CountedBy
  <2>5. Counted(InUse)' = Counted(InUse) BY <1>nat, <2>2 DEF CountedBy
  <2> QED BY <1>nat, <2>1, <2>3, <2>4, <2>5 DEF Accounts
<1>6. CASE GetIdleCounted(u)
  <2>1. /\ pc[u] = "gotIdle" /\ Goto(u, "use") /\ active' = active + 1 /\ idle' = idle - 1
        /\ UNCHANGED <<open, conns, total, valid, leaked>>
    BY <1>0, <1>6, OpenCount DEF GetIdleCounted, cleanupVars
  <2>2. CountedBy(0, 0, 1, -1, 0) BY <1>0, <2>1, CountsTable DEF Idle
  <2>3. Owned' = Owned BY <1>ints, <2>1, <2>2 DEF Owned, CountedBy
  <2>4. Resting' = Resting - 1 BY <1>ints, <2>1, <2>2 DEF Resting, CountedBy
  <2>5. Counted(InUse)' = Counted(InUse) + 1 BY <1>nat, <2>2 DEF CountedBy
  <2> QED BY <1>nat, <2>1, <2>3, <2>4, <2>5 DEF Accounts
<1>7. CASE GetCounted(u)
  <2>1. /\ pc[u] = "count" /\ Goto(u, "use") /\ total' = total + 1 /\ active' = active + 1
        /\ UNCHANGED <<open, conns, idle, valid, leaked>>
    BY <1>0, <1>7, OpenCount DEF GetCounted, cleanupVars
  <2>2. CountedBy(-1, 0, 1, 0, 0) BY <1>0, <2>1, CountsTable DEF Idle
  <2>3. Owned' = Owned + 1 BY <1>ints, <2>1, <2>2 DEF Owned, CountedBy
  <2>4. Resting' = Resting BY <1>ints, <2>1, <2>2 DEF Resting, CountedBy
  <2>5. Counted(InUse)' = Counted(InUse) + 1 BY <1>nat, <2>2 DEF CountedBy
  <2> QED BY <1>nat, <2>1, <2>3, <2>4, <2>5 DEF Accounts
<1> QED BY <1>1, <1>2, <1>3, <1>4, <1>5, <1>6, <1>7 DEF Get

\* A step of Put counts what it returns or closes, sooner or later.
LEMMA PutAccounts ==
  ASSUME TypeOK, OneOwner, Accounts, NEW u \in Users, Put(u)
  PROVE  Accounts'
<1>0. /\ UsersOK /\ conns \in Seq(Conn) /\ Len(conns) \in Nat /\ Len(valid) \in Nat
      /\ total \in Int /\ active \in Int /\ idle \in Int /\ leaked \in Nat
      /\ (pc[u] \in Held => held[u] \in open /\ held[u] \in Conn)
  BY LenProperties, OwnedOpen DEF TypeOK, PoolOK, UsersOK, CleanupOK
<1>nat. /\ Cardinality(open) \in Nat /\ Len(conns) \in Nat /\ Len(valid) \in Nat
        /\ total \in Int /\ active \in Int /\ idle \in Int /\ leaked \in Nat
        /\ Counted(Uncounted) \in Nat /\ Counted(Closing) \in Nat /\ Counted(InUse) \in Nat
        /\ Counted(Taking) \in Nat /\ Counted(GivingBack) \in Nat
        /\ Owned \in Int /\ Resting \in Int
  BY <1>0, OpenCount, CountsNat, LenProperties DEF Owned, Resting
<1>ints. /\ Cardinality(open) \in Int /\ Counted(Uncounted) \in Int /\ Counted(Closing) \in Int
         /\ Len(conns) \in Int /\ Len(valid) \in Int
         /\ Counted(Taking) \in Int /\ Counted(GivingBack) \in Int
  BY <1>nat
<1>1. CASE PutStart(u)
  <2>1. /\ pc[u] = "use" /\ Goto(u, "return")
        /\ UNCHANGED <<open, conns, total, active, idle, valid, leaked>>
    BY <1>0, <1>1, OpenCount DEF PutStart, stats, cleanupVars
  <2>2. CountedBy(0, 0, 0, 0, 0) BY <1>0, <2>1, CountsTable DEF Idle
  <2>3. Owned' = Owned BY <1>ints, <2>1, <2>2 DEF Owned, CountedBy
  <2>4. Resting' = Resting BY <1>ints, <2>1, <2>2 DEF Resting, CountedBy
  <2>5. Counted(InUse)' = Counted(InUse) BY <1>nat, <2>2 DEF CountedBy
  <2> QED BY <1>nat, <2>1, <2>3, <2>4, <2>5 DEF Accounts
<1>2. CASE PutReturns(u)
  <2>1. /\ pc[u] = "return" /\ Goto(u, "putIdle") /\ Len(conns') = Len(conns) + 1
        /\ UNCHANGED <<open, total, active, idle, valid, leaked>>
    BY <1>0, <1>2, OpenCount, RangeAppend DEF PutReturns, Held, stats, cleanupVars
  <2>2. CountedBy(0, 0, 0, 0, 1) BY <1>0, <2>1, CountsTable DEF Idle
  <2>3. Owned' = Owned BY <1>ints, <2>1, <2>2 DEF Owned, CountedBy
  <2>4. Resting' = Resting BY <1>ints, <2>1, <2>2 DEF Resting, CountedBy
  <2>5. Counted(InUse)' = Counted(InUse) BY <1>nat, <2>2 DEF CountedBy
  <2> QED BY <1>nat, <2>1, <2>3, <2>4, <2>5 DEF Accounts
<1>3. CASE PutCloses(u)
  <2>1. /\ pc[u] = "return" /\ Goto(u, "putClosed") /\ Cardinality(open') = Cardinality(open) - 1
        /\ UNCHANGED <<conns, total, active, idle, valid, leaked>>
    BY <1>0, <1>3, OpenCount DEF PutCloses, Closes, Held, stats, cleanupVars
  <2>2. CountedBy(0, 1, 0, 0, 0) BY <1>0, <2>1, CountsTable DEF Idle
  <2>3. Owned' = Owned BY <1>ints, <2>1, <2>2 DEF Owned, CountedBy
  <2>4. Resting' = Resting BY <1>ints, <2>1, <2>2 DEF Resting, CountedBy
  <2>5. Counted(InUse)' = Counted(InUse) BY <1>nat, <2>2 DEF CountedBy
  <2> QED BY <1>nat, <2>1, <2>3, <2>4, <2>5 DEF Accounts
<1>4. CASE PutIdleCounted(u)
  <2>1. /\ pc[u] = "putIdle" /\ Goto(u, "out") /\ active' = active - 1 /\ idle' = idle + 1
        /\ UNCHANGED <<open, conns, total, valid, leaked>>
    BY <1>0, <1>4, OpenCount DEF PutIdleCounted, cleanupVars
  <2>2. CountedBy(0, 0, -1, 0, -1) BY <1>0, <2>1, CountsTable DEF Idle
  <2>3. Owned' = Owned BY <1>ints, <2>1, <2>2 DEF Owned, CountedBy
  <2>4. Resting' = Resting + 1 BY <1>ints, <2>1, <2>2 DEF Resting, CountedBy
  <2>5. Counted(InUse)' = Counted(InUse) - 1 BY <1>nat, <2>2 DEF CountedBy
  <2> QED BY <1>nat, <2>1, <2>3, <2>4, <2>5 DEF Accounts
<1>5. CASE PutClosedCounted(u)
  <2>1. /\ pc[u] = "putClosed" /\ Goto(u, "out") /\ active' = active - 1 /\ total' = total - 1
        /\ UNCHANGED <<open, conns, idle, valid, leaked>>
    BY <1>0, <1>5, OpenCount DEF PutClosedCounted, cleanupVars
  <2>2. CountedBy(0, -1, -1, 0, 0) BY <1>0, <2>1, CountsTable DEF Idle
  <2>3. Owned' = Owned - 1 BY <1>ints, <2>1, <2>2 DEF Owned, CountedBy
  <2>4. Resting' = Resting BY <1>ints, <2>1, <2>2 DEF Resting, CountedBy
  <2>5. Counted(InUse)' = Counted(InUse) - 1 BY <1>nat, <2>2 DEF CountedBy
  <2> QED BY <1>nat, <2>1, <2>3, <2>4, <2>5 DEF Accounts
<1> QED BY <1>1, <1>2, <1>3, <1>4, <1>5 DEF Put

\* The constructors and the cleanup count what they open and close at once.
LEMMA OtherAccounts ==
  ASSUME TypeOK, OneOwner, Accounts, (Construct /\ ~Close) \/ Clean \/ ServerFlips \/ UNCHANGED vars
  PROVE  Accounts'
<1>0. /\ conns \in Seq(Conn) /\ Len(conns) \in Nat /\ valid \in Seq(Conn) /\ Len(valid) \in Nat
      /\ total \in Int /\ active \in Int /\ idle \in Int /\ leaked \in Nat
      /\ Range(conns) \subseteq open /\ Range(valid) \subseteq open
  BY LenProperties, OwnedOpen DEF TypeOK, PoolOK, CleanupOK
<1>1. pc' = pc /\ active' = active /\ leaked' = leaked
  BY DEF Construct, InitialConnection, Built, Serve, Clean, CleanStart, CleanKeep, CleanDiscard,
         CleanDrained, CleanPutBack, CleanRefill, CleanCreates, CleanEnd, ServerFlips, vars, stats
<1>2. /\ Counted(Uncounted)' = Counted(Uncounted) /\ Counted(Closing)' = Counted(Closing)
      /\ Counted(InUse)' = Counted(InUse) /\ Counted(Taking)' = Counted(Taking)
      /\ Counted(GivingBack)' = Counted(GivingBack)
  BY <1>1 DEF Counted, At
<1>nat. /\ Cardinality(open) \in Nat /\ Len(conns) \in Nat /\ Len(valid) \in Nat
        /\ total \in Int /\ active \in Int /\ idle \in Int /\ leaked \in Nat
        /\ Counted(Uncounted) \in Nat /\ Counted(Closing) \in Nat /\ Counted(InUse) \in Nat
        /\ Counted(Taking) \in Nat /\ Counted(GivingBack) \in Nat
        /\ Owned \in Int /\ Resting \in Int
  BY <1>0, OpenCount, CountsNat, LenProperties DEF Owned, Resting
<1>3. ASSUME NEW x \in Int, Cardinality(open') = Cardinality(open) + x,
             Len(conns') \in Nat, Len(valid') \in Nat,
             Len(conns') + Len(valid') = Len(conns) + Len(valid) + x,
             total' = total + x, idle' = idle + x
      PROVE  Accounts'
  <2>1. Owned' = Owned + x
    <3>1. Owned' = Cardinality(open') - Counted(Uncounted)' + Counted(Closing)' BY DEF Owned
    <3>2. Counted(Uncounted)' = Counted(Uncounted) /\ Counted(Closing)' = Counted(Closing) BY <1>2
    <3>3. Cardinality(open') = Cardinality(open) + x BY <1>3
    <3>4. Owned = Cardinality(open) - Counted(Uncounted) + Counted(Closing) BY DEF Owned
    <3>5. Cardinality(open) \in Int /\ Counted(Uncounted) \in Int /\ Counted(Closing) \in Int BY <1>nat
    <3> QED BY <3>1, <3>2, <3>3, <3>4, <3>5
  <2>2. Resting' = Resting + x
    <3>1. Resting' = Len(conns') + Len(valid') + Counted(Taking)' - Counted(GivingBack)'
      BY DEF Resting
    <3>2. Counted(Taking)' = Counted(Taking) /\ Counted(GivingBack)' = Counted(GivingBack) BY <1>2
    <3>3. Len(conns') + Len(valid') = Len(conns) + Len(valid) + x BY <1>3
    <3>4. Resting' = Len(conns) + Len(valid) + x + Counted(Taking) - Counted(GivingBack)
      BY <3>1, <3>2, <3>3
    <3>5. Resting = Len(conns) + Len(valid) + Counted(Taking) - Counted(GivingBack) BY DEF Resting
    <3>6. /\ Len(conns) \in Int /\ Len(valid) \in Int
          /\ Counted(Taking) \in Int /\ Counted(GivingBack) \in Int
      BY <1>nat
    <3> QED BY <3>4, <3>5, <3>6
  <2> QED BY <1>nat, <1>1, <1>2, <1>3, <2>1, <2>2 DEF Accounts
<1>4. CASE UNCHANGED <<open, conns, valid, total, idle>>
  BY <1>1, <1>2, <1>4 DEF Accounts, Owned, Resting
<1>5. CASE InitialConnection \/ CleanCreates
  <2>1. CASE UNCHANGED <<open, conns, total, idle>>
    BY <1>4, <1>5, <2>1 DEF InitialConnection, CleanCreates, cleanupVars
  <2>2. ASSUME NEW c \in Conn \ open, conns' = Append(conns, c), open' = open \cup {c},
               total' = total + 1, idle' = idle + 1, valid' = valid
        PROVE  Accounts'
    <3>1. Len(conns') = Len(conns) + 1 /\ Cardinality(open') = Cardinality(open) + 1
      BY <1>0, <2>2, RangeAppend, OpenCount
    <3> QED BY <1>nat, <1>3, <2>2, <3>1
  <2> QED BY <1>5, <2>1, <2>2 DEF InitialConnection, CleanCreates, Opens, cleanupVars
<1>6. CASE CleanKeep \/ CleanDiscard
  <2> DEFINE c == Head(conns)
  <2>1. conns # <<>> /\ conns' = Tail(conns) BY <1>6 DEF CleanKeep, CleanDiscard
  <2>2. Len(conns') = Len(conns) - 1 /\ Len(conns') \in Nat /\ c \in Conn /\ c \in open
    BY <1>0, <2>1, RangeTail, LenProperties
  <2>3. CASE valid' = Append(valid, c) /\ UNCHANGED <<open, total, idle>>
    <3>1. Len(valid') = Len(valid) + 1 BY <1>0, <2>2, <2>3, RangeAppend
    <3> QED BY <1>nat, <1>3, <2>2, <2>3, <3>1
  <2>4. CASE valid' = valid /\ open' = open \ {c} /\ total' = total - 1 /\ idle' = idle - 1
    <3>1. Cardinality(open') = Cardinality(open) - 1 BY <2>2, <2>4, OpenCount
    <3> QED BY <1>nat, <1>3, <2>2, <2>4, <3>1
  <2> QED BY <1>6, <2>3, <2>4 DEF CleanKeep, CleanDiscard, Closes, stats, cleanupVars
<1>7. CASE CleanPutBack
  <2> DEFINE c == Head(valid)
  <2>1. valid # <<>> /\ valid' = Tail(valid) BY <1>7 DEF CleanPutBack
  <2>2. Len(valid') = Len(valid) - 1 /\ Len(valid') \in Nat /\ c \in Conn /\ c \in open
    BY <1>0, <2>1, RangeTail, LenProperties
  <2>3. CASE conns' = Append(conns, c) /\ UNCHANGED <<open, total, idle>>
    <3>1. Len(conns') = Len(conns) + 1 BY <1>0, <2>2, <2>3, RangeAppend
    <3> QED BY <1>nat, <1>3, <2>2, <2>3, <3>1
  <2>4. CASE conns' = conns /\ open' = open \ {c} /\ total' = total - 1 /\ idle' = idle - 1
    <3>1. Cardinality(open') = Cardinality(open) - 1 BY <2>2, <2>4, OpenCount
    <3> QED BY <1>nat, <1>3, <2>2, <2>4, <3>1
  <2> QED BY <1>7, <2>3, <2>4 DEF CleanPutBack, Closes
<1> QED
  BY <1>4, <1>5, <1>6, <1>7
  DEF Construct, Built, Serve, Clean, CleanStart, CleanDrained, CleanRefill, CleanEnd, ServerFlips,
      vars, stats, cleanupVars

\* The counts of a pool that is not closed never drift from its connections but
\* by the failed replacements (clickhouse_pool.go:148-242 and 343-401).
THEOREM AccountingCorrect == Spec => []Accounting
<1>1. Init => Accounting
  <2> SUFFICES ASSUME Init PROVE Accounts
    BY DEF Accounts, Owned, Resting, Accounting, Uncounted, Closing, InUse, Taking, GivingBack
  <2>1. /\ At(Uncounted) = {} /\ At(Closing) = {} /\ At(InUse) = {} /\ At(Taking) = {}
        /\ At(GivingBack) = {}
    BY DEF Init, At, Uncounted, Closing, InUse, Taking, GivingBack
  <2>2. /\ Counted(Uncounted) = 0 /\ Counted(Closing) = 0 /\ Counted(InUse) = 0
        /\ Counted(Taking) = 0 /\ Counted(GivingBack) = 0
    BY <2>1, FS_EmptySet DEF Counted
  <2> QED BY <2>2, FS_EmptySet, RangeEmpty DEF Init, Accounts, Owned, Resting
<1>2. IInv /\ Accounting /\ [Next]_vars => Accounting'
  <2> SUFFICES ASSUME IInv, Accounting, [Next]_vars, phase' # "closed" PROVE Accounts'
    BY DEF Accounts, Owned, Resting, Accounting, Uncounted, Closing, InUse, Taking, GivingBack
  <2>1. phase # "closed" /\ ~Close
    <3>1. ~Close BY DEF Close
    <3>2. phase = "closed" => phase' = "closed"
      BY <3>1, NobodyOutside
      DEF IInv, Next, Construct, InitialConnection, Built, Serve, ServerFlips, vars
    <3> QED BY <3>1, <3>2
  <2>2. Accounts
    BY <2>1 DEF Accounts, Owned, Resting, Accounting, Uncounted, Closing, InUse, Taking, GivingBack
  <2> QED BY <2>1, <2>2, GetAccounts, PutAccounts, OtherAccounts DEF IInv, Next
<1> QED BY <1>1, <1>2, PoolInvariant, PTL DEF Spec

\* The refill loop never finds the channel full: fewer connections are counted
\* than MinConnections, and those in the channel are all counted.
THEOREM RefillFindsRoom == Spec => []RefillHasRoom
<1>1. IInv /\ Accounting => RefillHasRoom
  <2> SUFFICES ASSUME IInv, Accounting, cpc = "refill", total < MinConnections
               PROVE  Room
    BY DEF RefillHasRoom
  <2>0. /\ TypeOK /\ OneOwner /\ conns \in Seq(Conn) /\ Len(conns) \in Nat /\ leaked \in Nat
        /\ phase # "closed" /\ held \in [Users -> Conn \cup {NoConn}]
    BY LenProperties DEF IInv, TypeOK, PoolOK, UsersOK, Phases
  <2> DEFINE A == At({"count"})
             H == {held[u] : u \in A}
             f == [u \in A |-> held[u]]
  <2>1. IsFiniteSet(H) /\ Cardinality(H) = Cardinality(A)
    <3>1. IsFiniteSet(A) BY CountedNat
    <3>2. f \in Surjection(A, H) BY DEF Surjection
    <3>3. f \in Injection(A, H)
      <4>1. \A u, v \in A : held[u] = held[v] => u = v
        BY <2>0 DEF OneOwner, At, TypeOK, UsersOK, Held
      <4> QED BY <4>1 DEF Injection, IsInjective
    <3> HIDE DEF A, H, f
    <3> QED BY <3>1, <3>2, <3>3, FS_Surjection
  <2>2. H \subseteq Handed
    BY <2>0 DEF Handed, Range, At, TypeOK, UsersOK, Held
  <2>3. Range(conns) \cap H = {} /\ Range(conns) \cup H \in SUBSET open
    BY <2>0, <2>2 DEF OneOwner
  <2>4. IsFiniteSet(Range(conns)) /\ Cardinality(Range(conns)) = Len(conns)
    BY <2>0, RangeCount DEF OneOwner
  <2> HIDE DEF A, H, f
  <2>5. Cardinality(Range(conns) \cup H) = Len(conns) + Cardinality(A)
    <3>1. Cardinality(Range(conns) \cup H) = Len(conns) + Cardinality(H) - 0
      BY <2>1, <2>3, <2>4, FS_Union, FS_EmptySet
    <3>2. Cardinality(A) \in Nat BY CountedNat DEF A, Counted
    <3> QED BY <2>0, <2>1, <3>1, <3>2
  <2>6. Len(conns) + Counted({"count"}) <= Cardinality(open)
    BY <2>0, <2>3, <2>5, OpenCount, FS_Subset DEF A, Counted
  <2>7. total >= Len(conns)
    BY <2>0, <2>6, OpenCount, CountsNat
    DEF Accounting, Uncounted, Closing
  <2> QED BY <2>0, <2>7, SizeAssumption DEF Room, TypeOK, PoolOK
<1> QED BY <1>1, AccountingCorrect, PoolInvariant, PTL
=============================================================================
