------------------------- MODULE GrpcConnPoolProofs -------------------------
(***************************************************************************)
(* Proofs about GrpcConnPool for every set of clients and connections, all *)
(* sizes that New accepts, and servers with and without a health service.  *)
(***************************************************************************)
EXTENDS GrpcConnPool, SeqLemmas, FiniteSetTheorems

\* A step of a client, in its call of Get or Put.
Step(u) == GetStart(u) \/ Get(u) \/ Put(u)

-----------------------------------------------------------------------------
(* Type correctness                                                        *)

\* A client that goes to l and then holds x keeps the types of the clients.
LEMMA MoveTypes ==
  ASSUME ClientsOK, NEW u \in Clients, NEW x \in Conn \cup {NoConn},
         NEW l \in GetPlaces \cup {"out", "use", "putDrop"},
         Goto(u, l), held' = held \/ Has(u, x), held'[u] # NoConn <=> l \in Held,
         retries' \in [Clients -> 0..maxRetries]
  PROVE  ClientsOK'
BY DEF ClientsOK, Goto, Has

\* A client in the middle of a Get may retry three times.
LEMMA RetriesType ==
  ASSUME ClientsOK, NEW u \in Clients, Step(u)
  PROVE  retries' \in [Clients -> 0..maxRetries]
BY DEF ClientsOK, Step, GetStart, Get, GetReceives, GetHealthy, GetUnhealthy, GetDrops, GetRedials,
       GetCounts, GetEmpty, GetLocked, GetTimesOut, Put, PutReturns, PutCloses, PutDrops, maxRetries

\* A step of a client keeps the types.
LEMMA ClientTypes ==
  ASSUME TypeOK, NEW u \in Clients, Step(u)
  PROVE  TypeOK'
<1> USE DEF TypeOK
<1>0. /\ held[u] \in Conn \cup {NoConn} /\ (held[u] # NoConn <=> pc[u] \in Held)
      /\ NoConn \in Conn \cup {NoConn} /\ held \in [Clients -> Conn \cup {NoConn}]
      /\ retries' \in [Clients -> 0..maxRetries]
  BY RetriesType DEF ClientsOK
<1>1. CASE GetReceives(u)
  <2>1. Head(conns) \in Conn /\ Tail(conns) \in Seq(Conn) /\ Len(Tail(conns)) <= MaxSize
    BY <1>1, RangeTail, LenProperties, SizeAssumption DEF PoolOK, GetReceives
  <2>2. ClientsOK'
    BY <1>0, <1>1, <2>1, MoveTypes, ClientsAssumption DEF GetReceives, Has, Held, GetPlaces
  <2> QED BY <1>1, <2>1, <2>2 DEF PoolOK, CleanupOK, GetReceives, cleanupVars
<1>2. CASE GetUnhealthy(u) \/ PutCloses(u)
  <2>1. ClientsOK'
    BY <1>0, <1>2, MoveTypes DEF GetUnhealthy, PutCloses, Has, Held, GetPlaces
  <2> QED BY <1>2, <2>1 DEF PoolOK, CleanupOK, GetUnhealthy, PutCloses, Closes, cleanupVars
<1>3. CASE PutReturns(u)
  <2>1. held[u] \in Conn BY <1>0, <1>3 DEF PutReturns, Held
  <2>2. Append(conns, held[u]) \in Seq(Conn) /\ Len(Append(conns, held[u])) <= MaxSize
    BY <1>3, <2>1, RangeAppend, LenProperties, SizeAssumption DEF PoolOK, PutReturns, Room
  <2>3. ClientsOK' BY <1>0, <1>3, MoveTypes DEF PutReturns, Has, Held
  <2> QED BY <1>3, <2>2, <2>3 DEF PoolOK, CleanupOK, PutReturns, cleanupVars
<1>4. CASE GetRedials(u) \/ GetLocked(u)
  <2>1. /\ UNCHANGED <<phase, turns, conns, cleanupVars>>
        /\ curSize' = curSize \/ curSize' = curSize + 1
        /\ open' = open \/ \E c \in Conn : open' = open \cup {c}
    BY <1>4 DEF GetRedials, GetLocked, Dials
  <2>2. ClientsOK'
    <3>1. CASE held' = held
      BY <1>0, <1>4, <3>1, MoveTypes, ClientsAssumption
      DEF GetRedials, GetLocked, Has, Held, GetPlaces, ClientsOK
    <3>2. CASE \E c \in Conn : Has(u, c)
      <4>1. PICK c \in Conn : Has(u, c) BY <3>2
      <4>2. held'[u] # NoConn BY <1>0, <4>1, ClientsAssumption DEF Has
      <4>3. held'[u] # held[u] BY <1>0, <1>4, <4>2 DEF GetRedials, GetLocked, Held
      <4>4. Goto(u, "count") \/ Goto(u, "use") BY <1>4, <4>3 DEF GetRedials, GetLocked
      <4> QED BY <1>0, <4>1, <4>2, <4>4, MoveTypes DEF Held, GetPlaces
    <3> QED BY <1>4, <3>1, <3>2 DEF GetRedials, GetLocked
  <2> QED BY <2>1, <2>2 DEF PoolOK, CleanupOK, cleanupVars
<1>5. CASE \/ GetStart(u) \/ GetHealthy(u) \/ GetDrops(u) \/ GetCounts(u) \/ GetEmpty(u)
           \/ GetTimesOut(u) \/ PutDrops(u)
  <2>1. ClientsOK'
    BY <1>0, <1>5, MoveTypes
    DEF GetStart, GetHealthy, GetDrops, GetCounts, GetEmpty, GetTimesOut, PutDrops, Held, GetPlaces
  <2> QED BY <1>5, <2>1 DEF PoolOK, CleanupOK, GetStart, GetHealthy, GetDrops, GetCounts, GetEmpty,
                            GetTimesOut, PutDrops, cleanupVars
<1> QED BY <1>1, <1>2, <1>3, <1>4, <1>5 DEF Step, Get, Put

\* A step of the cleanup keeps the types.
LEMMA CleanTypes ==
  ASSUME TypeOK, Clean
  PROVE  TypeOK'
<1> USE DEF TypeOK
<1>1. ClientsOK' /\ phase' = phase /\ turns' = turns
  BY DEF Clean, CleanStart, CleanTakes, CleanIdle, CleanUnhealthy, CleanHealthy, CleanPutsBack,
         CleanScanned, CleanRefills, CleanEnd, CleanExit, clientVars, ClientsOK
<1>2. Len(conns) \in Nat BY LenProperties DEF PoolOK
<1>3. CASE CleanStart \/ CleanHealthy \/ CleanScanned \/ CleanEnd \/ CleanExit
  <2>0. conns' = conns /\ open' = open /\ curSize' = curSize
    BY <1>3 DEF CleanStart, CleanHealthy, CleanScanned, CleanEnd, CleanExit
  <2>1. PoolOK' BY <1>1, <2>0 DEF PoolOK
  <2>2. left' \in 0..MaxSize /\ bad' \in BOOLEAN /\ mine' = mine
    <3>1. CASE CleanStart
      <4>1. Len(conns) \in 0..MaxSize BY <1>2, SizeAssumption DEF PoolOK
      <4>2. left' = Len(conns) /\ bad' = FALSE /\ mine' = mine BY <3>1 DEF CleanStart
      <4> QED BY <4>1, <4>2
    <3>2. CASE ~CleanStart
      BY <1>3, <3>2 DEF CleanupOK, CleanHealthy, CleanScanned, CleanEnd, CleanExit
    <3> QED BY <3>1, <3>2
  <2>3. /\ cpc' \in {"sleep", "scan", "mine", "back", "refill", "exited"}
        /\ cpc \in {"mine", "back"} <=> cpc' \in {"mine", "back"}
    BY <1>3 DEF CleanStart, CleanHealthy, CleanScanned, CleanEnd, CleanExit
  <2> QED BY <1>1, <2>1, <2>2, <2>3 DEF CleanupOK
<1>4. CASE CleanTakes
  <2>1. left' \in 0..MaxSize BY <1>4, SizeAssumption DEF CleanTakes, CleanupOK
  <2>2. CASE conns = <<>>
    BY <1>1, <1>4, <2>1, <2>2 DEF PoolOK, CleanupOK, CleanTakes
  <2>3. CASE conns # <<>>
    <3>1. Head(conns) \in Conn /\ Tail(conns) \in Seq(Conn) /\ Len(Tail(conns)) <= MaxSize
      BY <1>2, <2>3, RangeTail, SizeAssumption DEF PoolOK
    <3>2. conns' = Tail(conns) /\ mine' = Head(conns) /\ cpc' = "mine" /\ bad' = bad
      BY <1>4, <2>3 DEF CleanTakes
    <3>3. PoolOK' BY <1>1, <1>4, <3>1, <3>2 DEF PoolOK, CleanTakes
    <3>4. mine' \in Conn /\ mine' # NoConn BY <3>1, <3>2, ClientsAssumption
    <3>5. CleanupOK' BY <2>1, <3>2, <3>4 DEF CleanupOK
    <3> QED BY <1>1, <3>3, <3>5
  <2> QED BY <2>2, <2>3
<1>5. CASE CleanIdle \/ CleanUnhealthy
  <2>1. /\ conns' = conns /\ open' = open \ {mine} /\ curSize' = curSize - 1 /\ left' = left
        /\ mine' = NoConn /\ cpc' = "scan" /\ bad' \in BOOLEAN
    BY <1>5 DEF CleanIdle, CleanUnhealthy, Closes, CleanupOK
  <2>2. PoolOK' BY <1>1, <2>1 DEF PoolOK
  <2>3. CleanupOK' BY <2>1 DEF CleanupOK
  <2> QED BY <1>1, <2>2, <2>3
<1>6. CASE CleanPutsBack
  <2>1. mine \in Conn BY <1>6 DEF CleanPutsBack, CleanupOK
  <2>2. Append(conns, mine) \in Seq(Conn) /\ Len(Append(conns, mine)) <= MaxSize
    BY <1>2, <1>6, <2>1, RangeAppend, SizeAssumption DEF PoolOK, CleanPutsBack, Room
  <2> QED BY <1>1, <1>6, <2>2 DEF PoolOK, CleanupOK, CleanPutsBack
<1>7. CASE CleanRefills
  <2>1. PICK c \in Conn : Dials(c) /\ conns' = Append(conns, c) BY <1>7 DEF CleanRefills
  <2>2. conns' \in Seq(Conn) /\ Len(conns') <= MaxSize
    BY <1>2, <1>7, <2>1, RangeAppend, SizeAssumption DEF PoolOK, CleanRefills, Room
  <2> QED BY <1>1, <1>7, <2>1, <2>2 DEF PoolOK, CleanupOK, CleanRefills, Dials, cleanupVars
<1> QED BY <1>3, <1>4, <1>5, <1>6, <1>7 DEF Clean

\* A step of New or Close keeps the types; the connections of the warm-up fit
\* into the channel because nobody uses the pool before New returns.
LEMMA LifeTypes ==
  ASSUME TypeOK, Phases, Construct \/ Close
  PROVE  TypeOK'
<1> USE DEF TypeOK
<1>1. ClientsOK' /\ CleanupOK'
  BY DEF Construct, WarmUp, Start, Close, CloseStart, CloseEnd, clientVars, cleanupVars,
         ClientsOK, CleanupOK
<1>2. CASE WarmUp
  <2>1. Len(conns) \in Nat /\ Len(conns) < InitSize /\ turns' \in 0..InitSize
    BY <1>2, LenProperties, SizeAssumption DEF WarmUp, Phases, PoolOK
  <2>2. CASE UNCHANGED <<conns, open, curSize>> BY <1>1, <1>2, <2>1, <2>2 DEF WarmUp, PoolOK
  <2>3. CASE curSize' = curSize + 1 /\ \E c \in Conn : Dials(c) /\ conns' = Append(conns, c)
    <3>1. PICK c \in Conn : Dials(c) /\ conns' = Append(conns, c) BY <2>3
    <3>2. conns' \in Seq(Conn) /\ Len(conns') <= MaxSize
      BY <2>1, <3>1, RangeAppend, SizeAssumption DEF PoolOK
    <3> QED BY <1>1, <1>2, <2>1, <2>3, <3>1, <3>2 DEF WarmUp, PoolOK, Dials
  <2> QED BY <1>2, <2>2, <2>3 DEF WarmUp
<1>3. CASE Start \/ CloseStart
  BY <1>1, <1>3 DEF Start, CloseStart, PoolOK
<1>4. CASE CloseEnd
  BY <1>1, <1>4, RangeEmpty, SizeAssumption DEF CloseEnd, PoolOK
<1> QED BY <1>2, <1>3, <1>4 DEF Construct, Close

\* Every step keeps Phases: neither clients nor the cleanup act before New has
\* returned, and no client starts once Close is called.
LEMMA PhasesStep ==
  ASSUME TypeOK, Phases, [Next]_vars
  PROVE  Phases'
<1>1. CASE WarmUp
  <2>1. Len(conns) \in Nat /\ turns \in Nat /\ Len(conns) <= turns /\ turns' = turns + 1
    BY <1>1, LenProperties, SizeAssumption DEF WarmUp, Phases, TypeOK, PoolOK
  <2>2. Len(conns') <= Len(conns) + 1 /\ Len(conns') \in Nat
    BY <1>1, <2>1, RangeAppend DEF WarmUp, TypeOK, PoolOK
  <2> QED BY <1>1, <2>1, <2>2 DEF WarmUp, Phases, AllOut, clientVars, cleanupVars
<1>2. CASE Start \/ Close
  BY <1>2 DEF Start, Close, CloseStart, CloseEnd, Phases, AllOut, clientVars, cleanupVars
<1>3. CASE Clean
  <2>1. phase \notin {"new", "closed"}
    BY <1>3 DEF Phases, Clean, CleanStart, CleanTakes, CleanIdle, CleanUnhealthy, CleanHealthy,
                CleanPutsBack, CleanScanned, CleanRefills, CleanEnd, CleanExit
  <2>2. phase' = phase /\ pc' = pc
    BY <1>3 DEF Clean, CleanStart, CleanTakes, CleanIdle, CleanUnhealthy, CleanHealthy, clientVars,
                CleanPutsBack, CleanScanned, CleanRefills, CleanEnd, CleanExit
  <2> QED BY <2>1, <2>2 DEF Phases, AllOut
<1>4. ASSUME NEW u \in Clients, Step(u) PROVE Phases'
  <2>1. phase = "open" /\ phase' = phase
    BY <1>4 DEF Phases, AllOut, Step, GetStart, Get, GetReceives, GetHealthy, GetUnhealthy,
                GetDrops, GetRedials, GetCounts, GetEmpty, GetLocked, GetTimesOut, Put, PutReturns,
                PutCloses, PutDrops
  <2> QED BY <2>1 DEF Phases
<1>5. CASE UNCHANGED vars
  BY <1>5 DEF vars, Phases, AllOut, clientVars, cleanupVars
<1> QED BY <1>1, <1>2, <1>3, <1>4, <1>5 DEF Next, Construct, Finished, Step

\* No step breaks the types.
LEMMA TypeStep ==
  ASSUME TypeOK, Phases, [Next]_vars
  PROVE  TypeOK'
<1>1. CASE UNCHANGED vars
  BY <1>1 DEF vars, TypeOK, PoolOK, ClientsOK, CleanupOK, clientVars, cleanupVars
<1> QED BY <1>1, ClientTypes, CleanTypes, LifeTypes DEF Next, Finished, Step

-----------------------------------------------------------------------------
(* Ownership                                                               *)

\* The connections of the clients.
Lent == Range(held) \ {NoConn}

\* A connection that a client holds is lent; an open connection is in the
\* channel, lent or with the cleanup.
LEMMA Owned ==
  ASSUME TypeOK, OneOwner
  PROVE  /\ Handed = Lent \cup ({mine} \ {NoConn}) /\ NoConn \notin Lent /\ Lent \subseteq Conn
         /\ mine \notin Lent /\ Range(conns) \subseteq Conn /\ NoConn \notin Conn
         /\ \A u \in Clients : held[u] # NoConn => held[u] \in Lent /\ held[u] \in open
<1>1. held \in [Clients -> Conn \cup {NoConn}] BY DEF TypeOK, ClientsOK
<1>2. \A u \in Clients : held[u] \in Range(held) BY <1>1 DEF Range
<1>3. Range(held) \subseteq Conn \cup {NoConn} BY <1>1 DEF Range
<1>4. Range(conns) \subseteq Conn BY RangeOf DEF TypeOK, PoolOK
<1> QED BY <1>2, <1>3, <1>4, ClientsAssumption DEF Handed, Lent, OneOwner

\* The connections of the clients, after u exchanged the one it holds for x.
LEMMA LentAfter ==
  ASSUME TypeOK, OneOwner, NEW u \in Clients, NEW x \in Conn \cup {NoConn}, Has(u, x),
         x \notin Lent
  PROVE  /\ Lent' = (Lent \ {held[u]}) \cup ({x} \ {NoConn})
         /\ \A v, w \in Clients : held'[v] = held'[w] /\ held'[v] # NoConn => v = w
<1>1. held \in [Clients -> Conn \cup {NoConn}] /\ held' = [held EXCEPT ![u] = x]
  BY DEF TypeOK, ClientsOK, Has
<1>2. \A v \in Clients : held[v] # NoConn => held[v] \in Lent
  BY <1>1 DEF Lent, Range
<1>3. \A v, w \in Clients : held[v] = held[w] /\ held[v] # NoConn => v = w
  BY DEF OneOwner
<1>4. Lent' \subseteq (Lent \ {held[u]}) \cup ({x} \ {NoConn})
  <2>1. ASSUME NEW c \in Lent' PROVE c \in (Lent \ {held[u]}) \cup ({x} \ {NoConn})
    <3>1. PICK v \in Clients : held'[v] = c /\ c # NoConn BY <1>1, <2>1 DEF Lent, Range
    <3>2. CASE v = u BY <1>1, <3>1, <3>2
    <3>3. CASE v # u BY <1>1, <1>2, <1>3, <3>1, <3>3
    <3> QED BY <3>2, <3>3
  <2> QED BY <2>1
<1>5. (Lent \ {held[u]}) \cup ({x} \ {NoConn}) \subseteq Lent'
  <2>1. ASSUME NEW c \in Lent \ {held[u]} PROVE c \in Lent'
    <3>1. PICK v \in Clients : held[v] = c /\ c # NoConn BY <1>1, <2>1 DEF Lent, Range
    <3>2. held'[v] = c BY <1>1, <2>1, <3>1
    <3> QED BY <1>1, <3>1, <3>2 DEF Lent, Range
  <2>2. x # NoConn => x \in Lent' BY <1>1 DEF Lent, Range
  <2> QED BY <2>1, <2>2
<1>6. \A v, w \in Clients : held'[v] = held'[w] /\ held'[v] # NoConn => v = w
  BY <1>1, <1>2, <1>3
<1> QED BY <1>4, <1>5, <1>6

\* A step of a client keeps OneOwner: it takes the head of the channel, gives
\* up what it holds, opens what it then holds, or does neither.
LEMMA ClientOwner ==
  ASSUME TypeOK, OneOwner, NEW u \in Clients, Step(u)
  PROVE  OneOwner'
<1>0. /\ conns \in Seq(Conn) /\ held[u] \in Conn \cup {NoConn} /\ (held[u] # NoConn <=> pc[u] \in Held)
      /\ mine \in Conn \cup {NoConn} /\ mine' = mine
  BY DEF TypeOK, PoolOK, ClientsOK, CleanupOK, cleanupVars, Step, GetStart, Get, GetReceives,
         GetHealthy, GetUnhealthy, GetDrops, GetRedials, GetCounts, GetEmpty, GetLocked, GetTimesOut,
         Put, PutReturns, PutCloses, PutDrops
<1>00. /\ open = Range(conns) \cup Lent \cup ({mine} \ {NoConn}) /\ Range(conns) \cap Lent = {}
       /\ mine \notin Range(conns) /\ IsInjective(conns)
  BY <1>0, Owned, ClientsAssumption DEF OneOwner
<1>1. CASE GetReceives(u)
  <2>1. conns # <<>> /\ conns' = Tail(conns) /\ Has(u, Head(conns)) /\ open' = open /\ held[u] = NoConn
    BY <1>0, <1>1 DEF GetReceives, Held
  <2>2. /\ Head(conns) \in Conn /\ Range(conns) = Range(Tail(conns)) \cup {Head(conns)}
        /\ IsInjective(Tail(conns)) /\ Head(conns) \notin Range(Tail(conns))
    BY <1>0, <1>00, <2>1, RangeTail
  <2>3. Head(conns) \notin Lent /\ Head(conns) # NoConn BY <1>00, <2>2, Owned
  <2>4. /\ Lent' = Lent \cup {Head(conns)}
        /\ \A v, w \in Clients : held'[v] = held'[w] /\ held'[v] # NoConn => v = w
    BY <2>1, <2>2, <2>3, LentAfter, Owned
  <2>5. open' = Range(conns') \cup Lent' \cup ({mine'} \ {NoConn})
    BY <1>0, <1>00, <2>1, <2>2, <2>4
  <2>6. /\ NoConn \notin Range(conns') /\ IsInjective(conns') /\ Range(conns') \cap Lent' = {}
        /\ mine' \notin Range(conns') /\ mine' \notin Lent'
    BY <1>0, <1>00, <2>1, <2>2, <2>4, Owned
  <2> QED BY <2>4, <2>5, <2>6 DEF OneOwner, Handed, Lent
<1>2. CASE GetUnhealthy(u) \/ PutCloses(u)
  <2>1. Has(u, NoConn) /\ held[u] # NoConn /\ open' = open \ {held[u]} /\ conns' = conns
    BY <1>0, <1>2 DEF GetUnhealthy, PutCloses, Closes, Held
  <2>2. /\ Lent' = Lent \ {held[u]} /\ held[u] \in Lent
        /\ \A v, w \in Clients : held'[v] = held'[w] /\ held'[v] # NoConn => v = w
    BY <2>1, LentAfter, Owned
  <2>3. held[u] # mine /\ held[u] \notin Range(conns) BY <1>00, <2>2, Owned
  <2>4. open' = Range(conns') \cup Lent' \cup ({mine'} \ {NoConn})
    BY <1>0, <1>00, <2>1, <2>2, <2>3
  <2> QED BY <1>0, <1>00, <2>1, <2>2, <2>4, Owned DEF OneOwner, Handed, Lent
<1>3. CASE PutReturns(u)
  <2>1. Has(u, NoConn) /\ held[u] # NoConn /\ open' = open /\ conns' = Append(conns, held[u])
    BY <1>0, <1>3 DEF PutReturns, Held
  <2>2. /\ Lent' = Lent \ {held[u]} /\ held[u] \in Lent
        /\ \A v, w \in Clients : held'[v] = held'[w] /\ held'[v] # NoConn => v = w
    BY <2>1, LentAfter, Owned
  <2>3. Range(conns') = Range(conns) \cup {held[u]} /\ IsInjective(conns')
    BY <1>0, <1>00, <2>1, <2>2, RangeAppend
  <2>4. open' = Range(conns') \cup Lent' \cup ({mine'} \ {NoConn})
    BY <1>0, <1>00, <2>1, <2>2, <2>3
  <2>5. /\ NoConn \notin Range(conns') /\ Range(conns') \cap Lent' = {}
        /\ mine' \notin Range(conns') /\ mine' \notin Lent'
    BY <1>0, <1>00, <2>1, <2>2, <2>3, Owned
  <2> QED BY <2>2, <2>3, <2>4, <2>5 DEF OneOwner, Handed, Lent
<1>4. CASE (GetRedials(u) \/ GetLocked(u)) /\ \E c \in Conn : Dials(c) /\ Has(u, c)
  <2>1. PICK c \in Conn : Dials(c) /\ Has(u, c) BY <1>4
  <2>2. c \notin open /\ open' = open \cup {c} /\ conns' = conns /\ held[u] = NoConn
    BY <1>0, <1>4, <2>1 DEF GetRedials, GetLocked, Dials, Held
  <2>3. c \notin Lent /\ c \notin Range(conns) /\ c # mine /\ c # NoConn
    BY <1>0, <1>00, <2>2, ClientsAssumption
  <2>4. /\ Lent' = Lent \cup {c}
        /\ \A v, w \in Clients : held'[v] = held'[w] /\ held'[v] # NoConn => v = w
    BY <2>1, <2>2, <2>3, LentAfter, Owned
  <2>5. open' = Range(conns') \cup Lent' \cup ({mine'} \ {NoConn})
    BY <1>0, <1>00, <2>2, <2>4
  <2> QED BY <1>0, <1>00, <2>2, <2>3, <2>4, <2>5, Owned DEF OneOwner, Handed, Lent
<1>5. CASE UNCHANGED <<open, conns, held>>
  BY <1>0, <1>5 DEF OneOwner, Handed
<1> QED BY <1>1, <1>2, <1>3, <1>4, <1>5
        DEF Step, GetStart, Get, GetHealthy, GetDrops, GetRedials, GetCounts, GetEmpty, GetLocked,
            GetTimesOut, Put, PutDrops

\* A step of the cleanup keeps OneOwner: it takes a connection, closes it or
\* puts it back, or fills the channel with a new one.
LEMMA CleanOwner ==
  ASSUME TypeOK, OneOwner, Clean
  PROVE  OneOwner'
<1>0. /\ conns \in Seq(Conn) /\ mine \in Conn \cup {NoConn} /\ (mine # NoConn <=> cpc \in {"mine", "back"})
      /\ held' = held
  BY DEF TypeOK, PoolOK, CleanupOK, clientVars, cleanupVars, Clean, CleanStart, CleanTakes, CleanIdle,
         CleanUnhealthy, CleanHealthy, CleanPutsBack, CleanScanned, CleanRefills, CleanEnd, CleanExit
<1>00. /\ open = Range(conns) \cup Lent \cup ({mine} \ {NoConn}) /\ Range(conns) \cap Lent = {}
       /\ mine \notin Range(conns) /\ IsInjective(conns)
       /\ Lent' = Lent /\ \A v, w \in Clients : held'[v] = held'[w] /\ held'[v] # NoConn => v = w
  BY <1>0, Owned, ClientsAssumption DEF OneOwner, Lent
<1>1. CASE CleanTakes /\ conns # <<>>
  <2>1. conns' = Tail(conns) /\ mine' = Head(conns) /\ open' = open /\ mine = NoConn
    BY <1>0, <1>1 DEF CleanTakes
  <2>2. /\ Head(conns) \in Conn /\ Range(conns) = Range(Tail(conns)) \cup {Head(conns)}
        /\ IsInjective(Tail(conns)) /\ Head(conns) \notin Range(Tail(conns))
    BY <1>0, <1>00, <1>1, RangeTail
  <2>3. open' = Range(conns') \cup Lent' \cup ({mine'} \ {NoConn})
    BY <1>00, <2>1, <2>2, ClientsAssumption
  <2> QED BY <1>00, <2>1, <2>2, <2>3, Owned DEF OneOwner, Handed, Lent
<1>2. CASE CleanIdle \/ CleanUnhealthy
  <2>1. mine # NoConn /\ mine' = NoConn /\ open' = open \ {mine} /\ conns' = conns
    BY <1>0, <1>2 DEF CleanIdle, CleanUnhealthy, Closes
  <2>2. open' = Range(conns') \cup Lent' \cup ({mine'} \ {NoConn})
    BY <1>00, <2>1, Owned
  <2> QED BY <1>00, <2>1, <2>2, Owned DEF OneOwner, Handed, Lent
<1>3. CASE CleanPutsBack
  <2>1. mine \in Conn /\ mine' = NoConn /\ conns' = Append(conns, mine) /\ open' = open
    BY <1>0, <1>3 DEF CleanPutsBack
  <2>2. Range(conns') = Range(conns) \cup {mine} /\ IsInjective(conns')
    BY <1>0, <1>00, <2>1, RangeAppend
  <2>3. open' = Range(conns') \cup Lent' \cup ({mine'} \ {NoConn})
    BY <1>00, <2>1, <2>2, ClientsAssumption
  <2> QED BY <1>00, <2>1, <2>2, <2>3, Owned DEF OneOwner, Handed, Lent
<1>4. CASE CleanRefills
  <2>1. PICK c \in Conn : Dials(c) /\ conns' = Append(conns, c) BY <1>4 DEF CleanRefills
  <2>2. c \notin open /\ open' = open \cup {c} /\ mine' = mine /\ mine = NoConn
    BY <1>0, <1>4, <2>1 DEF CleanRefills, Dials, cleanupVars
  <2>3. c \notin Range(conns) /\ c \notin Lent BY <1>00, <2>2
  <2>4. Range(conns') = Range(conns) \cup {c} /\ IsInjective(conns')
    BY <1>0, <1>00, <2>1, <2>3, RangeAppend
  <2>5. open' = Range(conns') \cup Lent' \cup ({mine'} \ {NoConn}) BY <1>00, <2>2, <2>4
  <2> QED BY <1>00, <2>2, <2>3, <2>4, <2>5, Owned DEF OneOwner, Handed, Lent
<1>5. CASE UNCHANGED <<open, conns, mine>>
  BY <1>0, <1>5 DEF OneOwner, Handed
<1> QED BY <1>1, <1>2, <1>3, <1>4, <1>5
        DEF Clean, CleanStart, CleanTakes, CleanHealthy, CleanScanned, CleanEnd, CleanExit

\* A step of New or Close keeps OneOwner.
LEMMA LifeOwner ==
  ASSUME TypeOK, OneOwner, Construct \/ Close
  PROVE  OneOwner'
<1>0. conns \in Seq(Conn) /\ held' = held /\ mine' = mine
  BY DEF TypeOK, PoolOK, Construct, WarmUp, Start, Close, CloseStart, CloseEnd, clientVars, cleanupVars
<1>1. CASE UNCHANGED <<conns, open>>
  BY <1>0, <1>1 DEF OneOwner, Handed
<1>2. CASE \E c \in Conn : Dials(c) /\ conns' = Append(conns, c)
  <2>1. PICK c \in Conn : Dials(c) /\ conns' = Append(conns, c) BY <1>2
  <2>2. c \notin open /\ open' = open \cup {c} BY <2>1 DEF Dials
  <2>3. c \notin Range(conns) /\ c \notin Handed BY <2>2 DEF OneOwner
  <2>4. Range(conns') = Range(conns) \cup {c} /\ IsInjective(conns')
    BY <1>0, <2>1, <2>3, RangeAppend DEF OneOwner
  <2>5. Handed' = Handed BY <1>0 DEF Handed
  <2> QED BY <1>0, <2>2, <2>3, <2>4, <2>5 DEF OneOwner
<1>3. CASE CloseEnd
  <2>1. conns' = <<>> /\ open' = open \ Range(conns) /\ Handed' = Handed
    BY <1>0, <1>3 DEF CloseEnd, Handed
  <2>2. Range(conns') = {} /\ IsInjective(conns') BY <2>1, RangeEmpty
  <2> QED BY <1>0, <2>1, <2>2 DEF OneOwner
<1> QED BY <1>1, <1>2, <1>3 DEF Construct, WarmUp, Start, Close, CloseStart

\* No step breaks OneOwner.
LEMMA OwnerStep ==
  ASSUME TypeOK, OneOwner, [Next]_vars
  PROVE  OneOwner'
<1>1. CASE UNCHANGED vars
  BY <1>1 DEF vars, clientVars, cleanupVars, OneOwner, Handed
<1> QED BY <1>1, ClientOwner, CleanOwner, LifeOwner DEF Next, Finished, Step

-----------------------------------------------------------------------------
(* Counting the clients at a place                                         *)

\* The clients at some places are finitely many.
LEMMA CountedNat ==
  ASSUME NEW S
  PROVE  Counted(S) \in Nat /\ Counted(S) <= Cardinality(Clients) /\ Cardinality(Clients) \in Nat
BY ClientsAssumption, FS_Subset, FS_CardinalityType DEF Counted

\* Not all clients are at places where one of them is not.
LEMMA CountedFewer ==
  ASSUME NEW S, NEW u \in Clients, pc[u] \notin S
  PROVE  Counted(S) < Cardinality(Clients)
<1> DEFINE A == {v \in Clients : pc[v] \in S}
<1>1. A \in SUBSET Clients /\ A # Clients OBVIOUS
<1>2. Cardinality(A) <= Cardinality(Clients) /\ Cardinality(A) # Cardinality(Clients)
  BY <1>1, ClientsAssumption, FS_Subset
<1>3. Cardinality(A) \in Nat /\ Cardinality(Clients) \in Nat
  BY <1>1, ClientsAssumption, FS_Subset, FS_CardinalityType
<1> QED BY <1>2, <1>3 DEF Counted

\* When one client goes from its place to l, the counts of the places it leaves
\* and reaches change by one.
LEMMA CountedMove ==
  ASSUME ClientsOK, NEW S, NEW u \in Clients, NEW l, Goto(u, l)
  PROVE  /\ Counted(S) \in Nat /\ Counted(S)' \in Nat
         /\ (pc[u] \in S <=> l \in S) => Counted(S)' = Counted(S)
         /\ pc[u] \in S /\ l \notin S => Counted(S)' = Counted(S) - 1
         /\ pc[u] \notin S /\ l \in S => Counted(S)' = Counted(S) + 1
<1> DEFINE A == {v \in Clients : pc[v] \in S}
           B == {v \in Clients : pc'[v] \in S}
<1>1. pc'[u] = l /\ \A v \in Clients \ {u} : pc'[v] = pc[v] BY DEF Goto, ClientsOK
<1>2. IsFiniteSet(A) /\ IsFiniteSet(B) BY ClientsAssumption, FS_Subset
<1>3. Cardinality(A) \in Nat /\ Cardinality(B) \in Nat BY <1>2, FS_CardinalityType
<1>4. (pc[u] \in S <=> l \in S) => A = B BY <1>1
<1>5. ASSUME pc[u] \in S, l \notin S PROVE Cardinality(B) = Cardinality(A) - 1
  <2>1. B = A \ {u} /\ u \in A BY <1>1, <1>5
  <2> HIDE DEF A, B
  <2> QED BY <1>2, <2>1, FS_RemoveElement
<1>6. ASSUME pc[u] \notin S, l \in S PROVE Cardinality(B) = Cardinality(A) + 1
  <2>1. B = A \cup {u} /\ u \notin A BY <1>1, <1>6
  <2> HIDE DEF A, B
  <2> QED BY <1>2, <2>1, FS_AddElement
<1>7. Counted(S) = Cardinality(A) /\ Counted(S)' = Cardinality(B) BY DEF Counted
<1> HIDE DEF A, B
<1> QED BY <1>3, <1>4, <1>5, <1>6, <1>7

\* As long as no client moves, no count changes.
LEMMA CountedStays ==
  ASSUME NEW S, pc' = pc
  PROVE  Counted(S)' = Counted(S)
BY DEF Counted

\* When a connection is dialled there is one more open connection, when one is
\* closed one less.
LEMMA OpenCount ==
  ASSUME IsFiniteSet(open), NEW c
  PROVE  /\ Cardinality(open) \in Nat
         /\ Dials(c) => IsFiniteSet(open') /\ Cardinality(open') = Cardinality(open) + 1
         /\ c \in open /\ Closes(c) => IsFiniteSet(open') /\ Cardinality(open') = Cardinality(open) - 1
BY FS_AddElement, FS_RemoveElement, FS_CardinalityType DEF Dials, Closes

-----------------------------------------------------------------------------
(* Tally, Accounting and Slots                                             *)

\* The counts of clients are numbers.
Placed == Counted(Tallied) \in Nat /\ Counted(Uncounting) \in Nat /\ Counted(Uncounted) \in Nat
          /\ Counted(Replacing) \in Nat
\* What curSize differs from, in Tally and in Accounting.
Slack == Len(conns) + Counted(Tallied) + Cleaning - curSize
Drift == Cardinality(open) + Counted(Uncounting) - Counted(Uncounted) - curSize

\* Tally and Accounting in these terms.
LEMMA CountsAre ==
  ASSUME PoolOK, IsFiniteSet(open)
  PROVE  /\ Len(conns) \in Nat /\ Cardinality(open) \in Nat /\ curSize \in Int /\ Placed /\ Cleaning \in Nat
         /\ Slack \in Int /\ Drift \in Int
         /\ Tally <=> (phase # "closed" => Slack = 0)
         /\ Accounting <=> (phase # "closed" => Drift = 0)
<1>1. Len(conns) \in Nat /\ curSize \in Int BY LenProperties DEF PoolOK
<1>2. Cardinality(open) \in Nat BY FS_CardinalityType
<1>3. Placed BY CountedNat DEF Placed
<1>0. Cleaning \in Nat BY DEF Cleaning
<1>4. Slack \in Int /\ Drift \in Int BY <1>0, <1>1, <1>2, <1>3 DEF Slack, Drift, Placed
<1>5. Tally <=> (phase # "closed" => Slack = 0)
  <2>1. Slack = 0 <=> curSize = Len(conns) + Counted(Tallied) + Cleaning
    BY <1>0, <1>1, <1>3 DEF Slack, Placed
  <2> QED BY <2>1 DEF Tally
<1>6. Accounting <=> (phase # "closed" => Drift = 0)
  <2>1. Cardinality(open) \in Int /\ Counted(Uncounting) \in Int /\ Counted(Uncounted) \in Int
    BY <1>2, <1>3 DEF Placed
  <2>2. Drift = 0 <=> curSize = Cardinality(open) + Counted(Uncounting) - Counted(Uncounted)
    BY <1>1, <2>1 DEF Drift
  <2> QED BY <2>2 DEF Accounting
<1> QED BY <1>0, <1>1, <1>2, <1>3, <1>4, <1>5, <1>6

\* A step of a client changes neither Slack nor Drift, and takes no slot but
\* below MaxSize.
LEMMA ClientCounts ==
  ASSUME TypeOK, OneOwner, IsFiniteSet(open), NEW u \in Clients, Step(u)
  PROVE  /\ IsFiniteSet(open') /\ Slack' = Slack /\ Drift' = Drift
         /\ \/ curSize' + Counted(Replacing)' <= curSize + Counted(Replacing)
            \/ curSize < MaxSize /\ curSize' = curSize + 1 /\ Counted(Replacing)' < Cardinality(Clients)
<1>0. /\ Len(conns) \in Nat /\ Cardinality(open) \in Nat /\ curSize \in Int /\ Placed /\ Cleaning \in Nat
      /\ ClientsOK /\ conns \in Seq(Conn) /\ (held[u] # NoConn <=> pc[u] \in Held)
      /\ held[u] \in Conn \cup {NoConn} /\ (held[u] # NoConn => held[u] \in open)
  BY CountsAre, Owned DEF TypeOK, PoolOK, ClientsOK
<1>1. /\ Cleaning' = Cleaning
      /\ pc[u] \in GetPlaces \cup {"out", "use", "putDrop"} /\ pc'[u] \in GetPlaces \cup {"out", "use", "putDrop"}
      /\ Goto(u, pc'[u])
  BY <1>0 DEF ClientsOK, GetPlaces, cleanupVars, Cleaning, Goto, Step, GetStart, Get, GetReceives,
         GetHealthy, GetUnhealthy, GetDrops, GetRedials, GetCounts, GetEmpty, GetLocked, GetTimesOut,
         Put, PutReturns, PutCloses, PutDrops
<1>nat. Placed' BY <1>0, <1>1, CountedMove DEF Placed
<1>ints. /\ Len(conns) \in Int /\ Cardinality(open) \in Int /\ curSize \in Int
         /\ Cleaning \in Int /\ Cleaning' = Cleaning
         /\ Counted(Tallied) \in Int /\ Counted(Uncounting) \in Int
         /\ Counted(Uncounted) \in Int /\ Counted(Replacing) \in Int
  BY <1>0, <1>1 DEF Placed
<1>2. /\ (pc[u] \in Tallied <=> pc'[u] \in Tallied) => Counted(Tallied)' = Counted(Tallied)
      /\ pc[u] \in Tallied /\ pc'[u] \notin Tallied => Counted(Tallied)' = Counted(Tallied) - 1
      /\ pc[u] \notin Tallied /\ pc'[u] \in Tallied => Counted(Tallied)' = Counted(Tallied) + 1
      /\ (pc[u] \in Uncounting <=> pc'[u] \in Uncounting) => Counted(Uncounting)' = Counted(Uncounting)
      /\ pc[u] \in Uncounting /\ pc'[u] \notin Uncounting => Counted(Uncounting)' = Counted(Uncounting) - 1
      /\ pc[u] \notin Uncounting /\ pc'[u] \in Uncounting => Counted(Uncounting)' = Counted(Uncounting) + 1
  BY <1>0, <1>1, CountedMove
<1>3. /\ (pc[u] \in Uncounted <=> pc'[u] \in Uncounted) => Counted(Uncounted)' = Counted(Uncounted)
      /\ pc[u] \in Uncounted /\ pc'[u] \notin Uncounted => Counted(Uncounted)' = Counted(Uncounted) - 1
      /\ pc[u] \notin Uncounted /\ pc'[u] \in Uncounted => Counted(Uncounted)' = Counted(Uncounted) + 1
      /\ (pc[u] \in Replacing <=> pc'[u] \in Replacing) => Counted(Replacing)' = Counted(Replacing)
      /\ pc[u] \in Replacing /\ pc'[u] \notin Replacing => Counted(Replacing)' = Counted(Replacing) - 1
      /\ pc[u] \notin Replacing /\ pc'[u] \in Replacing => Counted(Replacing)' = Counted(Replacing) + 1
  BY <1>0, <1>1, CountedMove
<1>4. CASE GetReceives(u)
  <2>1. /\ pc[u] \in {"take", "wait"} /\ pc'[u] = "check" /\ Len(conns') = Len(conns) - 1
        /\ open' = open /\ curSize' = curSize
    BY <1>0, <1>4, RangeTail DEF GetReceives, Goto, ClientsOK
  <2>4. /\ Counted(Tallied)' = Counted(Tallied) + 1 /\ Counted(Uncounting)' = Counted(Uncounting)
        /\ Counted(Uncounted)' = Counted(Uncounted) /\ Counted(Replacing)' = Counted(Replacing)
    BY <1>2, <1>3, <2>1 DEF Tallied, Uncounting, Uncounted, Replacing
  <2>5. Slack' = Slack BY <1>ints, <2>1, <2>4 DEF Slack
  <2>6. Drift' = Drift BY <1>ints, <2>1, <2>4 DEF Drift
  <2> QED BY <1>0, <1>nat, <2>1, <2>4, <2>5, <2>6 DEF Placed
<1>5. CASE GetUnhealthy(u) \/ PutCloses(u)
  <2>1. /\ pc[u] \in {"check", "use"} /\ pc'[u] \in {"drop", "putDrop"} /\ conns' = conns
        /\ curSize' = curSize /\ Closes(held[u]) /\ held[u] \in open
    BY <1>0, <1>5 DEF GetUnhealthy, PutCloses, Goto, ClientsOK, Held
  <2>2. IsFiniteSet(open') /\ Cardinality(open') = Cardinality(open) - 1 BY <2>1, OpenCount
  <2>4. /\ Counted(Tallied)' = Counted(Tallied) /\ Counted(Uncounting)' = Counted(Uncounting) + 1
        /\ Counted(Uncounted)' = Counted(Uncounted) /\ Counted(Replacing)' = Counted(Replacing)
    BY <1>2, <1>3, <2>1, <2>2 DEF Tallied, Uncounting, Uncounted, Replacing
  <2>5. Slack' = Slack BY <1>ints, <2>1, <2>2, <2>4 DEF Slack
  <2>6. Drift' = Drift BY <1>ints, <2>1, <2>2, <2>4 DEF Drift
  <2> QED BY <1>0, <1>nat, <2>1, <2>2, <2>4, <2>5, <2>6 DEF Placed
<1>6. CASE GetDrops(u)
  <2>1. /\ pc[u] = "drop" /\ pc'[u] \in {"redial", "take"} /\ conns' = conns /\ open' = open
        /\ curSize' = curSize - 1
    BY <1>0, <1>6 DEF GetDrops, Goto, ClientsOK
  <2>4. /\ Counted(Tallied)' = Counted(Tallied) - 1 /\ Counted(Uncounting)' = Counted(Uncounting) - 1
        /\ Counted(Uncounted)' = Counted(Uncounted)
        /\ Counted(Replacing)' \in {Counted(Replacing), Counted(Replacing) + 1}
    BY <1>2, <1>3, <2>1 DEF Tallied, Uncounting, Uncounted, Replacing
  <2>5. Slack' = Slack BY <1>ints, <2>1, <2>4 DEF Slack
  <2>6. Drift' = Drift
    <3>1. Drift' = Cardinality(open) + Counted(Uncounting)' - Counted(Uncounted) - curSize'
      BY <2>1, <2>4 DEF Drift
    <3>2. Counted(Uncounting)' = Counted(Uncounting) - 1 /\ curSize' = curSize - 1
      BY <2>1, <2>4
    <3> QED BY <1>ints, <3>1, <3>2 DEF Drift
  <2>7. curSize' + Counted(Replacing)' <= curSize + Counted(Replacing) BY <1>ints, <2>1, <2>4
  <2> QED BY <2>1, <2>5, <2>6, <2>7
<1>7. CASE GetRedials(u) /\ \E c \in Conn : Dials(c)
  <2>0. PICK c \in Conn : Dials(c) BY <1>7
  <2>1. open' # open BY <2>0 DEF Dials
  <2>2. /\ pc[u] = "redial" /\ pc'[u] = "count" /\ conns' = conns /\ curSize' = curSize
    BY <1>0, <1>7, <2>1 DEF GetRedials, Goto, ClientsOK
  <2>3. IsFiniteSet(open') /\ Cardinality(open') = Cardinality(open) + 1 BY <2>0, OpenCount
  <2>4. /\ Counted(Tallied)' = Counted(Tallied) /\ Counted(Uncounting)' = Counted(Uncounting)
        /\ Counted(Uncounted)' = Counted(Uncounted) + 1 /\ Counted(Replacing)' = Counted(Replacing)
    BY <1>2, <1>3, <2>2, <2>3 DEF Tallied, Uncounting, Uncounted, Replacing
  <2>5. Slack' = Slack BY <1>ints, <2>2, <2>3, <2>4 DEF Slack
  <2>6. Drift' = Drift BY <1>ints, <2>2, <2>3, <2>4 DEF Drift
  <2> QED BY <1>0, <1>nat, <2>2, <2>3, <2>4, <2>5, <2>6 DEF Placed
<1>8. CASE GetRedials(u) /\ UNCHANGED open
  <2>1. /\ pc[u] = "redial" /\ pc'[u] = "take" /\ conns' = conns /\ curSize' = curSize
    BY <1>0, <1>8 DEF GetRedials, Goto, ClientsOK, Dials
  <2>4. /\ Counted(Tallied)' = Counted(Tallied) /\ Counted(Uncounting)' = Counted(Uncounting)
        /\ Counted(Uncounted)' = Counted(Uncounted) /\ Counted(Replacing)' = Counted(Replacing) - 1
    BY <1>2, <1>3, <2>1 DEF Tallied, Uncounting, Uncounted, Replacing
  <2>5. Slack' = Slack BY <1>ints, <1>8, <2>1, <2>4 DEF Slack
  <2>6. Drift' = Drift BY <1>ints, <1>8, <2>1, <2>4 DEF Drift
  <2> QED BY <1>0, <1>nat, <1>8, <2>1, <2>4, <2>5, <2>6 DEF Placed
<1>9. CASE GetCounts(u)
  <2>1. /\ pc[u] = "count" /\ pc'[u] = "use" /\ conns' = conns /\ open' = open
        /\ curSize' = curSize + 1
    BY <1>0, <1>9 DEF GetCounts, Goto, ClientsOK
  <2>4. /\ Counted(Tallied)' = Counted(Tallied) + 1 /\ Counted(Uncounting)' = Counted(Uncounting)
        /\ Counted(Uncounted)' = Counted(Uncounted) - 1 /\ Counted(Replacing)' = Counted(Replacing) - 1
    BY <1>2, <1>3, <2>1 DEF Tallied, Uncounting, Uncounted, Replacing
  <2>5. Slack' = Slack BY <1>ints, <2>1, <2>4 DEF Slack
  <2>6. Drift' = Drift
    <3>1. Drift' = Cardinality(open') + Counted(Uncounting)' - Counted(Uncounted)' - curSize'
      BY DEF Drift
    <3>2. Drift' = Cardinality(open) + Counted(Uncounting) - (Counted(Uncounted) - 1) - (curSize + 1)
      BY <2>1, <2>4, <3>1
    <3>3. Drift = Cardinality(open) + Counted(Uncounting) - Counted(Uncounted) - curSize BY DEF Drift
    <3> QED BY <1>ints, <3>2, <3>3
  <2>7. curSize' + Counted(Replacing)' <= curSize + Counted(Replacing) BY <1>ints, <2>1, <2>4
  <2> QED BY <2>1, <2>5, <2>6, <2>7
<1>10. CASE GetLocked(u) /\ curSize' = curSize + 1
  <2>0. PICK c \in Conn : Dials(c) BY <1>0, <1>10 DEF GetLocked
  <2>1. /\ pc[u] = "lock" /\ pc'[u] = "use" /\ conns' = conns /\ curSize < MaxSize
    BY <1>0, <1>10 DEF GetLocked, Goto, ClientsOK
  <2>2. IsFiniteSet(open') /\ Cardinality(open') = Cardinality(open) + 1 BY <2>0, OpenCount
  <2>3. Counted(Replacing)' = Counted(Replacing) /\ Counted(Replacing) < Cardinality(Clients)
    BY <1>3, <2>1, CountedFewer DEF Replacing, Uncounted
  <2>4. /\ Counted(Tallied)' = Counted(Tallied) + 1 /\ Counted(Uncounting)' = Counted(Uncounting)
        /\ Counted(Uncounted)' = Counted(Uncounted) /\ Counted(Replacing)' = Counted(Replacing)
    BY <1>2, <1>3, <2>1, <2>2, <2>3 DEF Tallied, Uncounting, Uncounted, Replacing
  <2>5. Slack' = Slack BY <1>ints, <1>10, <2>1, <2>2, <2>3, <2>4 DEF Slack
  <2>6. Drift' = Drift BY <1>ints, <1>10, <2>1, <2>2, <2>3, <2>4 DEF Drift
  <2> QED BY <1>0, <1>nat, <1>10, <2>1, <2>2, <2>3, <2>4, <2>5, <2>6 DEF Placed
<1>11. CASE GetLocked(u) /\ UNCHANGED curSize
  <2>1. pc[u] = "lock" /\ pc'[u] \in {"wait", "out"} /\ conns' = conns /\ open' = open
    BY <1>0, <1>11 DEF GetLocked, Goto, ClientsOK
  <2>4. /\ Counted(Tallied)' = Counted(Tallied) /\ Counted(Uncounting)' = Counted(Uncounting)
        /\ Counted(Uncounted)' = Counted(Uncounted) /\ Counted(Replacing)' = Counted(Replacing)
    BY <1>2, <1>3, <2>1 DEF Tallied, Uncounting, Uncounted, Replacing
  <2>5. Slack' = Slack BY <1>ints, <1>11, <2>1, <2>4 DEF Slack
  <2>6. Drift' = Drift BY <1>ints, <1>11, <2>1, <2>4 DEF Drift
  <2> QED BY <1>0, <1>nat, <1>11, <2>1, <2>4, <2>5, <2>6 DEF Placed
<1>12. CASE PutReturns(u)
  <2>0. held[u] \in Conn /\ pc[u] = "use" BY <1>0, <1>12 DEF PutReturns, Held
  <2>1. /\ pc'[u] = "out" /\ Len(conns') = Len(conns) + 1
        /\ open' = open /\ curSize' = curSize
    BY <1>0, <1>12, <2>0, RangeAppend DEF PutReturns, Goto, ClientsOK
  <2>4. /\ Counted(Tallied)' = Counted(Tallied) - 1 /\ Counted(Uncounting)' = Counted(Uncounting)
        /\ Counted(Uncounted)' = Counted(Uncounted) /\ Counted(Replacing)' = Counted(Replacing)
    BY <1>2, <1>3, <2>0, <2>1 DEF Tallied, Uncounting, Uncounted, Replacing
  <2>5. Slack' = Slack BY <1>ints, <2>0, <2>1, <2>4 DEF Slack
  <2>6. Drift' = Drift BY <1>ints, <2>0, <2>1, <2>4 DEF Drift
  <2> QED BY <1>0, <1>nat, <2>0, <2>1, <2>4, <2>5, <2>6 DEF Placed
<1>13. CASE PutDrops(u)
  <2>1. /\ pc[u] = "putDrop" /\ pc'[u] = "out" /\ conns' = conns /\ open' = open
        /\ curSize' = curSize - 1
    BY <1>0, <1>13 DEF PutDrops, Goto, ClientsOK
  <2>4. /\ Counted(Tallied)' = Counted(Tallied) - 1 /\ Counted(Uncounting)' = Counted(Uncounting) - 1
        /\ Counted(Uncounted)' = Counted(Uncounted) /\ Counted(Replacing)' = Counted(Replacing)
    BY <1>2, <1>3, <2>1 DEF Tallied, Uncounting, Uncounted, Replacing
  <2>5. Slack' = Slack BY <1>ints, <2>1, <2>4 DEF Slack
  <2>6. Drift' = Drift
    <3>1. Drift' = Cardinality(open) + Counted(Uncounting)' - Counted(Uncounted) - curSize'
      BY <2>1, <2>4 DEF Drift
    <3>2. Counted(Uncounting)' = Counted(Uncounting) - 1 /\ curSize' = curSize - 1
      BY <2>1, <2>4
    <3> QED BY <1>ints, <3>1, <3>2 DEF Drift
  <2> QED BY <1>0, <1>nat, <2>1, <2>4, <2>5, <2>6 DEF Placed
<1>14. CASE GetStart(u) \/ GetHealthy(u) \/ GetEmpty(u) \/ GetTimesOut(u)
  <2>1. /\ \/ pc[u] \in {"out", "take", "wait"} /\ pc'[u] \in {"take", "lock", "out"}
           \/ pc[u] = "check" /\ pc'[u] = "use"
        /\ conns' = conns /\ open' = open /\ curSize' = curSize
    BY <1>0, <1>14 DEF GetStart, GetHealthy, GetEmpty, GetTimesOut, Goto, ClientsOK
  <2>4. /\ Counted(Tallied)' = Counted(Tallied) /\ Counted(Uncounting)' = Counted(Uncounting)
        /\ Counted(Uncounted)' = Counted(Uncounted) /\ Counted(Replacing)' = Counted(Replacing)
    BY <1>2, <1>3, <2>1 DEF Tallied, Uncounting, Uncounted, Replacing
  <2>5. Slack' = Slack BY <1>ints, <2>1, <2>4 DEF Slack
  <2>6. Drift' = Drift BY <1>ints, <2>1, <2>4 DEF Drift
  <2> QED BY <1>0, <1>nat, <2>1, <2>4, <2>5, <2>6 DEF Placed
<1>15. GetRedials(u) => (\E c \in Conn : Dials(c)) \/ UNCHANGED open BY DEF GetRedials
<1>16. GetLocked(u) => curSize' = curSize + 1 \/ UNCHANGED curSize BY DEF GetLocked
<1> QED BY <1>4, <1>5, <1>6, <1>7, <1>8, <1>9, <1>10, <1>11, <1>12, <1>13, <1>14, <1>15, <1>16
        DEF Step, Get, Put

\* A step of the cleanup changes neither Slack nor Drift, and counts no
\* connection but below InitSize.
LEMMA CleanCounts ==
  ASSUME TypeOK, OneOwner, IsFiniteSet(open), Clean
  PROVE  /\ IsFiniteSet(open') /\ Slack' = Slack /\ Drift' = Drift /\ pc' = pc
         /\ curSize' <= curSize \/ (curSize < InitSize /\ curSize' = curSize + 1)
<1>0. /\ Len(conns) \in Nat /\ Cardinality(open) \in Nat /\ curSize \in Int /\ Placed /\ Cleaning \in Nat
      /\ conns \in Seq(Conn) /\ (mine # NoConn <=> cpc \in {"mine", "back"})
      /\ mine \in Conn \cup {NoConn} /\ (mine # NoConn => mine \in open)
      /\ NoConn \notin Conn
  BY CountsAre, Owned DEF TypeOK, PoolOK, CleanupOK, OneOwner
<1>1. pc' = pc
  BY DEF Clean, CleanStart, CleanTakes, CleanIdle, CleanUnhealthy, CleanHealthy, CleanPutsBack,
         CleanScanned, CleanRefills, CleanEnd, CleanExit, clientVars
<1>2. /\ Counted(Tallied)' = Counted(Tallied) /\ Counted(Uncounting)' = Counted(Uncounting)
      /\ Counted(Uncounted)' = Counted(Uncounted)
  BY <1>1, CountedStays
<1>3. CASE CleanTakes /\ conns # <<>>
  <2>1. /\ Head(conns) \in Conn /\ Len(conns') = Len(conns) - 1 /\ open' = open /\ curSize' = curSize
        /\ mine' = Head(conns) /\ mine = NoConn
    BY <1>0, <1>3, RangeTail DEF CleanTakes
  <2>2. Cleaning = 0 /\ Cleaning' = 1 BY <1>0, <2>1 DEF Cleaning
  <2>3. Slack' = Slack BY <1>0, <1>2, <2>1, <2>2 DEF Slack, Placed
  <2>4. Drift' = Drift BY <1>0, <1>2, <2>1 DEF Drift, Placed
  <2> QED BY <1>0, <1>1, <2>1, <2>3, <2>4
<1>4. CASE CleanIdle \/ CleanUnhealthy
  <2>1. conns' = conns /\ Closes(mine) /\ mine # NoConn /\ mine' = NoConn /\ curSize' = curSize - 1
    BY <1>0, <1>4 DEF CleanIdle, CleanUnhealthy
  <2>2. Cleaning = 1 /\ Cleaning' = 0 BY <2>1 DEF Cleaning
  <2>3. IsFiniteSet(open') /\ Cardinality(open') = Cardinality(open) - 1 BY <1>0, <2>1, OpenCount
  <2>4. Slack' = Slack BY <1>0, <1>2, <2>1, <2>2 DEF Slack, Placed
  <2>5. Drift' = Drift BY <1>0, <1>2, <2>1, <2>3 DEF Drift, Placed
  <2> QED BY <1>0, <1>1, <2>1, <2>3, <2>4, <2>5
<1>5. CASE CleanPutsBack
  <2>1. mine \in Conn /\ mine' = NoConn /\ open' = open /\ curSize' = curSize
    BY <1>0, <1>5 DEF CleanPutsBack
  <2>2. Len(conns') = Len(conns) + 1 BY <1>0, <1>5, <2>1, RangeAppend DEF CleanPutsBack
  <2>3. Cleaning = 1 /\ Cleaning' = 0 BY <1>0, <2>1 DEF Cleaning
  <2>4. Slack' = Slack BY <1>0, <1>2, <2>1, <2>2, <2>3 DEF Slack, Placed
  <2>5. Drift' = Drift BY <1>0, <1>2, <2>1 DEF Drift, Placed
  <2> QED BY <1>0, <1>1, <2>1, <2>4, <2>5
<1>6. CASE CleanRefills
  <2>1. PICK c \in Conn : Dials(c) /\ conns' = Append(conns, c) BY <1>6 DEF CleanRefills
  <2>2. curSize < InitSize /\ curSize' = curSize + 1 /\ Cleaning' = Cleaning
    BY <1>6 DEF CleanRefills, cleanupVars, Cleaning
  <2>3. Len(conns') = Len(conns) + 1 BY <1>0, <2>1, RangeAppend
  <2>4. IsFiniteSet(open') /\ Cardinality(open') = Cardinality(open) + 1 BY <2>1, OpenCount
  <2>5. Slack' = Slack BY <1>0, <1>2, <2>2, <2>3 DEF Slack, Placed
  <2>6. Drift' = Drift BY <1>0, <1>2, <2>2, <2>4 DEF Drift, Placed
  <2> QED BY <1>1, <2>2, <2>4, <2>5, <2>6
<1>7. CASE UNCHANGED <<conns, open, curSize, mine>>
  <2>1. Cleaning' = Cleaning BY <1>7 DEF Cleaning
  <2> QED BY <1>0, <1>1, <1>2, <1>7, <2>1 DEF Slack, Drift
<1> QED BY <1>3, <1>4, <1>5, <1>6, <1>7
        DEF Clean, CleanStart, CleanTakes, CleanHealthy, CleanScanned, CleanEnd, CleanExit

\* While all clients are out none is counted.
LEMMA NoneCounted ==
  ASSUME NEW S, "out" \notin S, AllOut
  PROVE  Counted(S) = 0
<1>1. {u \in Clients : pc[u] \in S} = {} BY DEF AllOut
<1> QED BY <1>1, FS_EmptySet DEF Counted

\* A turn of the warm-up changes neither Slack nor Drift, and finds less than
\* InitSize connections counted.
LEMMA WarmUpCounts ==
  ASSUME TypeOK, Phases, Tally, WarmUp
  PROVE  /\ IsFiniteSet(open') /\ Slack' = Slack /\ Drift' = Drift
         /\ curSize' = curSize \/ (curSize < InitSize /\ curSize' = curSize + 1)
<1>0. /\ Len(conns) \in Nat /\ Cardinality(open) \in Nat /\ curSize \in Int /\ Placed /\ Cleaning \in Nat
      /\ conns \in Seq(Conn) /\ IsFiniteSet(open)
  BY CountsAre DEF TypeOK, PoolOK, Tally
<1>1. /\ Counted(Tallied)' = Counted(Tallied) /\ Counted(Uncounting)' = Counted(Uncounting)
      /\ Counted(Uncounted)' = Counted(Uncounted) /\ Cleaning' = Cleaning
  BY CountedStays DEF WarmUp, clientVars, cleanupVars, Cleaning
<1>2. CASE UNCHANGED <<conns, open, curSize>>
  BY <1>0, <1>1, <1>2 DEF Slack, Drift
<1>3. CASE curSize' = curSize + 1 /\ \E c \in Conn : Dials(c) /\ conns' = Append(conns, c)
  <2>1. PICK c \in Conn : Dials(c) /\ conns' = Append(conns, c) BY <1>3
  <2>2. Len(conns') = Len(conns) + 1 BY <1>0, <2>1, RangeAppend
  <2>3. IsFiniteSet(open') /\ Cardinality(open') = Cardinality(open) + 1 BY <1>0, <2>1, OpenCount
  <2>4. Slack' = Slack BY <1>0, <1>1, <1>3, <2>2 DEF Slack, Placed
  <2>5. Drift' = Drift BY <1>0, <1>1, <1>3, <2>3 DEF Drift, Placed
  <2>6. phase = "new" /\ turns \in Nat /\ turns < InitSize /\ Len(conns) <= turns /\ AllOut
        /\ cpc = "sleep"
    BY SizeAssumption DEF WarmUp, Phases, TypeOK, PoolOK
  <2>7. Counted(Tallied) = 0 BY <2>6, NoneCounted DEF Tallied, Uncounting
  <2>8. Cleaning = 0 BY <2>6 DEF TypeOK, CleanupOK, Cleaning
  <2>9. curSize = Len(conns) BY <1>0, <2>6, <2>7, <2>8 DEF Tally
  <2> QED BY <1>0, <1>3, <2>3, <2>4, <2>5, <2>6, <2>9, SizeAssumption
<1> QED BY <1>2, <1>3 DEF WarmUp

\* Every step keeps Tally and Accounting, and every connection counted without
\* a slot was counted below InitSize.
LEMMA CountsStep ==
  ASSUME IInv, [Next]_vars
  PROVE  Tally' /\ Accounting' /\ Slots'
<1>0. /\ TypeOK /\ OneOwner /\ IsFiniteSet(open) /\ TypeOK' /\ Tally /\ Accounting /\ Phases /\ PoolOK'
  BY TypeStep DEF IInv, Tally, TypeOK
<1>1. /\ phase # "closed" => Slack = 0 /\ Drift = 0
      /\ curSize \in Int
  BY <1>0, CountsAre DEF TypeOK
<1>2. /\ Counted(Replacing) \in Nat /\ Counted(Replacing) <= Cardinality(Clients)
      /\ Cardinality(Clients) \in Nat /\ InitSize \in Nat /\ MaxSize \in Nat
      /\ InitSize < MaxSize => curSize + Counted(Replacing) < MaxSize + Cardinality(Clients)
  BY CountedNat, SizeAssumption DEF IInv, Slots
<1> DEFINE Same == IsFiniteSet(open') /\ Slack' = Slack /\ Drift' = Drift
           Below == \/ curSize' <= curSize /\ pc' = pc
                    \/ curSize < InitSize /\ curSize' = curSize + 1 /\ pc' = pc
                    \/ curSize' + Counted(Replacing)' <= curSize + Counted(Replacing)
                    \/ curSize < MaxSize /\ curSize' = curSize + 1
                       /\ Counted(Replacing)' < Cardinality(Clients)
<1>3. /\ Counted(Tallied)' \in Nat /\ Counted(Uncounting)' \in Nat /\ Counted(Uncounted)' \in Nat
      /\ Counted(Replacing)' \in Nat /\ curSize' \in Int /\ Len(conns') \in Nat /\ Cleaning' \in Nat
  BY <1>0, ClientsAssumption, FS_Subset, FS_CardinalityType, LenProperties DEF PoolOK, Counted, Cleaning
<1>4. (Same /\ phase # "closed") \/ (IsFiniteSet(open') /\ phase' = "closed") => Tally' /\ Accounting'
  <2>1. ASSUME phase' = "closed", IsFiniteSet(open') PROVE Tally' /\ Accounting'
    BY <2>1 DEF Tally, Accounting
  <2>2. ASSUME Same, phase # "closed" PROVE Tally' /\ Accounting'
    <3>1. Slack' = 0 /\ Drift' = 0 BY <1>0, <1>1, <2>2
    <3>2. Cardinality(open') \in Nat
      <4>1. IsFiniteSet(open') BY <2>2
      <4> QED BY <4>1, FS_CardinalityType
    <3>3. curSize' = Len(conns') + Counted(Tallied)' + Cleaning'
      <4>1. Slack' = Len(conns') + Counted(Tallied)' + Cleaning' - curSize' BY DEF Slack
      <4>2. Len(conns') \in Int /\ Counted(Tallied)' \in Int /\ Cleaning' \in Int /\ curSize' \in Int
        BY <1>3
      <4> QED BY <3>1, <4>1, <4>2
    <3>4. curSize' = Cardinality(open') + Counted(Uncounting)' - Counted(Uncounted)'
      <4>1. Drift' = Cardinality(open') + Counted(Uncounting)' - Counted(Uncounted)' - curSize'
        BY DEF Drift
      <4>2. /\ Cardinality(open') \in Int /\ Counted(Uncounting)' \in Int
            /\ Counted(Uncounted)' \in Int /\ curSize' \in Int
        BY <1>3, <3>2
      <4> QED BY <3>1, <4>1, <4>2
    <3> QED BY <2>2, <3>3, <3>4 DEF Tally, Accounting
  <2> QED BY <2>1, <2>2
<1>5. pc' = pc => Counted(Replacing)' = Counted(Replacing)
  BY CountedStays
<1>6. Below => Slots'
  <2> SUFFICES ASSUME Below, InitSize < MaxSize
               PROVE  curSize' + Counted(Replacing)' < MaxSize + Cardinality(Clients)
    BY DEF Slots
  <2>0. curSize + Counted(Replacing) < MaxSize + Cardinality(Clients) BY <1>2
  <2>ints. /\ Counted(Replacing) \in Int /\ Counted(Replacing)' \in Int
           /\ curSize \in Int /\ curSize' \in Int
           /\ Cardinality(Clients) \in Int /\ InitSize \in Int /\ MaxSize \in Int
    BY <1>1, <1>2, <1>3
  <2>1. CASE curSize' <= curSize /\ pc' = pc BY <1>5, <2>0, <2>1, <2>ints
  <2>2. CASE curSize < InitSize /\ curSize' = curSize + 1 /\ pc' = pc
    <3>1. Counted(Replacing)' = Counted(Replacing) /\ Counted(Replacing) <= Cardinality(Clients)
      BY <1>2, <1>5, <2>2
    <3> QED BY <2>2, <2>ints, <3>1
  <2>3. CASE curSize' + Counted(Replacing)' <= curSize + Counted(Replacing) BY <2>0, <2>3, <2>ints
  <2>4. CASE curSize < MaxSize /\ curSize' = curSize + 1 /\ Counted(Replacing)' < Cardinality(Clients)
    BY <2>4, <2>ints
  <2> QED BY <2>1, <2>2, <2>3, <2>4
<1>7. ASSUME NEW u \in Clients, Step(u) PROVE Same /\ phase # "closed" /\ Below
  <2>1. Same BY <1>0, <1>7, ClientCounts
  <2>2. Below BY <1>0, <1>7, ClientCounts
  <2>3. phase # "closed"
    BY <1>0, <1>7
    DEF Phases, AllOut, Step, GetStart, Get, GetReceives, GetHealthy, GetUnhealthy, GetDrops,
        GetRedials, GetCounts, GetEmpty, GetLocked, GetTimesOut, Put, PutReturns, PutCloses, PutDrops
  <2> QED BY <2>1, <2>2, <2>3
<1>8. CASE Clean
  <2>1. Same /\ Below BY <1>0, <1>8, CleanCounts
  <2>2. phase # "closed"
    BY <1>0, <1>8 DEF Phases, Clean, CleanStart, CleanTakes, CleanIdle, CleanUnhealthy, CleanHealthy,
                      CleanPutsBack, CleanScanned, CleanRefills, CleanEnd, CleanExit
  <2> QED BY <1>4, <1>6, <2>1, <2>2
<1>9. CASE WarmUp
  <2>1. phase # "closed" /\ pc' = pc BY <1>9 DEF WarmUp, clientVars
  <2>2. Same /\ Below BY <1>0, <1>1, <1>9, <2>1, WarmUpCounts
  <2> QED BY <1>4, <1>6, <2>1, <2>2
<1>10. CASE CloseEnd
  <2>1. IsFiniteSet(open') BY <1>0, <1>10, FS_Subset DEF CloseEnd
  <2>2. Counted(Replacing) = 0
    BY <1>0, <1>10, NoneCounted DEF CloseEnd, Phases, Replacing, Uncounted
  <2>3. Slots'
    <3>1. curSize' = 0 /\ pc' = pc BY <1>10 DEF CloseEnd, clientVars
    <3>2. Cardinality(Clients) \in Nat /\ MaxSize \in Nat \ {0} BY <1>2, SizeAssumption
    <3> QED BY <1>5, <2>2, <3>1, <3>2 DEF Slots
  <2> QED BY <1>4, <1>10, <2>1, <2>3 DEF CloseEnd
<1>11. CASE Start \/ CloseStart \/ UNCHANGED vars
  <2>1. /\ UNCHANGED <<conns, open, curSize, pc, mine>>
        /\ phase' # "closed" => phase # "closed"
    BY <1>11 DEF Start, CloseStart, vars, clientVars, cleanupVars
  <2>2. /\ Counted(Tallied)' = Counted(Tallied) /\ Counted(Uncounting)' = Counted(Uncounting)
        /\ Counted(Uncounted)' = Counted(Uncounted) /\ Cleaning' = Cleaning
    BY <2>1, CountedStays DEF Cleaning
  <2>3. Same BY <1>0, <2>1, <2>2 DEF Slack, Drift
  <2>4. Below BY <1>1, <2>1
  <2>5. Tally' /\ Accounting'
    BY <1>0, <2>1, <2>2 DEF Tally, Accounting
  <2> QED BY <1>6, <2>4, <2>5
<1> QED BY <1>4, <1>6, <1>7, <1>8, <1>9, <1>10, <1>11 DEF Next, Construct, Close, Finished, Step

-----------------------------------------------------------------------------
(* The inductive invariant and the theorems                                *)

\* The pool starts empty.
LEMMA IInvInit == Init => IInv
<1> SUFFICES ASSUME Init PROVE IInv OBVIOUS
<1>1. TypeOK
  <2>1. PoolOK BY RangeEmpty, SizeAssumption DEF Init, PoolOK
  <2>2. ClientsOK BY DEF Init, ClientsOK, Held, maxRetries
  <2>3. CleanupOK
    <3>1. left \in 0..MaxSize BY SizeAssumption DEF Init
    <3>2. bad \in BOOLEAN BY DEF Init
    <3> QED BY <3>1, <3>2 DEF Init, CleanupOK
  <2> QED BY <2>1, <2>2, <2>3 DEF TypeOK
<1>2. OneOwner
  <2>1. Handed = {} /\ \A u \in Clients : held[u] = NoConn BY DEF Init, Handed, Range
  <2> QED BY <2>1, RangeEmpty DEF Init, OneOwner
<1>3. Phases BY RangeEmpty DEF Init, Phases, AllOut
<1>4. IsFiniteSet(open) /\ Cardinality(open) = 0 BY FS_EmptySet DEF Init
<1>5. Counted(Tallied) = 0 /\ Counted(Uncounting) = 0 /\ Counted(Uncounted) = 0 /\ Counted(Replacing) = 0
  <2>1. AllOut BY DEF Init, AllOut
  <2> QED BY <2>1, NoneCounted DEF Tallied, Uncounting, Uncounted, Replacing
<1>6. Tally /\ Accounting
  <2>1. Cleaning = 0 /\ Len(conns) = 0 /\ curSize = 0 BY RangeEmpty DEF Init, Cleaning
  <2> QED BY <1>4, <1>5, <2>1 DEF Tally, Accounting
<1>7. Slots
  <2>1. Cardinality(Clients) \in Nat /\ MaxSize \in Nat \ {0}
    BY ClientsAssumption, FS_CardinalityType, SizeAssumption
  <2> QED BY <1>5, <2>1 DEF Init, Slots
<1> QED BY <1>1, <1>2, <1>3, <1>6, <1>7 DEF IInv

\* Every step keeps the invariant.
LEMMA IInvStep == IInv /\ [Next]_vars => IInv'
<1> SUFFICES ASSUME IInv, [Next]_vars PROVE IInv' OBVIOUS
<1>1. TypeOK' /\ Phases' BY TypeStep, PhasesStep DEF IInv
<1>2. OneOwner' BY OwnerStep DEF IInv
<1>3. Tally' /\ Accounting' /\ Slots' BY CountsStep
<1> QED BY <1>1, <1>2, <1>3 DEF IInv

\* The inductive invariant holds in every reachable state.
THEOREM PoolInvariant == Spec => []IInv
BY IInvInit, IInvStep, PTL DEF Spec

\* A client has a connection exactly while it checks, counts or uses one, the
\* cleanup while it looks at one, and the channel never overflows.
THEOREM TypeCorrect == Spec => []TypeOK
BY PoolInvariant, PTL DEF IInv

\* No connection is used by two clients, closed under its user, or forgotten,
\* whatever the replacements, the cleanup and Close do meanwhile.
THEOREM OneOwnerAlways == Spec => []OneOwner
BY PoolInvariant, PTL DEF IInv

\* curSize, which is changed apart from the dialling and closing it counts, is
\* exact but for the clients that are between the two.
THEOREM AccountingExact == Spec => []Accounting
BY PoolInvariant, PTL DEF IInv

\* The cleanup, which sends to the channel with the mutex held, finds it full
\* only if replacements have opened more than MaxSize connections.
THEOREM BlocksRarely == Spec => []BlocksOnlyOversubscribed
<1>1. IInv => BlocksOnlyOversubscribed
  <2> SUFFICES ASSUME IInv PROVE BlocksOnlyOversubscribed OBVIOUS
  <2>1. /\ Len(conns) \in Nat /\ curSize \in Int /\ Placed /\ MaxSize \in Nat /\ InitSize \in Nat
        /\ InitSize <= MaxSize
    BY CountsAre, SizeAssumption DEF IInv, TypeOK, Tally
  <2>2. ASSUME cpc \in {"back", "refill"}
        PROVE  curSize = Len(conns) + Counted(Tallied) + Cleaning
    BY <2>2 DEF IInv, Phases, Tally
  <2>3. ASSUME cpc = "back", ~Room PROVE curSize > MaxSize
    <3>1. Cleaning = 1 BY <2>3 DEF IInv, TypeOK, CleanupOK, Cleaning
    <3>2. Len(conns) >= MaxSize BY <2>1, <2>3 DEF Room
    <3> QED BY <2>1, <2>2, <2>3, <3>1, <3>2 DEF Placed
  <2>4. ASSUME cpc = "refill", curSize < InitSize PROVE Room
    <3>1. Cleaning \in Nat BY DEF Cleaning
    <3>2. Len(conns) <= curSize BY <2>1, <2>2, <2>4, <3>1 DEF Placed
    <3> QED BY <2>1, <2>4, <3>2 DEF Room
  <2> QED BY <2>3, <2>4 DEF BlocksOnlyOversubscribed
<1> QED BY <1>1, PoolInvariant, PTL

\* With n clients fewer than MaxSize + n connections are open, however many of
\* them find their connection unhealthy and replace it.
THEOREM OversubscriptionBounded == Spec => []Oversubscription
<1>1. IInv => Oversubscription
  <2> SUFFICES ASSUME IInv, InitSize < MaxSize
               PROVE  Cardinality(open) < MaxSize + Cardinality(Clients)
    BY DEF Oversubscription
  <2>1. /\ Cardinality(open) \in Nat /\ curSize \in Int /\ Placed /\ MaxSize \in Nat
        /\ Cardinality(Clients) \in Nat /\ IsFiniteSet(open)
    BY CountsAre, SizeAssumption, ClientsAssumption, FS_CardinalityType DEF IInv, TypeOK, Tally
  <2>2. CASE phase = "closed"
    <3>1. conns = <<>> /\ cpc = "exited" /\ \A u \in Clients : pc[u] = "out"
      BY <2>2 DEF IInv, Phases, AllOut
    <3>2. Handed = {}
      BY <3>1 DEF IInv, TypeOK, ClientsOK, CleanupOK, Held, Handed, Range
    <3>3. open = {} BY <3>1, <3>2, RangeEmpty DEF IInv, OneOwner
    <3>4. Cardinality(open) = 0 /\ Cardinality(Clients) # 0
      BY <3>3, FS_EmptySet, ClientsAssumption
    <3> QED BY <2>1, <3>4
  <2>3. CASE phase # "closed"
    <3>1. curSize = Cardinality(open) + Counted(Uncounting) - Counted(Uncounted)
      BY <2>3 DEF IInv, Accounting
    <3>2. curSize + Counted(Replacing) < MaxSize + Cardinality(Clients) BY DEF IInv, Slots
    <3>3. Counted(Uncounted) <= Counted(Replacing)
      <4>1. {u \in Clients : pc[u] \in Uncounted} \in SUBSET {u \in Clients : pc[u] \in Replacing}
        BY DEF Replacing
      <4>2. IsFiniteSet({u \in Clients : pc[u] \in Replacing}) BY ClientsAssumption, FS_Subset
      <4> QED BY <4>1, <4>2, FS_Subset DEF Counted
    <3> QED BY <2>1, <3>1, <3>2, <3>3 DEF Placed
  <2> QED BY <2>2, <2>3
<1> QED BY <1>1, PoolInvariant, PTL

-----------------------------------------------------------------------------
(* The pool implements ConnLease.                                          *)

\* OneOwner and the types, of any open connections S, held connections h and
\* pooled connections P.
Owning(S, h, P) ==
  /\ h \in [Clients -> Conn \cup {NoConn}] /\ S \subseteq Conn
  /\ S = P \cup (Range(h) \ {NoConn}) /\ P \cap (Range(h) \ {NoConn}) = {}
  /\ \A u, v \in Clients : h[u] = h[v] /\ h[u] # NoConn => u = v

\* The owner of a connection is determined by where the connection is.
LEMMA OwnerValue ==
  ASSUME NEW S, NEW h, NEW P, Owning(S, h, P)
  PROVE  /\ \A c \in Conn \ S : OwnerIn(S, h, P)[c] = "closed"
         /\ \A c \in P : c \in Conn /\ OwnerIn(S, h, P)[c] = "pool"
         /\ \A u \in Clients : h[u] # NoConn => h[u] \in Conn /\ OwnerIn(S, h, P)[h[u]] = u
         /\ \A u \in Clients : h[u] = NoConn => \A c \in Conn : OwnerIn(S, h, P)[c] # u
<1>1. \A u \in Clients : h[u] # NoConn => h[u] \in Conn /\ h[u] \in S /\ h[u] \notin P
  BY DEF Owning, Range
<1>2. \A c \in S : c \in P \/ \E u \in Clients : h[u] = c
  BY DEF Owning, Range
<1>3. \A c \in Conn \ S : OwnerIn(S, h, P)[c] = "closed"
  BY DEF OwnerIn
<1>4. ASSUME NEW c \in P PROVE c \in Conn /\ OwnerIn(S, h, P)[c] = "pool"
  <2>1. c \in S /\ c \in Conn /\ c # NoConn BY ClientsAssumption DEF Owning
  <2>2. ~\E u \in Clients : h[u] = c BY <1>1, <2>1
  <2> QED BY <2>1, <2>2 DEF OwnerIn
<1>5. ASSUME NEW u \in Clients, h[u] # NoConn PROVE h[u] \in Conn /\ OwnerIn(S, h, P)[h[u]] = u
  <2>1. \A v \in Clients : h[v] = h[u] => v = u BY <1>5 DEF Owning
  <2>2. (CHOOSE v \in Clients : h[v] = h[u]) = u BY <2>1
  <2> QED BY <1>1, <1>5, <2>2 DEF OwnerIn
<1>6. ASSUME NEW u \in Clients, h[u] = NoConn, NEW c \in Conn PROVE OwnerIn(S, h, P)[c] # u
  <2>1. CASE c \notin S \/ c \in P BY <1>3, <1>4, <2>1, OwnerAssumption
  <2>2. CASE c \in S /\ c \notin P
    <3>1. PICK v \in Clients : h[v] = c BY <1>2, <2>2
    <3> QED BY <1>5, <1>6, <3>1, ClientsAssumption
  <2> QED BY <2>1, <2>2
<1> QED BY <1>3, <1>4, <1>5, <1>6

\* When only the place of connection d changes, only the owner of d does.
LEMMA OwnerExcept ==
  ASSUME NEW S, NEW h, NEW P, Owning(S, h, P), NEW S2, NEW h2, NEW P2, Owning(S2, h2, P2),
         NEW d \in Conn,
         \A c \in Conn \ {d} : /\ (c \in S <=> c \in S2) /\ (c \in P <=> c \in P2)
                               /\ \A u \in Clients : h[u] = c <=> h2[u] = c
  PROVE  OwnerIn(S2, h2, P2) = [OwnerIn(S, h, P) EXCEPT ![d] = OwnerIn(S2, h2, P2)[d]]
<1>1. ASSUME NEW c \in Conn \ {d} PROVE OwnerIn(S2, h2, P2)[c] = OwnerIn(S, h, P)[c]
  <2>1. CASE c \notin S BY <1>1, <2>1, OwnerValue
  <2>2. CASE c \in P BY <1>1, <2>2, OwnerValue
  <2>3. CASE c \in S /\ c \notin P
    <3>1. PICK u \in Clients : h[u] = c BY <2>3 DEF Owning, Range
    <3>2. h2[u] = c /\ c # NoConn BY <1>1, <3>1, ClientsAssumption
    <3> QED BY <3>1, <3>2, OwnerValue
  <2> QED BY <2>1, <2>2, <2>3
<1>2. OwnerIn(S, h, P) = [c \in Conn |-> OwnerIn(S, h, P)[c]] BY DEF OwnerIn
<1>3. OwnerIn(S2, h2, P2) = [c \in Conn |-> OwnerIn(S2, h2, P2)[c]] BY DEF OwnerIn
<1> QED BY <1>1, <1>2, <1>3

\* The invariant gives Owning.
LEMMA OwningNow ==
  ASSUME TypeOK, OneOwner
  PROVE  Owning(open, held, Pooled)
BY DEF TypeOK, PoolOK, ClientsOK, OneOwner, Owning, Pooled, Handed
\* The same after the step.
LEMMA OwningNext ==
  ASSUME TypeOK', OneOwner'
  PROVE  Owning(open', held', Pooled')
BY DEF TypeOK, PoolOK, ClientsOK, OneOwner, Owning, Pooled, Handed

\* Owner as OwnerValue says, before the step.
LEMMA OwnerNow ==
  ASSUME Owning(open, held, Pooled)
  PROVE  /\ \A c \in Conn \ open : Owner[c] = "closed"
         /\ \A c \in Pooled : c \in Conn /\ Owner[c] = "pool"
         /\ \A u \in Clients : held[u] # NoConn => held[u] \in Conn /\ Owner[held[u]] = u
         /\ \A u \in Clients : held[u] = NoConn => \A c \in Conn : Owner[c] # u
<1>1. Owner = OwnerIn(open, held, Pooled) BY DEF Owner
<1> QED BY <1>1, OwnerValue
\* The same after the step.
LEMMA OwnerAfter ==
  ASSUME Owning(open', held', Pooled')
  PROVE  /\ \A c \in Conn \ open' : Owner'[c] = "closed"
         /\ \A c \in Pooled' : c \in Conn /\ Owner'[c] = "pool"
         /\ \A u \in Clients : held'[u] # NoConn => held'[u] \in Conn /\ Owner'[held'[u]] = u
<1>1. Owner' = OwnerIn(open', held', Pooled') BY DEF Owner
<1> QED BY <1>1, OwnerValue

\* A step that may change the place of connection d, and of no other.
OnlyMoves(d) ==
  \A c \in Conn \ {d} :
    /\ (c \in open <=> c \in open') /\ (c \in Pooled <=> c \in Pooled')
    /\ \A u \in Clients : held[u] = c <=> held'[u] = c
\* OwnerExcept of such a step.
LEMMA OneOwnerMoves ==
  ASSUME Owning(open, held, Pooled), Owning(open', held', Pooled'), NEW d \in Conn, OnlyMoves(d)
  PROVE  Owner' = [Owner EXCEPT ![d] = Owner'[d]]
<1>1. Owner = OwnerIn(open, held, Pooled) BY DEF Owner
<1>2. Owner' = OwnerIn(open', held', Pooled') BY DEF Owner
<1>3. OwnerIn(open', held', Pooled') =
        [OwnerIn(open, held, Pooled) EXCEPT ![d] = OwnerIn(open', held', Pooled')[d]]
  BY OwnerExcept DEF OnlyMoves
<1> QED BY <1>1, <1>2, <1>3

-----------------------------------------------------------------------------
(* One lemma for each thing that can happen to a connection.               *)

\* A step that moves no connection to or from a client leaves the owners alone.
LEMMA Kept ==
  ASSUME UNCHANGED <<open, held>>, Pooled' = Pooled
  PROVE  Owner' = Owner
BY DEF Owner

\* A client without a connection takes one from the pool.
LEMMA LentOne ==
  ASSUME IInv, IInv', NEW u \in Clients, NEW c \in Pooled, held[u] = NoConn, Has(u, c),
         open' = open, Pooled' = Pooled \ {c}
  PROVE  Lease!Lend(c, u) /\ c \in Conn
<1>1. Owning(open, held, Pooled) /\ Owning(open', held', Pooled')
  BY OwningNow, OwningNext DEF IInv
<1>2. c \in Conn /\ Owner[c] = "pool" /\ \A d \in Conn : Owner[d] # u
  BY <1>1, OwnerNow
<1>3. held'[u] = c /\ c # NoConn /\ \A v \in Clients \ {u} : held'[v] = held[v]
  BY <1>1, <1>2, ClientsAssumption DEF Has, Owning
<1>4. Owner'[c] = u BY <1>1, <1>3, OwnerAfter
<1>5. \A d \in Conn \ {c} : \A v \in Clients : held[v] = d <=> held'[v] = d
  BY <1>3, ClientsAssumption
<1>6. Owner' = [Owner EXCEPT ![c] = Owner'[c]]
  <2>1. OnlyMoves(c) BY <1>5 DEF OnlyMoves
  <2> QED BY <1>1, <1>2, <2>1, OneOwnerMoves
<1> QED BY <1>2, <1>4, <1>6 DEF Lease!Lend, Lease!Free

\* A client without a connection opens one for itself.
LEMMA DialledFor ==
  ASSUME IInv, IInv', NEW u \in Clients, NEW c \in Conn \ open, held[u] = NoConn, Has(u, c),
         open' = open \cup {c}, Pooled' = Pooled
  PROVE  Lease!DialFor(c, u)
<1>1. Owning(open, held, Pooled) /\ Owning(open', held', Pooled')
  BY OwningNow, OwningNext DEF IInv
<1>2. Owner[c] = "closed" /\ \A d \in Conn : Owner[d] # u
  BY <1>1, OwnerNow
<1>3. held'[u] = c /\ c # NoConn /\ \A v \in Clients \ {u} : held'[v] = held[v]
  BY <1>1, <1>2, ClientsAssumption DEF Has, Owning
<1>4. Owner'[c] = u BY <1>1, <1>3, OwnerAfter
<1>5. \A d \in Conn \ {c} : \A v \in Clients : held[v] = d <=> held'[v] = d
  BY <1>3, ClientsAssumption
<1>6. Owner' = [Owner EXCEPT ![c] = Owner'[c]]
  <2>1. OnlyMoves(c) BY <1>5 DEF OnlyMoves
  <2> QED BY <1>1, <1>2, <2>1, OneOwnerMoves
<1> QED BY <1>2, <1>4, <1>6 DEF Lease!DialFor, Lease!Free

\* A client gives its connection back, or closes it.
LEMMA GivenUp ==
  ASSUME IInv, IInv', NEW u \in Clients, held[u] # NoConn, Has(u, NoConn)
  PROVE  /\ held[u] \in Conn
         /\ open' = open /\ Pooled' = Pooled \cup {held[u]} => Lease!Return(held[u], u)
         /\ open' = open \ {held[u]} /\ Pooled' = Pooled => Lease!Discard(held[u], u)
<1>1. Owning(open, held, Pooled) /\ Owning(open', held', Pooled')
  BY OwningNow, OwningNext DEF IInv
<1>2. held[u] \in Conn /\ Owner[held[u]] = u
  BY <1>1, OwnerNow
<1>3. held'[u] = NoConn /\ \A v \in Clients \ {u} : held'[v] = held[v] /\ held[v] # held[u]
  BY <1>1 DEF Has, Owning
<1>4. \A d \in Conn \ {held[u]} : \A v \in Clients : held[v] = d <=> held'[v] = d
  BY <1>3, ClientsAssumption
<1>5. ASSUME open' = open, Pooled' = Pooled \cup {held[u]} PROVE Lease!Return(held[u], u)
  <2>1. Owner'[held[u]] = "pool" BY <1>1, <1>5, OwnerAfter
  <2>2. OnlyMoves(held[u]) BY <1>4, <1>5 DEF OnlyMoves
  <2>3. Owner' = [Owner EXCEPT ![held[u]] = Owner'[held[u]]]
    BY <1>1, <1>2, <2>2, OneOwnerMoves
  <2> QED BY <1>2, <2>1, <2>3 DEF Lease!Return
<1>6. ASSUME open' = open \ {held[u]}, Pooled' = Pooled PROVE Lease!Discard(held[u], u)
  <2>1. Owner'[held[u]] = "closed" BY <1>1, <1>2, <1>6, OwnerAfter
  <2>2. OnlyMoves(held[u]) BY <1>4, <1>6 DEF OnlyMoves
  <2>3. Owner' = [Owner EXCEPT ![held[u]] = Owner'[held[u]]]
    BY <1>1, <1>2, <2>2, OneOwnerMoves
  <2> QED BY <1>2, <2>1, <2>3 DEF Lease!Discard
<1> QED BY <1>2, <1>5, <1>6

\* The pool opens a connection for itself.
LEMMA Dialled ==
  ASSUME IInv, IInv', NEW c \in Conn \ open, held' = held, open' = open \cup {c},
         Pooled' = Pooled \cup {c}
  PROVE  Lease!Dial(c)
<1>1. Owning(open, held, Pooled) /\ Owning(open', held', Pooled')
  BY OwningNow, OwningNext DEF IInv
<1>2. Owner[c] = "closed" /\ Owner'[c] = "pool" BY <1>1, OwnerNow, OwnerAfter
<1>3. OnlyMoves(c) BY DEF OnlyMoves
<1>4. Owner' = [Owner EXCEPT ![c] = Owner'[c]] BY <1>1, <1>3, OneOwnerMoves
<1> QED BY <1>2, <1>4 DEF Lease!Dial

\* The pool closes some of the connections it has.
LEMMA ShutDown ==
  ASSUME IInv, IInv', NEW C \in SUBSET Pooled, held' = held, open' = open \ C,
         Pooled' = Pooled \ C
  PROVE  Lease!Shut(C) /\ C \in SUBSET Conn
<1>1. Owning(open, held, Pooled) /\ Owning(open', held', Pooled')
  BY OwningNow, OwningNext DEF IInv
<1>2. C \subseteq Conn /\ \A c \in C : Owner[c] = "pool" BY <1>1, OwnerNow
<1>3. \A c \in C : Owner'[c] = "closed" BY <1>1, <1>2, OwnerAfter
<1>4. ASSUME NEW c \in Conn \ C PROVE Owner'[c] = Owner[c]
  <2>1. CASE c \notin open BY <1>1, <1>4, <2>1, OwnerNow, OwnerAfter
  <2>2. CASE c \in Pooled BY <1>1, <1>4, <2>2, OwnerNow, OwnerAfter
  <2>3. CASE c \in open /\ c \notin Pooled
    <3>1. PICK u \in Clients : held[u] = c BY <1>1, <2>3 DEF Owning, Range
    <3>2. c # NoConn BY <1>4, ClientsAssumption
    <3> QED BY <1>1, <3>1, <3>2, OwnerNow, OwnerAfter
  <2> QED BY <2>1, <2>2, <2>3
<1>5. Owner' = [c \in Conn |-> Owner'[c]] BY DEF Owner, OwnerIn
<1>6. Owner' = [c \in Conn |-> IF c \in C THEN "closed" ELSE Owner[c]] BY <1>3, <1>4, <1>5
<1> QED BY <1>2, <1>6 DEF Lease!Shut

-----------------------------------------------------------------------------
(* The refinement                                                          *)

\* A step of a client lends, dials, returns or closes at most one connection.
LEMMA ClientLease ==
  ASSUME IInv, IInv', NEW u \in Clients, Step(u)
  PROVE  [Lease!Next]_Owner
<1>0. /\ conns \in Seq(Conn) /\ (held[u] = NoConn <=> pc[u] \notin Held) /\ held[u] \in Conn \cup {NoConn}
      /\ IsInjective(conns) /\ mine \notin Range(conns) /\ NoConn \notin Conn
      /\ Range(conns) \subseteq Conn
  BY Owned, ClientsAssumption DEF IInv, TypeOK, PoolOK, ClientsOK, OneOwner, Handed
<1>1. CASE GetReceives(u)
  <2>1. /\ conns # <<>> /\ conns' = Tail(conns) /\ Has(u, Head(conns))
        /\ open' = open /\ mine' = mine /\ held[u] = NoConn
    BY <1>0, <1>1 DEF GetReceives, cleanupVars, Held
  <2>2. /\ Range(conns) = Range(Tail(conns)) \cup {Head(conns)}
        /\ Head(conns) \notin Range(Tail(conns))
    BY <1>0, <2>1, RangeTail
  <2>3. Head(conns) \in Pooled /\ Pooled' = Pooled \ {Head(conns)}
    BY <1>0, <2>1, <2>2 DEF Pooled
  <2>4. Lease!Lend(Head(conns), u) /\ Head(conns) \in Conn BY <2>1, <2>3, LentOne
  <2> QED BY <2>4 DEF Lease!Next
<1>2. CASE GetUnhealthy(u) \/ PutCloses(u)
  <2>1. /\ held[u] # NoConn /\ Has(u, NoConn) /\ open' = open \ {held[u]} /\ Pooled' = Pooled
    BY <1>0, <1>2 DEF GetUnhealthy, PutCloses, Closes, Held, Pooled, cleanupVars
  <2>2. held[u] \in Conn /\ Lease!Discard(held[u], u) BY <2>1, GivenUp
  <2> QED BY <2>2 DEF Lease!Next
<1>3. CASE PutReturns(u)
  <2>1. /\ held[u] # NoConn /\ held[u] \in Conn /\ Has(u, NoConn) /\ open' = open
        /\ conns' = Append(conns, held[u]) /\ mine' = mine
    BY <1>0, <1>3 DEF PutReturns, Held, cleanupVars
  <2>2. Pooled' = Pooled \cup {held[u]} BY <1>0, <2>1, RangeAppend DEF Pooled
  <2>3. Lease!Return(held[u], u) BY <2>1, <2>2, GivenUp
  <2> QED BY <2>1, <2>3 DEF Lease!Next
<1>4. CASE (GetRedials(u) \/ GetLocked(u)) /\ \E c \in Conn : Dials(c) /\ Has(u, c)
  <2>1. PICK c \in Conn : Dials(c) /\ Has(u, c) BY <1>4
  <2>2. held[u] = NoConn /\ c \notin open /\ open' = open \cup {c} /\ Pooled' = Pooled
    BY <1>0, <1>4, <2>1 DEF GetRedials, GetLocked, Dials, Held, Pooled, cleanupVars
  <2>3. Lease!DialFor(c, u) BY <2>1, <2>2, DialledFor
  <2> QED BY <2>3 DEF Lease!Next
<1>5. CASE UNCHANGED <<open, conns, mine, held>>
  BY <1>5, Kept DEF Pooled
<1> QED BY <1>1, <1>2, <1>3, <1>4, <1>5
        DEF Step, GetStart, Get, GetHealthy, GetDrops, GetRedials, GetCounts, GetEmpty, GetLocked,
            GetTimesOut, Put, PutDrops, cleanupVars

\* A step of the cleanup closes or dials at most one connection; taking one out
\* of the channel and putting it back changes no owner.
LEMMA CleanLease ==
  ASSUME IInv, IInv', Clean
  PROVE  [Lease!Next]_Owner
<1>0. /\ conns \in Seq(Conn) /\ mine \in Conn \cup {NoConn}
      /\ (mine # NoConn <=> cpc \in {"mine", "back"})
      /\ IsInjective(conns) /\ mine \notin Range(conns) /\ NoConn \notin Conn /\ held' = held
  BY Owned, ClientsAssumption
  DEF IInv, TypeOK, PoolOK, CleanupOK, OneOwner, Handed, clientVars, Clean, CleanStart, CleanTakes,
      CleanIdle, CleanUnhealthy, CleanHealthy, CleanPutsBack, CleanScanned, CleanRefills, CleanEnd,
      CleanExit
<1>1. CASE CleanTakes /\ conns # <<>>
  <2>1. conns' = Tail(conns) /\ mine' = Head(conns) /\ open' = open /\ mine = NoConn
    BY <1>0, <1>1 DEF CleanTakes
  <2>2. Head(conns) \in Conn /\ Range(conns) = Range(Tail(conns)) \cup {Head(conns)}
    BY <1>0, <1>1, RangeTail
  <2>3. Pooled' = Pooled BY <1>0, <2>1, <2>2 DEF Pooled
  <2> QED BY <1>0, <2>1, <2>3, Kept
<1>2. CASE CleanIdle \/ CleanUnhealthy
  <2>1. mine # NoConn /\ mine' = NoConn /\ open' = open \ {mine} /\ conns' = conns
    BY <1>0, <1>2 DEF CleanIdle, CleanUnhealthy, Closes
  <2>2. {mine} \in SUBSET Pooled /\ Pooled' = Pooled \ {mine} BY <1>0, <2>1 DEF Pooled
  <2>3. Lease!Shut({mine}) /\ {mine} \in SUBSET Conn BY <1>0, <2>1, <2>2, ShutDown
  <2> QED BY <2>3 DEF Lease!Next
<1>3. CASE CleanPutsBack
  <2>1. mine \in Conn /\ mine' = NoConn /\ conns' = Append(conns, mine) /\ open' = open
    BY <1>0, <1>3 DEF CleanPutsBack
  <2>2. Range(conns') = Range(conns) \cup {mine} BY <1>0, <2>1, RangeAppend
  <2>3. Pooled' = Pooled BY <1>0, <2>1, <2>2 DEF Pooled
  <2> QED BY <1>0, <2>1, <2>3, Kept
<1>4. CASE CleanRefills
  <2>1. PICK c \in Conn : Dials(c) /\ conns' = Append(conns, c) BY <1>4 DEF CleanRefills
  <2>2. c \notin open /\ open' = open \cup {c} /\ mine' = mine
    BY <1>4, <2>1 DEF CleanRefills, Dials, cleanupVars
  <2>3. Pooled' = Pooled \cup {c} BY <1>0, <2>1, <2>2, RangeAppend DEF Pooled
  <2>4. Lease!Dial(c) BY <1>0, <2>2, <2>3, Dialled
  <2> QED BY <2>4 DEF Lease!Next
<1>5. CASE UNCHANGED <<open, conns, mine>>
  BY <1>0, <1>5, Kept DEF Pooled
<1> QED BY <1>1, <1>2, <1>3, <1>4, <1>5
        DEF Clean, CleanStart, CleanTakes, CleanHealthy, CleanScanned, CleanEnd, CleanExit

\* New dials one connection at a time, Close shuts all that the channel holds.
LEMMA LifeLease ==
  ASSUME IInv, IInv', Construct \/ Close
  PROVE  [Lease!Next]_Owner
<1>0. /\ conns \in Seq(Conn) /\ held' = held /\ mine' = mine /\ mine \notin Range(conns)
  BY Owned, ClientsAssumption
  DEF IInv, TypeOK, PoolOK, CleanupOK, OneOwner, Handed, Construct, WarmUp, Start, Close, CloseStart,
      CloseEnd, clientVars, cleanupVars
<1>1. CASE UNCHANGED <<conns, open>>
  BY <1>0, <1>1, Kept DEF Pooled
<1>2. CASE \E c \in Conn : Dials(c) /\ conns' = Append(conns, c)
  <2>1. PICK c \in Conn : Dials(c) /\ conns' = Append(conns, c) BY <1>2
  <2>2. c \notin open /\ open' = open \cup {c} BY <2>1 DEF Dials
  <2>3. Pooled' = Pooled \cup {c} BY <1>0, <2>1, <2>2, RangeAppend DEF Pooled
  <2>4. Lease!Dial(c) BY <1>0, <2>2, <2>3, Dialled
  <2> QED BY <2>4 DEF Lease!Next
<1>3. CASE CloseEnd
  <2>1. conns' = <<>> /\ open' = open \ Range(conns) BY <1>3 DEF CloseEnd
  <2>2. Range(conns) \in SUBSET Pooled /\ Pooled' = Pooled \ Range(conns)
    BY <1>0, <2>1, RangeEmpty DEF Pooled
  <2>3. Lease!Shut(Range(conns)) /\ Range(conns) \in SUBSET Conn BY <1>0, <2>1, <2>2, ShutDown
  <2> QED BY <2>3 DEF Lease!Next
<1> QED BY <1>1, <1>2, <1>3 DEF Construct, WarmUp, Start, Close, CloseStart

\* The client's pool implements ConnLease for every number of clients and
\* connections: it never lends a connection twice, hands one over past the pool,
\* or closes one under its client.
THEOREM PoolImplementsLease == Spec => ImplementsLease
<1>1. Init => Lease!Init
  <2> SUFFICES ASSUME Init PROVE Lease!Init OBVIOUS
  <2>1. open = {} BY DEF Init
  <2> QED BY <2>1 DEF Lease!Init, Owner, OwnerIn
<1>2. IInv /\ IInv' /\ [Next]_vars => [Lease!Next]_Owner
  <2> SUFFICES ASSUME IInv, IInv', [Next]_vars PROVE [Lease!Next]_Owner OBVIOUS
  <2>1. CASE UNCHANGED vars
    BY <2>1, Kept DEF vars, Pooled, clientVars, cleanupVars
  <2> QED BY <2>1, ClientLease, CleanLease, LifeLease DEF Next, Finished, Step
<1> QED BY <1>1, <1>2, PoolInvariant, PTL DEF Spec, ImplementsLease, Lease!Spec
=============================================================================
