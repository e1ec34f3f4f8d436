----------------------------- MODULE GrpcConnPool -----------------------------
(***************************************************************************)
(* The client library's pool of gRPC connections (client/v1/conn_pool.go): *)
(* New warms connections up, callers Get, use and Put them, a cleanup      *)
(* goroutine checks the idle ones every 30 seconds, Close stops it all.    *)
(*                                                                         *)
(* Only the cleanup holds the mutex while it waits for something else, so  *)
(* every other locked section is one action, enabled while the mutex is    *)
(* free; waiting for the mutex is not limited by any ctx or timer.  A      *)
(* connection is a model value, free to be dialled again once closed.      *)
(***************************************************************************)
EXTENDS Integers, Sequences, FiniteSets, Functions

CONSTANTS
  Clients,       \* goroutines that call the client API
  Conn,          \* connections
  NoConn,        \* no connection
  InitSize,
  MaxSize,       \* also the capacity of the channel
  HealthService, \* the server answers grpc.health.v1 (this repository's server does not)
  DialMayFail    \* grpc.Dial may fail, as it can with blocking dial options

maxRetries == 3

ASSUME ClientsAssumption == IsFiniteSet(Clients) /\ Clients # {} /\ NoConn \notin Conn
\* New rejects other sizes.
ASSUME SizeAssumption == InitSize \in Nat \ {0} /\ MaxSize \in Nat \ {0} /\ InitSize <= MaxSize
\* The values of Owner that are not clients.
ASSUME OwnerAssumption == {"pool", "closed", "forgotten"} \cap Clients = {}
ASSUME ServerAssumption == HealthService \in BOOLEAN /\ DialMayFail \in BOOLEAN

VARIABLES
  phase,   \* "new" (in New), "open", "closing" (in Close) or "closed"
  turns,   \* turns of the warm-up loop
  conns,   \* the channel p.conns
  open,    \* connections that are open
  curSize,
  pc,      \* pc[u]: where client u is in Get, in its call or in Put
  held,    \* held[u]: the connection client u has
  retries, \* retries[u]: retryCount of the Get in progress
  cpc,     \* where the cleanup is; it holds the mutex unless it sleeps or has exited
  left,    \* turns left of its scan
  mine,    \* the connection it has taken out of the channel
  bad      \* it has found an unhealthy connection in this scan

clientVars == <<pc, held, retries>>
cleanupVars == <<cpc, left, mine, bad>>
vars == <<phase, turns, conns, open, curSize, clientVars, cleanupVars>>

Init ==
  /\ phase = "new" /\ turns = 0 /\ conns = <<>> /\ open = {} /\ curSize = 0
  /\ pc = [u \in Clients |-> "out"] /\ held = [u \in Clients |-> NoConn]
  /\ retries = [u \in Clients |-> 0]
  /\ cpc = "sleep" /\ left = 0 /\ mine = NoConn /\ bad = FALSE

MuFree == cpc \in {"sleep", "exited"}
AllOut == \A u \in Clients : pc[u] = "out"
\* Mutation: off by one in the capacity of the channel.
RoomOffByOne == Len(conns) <= MaxSize
Room == Len(conns) < MaxSize
Dials(c) == c \in Conn \ open /\ open' = open \cup {c}
Closes(c) == open' = open \ {c}
Goto(u, l) == pc' = [pc EXCEPT ![u] = l]
Has(u, c) == held' = [held EXCEPT ![u] = c]
\* isHealthy may say no at any time: the connection may be down, ctx may be done.
MayBeHealthy == HealthService

-----------------------------------------------------------------------------
(* New and Close                                                           *)

\* One turn of the warm-up loop keeps a healthy connection or nothing.
WarmUp ==
  /\ phase = "new" /\ turns < InitSize /\ turns' = turns + 1
  /\ \/ /\ MayBeHealthy /\ curSize' = curSize + 1
        /\ \E c \in Conn : Dials(c) /\ conns' = Append(conns, c)
     \/ UNCHANGED <<conns, open, curSize>>
  /\ UNCHANGED <<phase, clientVars, cleanupVars>>
Start ==
  /\ phase = "new" /\ turns = InitSize /\ phase' = "open"
  /\ UNCHANGED <<turns, conns, open, curSize, clientVars, cleanupVars>>

\* close(stopCh); callers have returned their connections before (a Put after
\* Close would panic, as would a Get).
CloseStart ==
  /\ phase = "open" /\ AllOut /\ phase' = "closing"
  /\ UNCHANGED <<turns, conns, open, curSize, clientVars, cleanupVars>>
\* wg.Wait() returns when the cleanup has exited.
CloseEnd ==
  /\ phase = "closing" /\ cpc = "exited" /\ phase' = "closed"
  /\ conns' = <<>> /\ open' = open \ Range(conns) /\ curSize' = 0
  /\ UNCHANGED <<turns, clientVars, cleanupVars>>

-----------------------------------------------------------------------------
(* Get(u); the two selects treat a received connection alike.              *)

GetStart(u) ==
  /\ pc[u] = "out" /\ phase = "open" /\ Goto(u, "take") /\ retries' = [retries EXCEPT ![u] = 0]
  /\ UNCHANGED <<phase, turns, conns, open, curSize, held, cleanupVars>>

GetReceives(u) ==
  /\ pc[u] \in {"take", "wait"} /\ conns # <<>>
  /\ conns' = Tail(conns) /\ Has(u, Head(conns)) /\ Goto(u, "check")
  /\ UNCHANGED <<phase, turns, open, curSize, retries, cleanupVars>>
GetHealthy(u) ==
  /\ pc[u] = "check" /\ MayBeHealthy /\ Goto(u, "use")
  /\ UNCHANGED <<phase, turns, conns, open, curSize, held, retries, cleanupVars>>
GetUnhealthy(u) ==
  /\ pc[u] = "check" /\ Closes(held[u]) /\ Has(u, NoConn) /\ Goto(u, "drop")
  /\ UNCHANGED <<phase, turns, conns, curSize, retries, cleanupVars>>

\* Mutation: the connection that was closed stays counted.
GetDropsUncounted(u) ==
  /\ pc[u] = "drop" /\ MuFree
  /\ IF retries[u] < maxRetries
       THEN retries' = [retries EXCEPT ![u] = @ + 1] /\ Goto(u, "redial")
       ELSE Goto(u, "take") /\ UNCHANGED retries
  /\ UNCHANGED <<phase, turns, conns, open, curSize, held, cleanupVars>>
\* Uncount it, then replace it, or start over when the retries are used up.
GetDrops(u) ==
  /\ pc[u] = "drop" /\ MuFree /\ curSize' = curSize - 1
  /\ IF retries[u] < maxRetries
       THEN retries' = [retries EXCEPT ![u] = @ + 1] /\ Goto(u, "redial")
       ELSE Goto(u, "take") /\ UNCHANGED retries
  /\ UNCHANGED <<phase, turns, conns, open, held, cleanupVars>>
GetRedials(u) ==
  /\ pc[u] = "redial"
  /\ \/ (\E c \in Conn : Dials(c) /\ Has(u, c)) /\ Goto(u, "count")
     \/ DialMayFail /\ Goto(u, "take") /\ UNCHANGED <<open, held>>
  /\ UNCHANGED <<phase, turns, conns, curSize, retries, cleanupVars>>
\* Mutation: the replacement is not counted.
GetCountsNothing(u) ==
  /\ pc[u] = "count" /\ MuFree /\ Goto(u, "use")
  /\ UNCHANGED <<phase, turns, conns, open, curSize, held, retries, cleanupVars>>
\* The replacement is counted without a look at MaxSize.
GetCounts(u) ==
  /\ pc[u] = "count" /\ MuFree /\ curSize' = curSize + 1 /\ Goto(u, "use")
  /\ UNCHANGED <<phase, turns, conns, open, held, retries, cleanupVars>>

\* default: the channel is empty, Get goes for the mutex.
GetEmpty(u) ==
  /\ pc[u] = "take" /\ conns = <<>> /\ Goto(u, "lock")
  /\ UNCHANGED <<phase, turns, conns, open, curSize, held, retries, cleanupVars>>
\* Under the mutex: check the size, dial and count.
GetLocked(u) ==
  /\ pc[u] = "lock" /\ MuFree
  /\ \/ curSize >= MaxSize /\ Goto(u, "wait") /\ UNCHANGED <<open, curSize, held>>
     \/ /\ curSize < MaxSize /\ curSize' = curSize + 1 /\ Goto(u, "use")
        /\ \E c \in Conn : Dials(c) /\ Has(u, c)
     \/ curSize < MaxSize /\ DialMayFail /\ Goto(u, "out") /\ UNCHANGED <<open, curSize, held>>
  /\ UNCHANGED <<phase, turns, conns, retries, cleanupVars>>
\* ctx.Done() or the five seconds of the second select.
GetTimesOut(u) ==
  /\ pc[u] = "wait" /\ Goto(u, "out")
  /\ UNCHANGED <<phase, turns, conns, open, curSize, held, retries, cleanupVars>>

-----------------------------------------------------------------------------
(* Put(u), after the call on the connection                                *)

PutReturns(u) ==
  /\ pc[u] = "use" /\ Room
  /\ conns' = Append(conns, held[u]) /\ Has(u, NoConn) /\ Goto(u, "out")
  /\ UNCHANGED <<phase, turns, open, curSize, retries, cleanupVars>>
\* Mutation: the connection that found no room is not closed.
PutForgets(u) ==
  /\ pc[u] = "use" /\ ~Room /\ Has(u, NoConn) /\ Goto(u, "putDrop")
  /\ UNCHANGED <<phase, turns, conns, open, curSize, retries, cleanupVars>>
PutCloses(u) ==
  /\ pc[u] = "use" /\ ~Room /\ Closes(held[u]) /\ Has(u, NoConn) /\ Goto(u, "putDrop")
  /\ UNCHANGED <<phase, turns, conns, curSize, retries, cleanupVars>>
PutDrops(u) ==
  /\ pc[u] = "putDrop" /\ MuFree /\ curSize' = curSize - 1 /\ Goto(u, "out")
  /\ UNCHANGED <<phase, turns, conns, open, held, retries, cleanupVars>>

-----------------------------------------------------------------------------
(* cleanup, which holds the mutex for a whole scan                         *)

CleanStart ==
  /\ cpc = "sleep" /\ phase \in {"open", "closing"}
  /\ cpc' = "scan" /\ left' = Len(conns) /\ bad' = FALSE
  /\ UNCHANGED <<phase, turns, conns, open, curSize, clientVars, mine>>
CleanTakes ==
  /\ cpc = "scan" /\ left > 0 /\ left' = left - 1
  /\ IF conns = <<>> THEN UNCHANGED <<conns, mine, cpc>>
                     ELSE conns' = Tail(conns) /\ mine' = Head(conns) /\ cpc' = "mine"
  /\ UNCHANGED <<phase, turns, open, curSize, clientVars, bad>>
\* Idle for too long, and more than InitSize connections.
CleanIdle ==
  /\ cpc = "mine" /\ curSize > InitSize
  /\ Closes(mine) /\ mine' = NoConn /\ curSize' = curSize - 1 /\ cpc' = "scan"
  /\ UNCHANGED <<phase, turns, conns, clientVars, left, bad>>
\* Mutation: without "continue" the closed connection goes back to the channel.
CleanUnhealthyFallsThrough ==
  /\ cpc = "mine" /\ Closes(mine) /\ curSize' = curSize - 1 /\ bad' = TRUE /\ cpc' = "back"
  /\ UNCHANGED <<phase, turns, conns, clientVars, left, mine>>
CleanUnhealthy ==
  /\ cpc = "mine" /\ Closes(mine) /\ mine' = NoConn
  /\ curSize' = curSize - 1 /\ bad' = TRUE /\ cpc' = "scan"
  /\ UNCHANGED <<phase, turns, conns, clientVars, left>>
CleanHealthy ==
  /\ cpc = "mine" /\ MayBeHealthy /\ cpc' = "back"
  /\ UNCHANGED <<phase, turns, conns, open, curSize, clientVars, left, mine, bad>>
\* p.conns <- pc blocks, with the mutex held, while the channel is full.
CleanPutsBack ==
  /\ cpc = "back" /\ Room /\ conns' = Append(conns, mine) /\ mine' = NoConn /\ cpc' = "scan"
  /\ UNCHANGED <<phase, turns, open, curSize, clientVars, left, bad>>
\* Mutation: after a scan the next one starts, not the select.
CleanScannedAgain ==
  /\ cpc = "scan" /\ left = 0 /\ left' = Len(conns)
  /\ cpc' = IF bad /\ curSize < InitSize THEN "refill" ELSE "scan"
  /\ UNCHANGED <<phase, turns, conns, open, curSize, clientVars, mine, bad>>
CleanScanned ==
  /\ cpc = "scan" /\ left = 0
  /\ cpc' = IF bad /\ curSize < InitSize THEN "refill" ELSE "sleep"
  /\ UNCHANGED <<phase, turns, conns, open, curSize, clientVars, left, mine, bad>>
CleanRefills ==
  /\ cpc = "refill" /\ curSize < InitSize /\ Room /\ curSize' = curSize + 1
  /\ \E c \in Conn : Dials(c) /\ conns' = Append(conns, c)
  /\ UNCHANGED <<phase, turns, clientVars, cleanupVars>>
CleanEnd ==
  /\ cpc = "refill" /\ (curSize >= InitSize \/ DialMayFail) /\ cpc' = "sleep"
  /\ UNCHANGED <<phase, turns, conns, open, curSize, clientVars, left, mine, bad>>
CleanExit ==
  /\ cpc = "sleep" /\ phase = "closing" /\ cpc' = "exited"
  /\ UNCHANGED <<phase, turns, conns, open, curSize, clientVars, left, mine, bad>>

-----------------------------------------------------------------------------
Get(u) == \/ GetReceives(u) \/ GetHealthy(u) \/ GetUnhealthy(u) \/ GetDrops(u) \/ GetRedials(u)
          \/ GetCounts(u) \/ GetEmpty(u) \/ GetLocked(u) \/ GetTimesOut(u)
Put(u) == PutReturns(u) \/ PutCloses(u) \/ PutDrops(u)
Clean == \/ CleanStart \/ CleanTakes \/ CleanIdle \/ CleanUnhealthy \/ CleanHealthy
         \/ CleanPutsBack \/ CleanScanned \/ CleanRefills \/ CleanEnd \/ CleanExit
Construct == WarmUp \/ Start
Close == CloseStart \/ CloseEnd
Finished == phase = "closed" /\ UNCHANGED vars
Next == Construct \/ Close \/ Clean \/ Finished \/ \E u \in Clients : GetStart(u) \/ Get(u) \/ Put(u)

\* A call in progress goes on: dials, health checks and calls on a connection
\* end, and the mutex is handed to the goroutines that wait for it.  The ticker
\* fires, and the select of the cleanup does not ignore stopCh forever.
\* Nothing obliges clients to call Get or Close.
Fairness ==
  /\ \A u \in Clients : SF_vars(Get(u) \/ Put(u))
  /\ WF_vars(Construct) /\ WF_vars(CloseEnd) /\ WF_vars(Clean) /\ SF_vars(CleanExit)

Spec == Init /\ [][Next]_vars
FairSpec == Spec /\ Fairness

-----------------------------------------------------------------------------
(* Properties                                                              *)

Counted(S) == Cardinality({u \in Clients : pc[u] \in S})
\* The places of a client that has closed a connection or dialled one, and not
\* changed curSize yet.
Uncounting == {"drop", "putDrop"}
Uncounted == {"count"}
Handed == (Range(held) \cup {mine}) \ {NoConn}

Held == {"check", "count", "use"}
GetPlaces == {"take", "check", "drop", "redial", "count", "lock", "wait"}
PoolOK ==
  /\ phase \in {"new", "open", "closing", "closed"} /\ turns \in 0..InitSize
  /\ conns \in Seq(Conn) /\ Len(conns) <= MaxSize /\ open \subseteq Conn /\ curSize \in Int
ClientsOK ==
  /\ pc \in [Clients -> GetPlaces \cup {"out", "use", "putDrop"}]
  /\ held \in [Clients -> Conn \cup {NoConn}] /\ retries \in [Clients -> 0..maxRetries]
  /\ \A u \in Clients : held[u] # NoConn <=> pc[u] \in Held
CleanupOK ==
  /\ cpc \in {"sleep", "scan", "mine", "back", "refill", "exited"}
  /\ left \in 0..MaxSize /\ bad \in BOOLEAN
  /\ mine \in Conn \cup {NoConn} /\ (mine # NoConn <=> cpc \in {"mine", "back"})
\* Types, and who has a connection where.
TypeOK == PoolOK /\ ClientsOK /\ CleanupOK

\* An open connection is in the channel, with one client or with the cleanup,
\* and nowhere twice; no closed connection is handed out, none is forgotten.
OneOwner ==
  /\ open = Range(conns) \cup Handed
  /\ IsInjective(conns) /\ Range(conns) \cap Handed = {} /\ mine \notin Range(held) \ {NoConn}
  /\ \A u, v \in Clients : held[u] = held[v] /\ held[u] # NoConn => u = v

\* curSize is the number of open connections, but for the clients between the
\* closing or dialling of a connection and its counting.
Accounting ==
  phase # "closed" => curSize = Cardinality(open) + Counted(Uncounting) - Counted(Uncounted)

\* Replacements open more than MaxSize connections, by less than the number of
\* clients.  The premise, which the dump tool (10 and 100) and the tests meet, is
\* for the refill: with InitSize = MaxSize it may take the last place while every
\* client replaces a connection.
Oversubscription == InitSize < MaxSize => Cardinality(open) < MaxSize + Cardinality(Clients)

\* The cleanup, which sends with the mutex held, finds the channel full only
\* where more than MaxSize connections are open, and never when it refills.
BlocksOnlyOversubscribed ==
  /\ cpc = "back" /\ ~Room => curSize > MaxSize
  /\ cpc = "refill" /\ curSize < InitSize => Room

\* What makes the properties above inductive: nobody uses the pool before New
\* returns or after Close is called; curSize counts the connections in the channel, with the clients and
\* with the cleanup, and those of the clients that closed one and have not
\* uncounted it; and a client that replaces a connection keeps its slot.
Phases ==
  /\ phase = "new" => Len(conns) <= turns /\ cpc = "sleep"
  /\ phase # "open" => AllOut
  /\ phase = "closed" => conns = <<>> /\ curSize = 0 /\ cpc = "exited"
Tallied == {"check", "use"} \cup Uncounting
Replacing == {"redial"} \cup Uncounted
Cleaning == IF mine = NoConn THEN 0 ELSE 1
Tally ==
  /\ IsFiniteSet(open)
  /\ phase # "closed" =>
       curSize = Len(conns) + Counted(Tallied) + Cleaning
Slots ==
  InitSize < MaxSize => curSize + Counted(Replacing) < MaxSize + Cardinality(Clients)
IInv == TypeOK /\ OneOwner /\ Accounting /\ Phases /\ Tally /\ Slots

\* The connections the pool has: in the channel, or in the hands of the cleanup.
Pooled == Range(conns) \cup ({mine} \ {NoConn})
\* The owner of a connection in the abstract specification, with S open, h held
\* and P pooled; there is no "forgotten" connection in it.
OwnerIn(S, h, P) == [c \in Conn |->
  IF c \notin S THEN "closed"
  ELSE IF \E u \in Clients : h[u] = c THEN CHOOSE u \in Clients : h[u] = c
  ELSE IF c \in P THEN "pool" ELSE "forgotten"]
Owner == OwnerIn(open, held, Pooled)
Lease == INSTANCE ConnLease WITH owner <- Owner, Users <- Clients, Pool <- "pool", Closed <- "closed"

\* The pool implements ConnLease: a connection
\* is never lent twice, handed from one user to another or closed under its
\* user, through timeouts, failed pings, replacements, cleanup and Close.
ImplementsLease == Lease!Spec

\* Every Get returns, with a connection or an error.
GetReturns == \A u \in Clients : pc[u] \in GetPlaces ~> pc[u] \notin GetPlaces

\* Close returns.
CloseReturns == phase = "closing" ~> phase = "closed"
=============================================================================
