------------------------------- MODULE CHPool -------------------------------
(***************************************************************************)
(* The pool of ClickHouse connections (clickhouse_pool.go): callers take a *)
(* connection with Get and give it back with Put, a cleanup goroutine      *)
(* drains and refills the channel once a minute under the pool's mutex.    *)
(* NewCHWriter builds the pool, tries it out, and closes it if that fails. *)
(*                                                                         *)
(* The mutex is held across steps by the cleanup only; every other locked  *)
(* section is one action, enabled while the mutex is free.  Channel        *)
(* operations do not take the mutex.  A connection is a model value that   *)
(* may be opened again under the same name once it is closed.              *)
(***************************************************************************)
EXTENDS Integers, Sequences, FiniteSets, Functions

CONSTANTS
  Users,           \* goroutines that use the pool: batcher, query handlers, retention job
  Patient,         \* those of them whose ctx never ends: queries whose client waits for as long
                   \* as it takes (a handler passes the context of its request on)
  Conn,            \* connections
  NoConn,          \* no connection
  MinConnections,
  MaxConnections   \* also the capacity of the channel

ASSUME UsersAssumption == IsFiniteSet(Users) /\ Users # {} /\ Patient \subseteq Users
ASSUME ConnAssumption == NoConn \notin Conn
\* The values of Owner that are not users.
ASSUME OwnerAssumption == {"pool", "closed", "forgotten"} \cap Users = {}
\* NewCHWriter passes 2 and 10.
ASSUME SizeAssumption ==
  /\ MinConnections \in Nat \ {0} /\ MaxConnections \in Nat
  /\ MinConnections < MaxConnections

VARIABLES
  phase,   \* "building" (NewCHPool), "checking" (NewCHWriter), "failed", "serving" or "closed"
  conns,   \* the channel p.connections
  open,    \* connections that are open
  total,   \* stats.TotalConnections
  active,  \* stats.ActiveConnections
  idle,    \* stats.IdleConnections
  pc,      \* pc[u]: where user u is in Get, in its work or in Put
  held,    \* held[u]: the connection u holds
  cpc,     \* where the cleanup goroutine is; it holds the mutex unless it sleeps
  valid,   \* validConnections of the cleanup
  up,      \* environment: ClickHouse can be reached
  leaked   \* ghost: replacements that failed

stats == <<total, active, idle>>
cleanupVars == <<cpc, valid>>
vars == <<phase, conns, open, stats, pc, held, cleanupVars, up, leaked>>

Init ==
  /\ phase = "building" /\ conns = <<>> /\ open = {}
  /\ total = 0 /\ active = 0 /\ idle = 0
  /\ pc = [u \in Users |-> "out"] /\ held = [u \in Users |-> NoConn]
  /\ cpc = "sleep" /\ valid = <<>> /\ up = TRUE /\ leaked = 0

MuFree == cpc = "sleep"
AllOut == \A u \in Users : pc[u] = "out"
\* Mutation: off by one in the capacity of the channel.
RoomOffByOne == Len(conns) <= MaxConnections
Room == Len(conns) < MaxConnections
\* createConnection dials and pings; a Ping of an open connection may fail at
\* any time, since its context may be done.
Opens(c) == up /\ c \in Conn \ open /\ open' = open \cup {c}
\* Mutation: the connection is forgotten, not closed.
Forgets(c) == UNCHANGED open
Closes(c) == open' = open \ {c}
Goto(u, l) == pc' = [pc EXCEPT ![u] = l]
Holds(u, c) == held' = [held EXCEPT ![u] = c]
CreateFails == ~up
\* An error of Get in NewCHWriter's own calls leaves it nothing but Close.
GetError == phase' = IF phase = "checking" THEN "failed" ELSE phase

-----------------------------------------------------------------------------
(* NewCHPool and NewCHWriter                                               *)

InitialConnection ==
  /\ phase = "building" /\ total < MinConnections
  /\ \E c \in Conn : Opens(c) /\ conns' = Append(conns, c)
  /\ total' = total + 1 /\ idle' = idle + 1
  /\ UNCHANGED <<phase, active, pc, held, cleanupVars, up, leaked>>

Built ==
  /\ phase = "building" /\ total = MinConnections /\ phase' = "checking"
  /\ UNCHANGED <<conns, open, stats, pc, held, cleanupVars, up, leaked>>

Serve ==
  /\ phase = "checking" /\ AllOut /\ phase' = "serving"
  /\ UNCHANGED <<conns, open, stats, pc, held, cleanupVars, up, leaked>>

\* Mutation: Close forgets the connections in the channel.
CloseChannelOnly ==
  /\ phase = "checking" /\ AllOut /\ MuFree
  /\ phase' = "closed" /\ conns' = <<>>
  /\ UNCHANGED <<open, stats, pc, held, cleanupVars, up, leaked>>
\* Close; the constructors call it when the first connections, the first Ping
\* or the schema statement fail, and nobody else does.
Close ==
  /\ \/ phase = "building" /\ total < MinConnections /\ CreateFails
     \/ phase \in {"checking", "failed"} /\ AllOut
  /\ MuFree
  /\ phase' = "closed" /\ conns' = <<>> /\ open' = open \ Range(conns)
  /\ UNCHANGED <<stats, pc, held, cleanupVars, up, leaked>>

-----------------------------------------------------------------------------
(* Get(u)                                                                  *)

\* The closed check; NewCHWriter's own calls come one after the other.
GetStart(u) ==
  /\ pc[u] = "out" /\ MuFree
  /\ phase = "serving" \/ (phase = "checking" /\ AllOut)
  /\ Goto(u, "take")
  /\ UNCHANGED <<phase, conns, open, stats, held, cleanupVars, up, leaked>>

\* Mutation: the connection is looked at, not taken out.
TakeKeeps(u, from, to) ==
  /\ pc[u] = from /\ conns # <<>>
  /\ Holds(u, Head(conns)) /\ Goto(u, to)
  /\ UNCHANGED <<phase, conns, open, stats, cleanupVars, up, leaked>>
\* Receive from the channel at pc "from" and go on at "to".
TakeFrom(u, from, to) ==
  /\ pc[u] = from /\ conns # <<>>
  /\ conns' = Tail(conns) /\ Holds(u, Head(conns)) /\ Goto(u, to)
  /\ UNCHANGED <<phase, open, stats, cleanupVars, up, leaked>>
GetTake(u) == TakeFrom(u, "take", "ping")
\* A connection that was waited for is not pinged.
GetWaited(u) == TakeFrom(u, "wait", "gotIdle")

\* default: the channel is empty.
GetEmpty(u) ==
  /\ pc[u] = "take" /\ conns = <<>> /\ Goto(u, "check")
  /\ UNCHANGED <<phase, conns, open, stats, held, cleanupVars, up, leaked>>

\* ctx.Done() in one of the two selects.
GetGivesUp(u) ==
  /\ pc[u] \in {"take", "wait"} /\ u \notin Patient /\ Goto(u, "out") /\ GetError
  /\ UNCHANGED <<conns, open, stats, held, cleanupVars, up, leaked>>

GetPingOk(u) ==
  /\ pc[u] = "ping" /\ up /\ Goto(u, "gotIdle")
  /\ UNCHANGED <<phase, conns, open, stats, held, cleanupVars, up, leaked>>
GetPingFails(u) ==
  /\ pc[u] = "ping" /\ Closes(held[u]) /\ Holds(u, NoConn) /\ Goto(u, "replace")
  /\ UNCHANGED <<phase, conns, stats, cleanupVars, up, leaked>>

GetReplaced(u) ==
  /\ pc[u] = "replace"
  /\ \E c \in Conn : Opens(c) /\ Holds(u, c)
  /\ Goto(u, "gotIdle")
  /\ UNCHANGED <<phase, conns, stats, cleanupVars, up, leaked>>
\* The error return leaves TotalConnections and IdleConnections as they are.
GetNotReplaced(u) ==
  /\ pc[u] = "replace" /\ CreateFails /\ Goto(u, "out") /\ GetError /\ leaked' = leaked + 1
  /\ UNCHANGED <<conns, open, stats, held, cleanupVars, up>>

GetIdleCounted(u) ==
  /\ pc[u] = "gotIdle" /\ MuFree
  /\ active' = active + 1 /\ idle' = idle - 1 /\ Goto(u, "use")
  /\ UNCHANGED <<phase, conns, open, total, held, cleanupVars, up, leaked>>

\* Mutation: off by one in the comparison with MaxConnections.
GetCheckOffByOne(u) ==
  /\ pc[u] = "check" /\ MuFree
  /\ Goto(u, IF total <= MaxConnections THEN "create" ELSE "wait")
  /\ UNCHANGED <<phase, conns, open, stats, held, cleanupVars, up, leaked>>
\* TotalConnections is read under the mutex, which is free again while the
\* connection is created.
GetCheck(u) ==
  /\ pc[u] = "check" /\ MuFree
  /\ Goto(u, IF total < MaxConnections THEN "create" ELSE "wait")
  /\ UNCHANGED <<phase, conns, open, stats, held, cleanupVars, up, leaked>>
GetCreated(u) ==
  /\ pc[u] = "create"
  /\ \E c \in Conn : Opens(c) /\ Holds(u, c)
  /\ Goto(u, "count")
  /\ UNCHANGED <<phase, conns, stats, cleanupVars, up, leaked>>
GetNotCreated(u) ==
  /\ pc[u] = "create" /\ CreateFails /\ Goto(u, "out") /\ GetError
  /\ UNCHANGED <<conns, open, stats, held, cleanupVars, up, leaked>>
GetCounted(u) ==
  /\ pc[u] = "count" /\ MuFree
  /\ total' = total + 1 /\ active' = active + 1 /\ Goto(u, "use")
  /\ UNCHANGED <<phase, conns, open, idle, held, cleanupVars, up, leaked>>

-----------------------------------------------------------------------------
(* Put(u)                                                                  *)

\* The work with the connection ends; Put finds the pool not closed.
PutStart(u) ==
  /\ pc[u] = "use" /\ MuFree /\ Goto(u, "return")
  /\ UNCHANGED <<phase, conns, open, stats, held, cleanupVars, up, leaked>>
PutReturns(u) ==
  /\ pc[u] = "return" /\ Room
  /\ conns' = Append(conns, held[u]) /\ Holds(u, NoConn) /\ Goto(u, "putIdle")
  /\ UNCHANGED <<phase, open, stats, cleanupVars, up, leaked>>
PutCloses(u) ==
  /\ pc[u] = "return" /\ ~Room
  /\ Closes(held[u]) /\ Holds(u, NoConn) /\ Goto(u, "putClosed")
  /\ UNCHANGED <<phase, conns, stats, cleanupVars, up, leaked>>
PutIdleCounted(u) ==
  /\ pc[u] = "putIdle" /\ MuFree
  /\ active' = active - 1 /\ idle' = idle + 1 /\ Goto(u, "out")
  /\ UNCHANGED <<phase, conns, open, total, held, cleanupVars, up, leaked>>
\* Mutation: the caller that closed its connection stays counted as active.
PutClosedStaysActive(u) ==
  /\ pc[u] = "putClosed" /\ MuFree
  /\ total' = total - 1 /\ Goto(u, "out")
  /\ UNCHANGED <<phase, conns, open, active, idle, held, cleanupVars, up, leaked>>
PutClosedCounted(u) ==
  /\ pc[u] = "putClosed" /\ MuFree
  /\ active' = active - 1 /\ total' = total - 1 /\ Goto(u, "out")
  /\ UNCHANGED <<phase, conns, open, idle, held, cleanupVars, up, leaked>>

-----------------------------------------------------------------------------
(* cleanupConnections, which holds the mutex from CleanStart to CleanEnd   *)

CleanStart ==
  /\ cpc = "sleep" /\ phase \notin {"building", "closed"} /\ cpc' = "drain"
  /\ UNCHANGED <<phase, conns, open, stats, pc, held, valid, up, leaked>>

CleanKeep ==
  /\ cpc = "drain" /\ conns # <<>> /\ up
  /\ conns' = Tail(conns) /\ valid' = Append(valid, Head(conns))
  /\ UNCHANGED <<phase, open, stats, pc, held, cpc, up, leaked>>
\* Mutation: the cleanup does not uncount the connections it closes.
CleanDiscardCounted ==
  /\ cpc = "drain" /\ conns # <<>>
  /\ conns' = Tail(conns) /\ Closes(Head(conns))
  /\ UNCHANGED <<phase, stats, pc, held, cleanupVars, up, leaked>>
CleanDiscard ==
  /\ cpc = "drain" /\ conns # <<>>
  /\ conns' = Tail(conns) /\ Closes(Head(conns)) /\ total' = total - 1 /\ idle' = idle - 1
  /\ UNCHANGED <<phase, active, pc, held, cleanupVars, up, leaked>>
CleanDrained ==
  /\ cpc = "drain" /\ conns = <<>> /\ cpc' = "putback"
  /\ UNCHANGED <<phase, conns, open, stats, pc, held, valid, up, leaked>>

CleanPutBack ==
  /\ cpc = "putback" /\ valid # <<>> /\ valid' = Tail(valid)
  /\ IF Room THEN conns' = Append(conns, Head(valid)) /\ UNCHANGED <<open, total, idle>>
             ELSE /\ Closes(Head(valid)) /\ total' = total - 1 /\ idle' = idle - 1
                  /\ UNCHANGED conns
  /\ UNCHANGED <<phase, active, pc, held, cpc, up, leaked>>
CleanRefill ==
  /\ cpc = "putback" /\ valid = <<>> /\ cpc' = "refill"
  /\ UNCHANGED <<phase, conns, open, stats, pc, held, valid, up, leaked>>

\* Mutation: a connection created by the cleanup is not counted.
CleanCreatesUncounted ==
  /\ cpc = "refill" /\ total < MinConnections /\ Room
  /\ \E c \in Conn : Opens(c) /\ conns' = Append(conns, c)
  /\ UNCHANGED <<phase, stats, pc, held, cleanupVars, up, leaked>>
\* A new connection that finds the channel full is closed and the loop goes on.
CleanCreates ==
  /\ cpc = "refill" /\ total < MinConnections
  /\ \E c \in Conn : /\ up /\ c \notin open
                     /\ IF Room THEN conns' = Append(conns, c) /\ open' = open \cup {c}
                                     /\ total' = total + 1 /\ idle' = idle + 1
                                ELSE UNCHANGED <<conns, open, total, idle>>
  /\ UNCHANGED <<phase, active, pc, held, cleanupVars, up, leaked>>
CleanEnd ==
  /\ cpc = "refill" /\ (total >= MinConnections \/ CreateFails) /\ cpc' = "sleep"
  /\ UNCHANGED <<phase, conns, open, stats, pc, held, valid, up, leaked>>

-----------------------------------------------------------------------------
ServerFlips ==
  /\ up' = ~up
  /\ UNCHANGED <<phase, conns, open, stats, pc, held, cleanupVars, leaked>>

Get(u) == \/ GetStart(u) \/ GetTake(u) \/ GetWaited(u) \/ GetEmpty(u) \/ GetGivesUp(u)
          \/ GetPingOk(u) \/ GetPingFails(u) \/ GetReplaced(u) \/ GetNotReplaced(u)
          \/ GetIdleCounted(u) \/ GetCheck(u) \/ GetCreated(u) \/ GetNotCreated(u) \/ GetCounted(u)
Put(u) == PutStart(u) \/ PutReturns(u) \/ PutCloses(u) \/ PutIdleCounted(u) \/ PutClosedCounted(u)
Construct == InitialConnection \/ Built \/ Serve \/ Close
Clean == \/ CleanStart \/ CleanKeep \/ CleanDiscard \/ CleanDrained \/ CleanPutBack
         \/ CleanRefill \/ CleanCreates \/ CleanEnd

Next == Construct \/ Clean \/ ServerFlips \/ \E u \in Users : Get(u) \/ Put(u)

\* A call in progress goes on (a ping, a dial, a query and a critical section
\* end), the ticker of the cleanup fires, the mutex is handed to the waiting,
\* and a receiver parked on the channel is served in its turn.
InProgress(u) == pc[u] \notin {"out", "wait"} /\ (Get(u) \/ Put(u))
Fairness ==
  /\ \A u \in Users : SF_vars(InProgress(u)) /\ SF_vars(GetWaited(u))
  /\ WF_vars(Clean)

Spec == Init /\ [][Next]_vars
FairSpec == Spec /\ Fairness

-----------------------------------------------------------------------------
(* Properties                                                              *)

At(S) == {u \in Users : pc[u] \in S}
Counted(S) == Cardinality(At(S))
Handed == Range(held) \ {NoConn}

Held == {"ping", "gotIdle", "count", "use", "return"}
PoolOK ==
  /\ phase \in {"building", "checking", "failed", "serving", "closed"}
  /\ conns \in Seq(Conn) /\ Len(conns) <= MaxConnections /\ open \subseteq Conn
  /\ total \in Int /\ active \in Int /\ idle \in Int
  /\ up \in BOOLEAN /\ leaked \in Nat
UsersOK ==
  /\ pc \in [Users -> Held \cup {"out", "take", "replace", "check", "create", "wait", "putIdle",
                                 "putClosed"}]
  /\ held \in [Users -> Conn \cup {NoConn}]
  /\ \A u \in Users : held[u] # NoConn <=> pc[u] \in Held
CleanupOK ==
  /\ cpc \in {"sleep", "drain", "putback", "refill"}
  /\ valid \in Seq(Conn) /\ (valid # <<>> => cpc \in {"drain", "putback"})
\* Types, where a user holds a connection and when the cleanup does.
TypeOK == PoolOK /\ UsersOK /\ CleanupOK

\* Every open connection has exactly one owner: the channel, the list of the
\* cleanup or one user; nobody holds a closed one and none is forgotten open.
OneOwner ==
  /\ open = Range(conns) \cup Range(valid) \cup Handed
  /\ IsInjective(conns) /\ IsInjective(valid)
  /\ Range(conns) \cap Range(valid) = {} /\ (Range(conns) \cup Range(valid)) \cap Handed = {}
  /\ \A u, v \in Users : held[u] = held[v] /\ held[u] # NoConn => u = v

\* The statistics are the connections in use and in the channel, corrected by
\* the users between a channel operation and its critical section and by the
\* failed replacements, which TotalConnections and IdleConnections keep forever.
Accounting ==
  phase # "closed" =>
    /\ total = Cardinality(open) - Counted({"count"}) + Counted({"putClosed", "replace"}) + leaked
    /\ active = Counted({"use", "return", "putIdle", "putClosed"})
    /\ idle = Len(conns) + Len(valid) + Counted({"ping", "replace", "gotIdle"})
              - Counted({"putIdle"}) + leaked

\* MaxConnections can be exceeded only by users that saw a free slot at once:
\* one less than there are users.
Oversubscription == total <= MaxConnections + Cardinality(Users) - 1

\* The refill loop of the cleanup never finds the channel full; it would go on
\* creating and closing connections with the mutex held.
RefillHasRoom == cpc = "refill" /\ total < MinConnections => Room

\* Close leaves no connection open.
CloseClosesAll == phase = "closed" => open = {}

\* What makes TypeOK, OneOwner, Oversubscription and CloseClosesAll inductive:
\* nobody uses the pool before it is built and after it is closed, and every
\* user between its check of TotalConnections and its counting takes a slot.
Phases ==
  /\ phase = "building" => Len(conns) = total /\ AllOut /\ cpc = "sleep"
  /\ phase = "closed" => conns = <<>> /\ AllOut /\ cpc = "sleep"
Slots == total + Counted({"create", "count"}) <= MaxConnections + Cardinality(Users) - 1
IInv == TypeOK /\ OneOwner /\ Phases /\ Slots

\* Once ClickHouse stays up, the Get of a query whose client waits without a
\* deadline gets a connection, unless a replacement failed before.
PatientGetReturns ==
  <>[]up => \A u \in Patient : pc[u] = "wait" ~> (pc[u] # "wait" \/ leaked > 0)

\* The owner of every connection, as ConnLease sees it, when those in S are
\* open, user u holds h[u], and those in P are in the channel or with the
\* cleanup; there is no "forgotten" connection in ConnLease.
OwnerIn(S, h, P) == [c \in Conn |->
  IF c \notin S THEN "closed"
  ELSE IF \E u \in Users : h[u] = c THEN CHOOSE u \in Users : h[u] = c
  ELSE IF c \in P THEN "pool" ELSE "forgotten"]
Pooled == Range(conns) \cup Range(valid)
Owner == OwnerIn(open, held, Pooled)
Lease == INSTANCE ConnLease WITH owner <- Owner, Users <- Users, Pool <- "pool", Closed <- "closed"

\* The pool implements ConnLease: a connection is never lent twice, handed from
\* one user to another or closed under its user, through timeouts, failed pings,
\* replacements, cleanup and Close.
ImplementsLease == Lease!Spec

\* clickhouse_pool.go:386 says that the cleanup ensures the minimum number of
\* connections: when ClickHouse stays up and nobody uses the pool any more,
\* that many are open at some time again.
MinEnsured ==
  <>[](phase = "serving" /\ up /\ AllOut) => []<>(Cardinality(open) >= MinConnections)
=============================================================================
