------------------------ MODULE BatcherOnPoolProofs ------------------------
(***************************************************************************)
(* The batcher takes only steps of the pool, and so the invariants of      *)
(* CHPoolProofs hold with the batcher in it; where it is in its own loop   *)
(* and where it is in the pool agree.  For every set of users and          *)
(* connections.                                                            *)
(***************************************************************************)
EXTENDS BatcherOnPool, CHPoolLease

-----------------------------------------------------------------------------
(* The batcher is a user of the pool                                       *)

\* Every step of the composition is a step of the pool or leaves it alone.
LEMMA StepOfPool == [StoreNext]_allVars => [Next]_vars
<1> SUFFICES ASSUME [StoreNext]_allVars PROVE [Next]_vars OBVIOUS
<1>0. Batcher \in Users /\ Others \subseteq Users BY BatcherAssumption DEF Others
<1>1. CASE HealthCheck \/ TryGets BY <1>0, <1>1 DEF HealthCheck, TryGets, Next, Get
<1>2. CASE PingUses \/ InsertUses BY <1>0, <1>2 DEF PingUses, InsertUses, Uses, Next
<1>3. CASE Inserts BY <1>0, <1>3 DEF Inserts, Next, Put
<1>4. CASE Flush \/ Deadline \/ TryRefused \/ UNCHANGED allVars
  BY <1>4 DEF Flush, Deadline, TryRefused, allVars
<1>5. CASE PoolStep BY <1>5 DEF PoolStep, Next
<1>6. ASSUME NEW u \in Others, OtherStep(u) PROVE Next BY <1>0, <1>6 DEF OtherStep, Next
<1> QED BY <1>1, <1>2, <1>3, <1>4, <1>5, <1>6 DEF StoreNext, InsertStep

\* What the batcher does with the pool is what CHPool allows a user: every
\* safety property of the pool holds with the batcher in it.
THEOREM BatcherUsesPool == StoreSpec => Spec
<1>1. StoreInit => Init BY DEF StoreInit
<1> QED BY <1>1, StepOfPool, PTL DEF StoreSpec, Spec

\* What the pool promises to its users it promises to the batcher among them.
THEOREM PoolSafeWithBatcher ==
  StoreSpec => /\ ImplementsLease
               /\ [](TypeOK /\ OneOwner /\ Accounting /\ Oversubscription)
               /\ [](RefillHasRoom /\ CloseClosesAll)
BY BatcherUsesPool, PoolImplementsLease, TypeCorrect, OneOwnerAlways, AccountingCorrect,
   OversubscriptionBounded, RefillFindsRoom, CloseIsComplete, PTL

-----------------------------------------------------------------------------
(* Where the batcher is                                                    *)

\* A step of another user leaves the batcher where it is in the pool.
LEMMA OthersApart ==
  ASSUME UsersOK, NEW u \in Others, Get(u) \/ Put(u)
  PROVE  pc'[Batcher] = pc[Batcher]
<1>0. Batcher \in Users /\ u \in Users /\ u # Batcher /\ DOMAIN pc = Users
  BY BatcherAssumption DEF Others, UsersOK
<1>1. CASE Get(u)
  BY <1>0, <1>1 DEF Get, GetStart, GetTake, GetWaited, TakeFrom, GetEmpty, GetGivesUp, GetPingOk,
     GetPingFails, GetReplaced, GetNotReplaced, GetIdleCounted, GetCheck, GetCreated, GetNotCreated,
     GetCounted, Goto
<1>2. CASE Put(u)
  BY <1>0, <1>2 DEF Put, PutStart, PutReturns, PutCloses, PutIdleCounted, PutClosedCounted, Goto
<1> QED BY <1>1, <1>2

\* Neither do the constructors, the cleanup and the server.
LEMMA PoolApart ==
  ASSUME PoolStep
  PROVE  pc' = pc
<1>1. CASE Construct BY <1>1 DEF Construct, InitialConnection, Built, Serve, Close
<1>2. CASE Clean
  BY <1>2 DEF Clean, CleanStart, CleanKeep, CleanDiscard, CleanDrained, CleanPutBack, CleanRefill,
     CleanCreates, CleanEnd
<1>3. CASE ServerFlips BY <1>3 DEF ServerFlips
<1> QED BY <1>1, <1>2, <1>3 DEF PoolStep

Returning == {"return", "putIdle", "putClosed"}

\* A user that gives its connection back is out when it has done so.
LEMMA ReturnGoesOn ==
  ASSUME UsersOK, NEW u \in Users, Get(u) \/ Put(u), pc[u] \in Returning
  PROVE  pc'[u] \in Returning \cup {"out"}
<1>1. ~Get(u)
  BY DEF Returning, Get, GetStart, GetTake, GetWaited, TakeFrom, GetEmpty, GetGivesUp, GetPingOk,
     GetPingFails, GetReplaced, GetNotReplaced, GetIdleCounted, GetCheck, GetCreated, GetNotCreated,
     GetCounted
<1>2. DOMAIN pc = Users BY DEF UsersOK
<1> QED BY <1>1, <1>2 DEF Returning, Put, PutStart, PutReturns, PutCloses, PutIdleCounted,
        PutClosedCounted, Goto

\* Every step keeps BatcherOK.
LEMMA BatcherStep ==
  ASSUME UsersOK, BatcherOK, [StoreNext]_allVars
  PROVE  BatcherOK'
<1> USE DEF BatcherOK, Flushing, maxAttempts
<1>0. Batcher \in Users /\ DOMAIN pc = Users BY BatcherAssumption DEF UsersOK
<1>1. CASE HealthCheck
  <2>1. pc'[Batcher] = "take" BY <1>0, <1>1 DEF HealthCheck, GetStart, Goto
  <2> QED BY <1>1, <2>1 DEF HealthCheck
<1>2. CASE PingUses BY <1>2 DEF PingUses
<1>3. CASE Flush \/ Deadline \/ UNCHANGED allVars
  <2>1. ctxDone' \in BOOLEAN BY <1>3, Zenon DEF Flush, Deadline, allVars, batcherVars
  <2> QED BY <1>3, <2>1 DEF Flush, Deadline, vars, stats, cleanupVars, allVars, batcherVars
<1>4. CASE TryGets
  <2>1. pc'[Batcher] = "take" BY <1>0, <1>4 DEF TryGets, GetStart, Goto
  <2> QED BY <1>4, <2>1 DEF TryGets
<1>5. CASE TryRefused
  <2>1. ctxDone' \in BOOLEAN BY <1>5, Zenon DEF TryRefused, Flushed
  <2> QED BY <1>5, <2>1 DEF TryRefused, Flushed, vars, stats, cleanupVars
<1>6. CASE InsertUses
  <2>1. CASE pc'[Batcher] = "out"
    <3>1. Ends BY <1>6, <2>1 DEF InsertUses
    <3>2. ctxDone' \in BOOLEAN BY <3>1, Zenon DEF Ends, Flushed
    <3> QED BY <2>1, <3>1, <3>2 DEF Ends, Flushed
  <2>2. CASE pc'[Batcher] # "out"
    <3>1. work' = work /\ attempt' = attempt /\ ctxDone' = ctxDone
      BY <1>6, <2>2 DEF InsertUses, batcherVars
    <3>2. work \in {"sent", "failed"} => pc'[Batcher] \in Returning
      BY <1>0, <1>6, <2>2, ReturnGoesOn DEF InsertUses, Uses, Returning
    <3> QED BY <1>6, <2>2, <3>1, <3>2 DEF InsertUses, Returning
  <2> QED BY <2>1, <2>2
<1>7. CASE Inserts
  <2>1. pc'[Batcher] = "return" BY <1>0, <1>7 DEF Inserts, PutStart, Goto
  <2> QED BY <1>7, <2>1 DEF Inserts
<1>8. CASE PoolStep BY <1>8, PoolApart DEF PoolStep, batcherVars
<1>9. ASSUME NEW u \in Others, OtherStep(u) PROVE BatcherOK'
  BY <1>9, OthersApart DEF OtherStep, batcherVars
<1> QED BY <1>1, <1>2, <1>3, <1>4, <1>5, <1>6, <1>7, <1>8, <1>9 DEF StoreNext, InsertStep

\* The batcher is in the pool exactly during its health check and from the Get
\* to the Put of an attempt to insert, and it makes at most three attempts.
THEOREM BatcherInItsPlace == StoreSpec => []BatcherOK
<1>1. StoreInit => IInv /\ BatcherOK
  <2> SUFFICES ASSUME StoreInit PROVE IInv /\ BatcherOK OBVIOUS
  <2>1. Init /\ pc[Batcher] = "out" BY BatcherAssumption DEF StoreInit, Init
  <2>2. ctxDone \in BOOLEAN BY Zenon DEF StoreInit
  <2> QED BY <2>1, <2>2, IInvInit DEF StoreInit, BatcherOK, Flushing, maxAttempts
<1>2. IInv /\ BatcherOK /\ [StoreNext]_allVars => IInv' /\ BatcherOK'
  BY StepOfPool, IInvStep, BatcherStep DEF IInv, TypeOK
<1> QED BY <1>1, <1>2, PTL DEF StoreSpec

-----------------------------------------------------------------------------
(* A flush goes through the loop of InsertBatch                            *)

\* A step that leaves the batcher alone takes no step of the loop.
LEMMA LoopAlone ==
  ASSUME UNCHANGED batcherVars
  PROVE  UNCHANGED Inserting!vars
BY DEF batcherVars, Stage, Inserting!vars

\* An attempt that ends is a step of the loop: it succeeded, or it failed.
LEMMA EndsOneAttempt ==
  ASSUME BatcherOK, Ends, work \in {"get", "sent", "failed"}
  PROVE  Inserting!Succeeds \/ Inserting!Fails
<1>1. Stage = "trying" BY DEF Stage, Flushing
<1>2. CASE Flushed
  <2>1. Stage' = "idle" /\ ctxDone' = FALSE BY <1>2 DEF Flushed, Stage, Flushing
  <2> QED BY <1>1, <2>1 DEF Inserting!Succeeds, Inserting!Return
<1>3. CASE attempt < maxAttempts /\ work' = "try" /\ attempt' = attempt + 1 /\ UNCHANGED ctxDone
  <2>1. Stage' = "check" BY <1>3 DEF Stage
  <2> QED BY <1>1, <1>3, <2>1 DEF Inserting!Fails
<1> QED BY <1>2, <1>3 DEF Ends

\* Every step of the batcher on its pool keeps AttemptsOK and is a step of
\* InsertAttempts, or none.
LEMMA LoopStep ==
  ASSUME BatcherOK, BatcherOK', AttemptsOK, [StoreNext]_allVars
  PROVE  AttemptsOK' /\ [Inserting!Next]_(Inserting!vars)
<1> USE DEF AttemptsOK, Flushing
<1>1. CASE HealthCheck \/ PingUses
  <2>1. /\ work \in {"select", "ping"} /\ work' \in {"select", "ping"}
        /\ UNCHANGED <<attempt, ctxDone>>
    BY <1>1 DEF HealthCheck, PingUses
  <2>2. Stage = "idle" /\ Stage' = "idle" BY <2>1 DEF Stage
  <2> QED BY <2>1, <2>2 DEF Inserting!vars
<1>2. CASE Flush
  <2>1. work = "select" /\ work' = "try" /\ UNCHANGED <<attempt, ctxDone>> BY <1>2 DEF Flush
  <2>2. Stage = "idle" /\ Stage' = "check" /\ attempt' = 1 /\ ctxDone' = FALSE
    BY <2>1 DEF Stage
  <2> QED BY <2>1, <2>2 DEF Inserting!Next, Inserting!Begin
<1>3. CASE Deadline
  <2>1. /\ work \in Flushing /\ ~ctxDone /\ ctxDone' = TRUE /\ UNCHANGED <<work, attempt>>
    BY <1>3 DEF Deadline, BatcherOK
  <2>2. Stage # "idle" /\ Stage' = Stage BY <2>1 DEF Stage
  <2> QED BY <2>1, <2>2 DEF Inserting!Next, Inserting!CtxEnds
<1>4. CASE TryGets
  <2>1. /\ work = "try" /\ ~ctxDone /\ work' = "get" /\ UNCHANGED <<attempt, ctxDone>>
    BY <1>4 DEF TryGets
  <2>2. Stage = "check" /\ Stage' = "trying" BY <2>1 DEF Stage
  <2> QED BY <2>1, <2>2 DEF Inserting!Next, Inserting!Try
<1>5. CASE TryRefused
  <2>1. work = "try" /\ ctxDone /\ work' = "select" /\ attempt' = 1 /\ ctxDone' = FALSE
    BY <1>5 DEF TryRefused, Flushed
  <2>2. Stage = "check" /\ Stage' = "idle" BY <2>1 DEF Stage
  <2> QED BY <2>1, <2>2 DEF Inserting!Next, Inserting!Refused, Inserting!Return
<1>6. CASE InsertUses /\ Ends
  <2>1. work \in {"get", "sent", "failed"} BY <1>6 DEF InsertUses
  <2>2. AttemptsOK' BY <1>6 DEF Ends, Flushed
  <2> QED BY <1>6, <2>1, <2>2, EndsOneAttempt DEF Inserting!Next
<1>7. CASE Inserts
  <2>1. /\ work = "get" /\ work' \in {"sent", "failed"} /\ UNCHANGED <<attempt, ctxDone>>
    BY <1>7 DEF Inserts
  <2>2. Stage = "trying" /\ Stage' = "trying" BY <2>1 DEF Stage
  <2> QED BY <2>1, <2>2 DEF Inserting!vars
<1>8. CASE UNCHANGED batcherVars BY <1>8, LoopAlone DEF batcherVars
<1>9. UNCHANGED batcherVars \/ Ends \/ ~InsertUses BY DEF InsertUses
<1>10. ASSUME NEW u \in Others, OtherStep(u) PROVE UNCHANGED batcherVars BY <1>10 DEF OtherStep
<1> QED BY <1>1, <1>2, <1>3, <1>4, <1>5, <1>6, <1>7, <1>8, <1>9, <1>10
        DEF StoreNext, InsertStep, PoolStep, allVars

\* The batcher on its pool goes through InsertBatch as InsertAttempts says, as
\* the batcher of Ingest does: whatever the pool makes of Get and Put, no attempt
\* begins after the deadline and there are three at most (main.go:235-291).
THEOREM FlushesAttempt == StoreSpec => ImplementsAttempts
<1>1. StoreInit => AttemptsOK /\ Inserting!Init
  BY DEF StoreInit, AttemptsOK, Inserting!Init, Stage, Flushing
<1>2. BatcherOK /\ BatcherOK' /\ AttemptsOK /\ [StoreNext]_allVars
        => AttemptsOK' /\ [Inserting!Next]_(Inserting!vars)
  BY LoopStep
<1> QED BY <1>1, <1>2, BatcherInItsPlace, PTL DEF StoreSpec, ImplementsAttempts, Inserting!Spec
=============================================================================
