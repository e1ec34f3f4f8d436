---------------------------- MODULE BatcherOnPool ----------------------------
(***************************************************************************)
(* The batcher of main.go on top of the pool of clickhouse_pool.go: what   *)
(* its flushes and health checks ask of the pool, and what the pool may do *)
(* to them.  Ingest follows the ticks and leaves the pool out; here it is  *)
(* the other way round.                                                    *)
(*                                                                         *)
(* The batcher goroutine is one user of CHPool: with a context that ends   *)
(* with the process only while it pings, and with a context that has a     *)
(* deadline while it inserts.  The other users are the query handlers,     *)
(* with the context of their request, and the retention job, whose context *)
(* has a deadline of two minutes.                                          *)
(***************************************************************************)
EXTENDS CHPool

CONSTANT Batcher

ASSUME BatcherAssumption == Batcher \in Users \ Patient

VARIABLES
  work,    \* where the batcher is: "select", "ping" (in pool.Ping) or in InsertBatch: "try"
           \* (the top of its loop), "get", "sent" or "failed" (returning the connection)
  attempt, \* attempt of InsertBatch
  ctxDone  \* the deadline of the insert has passed

batcherVars == <<work, attempt, ctxDone>>
allVars == <<vars, batcherVars>>

StoreInit == Init /\ work = "select" /\ attempt = 1 /\ ctxDone = FALSE

maxAttempts == 3
Others == Users \ {Batcher}

\* The batcher goes on in the pool; Get gives up only when its context is done.
Uses(done) ==
  /\ pc[Batcher] # "out" /\ (Get(Batcher) \/ Put(Batcher))
  /\ pc[Batcher] \in {"take", "wait"} /\ pc'[Batcher] = "out" => done

-----------------------------------------------------------------------------
(* The health check                                                        *)

\* Mutation: the health check runs beside the loop.
HealthCheckBeside ==
  work = "select" /\ phase = "serving" /\ GetStart(Batcher) /\ UNCHANGED batcherVars
HealthCheck ==
  /\ work = "select" /\ phase = "serving" /\ GetStart(Batcher) /\ work' = "ping"
  /\ UNCHANGED <<attempt, ctxDone>>
\* pool.Ping: Get, a ping, Put.
PingUses ==
  /\ work = "ping" /\ Uses(FALSE)
  /\ work' = IF pc'[Batcher] = "out" THEN "select" ELSE work
  /\ UNCHANGED <<attempt, ctxDone>>

-----------------------------------------------------------------------------
(* A flush and its InsertBatch                                             *)

Flush ==
  /\ work = "select" /\ phase = "serving" /\ work' = "try"
  /\ UNCHANGED <<vars, attempt, ctxDone>>
Flushed == work' = "select" /\ attempt' = 1 /\ ctxDone' = FALSE
\* context.WithTimeout(ctx, b.insertTimeout)
Deadline ==
  /\ work \notin {"select", "ping"} /\ ~ctxDone /\ ctxDone' = TRUE
  /\ UNCHANGED <<vars, work, attempt>>

TryGets ==
  /\ work = "try" /\ ~ctxDone /\ GetStart(Batcher) /\ work' = "get"
  /\ UNCHANGED <<attempt, ctxDone>>
TryRefused == work = "try" /\ ctxDone /\ Flushed /\ UNCHANGED vars

\* The attempt succeeded, or it failed: in Get, or after it.
Ends ==
  \/ work = "sent" /\ Flushed
  \/ /\ work \in {"get", "failed"} /\ attempt < maxAttempts
     /\ work' = "try" /\ attempt' = attempt + 1 /\ UNCHANGED ctxDone
  \/ work \in {"get", "failed"} /\ attempt = maxAttempts /\ Flushed
\* Mutation: Get is called with a context that has no deadline.
InsertUsesNoDeadline ==
  /\ work \in {"get", "sent", "failed"} /\ pc[Batcher] # "use" /\ Uses(FALSE)
  /\ IF pc'[Batcher] = "out" THEN Ends ELSE UNCHANGED batcherVars
InsertUses ==
  /\ work \in {"get", "sent", "failed"} /\ pc[Batcher] # "use" /\ Uses(ctxDone)
  /\ IF pc'[Batcher] = "out" THEN Ends ELSE UNCHANGED batcherVars

\* Mutation: PrepareBatch fails and the connection is not put back.
InsertsAndKeeps ==
  /\ work = "get" /\ pc[Batcher] = "use"
  /\ \/ up /\ work' = "sent" /\ PutStart(Batcher) /\ UNCHANGED <<attempt, ctxDone>>
     \/ /\ Ends /\ Holds(Batcher, NoConn) /\ Goto(Batcher, "out")
        /\ UNCHANGED <<phase, conns, open, stats, cleanupVars, up, leaked>>
\* PrepareBatch and Send, of which either may fail, and pool.Put.
Inserts ==
  /\ work = "get" /\ pc[Batcher] = "use" /\ PutStart(Batcher)
  /\ (up /\ work' = "sent") \/ work' = "failed"
  /\ UNCHANGED <<attempt, ctxDone>>

-----------------------------------------------------------------------------
InsertStep == TryGets \/ TryRefused \/ InsertUses \/ Inserts
OtherStep(u) == (Get(u) \/ Put(u)) /\ UNCHANGED batcherVars
PoolStep == (Construct \/ Clean \/ ServerFlips) /\ UNCHANGED batcherVars
StoreNext ==
  \/ HealthCheck \/ PingUses \/ Flush \/ Deadline \/ InsertStep \/ PoolStep
  \/ \E u \in Others : OtherStep(u)

\* As in CHPool, user by user; in addition deadlines pass.
BatcherGoes == InsertStep \/ PingUses
OtherGoes(u) == (InProgress(u) \/ GetWaited(u)) /\ UNCHANGED batcherVars
StoreFairness ==
  /\ SF_allVars(BatcherGoes) /\ WF_allVars(Deadline)
  /\ WF_allVars(Clean /\ UNCHANGED batcherVars)
  /\ \A u \in Others : SF_allVars(OtherGoes(u))

StoreSpec == StoreInit /\ [][StoreNext]_allVars /\ StoreFairness

-----------------------------------------------------------------------------
(* Properties                                                              *)

Flushing == {"try", "get", "sent", "failed"}

\* Types, and when the batcher is in the pool: during a health check, and from
\* the Get to the Put of an attempt.
BatcherOK ==
  /\ work \in {"select", "ping"} \cup Flushing /\ attempt \in 1..maxAttempts /\ ctxDone \in BOOLEAN
  /\ pc[Batcher] # "out" <=> work \in {"ping", "get", "sent", "failed"}
  /\ work \in {"sent", "failed"} => pc[Batcher] \in {"return", "putIdle", "putClosed"}

\* Between its flushes the batcher has no attempt and no context.
AttemptsOK == work \notin Flushing => attempt = 1 /\ ~ctxDone

\* A flush goes through the loop of InsertBatch, whatever the pool does to its
\* Get and Put: no attempt begins after the deadline, and there are three at most.
Stage == IF work = "try" THEN "check" ELSE IF work \in Flushing THEN "trying" ELSE "idle"
Inserting == INSTANCE InsertAttempts
               WITH MaxAttempts <- maxAttempts, stage <- Stage, ended <- ctxDone,
                    tries <- IF Stage = "idle" THEN 0 ELSE attempt
ImplementsAttempts == Inserting!Spec

\* Every flush ends, stored or not, whatever ClickHouse does and however many
\* connections the pool has lost count of: its context has a deadline.
FlushEnds == work \in Flushing ~> work \notin Flushing

\* The health check, which has no deadline, ends too once ClickHouse stays up,
\* as long as no replacement of a connection has failed.
PingEnds == <>[]up => (work = "ping" ~> work # "ping" \/ leaked > 0)
=============================================================================
