------------------------------- MODULE Ingest -------------------------------
(***************************************************************************)
(* The write path of the service: the HTTP and gRPC ingest handlers put    *)
(* ticks into the batcher's channel, the batcher goroutine collects them   *)
(* into a buffer and writes each batch to ClickHouse with retries, and     *)
(* main() stops everything on SIGINT or SIGTERM.                           *)
(*                                                                         *)
(* A tick is the occurrence of one data point in one call, so a client     *)
(* that sends the same quote twice sends two ticks.  ClickHouse and the    *)
(* connection pool are the environment: an attempt may fail at most        *)
(* MaxFailures times without cause, and always once its context is done.   *)
(***************************************************************************)
EXTENDS Integers, Sequences, FiniteSets, Functions

CONSTANTS
  Ticks,        \* the ticks clients send
  Valid,        \* those that pass validateTick
  Calls,        \* ingest calls, each made at most once
  Malformed,    \* the calls whose body or method is rejected before any tick is read
  Kind,         \* Kind[c]: "http" (POST /ingest), "tick" (IngestTick), "ticks" (IngestTicks)
  Payload,      \* Payload[c]: the ticks of call c, in the order of the request
  MaxRequest,   \* largest IngestTicks request (1000 in the code)
  MaxQueue,     \* capacity of the channel b.in (MAX_QUEUE)
  MaxBatch,     \* buffer length that triggers a flush (MAX_BATCH)
  MaxFailures,  \* bound: failures of a step of an insert attempt while its context is live
  MaxTimeouts,  \* bound: inserts that overrun INSERT_TIMEOUT_MS
  Queries,      \* the gRPC queries that may be in progress at a time
  LatestCalled, \* bound: whether one may be a GetLatestTick, or all are GetTicks and GetActiveSymbols
  MayLeak       \* bound: whether the replacement of a pool connection may fail

\* Mutation: the attempt loop ends one turn early.
TwoAttempts == 2
Attempts == 3

ASSUME CallsAssumption ==
  /\ Valid \subseteq Ticks /\ Malformed \subseteq Calls
  /\ Kind \in [Calls -> {"http", "tick", "ticks"}]
  /\ Payload \in [Calls -> Seq(Ticks)]
  /\ \A c \in Calls : Kind[c] = "tick" => Len(Payload[c]) <= 1
ASSUME OccurrencesAssumption ==
  \A c, d \in Calls : \A i \in 1..Len(Payload[c]), j \in 1..Len(Payload[d]) :
    Payload[c][i] = Payload[d][j] => c = d /\ i = j
ASSUME BoundsAssumption ==
  /\ MaxQueue \in Nat \ {0} /\ MaxBatch \in Nat \ {0} /\ MaxRequest \in Nat
  /\ MaxFailures \in Nat /\ MaxTimeouts \in Nat /\ MayLeak \in BOOLEAN /\ LatestCalled \in BOOLEAN

VARIABLES
  pos,       \* pos[c]: index of the next tick of call c to handle; 0 before the call
  processed, \* processed[c]: processedCount of the IngestTicks handler
  reply,     \* reply[c]: "none", "running", or what the call answered
  in,        \* the channel b.in
  buf,       \* b.buf
  batch,     \* the copy of the buffer that flush is inserting
  pc,        \* where the batcher goroutine is
  attempt,   \* attempt counter of InsertBatch, 0 outside
  expired,   \* the insert timeout of the flush in progress elapsed while serving
  exiting,   \* the flush in progress is the one made on ctx.Done()
  main,      \* what main() is doing
  table,     \* table[t]: rows ClickHouse holds for t
  unacked,   \* ghost, unacked[t]: Sends of t that were applied but reported an error
  accepted,  \* ghost: ticks some handler put into the channel
  dropped,   \* ghost: accepted ticks the batcher has given up
  failures,  \* failures so far (bounded by MaxFailures)
  timeouts,  \* insert timeouts so far (bounded by MaxTimeouts)
  asked,     \* the queries in progress
  leaked     \* replacing a pool connection failed (clickhouse_pool.go:164): from then on
             \* a Get may find nothing, and one without a deadline may wait for ever

handlerVars == <<pos, processed, reply>>
batcherVars == <<buf, batch, pc, attempt, expired, exiting>>
storeVars   == <<table, unacked>>
faultVars   == <<failures, timeouts>>
\* Everything but the queries, which touch none of it.
pathVars == <<handlerVars, in, batcherVars, main, storeVars, accepted, dropped, faultVars>>
queryVars == <<asked, leaked>>
vars == <<pathVars, queryVars>>

Init ==
  /\ pos = [c \in Calls |-> 0] /\ processed = [c \in Calls |-> 0]
  /\ reply = [c \in Calls |-> "none"]
  /\ in = <<>> /\ buf = <<>> /\ batch = <<>>
  /\ pc = "select" /\ attempt = 0 /\ expired = FALSE /\ exiting = FALSE
  /\ main = "serving"
  /\ table = [t \in Ticks |-> 0] /\ unacked = [t \in Ticks |-> 0]
  /\ accepted = {} /\ dropped = {} /\ failures = 0 /\ timeouts = 0
  /\ asked = {} /\ leaked = FALSE

-----------------------------------------------------------------------------
(* The handlers.  Every send into the channel is non-blocking.             *)

\* New HTTP requests arrive until Shutdown closes the listener, new gRPC
\* requests until GracefulStop does.
Open(c) == main \in IF Kind[c] = "http" THEN {"serving", "signalled"}
                                       ELSE {"serving", "signalled", "http"}
Rejected(c) == \/ c \in Malformed
               \/ Kind[c] # "http" /\ Payload[c] = <<>>
               \/ Kind[c] = "ticks" /\ Len(Payload[c]) > MaxRequest

Begin(c) ==
  /\ reply[c] = "none" /\ Open(c)
  /\ IF Rejected(c)
       THEN reply' = [reply EXCEPT ![c] = "Invalid"] /\ UNCHANGED pos
       ELSE /\ reply' = [reply EXCEPT ![c] = "running"]
            /\ pos' = [pos EXCEPT ![c] = 1]
  /\ UNCHANGED <<processed, in, batcherVars, main, storeVars, accepted, dropped, faultVars, queryVars>>

Alive == main \notin {"stopped", "crashed"}
Current(c) == Payload[c][pos[c]]
InLoop(c) == Alive /\ reply[c] = "running" /\ pos[c] <= Len(Payload[c])
LoopDone(c) == Alive /\ reply[c] = "running" /\ pos[c] > Len(Payload[c])
\* Mutation: off by one in the capacity of the channel.
RoomOffByOne == Len(in) <= MaxQueue
Room == Len(in) < MaxQueue
Enqueue(t) == in' = Append(in, t) /\ accepted' = accepted \cup {t}
Advance(c) == pos' = [pos EXCEPT ![c] = @ + 1]
\* Mutation: wait for room in place of select with a default (Advance is
\* the mutation that turns "break batchLoop" into "continue").
WaitOnFull(c) == UNCHANGED pos
\* "break batchLoop"
BreakLoop(c) == pos' = [pos EXCEPT ![c] = Len(Payload[c]) + 1]
Answer(c, r) == reply' = [reply EXCEPT ![c] = r]

\* POST /ingest sends each decoded tick; one that finds the channel full is skipped.
HttpPush(c) ==
  /\ Kind[c] = "http" /\ InLoop(c)
  /\ IF Room THEN Enqueue(Current(c)) ELSE UNCHANGED <<in, accepted>>
  /\ Advance(c)
  /\ UNCHANGED <<processed, reply, batcherVars, main, storeVars, dropped, faultVars, queryVars>>

HttpReply(c) ==
  /\ Kind[c] = "http" /\ LoopDone(c) /\ Answer(c, "202")
  /\ UNCHANGED <<pos, processed, in, batcherVars, main, storeVars, accepted, dropped, faultVars, queryVars>>

IngestTick(c) ==
  /\ Kind[c] = "tick" /\ InLoop(c)
  /\ \/ Current(c) \notin Valid /\ Answer(c, "Invalid") /\ UNCHANGED <<in, accepted>>
     \/ Current(c) \in Valid /\ Room /\ Enqueue(Current(c)) /\ Answer(c, "OK")
     \/ Current(c) \in Valid /\ ~Room /\ Answer(c, "ResourceExhausted") /\ UNCHANGED <<in, accepted>>
  /\ Advance(c)
  /\ UNCHANGED <<processed, batcherVars, main, storeVars, dropped, faultVars, queryVars>>

\* One turn of batchLoop: an invalid tick is skipped, a full channel ends the loop.
IngestTicksNext(c) ==
  /\ Kind[c] = "ticks" /\ InLoop(c)
  /\ \/ Current(c) \notin Valid /\ Advance(c) /\ UNCHANGED <<in, accepted, processed>>
     \/ /\ Current(c) \in Valid /\ Room
        /\ Enqueue(Current(c)) /\ processed' = [processed EXCEPT ![c] = @ + 1] /\ Advance(c)
     \/ /\ Current(c) \in Valid /\ ~Room
        /\ BreakLoop(c) /\ UNCHANGED <<in, accepted, processed>>
  /\ UNCHANGED <<reply, batcherVars, main, storeVars, dropped, faultVars, queryVars>>

\* Mutation: anything less than the whole request is answered as a failure.
IngestTicksReplyAll(c) ==
  /\ Kind[c] = "ticks" /\ LoopDone(c)
  /\ Answer(c, IF processed[c] = Len(Payload[c]) THEN "OK" ELSE "NoSuccess")
  /\ UNCHANGED <<pos, processed, in, batcherVars, main, storeVars, accepted, dropped, faultVars, queryVars>>
IngestTicksReply(c) ==
  /\ Kind[c] = "ticks" /\ LoopDone(c)
  /\ Answer(c, IF processed[c] > 0 THEN "OK" ELSE "NoSuccess")
  /\ UNCHANGED <<pos, processed, in, batcherVars, main, storeVars, accepted, dropped, faultVars, queryVars>>

Handler(c) == HttpPush(c) \/ HttpReply(c) \/ IngestTick(c)
              \/ IngestTicksNext(c) \/ IngestTicksReply(c)

-----------------------------------------------------------------------------
(* The batcher goroutine: Batcher.Run, flush and CHWriter.InsertBatch.     *)

Cancelled == main # "serving"
At(l) == Alive /\ pc = l

\* Mutation: the buffer is not truncated after it was copied.
StartFlushKeeps(b) == batch' = b /\ buf' = b /\ pc' = "check" /\ attempt' = 1
\* flush takes the non-empty buffer b and starts the first attempt.
StartFlush(b) == batch' = b /\ buf' = <<>> /\ pc' = "check" /\ attempt' = 1
\* flush returns to the loop, or Run itself returns.
Return == pc' = (IF exiting THEN "exited" ELSE "select") /\ attempt' = 0 /\ expired' = FALSE

\* Mutation: the tick that fills the buffer is not appended before the flush.
ReceiveForgets ==
  /\ At("select") /\ in # <<>>
  /\ in' = Tail(in)
  /\ IF Len(buf) + 1 >= MaxBatch
       THEN StartFlush(buf)
       ELSE buf' = Append(buf, Head(in)) /\ UNCHANGED <<batch, pc, attempt>>
  /\ UNCHANGED <<handlerVars, expired, exiting, main, storeVars, accepted, dropped, faultVars, queryVars>>
Receive ==
  /\ At("select") /\ in # <<>>
  /\ in' = Tail(in)
  /\ LET b == Append(buf, Head(in)) IN
       IF Len(b) >= MaxBatch THEN StartFlush(b)
                             ELSE buf' = b /\ UNCHANGED <<batch, pc, attempt>>
  /\ UNCHANGED <<handlerVars, expired, exiting, main, storeVars, accepted, dropped, faultVars, queryVars>>

\* Mutation: the ticker flushes full buffers only.
TickerFiresFull ==
  /\ At("select") /\ Len(buf) >= MaxBatch /\ StartFlush(buf)
  /\ UNCHANGED <<handlerVars, in, expired, exiting, main, storeVars, accepted, dropped, faultVars, queryVars>>
\* With an empty buffer flush returns at once and nothing changes.
TickerFires ==
  /\ At("select") /\ buf # <<>> /\ StartFlush(buf)
  /\ UNCHANGED <<handlerVars, in, expired, exiting, main, storeVars, accepted, dropped, faultVars, queryVars>>

HealthTick ==
  /\ At("select") /\ pc' = "ping"
  /\ UNCHANGED <<handlerVars, in, buf, batch, attempt, expired, exiting, main, storeVars,
                 accepted, dropped, faultVars, queryVars>>
PingReturns ==
  /\ At("ping") /\ pc' = "select"
  /\ UNCHANGED <<handlerVars, in, buf, batch, attempt, expired, exiting, main, storeVars,
                 accepted, dropped, faultVars, queryVars>>

\* Mutation: Run returns without a last flush.
ExitAtOnce ==
  /\ At("select") /\ Cancelled /\ exiting' = TRUE /\ pc' = "exited"
  /\ UNCHANGED <<handlerVars, in, buf, batch, attempt, expired, main, storeVars,
                 accepted, dropped, faultVars, queryVars>>
Exit ==
  /\ At("select") /\ Cancelled
  /\ exiting' = TRUE
  /\ IF buf = <<>> THEN pc' = "exited" /\ UNCHANGED <<buf, batch, attempt>>
                   ELSE StartFlush(buf)
  /\ UNCHANGED <<handlerVars, in, expired, main, storeVars, accepted, dropped, faultVars, queryVars>>

\* Mutation: the context of the insert is not derived from the one of Run.
CtxErrDetached == IF expired THEN "DeadlineExceeded" ELSE "none"
\* c.Err(): the timeout counts only if it came before the cancellation.
CtxErr == IF expired THEN "DeadlineExceeded" ELSE IF Cancelled THEN "Canceled" ELSE "none"
\* The batch goes back to the channel, tick by tick.
StartRequeue == pc' = "requeue" /\ attempt' = 0 /\ UNCHANGED <<batch, expired, dropped>>
\* An error other than DeadlineExceeded: flush logs the batch as dropped.
\* (StartRequeue in its place is the mutation that requeues after any error.)
GiveUp == batch' = <<>> /\ dropped' = dropped \cup Range(batch) /\ Return

\* select on ctx.Done() at the head of the attempt loop, after the sleep of the last attempt.
CheckCtx ==
  /\ At("check")
  /\ \/ CtxErr = "none" /\ pc' = "get" /\ UNCHANGED <<batch, attempt, expired, dropped>>
     \/ CtxErr = "Canceled" /\ GiveUp
     \/ CtxErr = "DeadlineExceeded" /\ StartRequeue
  /\ UNCHANGED <<handlerVars, in, buf, exiting, main, storeVars, accepted, faultVars, queryVars>>

\* pool.Get and PrepareBatch succeed.
StepOk ==
  /\ \/ At("get") /\ pc' = "prepare"
     \/ At("prepare") /\ pc' = "send"
  /\ UNCHANGED <<handlerVars, in, buf, batch, attempt, expired, exiting, main, storeVars,
                 accepted, dropped, faultVars, queryVars>>

Insert(f) == [t \in Ticks |-> IF t \in Range(batch) THEN f[t] + 1 ELSE f[t]]

\* Mutation: the loop does not return on success.
SendOkRetries ==
  /\ At("send") /\ table' = Insert(table)
  /\ IF attempt < Attempts THEN pc' = "check" /\ attempt' = attempt + 1 /\ UNCHANGED <<batch, expired>>
                           ELSE batch' = <<>> /\ Return
  /\ UNCHANGED <<handlerVars, in, buf, exiting, main, unacked, accepted, dropped, faultVars, queryVars>>
SendOk ==
  /\ At("send")
  /\ table' = Insert(table) /\ batch' = <<>> /\ Return
  /\ UNCHANGED <<handlerVars, in, buf, exiting, main, unacked, accepted, dropped, faultVars, queryVars>>

\* The three steps of an attempt fail alike.  lastErr is built with %v, so the
\* error of the last attempt is never DeadlineExceeded for flush.
AttemptFails ==
  /\ IF CtxErr = "none" THEN failures < MaxFailures /\ failures' = failures + 1
                        ELSE UNCHANGED failures
  /\ IF attempt < Attempts
       THEN pc' = "check" /\ attempt' = attempt + 1 /\ UNCHANGED <<batch, expired, dropped>>
       ELSE GiveUp
  /\ UNCHANGED <<handlerVars, in, buf, exiting, main, accepted, timeouts, queryVars>>
GetFails == At("get") /\ AttemptFails /\ UNCHANGED storeVars
PrepareFails == At("prepare") /\ AttemptFails /\ UNCHANGED storeVars
\* A Send that reports an error may have been applied.
SendFails ==
  /\ At("send") /\ AttemptFails
  /\ \/ UNCHANGED storeVars
     \/ table' = Insert(table) /\ unacked' = Insert(unacked)

\* flush sends into b.in, the channel only this goroutine receives from.
RequeueNext ==
  /\ At("requeue")
  /\ batch' = Tail(batch)
  /\ IF Room THEN in' = Append(in, Head(batch)) /\ UNCHANGED dropped
             ELSE dropped' = dropped \cup {Head(batch)} /\ UNCHANGED in
  /\ IF Len(batch) = 1 THEN Return ELSE UNCHANGED <<pc, attempt, expired>>
  /\ UNCHANGED <<handlerVars, buf, exiting, main, storeVars, accepted, faultVars, queryVars>>

\* The WithTimeout context of a flush in progress runs out.
Deadline ==
  /\ main = "serving" /\ pc \in {"check", "get", "prepare", "send"} /\ ~expired
  /\ timeouts < MaxTimeouts /\ timeouts' = timeouts + 1 /\ expired' = TRUE
  /\ UNCHANGED <<handlerVars, in, buf, batch, pc, attempt, exiting, main, storeVars,
                 accepted, dropped, failures, queryVars>>

Batcher == \/ Receive \/ TickerFires \/ HealthTick \/ PingReturns \/ Exit
           \/ CheckCtx \/ StepOk \/ SendOk \/ GetFails \/ PrepareFails \/ SendFails
           \/ RequeueNext \/ Deadline

-----------------------------------------------------------------------------
(* main()                                                                  *)

Goto(from, to) ==
  /\ main = from /\ main' = to
  /\ UNCHANGED <<handlerVars, in, batcherVars, storeVars, accepted, dropped, faultVars, queryVars>>
Signal == Goto("serving", "signalled")
ShutdownHttp == Goto("signalled", "http")
\* Shutdown returns when the HTTP handlers are done or after its two seconds.
HttpDown == Goto("http", "grpc")
\* GracefulStop waits for every gRPC handler, those of the queries included;
\* when main returns, every goroutine dies.
GracefulStop ==
  /\ \A c \in Calls : Kind[c] # "http" => reply[c] # "running"
  /\ asked = {}
  /\ Goto("grpc", "stopped")

Main == Signal \/ ShutdownHttp \/ HttpDown \/ GracefulStop

-----------------------------------------------------------------------------
(* The gRPC queries.  They share nothing with the write path but the       *)
(* connection pool and the process.                                        *)

BeginQuery(q) ==
  /\ main \in {"serving", "signalled", "http"} /\ q \notin asked /\ asked' = asked \cup {q}
  /\ UNCHANGED <<pathVars, leaked>>
\* GetTicks and GetActiveSymbols have their answer or an error, and so has a
\* GetLatestTick without a symbol.
QueryReturns(q) ==
  /\ Alive /\ q \in asked /\ asked' = asked \ {q}
  /\ UNCHANGED <<pathVars, leaked>>

\* Get closes a connection whose ping failed and cannot open another: the pool
\* still counts it, and never has it again.
PoolLeaks == Alive /\ MayLeak /\ ~leaked /\ leaked' = TRUE /\ UNCHANGED <<pathVars, asked>>

\* A query turns out to be a GetLatestTick, which hands getTick a nil
\* *http.Request to take its Context(): the panic ends the process.
Panic ==
  /\ LatestCalled /\ Alive /\ asked # {} /\ main' = "crashed" /\ asked' = {}
  /\ UNCHANGED <<handlerVars, in, batcherVars, storeVars, accepted, dropped, faultVars, leaked>>

Querying == (\E q \in Queries : BeginQuery(q) \/ QueryReturns(q)) \/ PoolLeaks

Stopped == ~Alive /\ UNCHANGED vars

Next == (\E c \in Calls : Begin(c) \/ Handler(c)) \/ Batcher \/ Main \/ Panic \/ Querying \/ Stopped

\* What a flush does outside the select of Run, and main() after the signal.
Working == CheckCtx \/ StepOk \/ SendOk \/ GetFails \/ PrepareFails \/ SendFails \/ RequeueNext
Stopping == ShutdownHttp \/ HttpDown \/ GracefulStop

\* Goroutines run; a step of an attempt returns, because its context has a
\* deadline; select picks at random among the ready cases, so a case that is
\* ready again and again is taken.  A ping, whose context ends with the signal
\* only, and a query, whose context is the client's, return as long as the pool
\* has every connection it counts.  Nothing obliges clients, signals or faults.
Fairness ==
  /\ \A c \in Calls : WF_vars(Handler(c))
  /\ WF_vars(Working) /\ SF_vars(Receive) /\ SF_vars(TickerFires) /\ SF_vars(Exit)
  /\ WF_vars(PingReturns /\ (Cancelled \/ ~leaked))
  /\ \A q \in Queries : WF_vars(QueryReturns(q) /\ ~leaked)
  /\ WF_vars(Stopping)

Spec == Init /\ [][Next]_vars
FairSpec == Spec /\ Fairness
-----------------------------------------------------------------------------
(* Properties                                                              *)

Places == {"select", "ping", "check", "get", "prepare", "send", "requeue", "exited"}

HandlersOK ==
  /\ pos \in [Calls -> Nat] /\ processed \in [Calls -> Nat]
  /\ reply \in [Calls -> {"none", "running", "202", "OK", "NoSuccess", "ResourceExhausted", "Invalid"}]
  /\ \A c \in Calls : reply[c] = "running" => pos[c] > 0
  /\ \A c \in Calls : reply[c] = "none" => pos[c] = 0
ChannelOK == in \in Seq(Ticks) /\ Len(in) <= MaxQueue /\ accepted \subseteq Ticks
BatcherOK ==
  /\ buf \in Seq(Ticks) /\ Len(buf) < MaxBatch
  /\ batch \in Seq(Ticks) /\ Len(batch) <= MaxBatch
  /\ pc \in Places /\ attempt \in 0..Attempts /\ expired \in BOOLEAN /\ exiting \in BOOLEAN
  /\ main \in {"serving", "signalled", "http", "grpc", "stopped", "crashed"}
  /\ batch # <<>> <=> pc \in {"check", "get", "prepare", "send", "requeue"}
  /\ attempt # 0 <=> pc \in {"check", "get", "prepare", "send"}
  /\ exiting => Cancelled /\ pc \notin {"select", "ping"}
StoreOK ==
  /\ table \in [Ticks -> Nat] /\ unacked \in [Ticks -> Nat] /\ dropped \subseteq Ticks
  /\ failures \in 0..MaxFailures /\ timeouts \in 0..MaxTimeouts

QueriesOK == asked \subseteq Queries /\ leaked \in BOOLEAN

\* Types, the capacity of the channel and the size of buffer and batch, and
\* which parts of the batcher's state are in use where it stands.
TypeOK == HandlersOK /\ ChannelOK /\ BatcherOK /\ StoreOK /\ QueriesOK

Apart(s, t) == Range(s) \cap Range(t) = {}
\* The ticks the channel, the buffer and the batch hold, or held when the process ended.
InMemory == Range(in) \cup Range(buf) \cup Range(batch)

\* A tick is in one place of the pipeline at most: flush copies the buffer
\* and truncates it (main.go:345-347), requeueing moves a tick back.
HeldOnce ==
  /\ IsInjective(in) /\ IsInjective(buf) /\ IsInjective(batch)
  /\ Apart(in, buf) /\ Apart(in, batch) /\ Apart(buf, batch)

\* Accepted ticks that are gone without a trace: not in the memory of a living
\* process, not in ClickHouse, and in no log line about a drop (main.go:356, 367).
Silent == {t \in accepted : ~(Alive /\ t \in InMemory) /\ table[t] = 0 /\ t \notin dropped}

\* No tick a handler put into the channel disappears silently while the process
\* lives.  Its end, by main() returning (main.go:559) or by a panic, silently
\* takes what was in memory and nothing else; after the batcher's last flush
\* (main.go:320) that is what is left in the channel, which nobody drains.
SilentLossNeedsExit ==
  Silent # {} => /\ ~Alive /\ Silent \subseteq InMemory
                 /\ pc = "exited" => Silent \subseteq Range(in)

\* Retries and requeueing store a tick twice only if a Send that reported an
\* error had been applied (the duplication main.go:361 accepts).
DuplicatesNeedLostAck == \A t \in Ticks : table[t] <= 1 + unacked[t]

\* The inductive invariant behind the last three: every accepted tick is in
\* memory, stored or reported; a call does not come back to a tick it has
\* passed, so what enters the channel is new; and a tick that is not or not
\* yet out of the pipeline has no row but those of unreported Sends.
Accounted == \A t \in accepted : t \in InMemory \/ table[t] > 0 \/ t \in dropped
FreshUntouched ==
  \A c \in Calls : \A i \in 1..Len(Payload[c]) : i >= pos[c] => Payload[c][i] \notin accepted
HeldBalanced ==
  \A t \in Ticks : t \notin accepted \/ t \in InMemory => table[t] <= unacked[t]
IInv == /\ TypeOK /\ HeldOnce /\ Accounted /\ DuplicatesNeedLostAck
        /\ FreshUntouched /\ HeldBalanced /\ InMemory \subseteq accepted

Before(c) == {i \in 1..Len(Payload[c]) : i < pos[c]}
Taken(c) == {i \in Before(c) : Payload[c][i] \in accepted}

\* What the gRPC replies say is what the batcher got: ProcessedCount of
\* IngestTicks counts the ticks in the channel, an OK of IngestTick means the
\* tick is in it, an error means it is not.
AckCountsMatch ==
  \A c \in Calls :
    /\ Kind[c] = "ticks" => processed[c] = Cardinality(Taken(c))
    /\ Kind[c] = "tick" /\ reply[c] = "OK" => Taken(c) = {1}
    /\ reply[c] \in {"NoSuccess", "ResourceExhausted", "Invalid"} => Taken(c) = {}

\* IngestTicks stops at the first tick the channel has no room for, so what it
\* took is a prefix of the valid ticks and ProcessedCount tells where to resume.
AcceptedPrefix ==
  \A c \in Calls : Kind[c] = "ticks" =>
    \A j \in Taken(c), i \in 1..Len(Payload[c]) :
      i < j /\ Payload[c][i] \in Valid => i \in Taken(c)

\* While the service is not being stopped an accepted tick is given up only
\* after three failed steps or an insert timeout.
DropNeedsCause == dropped # {} => Cancelled \/ failures >= 3 \/ timeouts > 0

\* Until an insert times out, the ticks of one call reach ClickHouse in their
\* order: none is stored while an earlier one of the call still waits.
NoOvertaking ==
  timeouts = 0 => \A c \in Calls : \A i, j \in Taken(c) :
    i < j /\ table[Payload[c][j]] > 0
      => table[Payload[c][i]] > 0 \/ Payload[c][i] \in dropped

\* What makes DropNeedsCause inductive: an expired flush and a requeue come from
\* a timeout, and a later attempt from as many failures before it.
Causes ==
  /\ DropNeedsCause
  /\ expired \/ pc = "requeue" => timeouts > 0
  /\ attempt > 0 => Cancelled \/ timeouts > 0 \/ failures >= attempt - 1

\* What makes AckCountsMatch and AcceptedPrefix inductive: as long as a call has
\* ticks to look at, it has taken every valid one it has passed.
NoHoles ==
  \A c \in Calls : Kind[c] = "ticks" /\ reply[c] = "running" /\ pos[c] <= Len(Payload[c]) =>
    \A i \in Before(c) : Payload[c][i] \in Valid => i \in Taken(c)
Replies == AckCountsMatch /\ AcceptedPrefix /\ NoHoles

\* What makes NoOvertaking inductive: channel, buffer and batch are passed in
\* order.  If a later tick of a call has left one of them, so has an earlier
\* one, and it is not behind it in the channel; nothing before the batch has a
\* row, and the batch is stored as a whole.
StoredAccepted == \A t \in Ticks : table[t] > 0 => t \in accepted
Queued == \A a, b \in 1..Len(in) : a < b =>
  ~\E c \in Calls : \E i, j \in Taken(c) : i < j /\ in[a] = Payload[c][j] /\ in[b] = Payload[c][i]
Passed == \A c \in Calls : \A i, j \in Taken(c) : i < j =>
  LET s == Payload[c][i]  t == Payload[c][j] IN
    /\ s \in Range(in) => t \in Range(in)
    /\ s \in Range(buf) => t \in Range(in) \cup Range(buf)
    /\ s \in Range(batch) => t \in InMemory
InOrder ==
  timeouts = 0 =>
    /\ Queued /\ Passed
    /\ \A t \in Range(in) \cup Range(buf) : table[t] = 0
    /\ \A s, t \in Range(batch) : table[s] = table[t]

\* The status of a tick in the abstract specification.
Status == [t \in Ticks |->
  IF t \notin accepted THEN "new"
  ELSE IF table[t] > 0 THEN "stored"
  ELSE IF t \in InMemory /\ Alive THEN "held" ELSE "lost"]
Delivery == INSTANCE TickDelivery WITH status <- Status

\* What waits for a connection the pool will never have again: the ping of the
\* health check, until the signal cancels its context, and main() in
\* GracefulStop for a query, whose context only the client ends.
QueryWaits == leaked /\ main = "grpc" /\ asked # {}
PingWaits == leaked /\ ~Cancelled /\ pc = "ping"

\* The pipeline implements TickDelivery: outcomes are final, and every tick
\* the channel took is stored or lost in the end, also across a shutdown and
\* when a panic ends the process, unless a wait for the pool holds it up for ever.
ImplementsDelivery == Delivery!Spec /\ (<>[](PingWaits \/ QueryWaits) \/ Delivery!Fairness)

\* A flush goes through the loop of InsertBatch: no attempt begins once the
\* deadline has passed or the signal has come, and there are three at most.
Stage == IF pc = "check" THEN "check"
         ELSE IF pc \in {"get", "prepare", "send"} THEN "trying" ELSE "idle"
CtxEnded == Stage # "idle" /\ (expired \/ Cancelled)
Inserting == INSTANCE InsertAttempts
               WITH MaxAttempts <- Attempts, stage <- Stage, tries <- attempt, ended <- CtxEnded
ImplementsAttempts == Inserting!Spec

\* The flush that Run makes on ctx.Done() (main.go:320) has a context that is
\* done before it starts: it never gets to ClickHouse, and when the batcher has
\* gone nothing is left of the pipeline but the channel.
LastFlushIsRefused ==
  /\ exiting => pc \in {"check", "exited"} /\ buf = <<>>
  /\ pc = "exited" => exiting /\ InMemory = Range(in)

\* A signal stops the process, for no handler waits for the batcher that has
\* gone: in the end no signal came, or the process is gone, or main() is in
\* GracefulStop (main.go:556) for a query that waits for the pool for ever.
ShutdownCompletes == <>[](~Cancelled \/ ~Alive \/ QueryWaits)

\* README_GRPC.md:197 promises a graceful shutdown that loses no data: once the
\* batcher has made its last flush and main() has returned, every tick of a
\* call that was answered with success is in ClickHouse.
GracefulShutdownKeepsData ==
  main = "stopped" /\ pc = "exited" =>
    \A c \in Calls : reply[c] \in {"202", "OK"} =>
      \A i \in Taken(c) : table[Payload[c][i]] > 0

\* The comment at main.go:358: an error caused by a timeout makes flush put
\* the data back; only a full channel (pc = "requeue") may then drop a tick.
TimeoutRequeues == [][expired /\ pc # "requeue" => dropped' = dropped]_vars
=============================================================================
