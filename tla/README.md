# A formal model of quota_data_service

TLA+ specifications of the tick ingestion service in this repository, checked
with TLC on small instances and, where it says so below, proved with TLAPS for
every instance. Paths are relative to `src/`.

## 1. The system

The service takes market ticks over HTTP (`POST /ingest`) and gRPC
(`IngestTick`, `IngestTicks`), collects them in one queue, and one goroutine
writes them in batches to ClickHouse. Queries go straight to ClickHouse. Both
use a pool of ClickHouse connections. A client library with a pool of gRPC
connections of its own talks to the service; the dump tool uses it to send the
rows of HDF5 files that another program appends to.

| # | Component | State | Operations | Where |
|---|---|---|---|---|
| 1 | Batcher | channel `in`, `buf` | `Run`, `flush` | `main.go:294-374` |
| 2 | `CHWriter.InsertBatch` | attempt, context, last error | insert with three attempts | `main.go:228-292` |
| 3 | HTTP ingest | none | decode, non-blocking push, 202 | `main.go:376-461` |
| 4 | gRPC ingest | `processedCount` of a call | validate, non-blocking push, reply | `grpc_service.go:30-172` |
| 5 | ClickHouse pool | channel, statistics, mutex, `closed` | `NewCHPool`, `Get`, `Put`, `Close`, cleanup | `clickhouse_pool.go` |
| 6 | Queries | none | `/ticks`, `/latest`, `GetTicks`, `GetLatestTick`, `GetActiveSymbols` | `main.go:563-978`, `grpc_service.go:174-332` |
| 7 | Life cycle | signal context, the two servers | start, signal, `Shutdown`, `GracefulStop` | `main.go:463-559` |
| 8 | Retention job | the table, through ClickHouse | one `ALTER TABLE DELETE` at the start and then daily | `main.go:521-543` |
| 9 | Client pool | channel, `curSize`, mutex, `stopCh` | `New`, `Get`, `Put`, `Close`, cleanup | `client/v1/conn_pool.go` |
| 10 | Client API | the package's pool | one RPC per function | `client/v1/client.go` |
| 11 | Dump tool | cursors of files, watcher, debounce timers | scan, parse, send with retries | `dump-quota-data-file/main.go` |
| 12 | Configuration | none | environment with defaults | `main.go:89-141` |

How they interact: 3 and 4 send into the channel of 1 without ever blocking; 1
calls 2 synchronously, so nothing is received while an insert is retried; 1, 2,
6 and 8 take connections from 5; 7 cancels the context of 1 and stops the
servers of 3 and 4, and does not wait for 1; 10 and 11 use 9 to reach 4.

What is hard, and what makes each part correct:

* **Write path (1-4, 7).** Many producers, one consumer, retries whose effect is
  unknown, a timeout, a requeue into the channel the consumer itself drains, and
  a shutdown in the middle. Correct means: a tick is in one place only, none
  vanishes without a log line while the process lives, a surplus row has a cause,
  the reply tells what was taken, a call's ticks keep their order, the process
  stops.
* **The two pools (5, 9).** Channel operations and statistics are separate steps
  under a mutex that is released in between, and a cleanup goroutine drains the
  same channel. Correct means: one owner per connection, none leaked, the
  counters explained, a bounded excess over the maximum, nobody waits forever.
* **Dump tool (11).** Timers start goroutines that nothing serialises, so one
  file may be parsed twice at a time; cursors are in memory only; a batch is
  sent again after an error whose effect is unknown. Correct means: the cursor
  never covers a row that was not sent, every extra copy has a cause, the cursor
  goes back only for a reason, and a file that is left alone is sent completely.
* **Queries (6) and retention (8)** keep no state of their own, but a client that
  pages by offset sees the table through many queries while it changes. Correct
  means: paging misses nothing and repeats nothing on a table that stands still,
  and the latest tick of a key does not go back.
* **Configuration (12)** is read once; its values are constants here.

## 2. Modules

| Module | What it is |
|---|---|
| `Ingest` | components 1-4 and 7 in one state machine |
| `TickDelivery` | the abstract specification of the write path: each tick is held once accepted, then stored or lost, finally |
| `CHPool` | component 5 |
| `BatcherOnPool` | components 1 and 2 as a user of `CHPool` |
| `InsertAttempts` | what component 2 promises about its attempts; `Ingest` and `BatcherOnPool` implement it |
| `GrpcConnPool` | component 9 |
| `ConnLease` | what both pools promise about a single connection |
| `DumpTool` | component 11, with the client call it makes (10) |
| `Queries` | components 6 and 8, and a client that exports a day (10) |
| `MCIngest`, `MCCHPool`, `MCBatcherOnPool`, `MCGrpcConnPool`, `MCDumpTool`, `MCQueries` | their instances |
| `IngestProofs`, `CHPoolProofs`, `CHPoolLease`, `BatcherOnPoolProofs`, `GrpcConnPoolProofs`, `DumpToolProofs`, `QueriesProofs` | proofs |
| `SeqLemmas` | what `Append` and `Tail` do to the elements of a channel, and how many there are |

### Ingest

A tick is one occurrence of a data point in one call. `in` is the channel,
`buf` the buffer, `batch` the copy that `flush` inserts; `pc` says where the
batcher goroutine is: in its `select`, in the health check (`ping`), at the
three steps of an attempt or the check before it, requeueing, or gone. A handler
is the position in its list of ticks, its count and its reply. `main` walks
through the shutdown.

* One turn of a handler's loop is one action, because other handlers and the
  batcher run in between; so is one tick of the requeue loop.
* `CtxErr` is `c.Err()` of the insert context. A timeout is a flag set at any
  time of a flush (`Deadline`); the cancellation by a signal is `main # "serving"`.
  Every step of an attempt may fail once the context is done and may still
  succeed; while the context is live it fails at most `MaxFailures` times.
* The table counts rows per tick. `SendFails` may or may not have stored the
  batch; `unacked` counts the cases where it had.
* `accepted` and `dropped` are history variables: what the channel took, and
  what `flush` logged as dropped.
* Decoding JSON is abstracted to the list of ticks that results; requests that
  are refused before any tick are `Rejected`. `validateTick` is the set `Valid`.
* `InsertAttempts` is the abstract specification of one insert: numbered attempts,
  the next only after a failure, none once the context has ended. `Stage`,
  `attempt` and `CtxEnded` are the refinement mapping; a context that ends
  outside an insert is one that the next insert begins with.
* When `main` returns nothing moves any more, and what is in memory is gone
  (`Silent`). Sleeps take no time; they cannot be cancelled in the code either.
* `asked` are the gRPC queries in progress, which `GracefulStop` waits for as it
  does for the ingest calls. `leaked` says that a connection of the pool could
  not be replaced (`clickhouse_pool.go:164`): from then on a `Get` without a
  deadline, in a query or in the health check, need not return. How the pool gets
  there is in `CHPool`; the constant `MayLeak` says whether it does.
* `Panic` is a query that is a `GetLatestTick`: it hands `getTick` a nil
  `*http.Request`, whose `Context()` panics (`grpc_service.go:267`,
  `main.go:894`), and nothing recovers, so the process dies with all it holds,
  also while `GracefulStop` waits. `LatestCalled` says whether a client makes that
  call.

### CHPool

One action for each step between which another goroutine can run: a channel
operation, a ping, a dial, or a locked section. Only the cleanup keeps the mutex
over several steps; the other locked sections are enabled when it sleeps. `open`
is the set of connections that are really open, against which the statistics
are compared. `leaked` counts replacements that failed. `up` says whether
ClickHouse can be dialled; a ping may always fail. `phase` follows `NewCHPool`
and `NewCHWriter`, which are the only callers of `Close`. `Query`, `Exec`,
`Ping` and `InsertBatch` are all Get, some work, Put.

`ConnLease` is the abstract specification: a connection is closed, in the pool,
or with one user. `Owner` is the refinement mapping. It reads the owner of a
connection off its place: not open, held by a user, or in the channel or the
list of the cleanup; an open connection that is nowhere would be "forgotten",
which `ConnLease` does not have.

### BatcherOnPool

`CHPool` with the batcher as one of its users: a health check (`PingUses`) has a
context that ends with the process only, the insert of a flush (`InsertUses`) one
with a deadline (`ctxDone`). `work` says where the batcher is in its own loop,
`attempt` counts the attempts of `InsertBatch`. Where `CHPool` lets a user without
a deadline of its own give up at any time, here `Uses` asks that the context is
done. The other users stay as free as in `CHPool`; the one of the instance is
`Patient`: a query handler whose client waits for the answer, so that its context
never ends. (The retention job has a deadline of two minutes, `main.go:530`, and
is one of those that may give up.) The ticks are
left to `Ingest`; a flush that requeues is one that ends. The signal is left out:
`main` does not wait for the batcher, so a stuck one delays no shutdown, and the
cancelled context would only end its wait (a query that waits does delay the
shutdown: see `Ingest`). The same loop of `InsertBatch` is in
`Ingest`, there with the ticks and here with the connections: that both
implement `InsertAttempts` ties the two models together.

### GrpcConnPool

The same granularity. `HealthService` says whether the server answers the
health protocol: without it no connection is ever found healthy. `mine` is the
connection the cleanup has taken out and `left` the turns of its scan. Dialling
under the mutex in `Get` is part of one action, as nobody can observe it. `Close`
begins when no client is in a call: the code does not survive anything else (a
`Put` after `Close` panics), and the tests, its only callers, use it that way.

### DumpTool

One file. A row is one line of one version (`gen`) of it. `main` is the
goroutine of `main()`: the start-up scan with its two `Stat` calls, then the
event loop. `event`, `timer` and `job[p]` are the waiting watcher event, the
armed debounce timer and the locals of the goroutines in `parseH5File`. The two
`Stat` calls, the opening, the reading of the cursor, each call of the client
and the writing of the cursor are actions of their own: anything may happen in
between. The program that writes the file and the service are the environment:
the file grows or is replaced, and the service may take any part of a batch,
with success if it took something (`Ingest`), with an error, one that is retried
(`SendTransient`) or one that is not (`SendRefused`), even if it did.

* `Crash` stands for `log.Fatalf` on an error of the watcher, of `OpenDataset`
  or of `Read`, for the panic on a file name without `_`, and for the machine.
  All that is in memory is lost; `Restart` scans again.
* Initially the directory of the file exists, or it is made later and watched
  when its Create event is handled (`WatchDir`).
* Ghost variables: `cut` (rows of a batch answered with success that were not
  taken), `overlaps` (parses that opened the file while another had it open),
  `unseen` (the last rows were written before the directory was watched),
  `abandoned` (where the latest parse after the last write gave up).

### Queries

Rows with a time and a key, and a clock with a few instants. A row's time is the
client's, so it may lie ahead of the clock. `getTickers` and
the handlers' limit and interval rules are pure operators; a query is one action
that sees the table at one instant. `walk` is a client that exports the last
day: all keys at once, or key by key from `GetActiveSymbols`, page after page
until a page is empty. `owed` is what was in the table when it began, `quiet`
whether table and clock have stood still since. ClickHouse is the environment:
it may order rows with equal times in any way, and it deletes rows one by one
after a cleanup asked for it. Two things follow the code closely: the time
condition of a sampled query applies to the start of the interval, as
`receive_time` in `WHERE` is the alias of the `SELECT` list; and start and end
are whole seconds.

## 3. Runs

| Run | Instance | Shows |
|---|---|---|
| `IngestSafety` | 4 gRPC calls with 9 ticks (two invalid ones, one request above the limit), queue 2, batch 2, 3 failures, 1 timeout | `TypeOK`, `HeldOnce`, `SilentLossNeedsExit`, `DuplicatesNeedLostAck`, `DropNeedsCause`, `NoOvertaking`, `AckCountsMatch`, `LastFlushIsRefused`, `ImplementsAttempts` |
| `IngestLive` | an HTTP and a gRPC call with 3 ticks, queue 1, 1 timeout, one query at a time, which may be a `GetLatestTick`, a pool that may lose a connection | `AcceptedPrefix`, `ImplementsDelivery`, `ShutdownCompletes` |
| `CHPool` | the batcher (`BatcherOnPool`) and a query whose client waits, min 1, max 2, 3 connections | `TypeOK`, `OneOwner`, `Accounting`, `Oversubscription`, `RefillHasRoom`, `CloseClosesAll`, `ImplementsLease`, `PatientGetReturns`, `BatcherOK`, `FlushEnds`, `PingEnds` |
| `GrpcPoolSafety` | 3 clients, init 1, max 2, 5 connections | `TypeOK`, `OneOwner`, `Accounting`, `Oversubscription`, `BlocksOnlyOversubscribed`, `ImplementsLease` |
| `GrpcPoolLive` | 2 clients, max 1, no health service | `GetReturns`, `CloseReturns` |
| `Dump` | 2 parses at a time, 3 rows, batches of 2, 1 retry, 2 writes, 1 replacement, 2 troubles | `TypeOK`, `CursorCoversSent`, `ExtraCopiesHaveCause`, `CursorGoesBackOnlyByOverlap`, `QuietFileIsSent` |
| `Queries` | 4 rows, 2 keys, 2 instants, limits 1 and 2, raw and 5 ms | `TypeOK`, `ExportMissesNothing`, `QuietExportRepeatsNothing`, `LatestNeverGoesBack` |

The remaining runs state what a comment, a document or a log line says and TLC
refutes it (`findings` in `PROJECT.json` quotes each):

| Run | Claim | What happens |
|---|---|---|
| `IngestShutdownLoss` | graceful shutdown loses no data | the last flush has a cancelled context, the channel is not drained |
| `IngestTimeoutDrop` | a batch that failed by timeout is put back | `%v` hides `DeadlineExceeded` in every path but one |
| `CHPoolMin` | the cleanup ensures the minimum | a failed replacement stays counted for good |
| `GrpcPoolHang` | `Get` is protected by a timeout | the cleanup blocks on the full channel with the mutex held |
| `DumpRetry` | a failed batch is retried later (`dump-quota-data-file/main.go:247,255`) | nothing schedules a retry unless the file is written again |

**Bounds.** `MaxFailures = 3` is the least that exhausts an insert; two ticks
per batch and a queue of one or two make the batch fill up, the queue overflow
and a requeue find no room; a request of three ticks with an invalid one in the
middle makes a hole possible, a request of four is above `MaxRequest`. In
`IngestLive` the steps of an attempt fail only once their context is done
(`MaxFailures = 0`), by the timeout or by a signal: that three attempts end, which
failures with a live context would add, is `FlushEnds` in the run `CHPool`. One
query is enough there, as each waits for itself. Two users
make `CHPool` exceed its maximum by one, three clients make `GrpcConnPool` exceed
its by two, and the instances have as many connections as can be open at once,
so that a dial never fails for lack of a name. `leaked` needs no bound: a failed
replacement leaves one connection fewer to fail. `GrpcPoolLive` needs no third
client, as its properties concern one client and the cleanup. In `Dump`,
`MaxTrouble` bounds failed opens and calls, crashes and replacements together;
two are enough for a failed call and its failed retry, a crash during a second
send, or a replacement while a parse is under way. Two parses overlap as any
number does, and `DumpToolProofs` covers the others. `MaxWrites = 2` gives a
write before and one during a parse. In `Queries` the two instants are one
second apart, so that one row leaves the last day; two rows share an interval,
two share a time ahead of the first instant, and one key has more rows than a
page.

`CHECK_DEADLOCK FALSE` stands where the system really can stop:
`GrpcPoolSafety` and `GrpcPoolHang`, where a `Close` that waits for the blocked
cleanup waits forever too, and `Dump` and `DumpRetry`, where a tool that is idle,
or down, has nothing to do when nobody writes.

**Fairness.** `Ingest`: a goroutine that can run does; `select` chooses at random
among the ready cases, so a case that is ready again and again is taken (strong
fairness of receiving, of the ticker and of the exit); an attempt returns because
its context has a deadline. The context of a health check ends with the signal
only, that of a query with its client: they return as long as no replacement of
a connection has failed (`~leaked`), which `PingEnds` and `PatientGetReturns`
show of the pool, and the health check also once the signal has come. `BatcherOnPool`: as in `CHPool`, and
deadlines pass; the ticker and the health ticker need not fire. No fairness for clients, signals or faults. `CHPool` and
`GrpcConnPool`: calls in progress go on, the tickers fire, `sync.Mutex` is handed
to those that wait and a parked receiver is served in its turn (strong fairness,
since the mutex is free and the channel non-empty only from time to time);
nobody must begin a Get. The channel's queue of waiting receivers is what
justifies strong fairness of `GetWaited`. `DumpTool`: the event loop, the timer
and the goroutines run, and every call returns because it has a deadline; nothing
obliges the writer, the failures of the service or whoever restarts the tool.
`Queries` has safety properties only.

## 4. Proofs

All theorems hold for any sets of calls, ticks, users and connections and any
bounds that satisfy the assumptions stated in the modules.

`IngestProofs`: `TypeCorrect`, then `PipelineInvariant` with `TicksHeldOnce`,
`DuplicatesBounded`. Neither is inductive
alone, and the invariant also accounts for every accepted tick (`Accounted`: in
memory, stored or reported). That appending a tick to the channel keeps it unique needs to know that
a call never comes back to a tick it has passed (`FreshUntouched`, from the
assumption that ticks are occurrences), and that a successful insert adds the
first acknowledged row needs to know that a tick still in the pipeline has no
rows but those of unacknowledged sends (`HeldBalanced`). The proof has a lemma
per kind of step: a step of a handler, a tick that moves, a flush that ends.

The other properties of `Ingest` each have a strengthening of their own.
`DropsHaveCause`: that an expired flush and a requeue come from a timeout, and a
later attempt from as many failures (`Causes`). `AcksCorrect` and
`PrefixAccepted`: that a call with ticks left has taken every valid one it has
passed (`NoHoles`), so what stops it is the first tick it could not place.
`OrderPreserved`: that channel, buffer and batch are passed in order (`InOrder`):
if a later tick of a call has left one of them, so has an earlier one, and a
batch is stored as a whole. After a timeout this fails, as a requeued tick goes to the
end of the channel: hence the hypothesis of `NoOvertaking`. `PipelineDelivers`:
every step of the pipeline accepts a tick, stores or loses some, or changes no
`Status`; that a stored tick was accepted (`StoredAccepted`) is what rules out a
step from "new" to "stored". `LastFlushRefused` needs that no deadline passes
between flushes or before the check of the last one (`LastFlush`): so this check
finds the cancellation, and nothing is requeued. `OnlyExitLosesSilently` follows
from `Accounted` and `LastFlushRefused`: what is neither stored nor reported was in
memory when the process ended, and once the batcher has gone in the channel.
`FlushesAttempt` is the step refinement of `InsertAttempts`; a signal or a deadline during an
insert is the end of the abstract context, anything else outside the attempt loop
a stutter.

`CHPoolProofs`: `PoolInvariant`, from which follow `TypeCorrect`,
`OneOwnerAlways`, `OversubscriptionBounded` and `CloseIsComplete`, and then
`AccountingCorrect` and `RefillFindsRoom`. The
strengthening has two parts. `Phases`: nobody touches the pool before it is
built or after it is closed, so the first connections fit into the channel and
nothing is checked out when it closes. `Slots`: a user between its check and its
counting occupies a slot; with slots, `TotalConnections` stays below
`MaxConnections` plus the number of users, because whoever takes a slot saw
room, and whoever adds a connection without one saw the count below
`MinConnections`, which is smaller (the reason for the assumption). `Accounting`
needs no more than that: each statistic is a count of connections corrected by the
users between an act and its counting, and `CountsTable` says how each step of
Get and Put moves a user from one of those counts to another. The refill finds
room because the connections in the channel are distinct, open and counted: with a
full channel `TotalConnections` would be at least `MaxConnections`.

`BatcherOnPoolProofs`: `BatcherUsesPool`, that the composition takes only steps of
the pool, so that all of the above holds in it (`PoolSafeWithBatcher`, which also
takes `PoolImplementsLease`); `FlushesAttempt`, the step refinement of
`InsertAttempts`, with the invariant `AttemptsOK` (outside an insert the count is reset and no
deadline runs); and `BatcherInItsPlace`, for which
one needs that another user's step leaves the batcher where it is
(`OthersApart`) and that giving a connection back ends outside the pool
(`ReturnGoesOn`).

`CHPoolLease`: `PoolImplementsLease`, that every step of the pool is a step of
`ConnLease` or leaves `Owner` alone. `OwnerValue` says that under `OneOwner` the
place of a connection determines its owner (`OwnerNow` and `OwnerAfter` before and
after a step), `OwnerExcept` that a step that moves
one connection changes one owner; then there is a lemma for each kind of move
(lent, dialled for a user, given up, dialled, shut) and one per group of actions.
`OwnerAssumption` says that the names "closed", "pool" and "forgotten" are not
users.

`GrpcConnPoolProofs`: `PoolInvariant`, from which follow `TypeCorrect`,
`OneOwnerAlways`, `AccountingExact`, `BlocksRarely` and `OversubscriptionBounded`;
`PoolImplementsLease` is proved as for `CHPool`, with a connection that the
cleanup has in hand counted as the pool's.
Ownership goes as in `CHPoolProofs`. For the numbers, `Tally` counts the
connections where they are (channel, clients, cleanup) and `Accounting` counts
the open ones; the proof writes both as a difference that no step changes
(`Slack`, `Drift`; `ClientCounts`, `CleanCounts`, `WarmUpCounts`), with
`CountedMove` for the counts of clients. `BlocksRarely` follows from `Tally`: a
full channel and the connection the cleanup has in hand are more than `MaxSize`.
`OversubscriptionBounded` follows from `Accounting` and `Slots`: a client that
replaces a connection keeps the slot it has uncounted. `Phases` says that nobody
acts before `New` returns, so that the warm-up fits into the channel, and that a
closed pool is empty.

`DumpToolProofs`: `TypeCorrect`, `DumpInvariant`, `CursorCovered`,
`CursorGoesBack` and `CopiesHaveCause`. `CursorCoversSent` is not inductive: the cursor takes the place
of a goroutine that is done, so the rows up to the place of every goroutine must
have been sent (`Covered`), and its last batch must end where its look at the
file ended (`Fresh`). That the cursor does not go back needs `Alone`: while no two
parses have had the file open at once, the cursor is not ahead of the one that
has. The proof first says what a step does in the terms of the invariant
(`OtherSteps`, `ParseSteps`, `ParserPlace`) and then has one lemma per conjunct.
`ExtraCopiesHaveCause` is an account (`CopiesInv`): the copies of a row and the
parses that may still send it (`Pending`) are at most the causes so far, plus one
while a parse runs and one while the cursor is past the row and no parse of the
file can send it again (`Skipped`). A parse that starts adds to both sides, an
overlapping one through `overlaps`; a row of a replaced file that nobody reads any
more (`Ended`) is never sent again.

`QueriesProofs`: `TypeCorrect`, `LatestMonotone`, `ExportComplete` and
`QuietExportOnce`, for every finite set of rows, all limits and all intervals. The
heart is `Position`: in an answer ordered by time, an item with a time of its own
stands right after the items that are newer, however ties are broken, so its place
is a cardinality (`Before`) and `PageHolds` can say which items a page has. An item
that is owed is then ahead (`Ahead`): as many newer items as the offset are in the
table. That number never shrinks (`AboveGrows`), because an insert only adds, a
delete takes only rows older than the last day (`TableOK`), and the bounds of the
request move forward with the clock (`InTimesKept`). The converse, `Behind`, holds
while table and clock stand still and gives `QuietExportOnce`. `RowsAssumption`
says that the table is finite, `BoundsAssumption` that a second is not longer than
the day (the export has an end time); `LatestMonotone` needs the types only.

`SeqLemmas` holds the lemmas on sequences.

So every invariant and every action property of the passing runs is a theorem, and
so are the step refinements `Delivery!Spec`, `ImplementsLease` for both pools and
`ImplementsAttempts` for both models of the insert (TLC checks it in `Ingest` too).
Only model-checked is everything about liveness, which is out of the prover's
reach: `ImplementsDelivery` (with its fairness), `ShutdownCompletes`,
`PatientGetReturns`, `FlushEnds`, `PingEnds`, `GetReturns`, `CloseReturns` and
`QuietFileIsSent`; and the refuted claims of the violation runs.

## 5. Not modelled

* The text of the SQL, `LIKE` patterns and the values of a tick: a query selects
  by key and time. The gRPC service validates the market types SP and UM
  (`validateTick`), the HTTP side and the examples also use "spot".
* A limit above 1000 becomes 100 over HTTP (`main.go:595`) and 1000 over gRPC. The
  client of `Queries` advances by the length of a page; one that advances by the
  limit it asked for would skip rows.
* `getTick` does not look at `rows.Err()` (`main.go:904`): a query that fails
  while it is read is answered as "no data".
* Dump tool: several files (each has a cursor and a timer of its own), deleted
  and excluded directories, the contents of a file, and a file that is moved into
  the directory, which no event handler looks at before the next start
  (`dump-quota-data-file/main.go:407`). A file that is replaced by one with at
  least as many rows is not recognised as new (`main.go:213`), so the
  completeness properties exempt replaced files.
* JSON and NDJSON decoding. Two things a reader should know: a first line that
  starts with `{` makes the whole body one JSON object (`main.go:400-432`), so a
  body of several JSON lines is refused; and a 202 says nothing about ticks that
  were skipped at a full queue (`main.go:427`).
* `batch.Append`, whose error is ignored (`main.go:271`).
* The retention job deletes data older than 24 hours where its comments say
  three days (`main.go:521,528`); the model follows the code.
* Configuration, generated code, examples, containers.

Seen in `CHPool` but not stated as a run: `MaxConnections` is documented as the
maximum (`clickhouse_pool.go:33`), and Get checks it before it releases the mutex
and creates the connection afterwards (`:186`); `Oversubscription` bounds the
excess by the number of users less one.

Seen in `BatcherOnPool` and `Ingest` but not stated as a run: without their
exceptions for failed replacements `PingEnds`, `ShutdownCompletes` and
`ImplementsDelivery` are false. When failed replacements
(`clickhouse_pool.go:164`) have left `TotalConnections` at its maximum and the
channel is empty, Get neither dials nor, without a deadline, gives up, and the
cleanup does not refill. The batcher, which runs the health check in its select
loop (`main.go:331`), then flushes nothing although ClickHouse is up again, until a
signal ends its context. A signal in turn need not stop the process: `GracefulStop`
(`main.go:556`) has no timeout, and a `GetTicks` or `GetActiveSymbols` whose client
waits can be in the same `Get` (`clickhouse_pool.go:201`) for good. The operators
`PingWaits` and `QueryWaits` name the two waits.

Seen in `GrpcConnPool` but not stated as a property: `maxSize` is not a maximum,
as a client that replaces an unhealthy connection does not look at it
(`client/v1/conn_pool.go:95`; `Oversubscription` bounds the excess); and against
this repository's server, which registers no health service, `New` keeps none of
the connections it dials (`client/v1/conn_pool.go:59`), so the pool starts empty
and every call dials.

## 6. Plan

1. Done: `Ingest` with its abstract specification, both pools with theirs, the
   dump tool, the queries, the batcher on its pool, and the proofs of section 4.
2. Several files in `DumpTool`, with the excluded and the deleted directories.
3. Done: theorems for every invariant and action property of the runs, and the
   step refinements of `TickDelivery`, `ConnLease` and `InsertAttempts`.
4. Simpler proofs where a lemma can be shared between the two pools.
