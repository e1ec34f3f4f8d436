------------------------------- MODULE Queries -------------------------------
(***************************************************************************)
(* The read side of the service: GET /ticks, GET /latest and their gRPC    *)
(* counterparts GetTicks, GetLatestTick and GetActiveSymbols, and the      *)
(* retention job, over one ClickHouse table that the batcher inserts into. *)
(*                                                                         *)
(* A client exports the last day page after page while rows come and go:   *)
(* it raises the offset by the length of each page until a page is empty.  *)
(*                                                                         *)
(* ClickHouse is the environment: a query sees the table at one instant,   *)
(* orders ties in any way, and deletes rows one by one some time after a   *)
(* cleanup has asked for it.                                               *)
(***************************************************************************)
EXTENDS Integers, Sequences, FiniteSets, SequencesExt

CONSTANTS
  Rows,         \* the rows that may be inserted
  Time,         \* Time[r]: receive_time in milliseconds, as the client sent it: it may lie ahead of now
  Key,          \* Key[r]: symbol, exchange and market type
  NoRow,        \* no row
  Instants,     \* bound: the instants at which something happens
  Day,          \* 24 hours, in milliseconds
  SecondMs,     \* milliseconds in a second (1000)
  DefaultLimit, \* limit of a request without a usable one (100 in the code)
  MaxLimit,     \* largest limit (1000 in the code)
  Asked,        \* limits that clients ask for, 0 for none
  HttpIntervals,\* interval parameters of GET /ticks, 0 for none
  GrpcIntervals \* interval enum values of GetTicks

ASSUME RowsAssumption ==
  /\ IsFiniteSet(Rows) /\ NoRow \notin Rows /\ Time \in [Rows -> Nat] /\ DOMAIN Key = Rows
ASSUME BoundsAssumption ==
  /\ Instants \subseteq Nat /\ Instants # {}
  /\ Day \in Nat /\ SecondMs \in Nat \ {0} /\ SecondMs <= Day
  /\ DefaultLimit \in Nat \ {0} /\ MaxLimit \in Nat /\ DefaultLimit <= MaxLimit
  /\ Asked \subseteq Int /\ HttpIntervals \subseteq Nat
ASSUME InstantsAssumption == \A t \in Instants : t >= Day

VARIABLES
  table,  \* the rows ClickHouse holds
  future, \* the rows not inserted yet
  due,    \* rows that a cleanup has asked to delete and that are still there
  now,    \* the time
  up,     \* the service runs
  tick,   \* the time of the next cleanup
  walk,   \* the export in progress or just ended, see Walk
  latest  \* latest[k]: the tick of key k in the last successful answer of GET /latest

storeVars == <<table, future, due>>
vars == <<storeVars, now, up, tick, walk, latest>>

Keys == {Key[r] : r \in Rows}
MinInstant == CHOOSE t \in Instants : \A u \in Instants : t <= u

-----------------------------------------------------------------------------
(* The parameters of a request.                                            *)

Millis == [INTERVAL_1MS |-> 1, INTERVAL_5MS |-> 5, INTERVAL_10MS |-> 10,
           INTERVAL_30MS |-> 30, INTERVAL_100MS |-> 100, INTERVAL_1S |-> 1000,
           INTERVAL_5S |-> 5000, INTERVAL_10S |-> 10000, INTERVAL_30S |-> 30000,
           INTERVAL_1M |-> 60000, INTERVAL_5M |-> 300000, INTERVAL_15M |-> 900000,
           INTERVAL_30M |-> 1800000, INTERVAL_1H |-> 3600000,
           INTERVAL_4H |-> 14400000, INTERVAL_1D |-> 86400000]
intervalToMilliseconds(i) == IF i \in DOMAIN Millis THEN Millis[i] ELSE 0

HttpLimit(n) == IF n \in 1..MaxLimit THEN n ELSE DefaultLimit
GrpcLimit(n) == IF n <= 0 THEN DefaultLimit ELSE IF n > MaxLimit THEN MaxLimit ELSE n

\* start_time and end_time are whole seconds; 0 stands for none.
StartTime == (now - Day) \div SecondMs
EndTime == now \div SecondMs
InTimes(t) == /\ StartTime > 0 => t >= StartTime * SecondMs
              /\ EndTime > 0 => t <= EndTime * SecondMs

-----------------------------------------------------------------------------
(* getTickers.  A slot is an item of its answer: a row, or with an         *)
(* interval of ms > 0 the group of the rows of one key in one interval.    *)

Slot(r, ms) == IF ms = 0 THEN [time |-> Time[r], key |-> Key[r], row |-> r]
               ELSE [time |-> Time[r] - (Time[r] % ms), key |-> Key[r], row |-> NoRow]
\* ClickHouse takes receive_time in WHERE for the column of the SELECT list
\* of that name, which is the start of the interval when there is one.
Matching(keys, ms) ==
  {s \in {Slot(r, ms) : r \in table} : s.key \in keys /\ InTimes(s.time)}

\* Mutation: no ORDER BY.
AnyOrder(S) == SetToSeqs(S)
\* Mutation: ORDER BY receive_time, the oldest first.
OldestFirst(S) == {q \in SetToSeqs(S) : \A i, j \in 1..Len(q) : i < j => q[i].time <= q[j].time}
\* ORDER BY receive_time DESC
NewestFirst(S) == {q \in SetToSeqs(S) : \A i, j \in 1..Len(q) : i < j => q[i].time >= q[j].time}
\* LIMIT ? OFFSET ?
Page(q, limit, offset) ==
  SubSeq(q, offset + 1, IF offset + limit < Len(q) THEN offset + limit ELSE Len(q))
getTickers(keys, ms, limit, offset) ==
  {Page(q, limit, offset) : q \in NewestFirst(Matching(keys, ms))}

\* GetActiveSymbols without conditions: GROUP BY symbol, exchange, market_type.
getActiveSymbols == {Key[r] : r \in table}

-----------------------------------------------------------------------------
(* The export: todo holds the key sets still to be read, one per symbol    *)
(* when the client has asked for the list, all keys at once for "*".       *)

MsAsked == HttpIntervals \cup {intervalToMilliseconds(i) : i \in GrpcIntervals}
Slots == {Slot(r, ms) : r \in Rows, ms \in MsAsked}
NoWalk == [pc |-> "idle", ms |-> 0, limit |-> 0, all |-> FALSE, todo |-> {}, offset |-> 0,
           seen |-> {}, repeated |-> {}, owed |-> {}, quiet |-> TRUE]

Init ==
  /\ table \in SUBSET Rows /\ future = Rows \ table
  /\ due = {} /\ now = MinInstant /\ up = TRUE /\ tick = 0
  /\ walk = NoWalk /\ latest = [k \in Keys |-> NoRow]

\* The key set that is being read.
Current == CHOOSE k \in walk.todo : TRUE

Start(ms, limit) ==
  /\ up /\ walk.pc = "idle"
  /\ \E all \in BOOLEAN :
       walk' = [NoWalk EXCEPT !.pc = "page", !.ms = ms, !.limit = limit, !.all = all,
                  !.todo = IF all THEN {Keys} ELSE {{k} : k \in getActiveSymbols},
                  !.owed = {r \in table : Time[r] <= EndTime * SecondMs}]
  /\ UNCHANGED <<storeVars, now, up, tick, latest>>

HttpExport == \E ms \in HttpIntervals, n \in Asked : Start(ms, HttpLimit(n))
GrpcExport ==
  \E i \in GrpcIntervals, n \in Asked : Start(intervalToMilliseconds(i), GrpcLimit(n))

GetTicks ==
  /\ up /\ walk.pc = "page"
  /\ IF walk.todo = {} THEN walk' = [walk EXCEPT !.pc = "done"]
     ELSE \E page \in getTickers(Current, walk.ms, walk.limit, walk.offset) :
            walk' = IF page = <<>>
                      THEN [walk EXCEPT !.todo = @ \ {Current}, !.offset = 0]
                      ELSE [walk EXCEPT !.offset = @ + Len(page),
                              !.seen = @ \cup ToSet(page),
                              !.repeated = @ \cup (walk.seen \cap ToSet(page))]
  /\ UNCHANGED <<storeVars, now, up, tick, latest>>

\* A query or a scan that fails, or rows.Err() after the last row: no part
\* of the page is returned, and the client gives up.
GetTicksFails ==
  /\ walk.pc = "page" /\ walk' = [walk EXCEPT !.pc = "failed"]
  /\ UNCHANGED <<storeVars, now, up, tick, latest>>

Forget ==
  /\ walk.pc \in {"done", "failed"} /\ walk' = NoWalk
  /\ UNCHANGED <<storeVars, now, up, tick, latest>>

Disturb == walk' = [walk EXCEPT !.quiet = FALSE]

-----------------------------------------------------------------------------
(* GET /latest and GetLatestTick.                                          *)

\* Mutation: the conditions are not added to the query.
AllRows(k) == table
RowsOf(k) == {r \in table : Key[r] = k}
\* Mutation: LIMIT 1 without ORDER BY.
AnyRow(S) == S
\* ORDER BY receive_time DESC LIMIT 1
Newest(S) == {r \in S : \A s \in S : Time[s] <= Time[r]}

\* Without a row, or after an error, the answer holds no tick.
HttpLatest ==
  /\ up /\ \E k \in Keys : \E r \in Newest(RowsOf(k)) : latest' = [latest EXCEPT ![k] = r]
  /\ UNCHANGED <<storeVars, now, up, tick, walk>>

\* getTick takes the context of the *http.Request, which GetLatestTick passes
\* as nil: the handler panics and the process dies.
GrpcLatest ==
  /\ up /\ up' = FALSE
  /\ UNCHANGED <<storeVars, now, tick, walk, latest>>

-----------------------------------------------------------------------------
(* The batcher, the retention job and the clock.                           *)

Insert ==
  /\ up
  /\ \E r \in future : table' = table \cup {r} /\ future' = future \ {r}
  /\ Disturb
  /\ UNCHANGED <<due, now, up, tick, latest>>

Threshold == now - Day
\* At the start and then once a day; an error is only logged.
Cleanup ==
  /\ up /\ tick <= now /\ tick' = now + Day
  /\ \/ due' = due \cup {r \in table : Time[r] < Threshold}
     \/ UNCHANGED due
  /\ UNCHANGED <<table, future, now, up, walk, latest>>

\* ALTER TABLE DELETE is carried out in the background.
Delete ==
  /\ \E r \in due : table' = table \ {r} /\ due' = due \ {r}
  /\ Disturb
  /\ UNCHANGED <<future, now, up, tick, latest>>

Pass ==
  /\ \E t \in Instants : t > now /\ now' = t
  /\ Disturb
  /\ UNCHANGED <<storeVars, up, tick, latest>>

Restart ==
  /\ ~up /\ up' = TRUE /\ tick' = 0
  /\ UNCHANGED <<storeVars, now, walk, latest>>

Next == \/ HttpExport \/ GrpcExport \/ GetTicks \/ GetTicksFails \/ Forget
        \/ HttpLatest \/ GrpcLatest
        \/ Insert \/ Cleanup \/ Delete \/ Pass \/ Restart

Spec == Init /\ [][Next]_vars

-----------------------------------------------------------------------------
Walk == [pc : {"idle", "page", "done", "failed"}, ms : Nat, limit : Nat, all : BOOLEAN,
         todo : SUBSET SUBSET Keys, offset : Nat, seen : SUBSET Slots,
         repeated : SUBSET Slots, owed : SUBSET Rows, quiet : BOOLEAN]

TypeOK ==
  /\ table \subseteq Rows /\ future \subseteq Rows \ table
  /\ due \subseteq table /\ now \in Instants /\ up \in BOOLEAN /\ tick \in Nat
  /\ walk \in Walk
  /\ latest \in [Keys -> Rows \cup {NoRow}]
  /\ \A k \in Keys : latest[k] # NoRow => Key[latest[k]] = k

\* Another item of the same query with the same receive_time: ClickHouse may
\* order the two differently from one page to the next.
Tied(s) == \E r \in Rows : LET t == Slot(r, walk.ms) IN
             t # s /\ t.time = s.time /\ (walk.all \/ t.key = s.key)

\* Paging by offset misses nothing of the last day, although rows are
\* inserted and deleted between the pages: new rows only push the others to
\* later pages, and the retention job deletes only rows that come after
\* everything the client is owed.  Items with tied times are exempt.
ExportMissesNothing ==
  walk.pc = "done" =>
    \A s \in {Slot(r, walk.ms) : r \in walk.owed} :
      s.time >= now - Day /\ ~Tied(s) => s \in walk.seen

\* As long as the table and the clock stand still, no item without a tie is
\* returned twice.
QuietExportRepeatsNothing == walk.quiet => \A s \in walk.repeated : Tied(s)

\* The latest tick of a key goes back in time only when the row answered
\* before has been deleted in between, never because of a newer insert, of
\* the order of the inserts, or of a restart.
LatestNeverGoesBack ==
  [][\A k \in Keys :
       latest[k] # NoRow /\ latest[k] \in table => Time[latest'[k]] >= Time[latest[k]]]_vars

-----------------------------------------------------------------------------
(* The inductive invariant of the proofs in QueriesProofs.                 *)

\* What is known of the rows: only old ones are to be deleted, and an owed row
\* of the last day is still there.
TableOK ==
  /\ \A r \in due : Time[r] < Threshold
  /\ \A r \in walk.owed : Time[r] <= EndTime * SecondMs /\ (Time[r] >= Threshold => r \in table)

WalkOK ==
  /\ walk.pc # "idle" => walk.ms \in MsAsked /\ walk.limit > 0
  /\ walk.todo \subseteq IF walk.all THEN {Keys} ELSE {{k} : k \in Keys}
  /\ walk.pc = "done" => walk.todo = {}

\* The items that come before s on the pages of the key set being read.
Above(s) == {t \in Matching(Current, walk.ms) : t.time > s.time}

\* s is on a page still to come.
ToCome(s) ==
  \E K \in walk.todo : s.key \in K /\ (K = Current => Cardinality(Above(s)) >= walk.offset)
\* s is on no page still to come, as long as nothing changes.
Passed(s) ==
  \A K \in walk.todo : s.key \in K =>
    K = Current /\ s \in Matching(K, walk.ms) /\ Cardinality(Above(s)) < walk.offset

Ahead ==
  walk.pc \in {"page", "done"} =>
    \A s \in {Slot(r, walk.ms) : r \in walk.owed} :
      s.time >= Threshold /\ ~Tied(s) => s \in walk.seen \/ ToCome(s)
Behind ==
  walk.pc = "page" /\ walk.quiet => \A s \in walk.seen : ~Tied(s) => Passed(s)

IInv == TypeOK /\ TableOK /\ WalkOK /\ Ahead /\ Behind /\ QuietExportRepeatsNothing
=============================================================================
