------------------------------ MODULE DumpTool ------------------------------
(***************************************************************************)
(* The dump tool (dump-quota-data-file/main.go): it watches a directory of *)
(* .h5 files that another program appends to, and sends the rows it has    *)
(* not sent yet to the service.  One file is modelled.                     *)
(*                                                                         *)
(* main() scans once and then handles file events; each event (re)arms a   *)
(* debounce timer, and a timer that fires starts a goroutine that parses   *)
(* the file.  Stopping a timer does not stop a goroutine it has started,   *)
(* so several goroutines can parse the same file at once.                  *)
(*                                                                         *)
(* The writer of the file and the service are the environment.  The        *)
(* service answers IngestTicks with success when it took at least one tick *)
(* of the batch (see Ingest), so a success may leave rows out.             *)
(***************************************************************************)
EXTENDS Integers, FiniteSets, FiniteSetsExt

CONSTANTS
  Parsers,     \* goroutines that may run parseH5File at the same time
  MaxRows,     \* bound: rows of the file
  MaxGen,      \* bound: times the file is replaced
  MaxWrites,   \* bound: writes to the file
  MaxTrouble,  \* bound: failed opens, failed calls, crashes and replacements together
  BatchSize,   \* rows per call (100 in the code)
  MaxRetries   \* maxRetries of insertTicksWithRetry (3 in the code)

ASSUME BoundsAssumption ==
  /\ IsFiniteSet(Parsers)
  /\ MaxRows \in Nat /\ MaxGen \in Nat /\ MaxWrites \in Nat /\ MaxTrouble \in Nat
  /\ BatchSize \in Nat \ {0} /\ MaxRetries \in Nat

VARIABLES
  file,      \* environment: [gen |-> replacements so far, len |-> rows in the file]
  writes,    \* writes to the file so far
  cursor,    \* processedRows[filename], lost when the process dies
  main,      \* "scan", "scanning" (between its two Stat calls), "loop" or "down"
  scanSeen,  \* what the scan's first Stat saw
  watched,   \* the watcher has been added to the directory of the file
  event,     \* a Write event of the file waits in watcher.Events
  timer,     \* the debounce timer is armed
  job,       \* job[p]: the locals of goroutine p in parseH5File, see Job
  copies,    \* environment: copies[r]: how often the service took row r
  cut,       \* ghost: rows of a batch answered with success that the service did not take
  faults,    \* failed opens and failed calls so far
  crashes,   \* crashes so far
  overlaps,  \* ghost: parses that opened the file while another had it open
  unseen,    \* ghost: the latest rows were written before the directory was watched
  abandoned  \* ghost: "open" or "batch" where the latest parse that gave up since the
             \* last write failed, else "no"

watchVars == <<main, scanSeen, watched, event, timer>>
serviceVars == <<copies, cut>>
ghostVars == <<faults, crashes, overlaps, unseen, abandoned>>
vars == <<file, writes, cursor, watchVars, job, serviceVars, ghostVars>>

File == [gen : 0..MaxGen, len : 0..MaxRows]
Empty == [gen |-> 0, len |-> 0]
\* seen: the file at the first Stat; data: the file as opened, its len is
\* "total"; next: rows up to this one are sent, startRow at first; attempt: i
\* of insertTicksWithRetry.
Job == [pc : {"idle", "begin", "stat", "open", "cursor", "send", "done"},
        seen : File, data : File, next : 0..MaxRows, attempt : 0..MaxRetries]
NoJob == [pc |-> "idle", seen |-> Empty, data |-> Empty, next |-> 0, attempt |-> 0]
\* A row is the occurrence of one line of one version of the file.
Row == (0..MaxGen) \X (1..MaxRows)
RowsOf(f, first, last) == {<<f.gen, i>> : i \in first..last}

\* Either the directory of the file is there when the tool starts, or it is
\* made later, when the tool is in its loop.
Init ==
  /\ file \in [gen : {0}, len : 0..MaxRows] /\ writes = 0 /\ cursor = 0
  /\ \/ main = "scan" /\ watched = TRUE
     \/ main = "loop" /\ watched = FALSE /\ file.len = 0
  /\ scanSeen = Empty /\ event = FALSE /\ timer = FALSE
  /\ job = [p \in Parsers |-> NoJob]
  /\ copies = [r \in Row |-> 0] /\ cut = {}
  /\ faults = 0 /\ crashes = 0 /\ overlaps = 0 /\ unseen = FALSE /\ abandoned = "no"

-----------------------------------------------------------------------------
(* The program that writes the file.  A directory that is not watched      *)
(* gives no events.                                                        *)

Written(f) ==
  /\ writes < MaxWrites /\ writes' = writes + 1 /\ file' = f
  /\ event' = (event \/ watched)
  /\ unseen' = ~watched /\ abandoned' = "no"
  /\ UNCHANGED <<cursor, main, scanSeen, watched, timer, job, serviceVars,
                 faults, crashes, overlaps>>

TroubleLeft == faults + crashes + file.gen < MaxTrouble

Append ==
  \E n \in file.len + 1..MaxRows : Written([file EXCEPT !.len = n])

Replace ==
  /\ file.gen < MaxGen /\ TroubleLeft
  /\ \E n \in 0..MaxRows : Written([gen |-> file.gen + 1, len |-> n])

-----------------------------------------------------------------------------
(* watchFile: the scan and the event loop.                                 *)

Idle == {p \in Parsers : job[p] = NoJob}
\* "go parseH5File"
Go == \E p \in Idle : job' = [job EXCEPT ![p].pc = "begin"]

\* Both the scan and parseH5File take a file that changes within 100 ms for
\* one that is still being written.
ScanStat ==
  /\ main = "scan" /\ main' = "scanning" /\ scanSeen' = file
  /\ UNCHANGED <<file, writes, cursor, watched, event, timer, job, serviceVars, ghostVars>>

ScanParse ==
  /\ main = "scanning" /\ main' = "loop" /\ scanSeen' = Empty
  /\ IF scanSeen = file THEN Go ELSE UNCHANGED job
  /\ UNCHANGED <<file, writes, cursor, watched, event, timer, serviceVars, ghostVars>>

\* The Create event of a new directory adds a watch, and looks at no file in it.
WatchDir ==
  /\ main = "loop" /\ ~watched /\ watched' = TRUE
  /\ UNCHANGED <<file, writes, cursor, main, scanSeen, event, timer, job, serviceVars, ghostVars>>

\* Mutation: an event that comes while the file is being parsed is ignored.
HandleUnlessBusy ==
  /\ main = "loop" /\ event /\ event' = FALSE
  /\ timer' = (timer \/ Idle = Parsers)
  /\ UNCHANGED <<file, writes, cursor, main, scanSeen, watched, job, serviceVars, ghostVars>>
\* A Write event: debounce stops the armed timer, if any, and arms a new one.
HandleWrite ==
  /\ main = "loop" /\ event /\ event' = FALSE /\ timer' = TRUE
  /\ UNCHANGED <<file, writes, cursor, main, scanSeen, watched, job, serviceVars, ghostVars>>

Fire ==
  /\ main = "loop" /\ timer /\ timer' = FALSE /\ Go
  /\ UNCHANGED <<file, writes, cursor, main, scanSeen, watched, event, serviceVars, ghostVars>>

-----------------------------------------------------------------------------
(* parseH5File and insertTicksWithRetry.                                   *)

Return(p) == job' = [job EXCEPT ![p] = NoJob]
GiveUp(p, where) == Return(p) /\ abandoned' = where
Fault == TroubleLeft /\ faults' = faults + 1

Stat(p) ==
  /\ job[p].pc = "begin"
  /\ job' = [job EXCEPT ![p].pc = "stat", ![p].seen = file]
  /\ UNCHANGED <<file, writes, cursor, watchVars, serviceVars, ghostVars>>

StatAgain(p) ==
  /\ job[p].pc = "stat"
  /\ IF job[p].seen = file THEN job' = [job EXCEPT ![p].pc = "open", ![p].seen = Empty]
                           ELSE Return(p)
  /\ UNCHANGED <<file, writes, cursor, watchVars, serviceVars, ghostVars>>

Reading == {p \in Parsers : job[p].pc \in {"cursor", "send", "done"}}
\* The open fails when the writer keeps the file locked through ten attempts.
Open(p) ==
  /\ job[p].pc = "open"
  /\ \/ /\ job' = [job EXCEPT ![p].pc = "cursor", ![p].data = file]
        /\ overlaps' = IF Reading = {} THEN overlaps ELSE overlaps + 1
        /\ UNCHANGED <<faults, abandoned>>
     \/ Fault /\ GiveUp(p, "open") /\ UNCHANGED overlaps
  /\ UNCHANGED <<file, writes, cursor, watchVars, serviceVars, crashes, unseen>>

Total(p) == job[p].data.len
\* A file with fewer rows than the cursor has been replaced or truncated.
StartRow(p) == IF Total(p) < cursor THEN 0 ELSE cursor
ReadRows(p) ==
  /\ job[p].pc = "cursor"
  /\ IF StartRow(p) = Total(p)
       THEN Return(p)
       ELSE job' = [job EXCEPT ![p].pc = "send", ![p].next = StartRow(p)]
  /\ UNCHANGED <<file, writes, watchVars, serviceVars, ghostVars>>
\* Mutation: the cursor is set before the rows are sent.
ClaimRows(p) == ReadRows(p) /\ cursor' = Total(p)
\* The cursor is read under the mutex, the rows from the open file.
ReadCursor(p) == ReadRows(p) /\ UNCHANGED cursor

BatchEnd(p) == Min({job[p].next + BatchSize, Total(p)})
Batch(p) == RowsOf(job[p].data, job[p].next + 1, BatchEnd(p))
Take(rows) == copies' = [r \in Row |-> copies[r] + IF r \in rows THEN 1 ELSE 0]

\* InsertTicks looks at Success only, not at ProcessedCount.
SendTaken(p) ==
  /\ job[p].pc = "send"
  /\ \E taken \in (SUBSET Batch(p)) \ {{}} : Take(taken) /\ cut' = cut \cup (Batch(p) \ taken)
  /\ job' = [job EXCEPT ![p].next = BatchEnd(p), ![p].attempt = 0,
                        ![p].pc = IF BatchEnd(p) = Total(p) THEN "done" ELSE "send"]
  /\ UNCHANGED <<file, writes, cursor, watchVars, ghostVars>>

\* Mutation: one attempt too many.
AttemptsLeftOffByOne(p) == job[p].attempt <= MaxRetries
AttemptsLeft(p) == job[p].attempt < MaxRetries
\* Unavailable, DeadlineExceeded or ResourceExhausted; the service may have
\* taken rows all the same.
SendTransient(p) ==
  /\ job[p].pc = "send" /\ Fault
  /\ \E taken \in SUBSET Batch(p) : Take(taken)
  /\ \/ /\ AttemptsLeft(p) /\ job' = [job EXCEPT ![p].attempt = @ + 1]
        /\ UNCHANGED abandoned
     \/ ~AttemptsLeft(p) /\ GiveUp(p, "batch")
  /\ UNCHANGED <<file, writes, cursor, watchVars, cut, crashes, overlaps, unseen>>

\* Any other error ends the parse at once: the client pool gave no connection,
\* the answer was Success = false (not one tick was taken), or the call ended
\* with another code, Internal or Canceled, before its answer arrived.
SendRefused(p) ==
  /\ job[p].pc = "send" /\ Fault /\ GiveUp(p, "batch")
  /\ \E taken \in SUBSET Batch(p) : Take(taken)
  /\ UNCHANGED <<file, writes, cursor, watchVars, cut, crashes, overlaps, unseen>>

\* Mutation: the number of rows sent is stored in place of the last row.
SetCursorToCount(p) ==
  /\ job[p].pc = "done" /\ Return(p) /\ cursor' = Total(p) - StartRow(p)
  /\ UNCHANGED <<file, writes, watchVars, serviceVars, ghostVars>>
SetCursor(p) ==
  /\ job[p].pc = "done" /\ Return(p) /\ cursor' = Total(p)
  /\ UNCHANGED <<file, writes, watchVars, serviceVars, ghostVars>>

-----------------------------------------------------------------------------
(* log.Fatalf on an error of the watcher, of OpenDataset or of Read, the   *)
(* panic on a file name without "_", or the machine: everything in memory  *)
(* is lost.  A restart watches all directories and then scans them.        *)

Crash ==
  /\ main # "down" /\ TroubleLeft /\ crashes' = crashes + 1
  /\ main' = "down" /\ scanSeen' = Empty /\ watched' = FALSE
  /\ event' = FALSE /\ timer' = FALSE
  /\ cursor' = 0 /\ job' = [p \in Parsers |-> NoJob]
  /\ UNCHANGED <<file, writes, serviceVars, faults, overlaps, unseen, abandoned>>

Restart ==
  /\ main = "down" /\ main' = "scan" /\ watched' = TRUE
  /\ unseen' = FALSE /\ abandoned' = "no"
  /\ UNCHANGED <<file, writes, cursor, scanSeen, event, timer, job, serviceVars, faults,
                 crashes, overlaps>>

EventLoop == ScanStat \/ ScanParse \/ WatchDir \/ HandleWrite
Parse(p) == \/ Stat(p) \/ StatAgain(p) \/ Open(p) \/ ReadCursor(p)
            \/ SendTaken(p) \/ SendTransient(p) \/ SendRefused(p) \/ SetCursor(p)

Next == \/ Append \/ Replace \/ EventLoop \/ Fire \/ (\E p \in Parsers : Parse(p))
        \/ Crash \/ Restart

Spec == Init /\ [][Next]_vars

\* The tool's goroutines run: the timer fires and every call returns, since
\* each has a deadline.  Nothing makes the writer write or the service fail,
\* and nobody has to restart the tool.
FairSpec == /\ Spec /\ WF_vars(EventLoop) /\ WF_vars(Fire)
            /\ \A p \in Parsers : WF_vars(Parse(p))

-----------------------------------------------------------------------------
TypeOK ==
  /\ file \in File /\ writes \in 0..MaxWrites /\ cursor \in 0..MaxRows
  /\ main \in {"scan", "scanning", "loop", "down"} /\ scanSeen \in File
  /\ watched \in BOOLEAN /\ event \in BOOLEAN /\ timer \in BOOLEAN
  /\ job \in [Parsers -> Job]
  /\ copies \in [Row -> Nat] /\ cut \subseteq Row
  /\ faults \in 0..MaxTrouble /\ crashes \in 0..MaxTrouble
  /\ overlaps \in Nat /\ unseen \in BOOLEAN
  /\ abandoned \in {"no", "open", "batch"}

Sent(r) == copies[r] > 0 \/ r \in cut

\* The cursor never covers a row that was not sent: as long as the file has
\* only been appended to, every row up to processedRows was taken by the
\* service, or was in a batch that the service took only in part.
CursorCoversSent == file.gen = 0 => \A r \in RowsOf(file, 1, cursor) : Sent(r)

\* Every extra copy of a row has a cause of its own: a failed call or open, a
\* crash (the cursor is in memory only), or two parses at the same time.
ExtraCopiesHaveCause == \A r \in Row : copies[r] <= 1 + faults + crashes + overlaps

\* The cursor of a file that is only appended to goes back only when the
\* process dies or when two parses ran at the same time and the one that saw
\* fewer rows ended last.
CursorGoesBackOnlyByOverlap ==
  [][cursor' < cursor => overlaps > 0 \/ file.gen > 0 \/ main' = "down"]_vars

\* What makes CursorCoversSent and the property above inductive: rows up to the
\* place that a parse has reached were sent, and as long as no two parses had the
\* file open at once, its cursor is not ahead of the parse that has it open.
Fresh == \A p \in Parsers : /\ job[p].data.gen <= file.gen
                            /\ job[p].pc = "done" => job[p].next = Total(p)
Covered == file.gen = 0 =>
  \A p \in Parsers : job[p].pc \in {"send", "done"} =>
    \A r \in RowsOf(file, 1, job[p].next) : Sent(r)
Alone == overlaps = 0 =>
  /\ \A p, q \in Reading : p = q
  /\ file.gen = 0 => cursor <= file.len /\ \A p \in Reading : cursor <= Total(p) /\ Total(p) <= file.len
IInv == TypeOK /\ Fresh /\ Covered /\ CursorCoversSent /\ Alone

\* What makes ExtraCopiesHaveCause inductive: not only the copies of a row have
\* causes of their own, but also the parses that have the file open and have not
\* passed the row yet, since each may send it or take the cursor back behind it.
\* The first parse to open the file needs no cause.  Where the cursor is past the
\* row, and no parse that has this version of the file open has read the cursor,
\* one of them all will not send it.  A row of a version that was replaced has
\* ended when no parse has that version open.
Ended(r) == file.gen > r[1] /\ \A p \in Reading : job[p].data.gen # r[1]
HasPassed(p, r) ==
  job[p].data.gen = r[1] /\ job[p].pc \in {"send", "done"} /\ job[p].next >= r[2]
Pending(r) == {p \in Reading : ~HasPassed(p, r)}
Skipped(r) ==
  /\ r[2] <= cursor /\ file.gen >= r[1] /\ (file.gen = r[1] => cursor <= file.len)
  /\ \A p \in Reading : /\ job[p].data.gen >= r[1]
                        /\ job[p].data.gen = r[1] => job[p].pc = "cursor" /\ Total(p) >= cursor
Causes == faults + crashes + overlaps
One(b) == IF b THEN 1 ELSE 0
Explained(r) ==
  copies[r] + Cardinality(Pending(r)) <= Causes + One(Reading # {}) + One(Skipped(r))
CopiesExplained ==
  \A r \in Row : IF Ended(r) THEN copies[r] <= 1 + Causes ELSE Explained(r)
Within == \A p \in Parsers : /\ job[p].data.gen = file.gen => Total(p) <= file.len
                             /\ job[p].pc = "send" => job[p].next <= Total(p)
CopiesInv == IInv /\ Within /\ CopiesExplained

AllSent == \A r \in RowsOf(file, 1, file.len) : Sent(r)

\* Once the writer is quiet every row of the file is sent, through skipped
\* parses, debounced events, retried calls and crashes, unless the tool stays
\* down, the file was replaced, a parse gave up after the last write, or the
\* last rows were written in a new directory that was not watched yet.
QuietFileIsSent == <>[](main = "down" \/ abandoned # "no" \/ file.gen > 0 \/ unseen \/ AllSent)

\* The log line of a failed batch says that it is retried later
\* (main.go:247, 255): after a parse that gave up on a batch, the rows are
\* sent again or have been sent otherwise.
FailedBatchIsRetried ==
  abandoned = "batch" ~> \/ main = "down" \/ abandoned # "batch" \/ AllSent
                         \/ \E p \in Parsers : job[p].pc = "send"
=============================================================================
