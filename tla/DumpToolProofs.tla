--------------------------- MODULE DumpToolProofs ---------------------------
(***************************************************************************)
(* Proofs about DumpTool for any number of goroutines and all bounds.      *)
(***************************************************************************)
EXTENDS DumpTool, FiniteSetTheorems, TLAPS

-----------------------------------------------------------------------------
(* Type correctness                                                        *)

\* A batch ends within the file, and not before it begins.
LEMMA BatchEndBounds ==
  ASSUME TypeOK, NEW p \in Parsers
  PROVE  /\ BatchEnd(p) \in 0..MaxRows /\ BatchEnd(p) <= Total(p)
         /\ job[p].next <= Total(p) => job[p].next <= BatchEnd(p)
<1>1. job[p].next \in 0..MaxRows /\ Total(p) \in 0..MaxRows /\ BatchSize \in Nat \ {0}
  BY BoundsAssumption DEF TypeOK, Job, File, Total
<1>2. BatchEnd(p) = IF job[p].next + BatchSize <= Total(p) THEN job[p].next + BatchSize ELSE Total(p)
  <2> DEFINE S == {job[p].next + BatchSize, Total(p)}
             m == IF job[p].next + BatchSize <= Total(p) THEN job[p].next + BatchSize ELSE Total(p)
  <2>1. m \in S /\ \A y \in S : m =< y BY <1>1
  <2>2. \A x \in S : (\A y \in S : x =< y) => x = m BY <1>1
  <2>3. Min(S) = m BY <2>1, <2>2 DEF Min
  <2> QED BY <2>3 DEF BatchEnd
<1> QED BY <1>1, <1>2, BoundsAssumption

\* Changing the locals of one goroutine within their types keeps the types.
LEMMA JobTypes ==
  ASSUME TypeOK, NEW p \in Parsers, NEW j \in Job, job' = [job EXCEPT ![p] = j]
  PROVE  job' \in [Parsers -> Job]
BY DEF TypeOK

\* Every step keeps the types.
LEMMA TypeStep ==
  ASSUME TypeOK, [Next]_vars
  PROVE  TypeOK'
<1> USE BoundsAssumption
<1>0. /\ Empty \in File /\ NoJob \in Job /\ file \in File
      /\ \A p \in Parsers : job[p] \in Job
  BY DEF TypeOK, Empty, File, NoJob, Job
<1>1. ASSUME NEW f \in File, Written(f) PROVE TypeOK'
  BY <1>1 DEF Written, TypeOK, serviceVars
<1>2. CASE Append
  <2>1. PICK n \in file.len + 1..MaxRows : Written([file EXCEPT !.len = n]) BY <1>2 DEF Append
  <2>2. [file EXCEPT !.len = n] \in File BY <1>0, <2>1 DEF File
  <2> QED BY <1>1, <2>1, <2>2
<1>3. CASE Replace
  <2>1. PICK n \in 0..MaxRows : Written([gen |-> file.gen + 1, len |-> n]) BY <1>3 DEF Replace
  <2>2. [gen |-> file.gen + 1, len |-> n] \in File BY <1>0, <1>3 DEF Replace, File
  <2> QED BY <1>1, <2>1, <2>2
<1>4. ASSUME Go PROVE job' \in [Parsers -> Job]
  <2>1. PICK p \in Idle : job' = [job EXCEPT ![p].pc = "begin"] BY <1>4 DEF Go
  <2>2. p \in Parsers BY DEF Idle
  <2> QED BY <1>0, <2>1, <2>2 DEF TypeOK, Job
<1>5. CASE EventLoop \/ Fire
  BY <1>0, <1>4, <1>5
  DEF EventLoop, Fire, ScanStat, ScanParse, WatchDir, HandleWrite, TypeOK, serviceVars, ghostVars
<1>6. ASSUME NEW p \in Parsers, Stat(p) \/ StatAgain(p) PROVE TypeOK'
  <2>1. job' \in [Parsers -> Job] BY <1>0, <1>6 DEF Stat, StatAgain, Return, TypeOK, Job
  <2> QED BY <1>6, <2>1 DEF Stat, StatAgain, TypeOK, watchVars, serviceVars, ghostVars
<1>7. ASSUME NEW p \in Parsers, Open(p) PROVE TypeOK'
  <2>1. job' \in [Parsers -> Job] BY <1>0, <1>7 DEF Open, GiveUp, Return, TypeOK, Job
  <2>2. faults' \in 0..MaxTrouble BY <1>0, <1>7 DEF Open, Fault, TroubleLeft, TypeOK, File
  <2> QED BY <1>7, <2>1, <2>2 DEF Open, GiveUp, TypeOK, watchVars, serviceVars
<1>8. ASSUME NEW p \in Parsers, ReadCursor(p) \/ SetCursor(p) PROVE TypeOK'
  <2>1. Total(p) \in 0..MaxRows /\ StartRow(p) \in 0..MaxRows
    BY <1>0 DEF Total, StartRow, TypeOK, Job, File
  <2>2. job' \in [Parsers -> Job]
    BY <1>0, <1>8, <2>1 DEF ReadCursor, ReadRows, SetCursor, Return, TypeOK, Job
  <2> QED BY <1>8, <2>1, <2>2
          DEF ReadCursor, ReadRows, SetCursor, TypeOK, watchVars, serviceVars, ghostVars
<1>9. ASSUME NEW rows, Take(rows) PROVE copies' \in [Row -> Nat]
  BY <1>9 DEF Take, TypeOK
<1>10. ASSUME NEW p \in Parsers, SendTaken(p) PROVE TypeOK'
  <2> DEFINE l == IF BatchEnd(p) = Total(p) THEN "done" ELSE "send"
             j == [job[p] EXCEPT !.next = BatchEnd(p), !.attempt = 0, !.pc = l]
  <2>0. BatchEnd(p) \in 0..MaxRows /\ l \in {"send", "done"} BY BatchEndBounds
  <2>1. job' \in [Parsers -> Job]
    <3>1. j \in Job
      <4> DEFINE j1 == [job[p] EXCEPT !.next = BatchEnd(p)]
                 j2 == [j1 EXCEPT !.attempt = 0]
      <4>1. j1 \in Job BY <1>0, <2>0 DEF Job
      <4>2. j2 \in Job
        <5> HIDE DEF j1
        <5> QED BY <4>1 DEF Job
      <4>3. [j2 EXCEPT !.pc = l] \in Job
        <5> HIDE DEF j2, l
        <5> QED BY <4>2, <2>0 DEF Job
      <4>4. j = [j2 EXCEPT !.pc = l] BY <1>0 DEF Job
      <4> QED BY <4>3, <4>4
    <3>2. job' = [job EXCEPT ![p] = j] BY <1>10 DEF SendTaken
    <3> HIDE DEF j
    <3> QED BY <3>1, <3>2, JobTypes
  <2>2. copies' \in [Row -> Nat] BY <1>9, <1>10 DEF SendTaken
  <2>3. cut' \subseteq Row
    <3>1. /\ job[p].data \in File /\ job[p].next \in 0..MaxRows /\ Total(p) \in 0..MaxRows
          /\ BatchEnd(p) \in 0..MaxRows
      BY <1>0, BatchEndBounds DEF Total, Job, File
    <3>2. Batch(p) \subseteq Row BY <3>1 DEF Batch, RowsOf, Row, File
    <3> QED BY <1>10, <3>2 DEF SendTaken, TypeOK
  <2> QED BY <1>10, <2>1, <2>2, <2>3 DEF SendTaken, TypeOK, watchVars, ghostVars
<1>11. ASSUME NEW p \in Parsers, SendTransient(p) \/ SendRefused(p) PROVE TypeOK'
  <2>1. job' \in [Parsers -> Job]
    BY <1>0, <1>11 DEF SendTransient, SendRefused, AttemptsLeft, GiveUp, Return, TypeOK, Job
  <2>2. copies' \in [Row -> Nat] BY <1>9, <1>11 DEF SendTransient, SendRefused, serviceVars, TypeOK
  <2>3. faults' \in 0..MaxTrouble
    BY <1>0, <1>11 DEF SendTransient, SendRefused, Fault, TroubleLeft, TypeOK, File
  <2> QED BY <1>11, <2>1, <2>2, <2>3
          DEF SendTransient, SendRefused, GiveUp, TypeOK, watchVars, serviceVars
<1>12. CASE Crash
  <2>1. crashes' \in 0..MaxTrouble BY <1>0, <1>12 DEF Crash, TroubleLeft, TypeOK, File
  <2>2. job' \in [Parsers -> Job] BY <1>0, <1>12 DEF Crash
  <2>3. cursor' \in 0..MaxRows /\ scanSeen' \in File /\ main' \in {"scan", "scanning", "loop", "down"}
    BY <1>0, <1>12 DEF Crash
  <2>4. watched' \in BOOLEAN /\ event' \in BOOLEAN /\ timer' \in BOOLEAN BY <1>12 DEF Crash
  <2>5. /\ file' \in File /\ writes' \in 0..MaxWrites
        /\ copies' \in [Row -> Nat] /\ cut' \subseteq Row
        /\ faults' \in 0..MaxTrouble /\ overlaps' \in Nat /\ unseen' \in BOOLEAN
        /\ abandoned' \in {"no", "open", "batch"}
    BY <1>12 DEF Crash, TypeOK, serviceVars
  <2> QED BY <2>1, <2>2, <2>3, <2>4, <2>5 DEF TypeOK
<1>13. CASE Restart
  BY <1>13 DEF Restart, TypeOK, serviceVars
<1>14. CASE UNCHANGED vars
  BY <1>14 DEF vars, TypeOK, watchVars, serviceVars, ghostVars
<1> QED BY <1>2, <1>3, <1>5, <1>6, <1>7, <1>8, <1>10, <1>11, <1>12, <1>13, <1>14 DEF Next, Parse

\* The initial states have the types.
LEMMA InitTypes ==
  ASSUME Init
  PROVE  TypeOK
<1>1. file \in File /\ Empty \in File /\ NoJob \in Job
  BY BoundsAssumption DEF Init, File, Empty, NoJob, Job
<1>2. writes \in 0..MaxWrites /\ cursor \in 0..MaxRows /\ faults \in 0..MaxTrouble
      /\ crashes \in 0..MaxTrouble /\ overlaps \in Nat
  BY BoundsAssumption DEF Init
<1>3. main \in {"scan", "scanning", "loop", "down"} /\ watched \in BOOLEAN BY DEF Init
<1>4. job \in [Parsers -> Job] /\ copies \in [Row -> Nat] BY <1>1 DEF Init
<1> QED BY <1>1, <1>2, <1>3, <1>4 DEF Init, TypeOK

\* Every variable keeps its type: the cursors and the rows stay within the file's
\* bounds, the goroutines within their program and the attempts within maxRetries.
THEOREM TypeCorrect == Spec => []TypeOK
<1>1. Init => TypeOK BY InitTypes
<1>2. TypeOK /\ [Next]_vars => TypeOK' BY TypeStep
<1> QED BY <1>1, <1>2, PTL DEF Spec

-----------------------------------------------------------------------------
(* What a step does to the goroutines, in the terms of the invariant       *)

\* Goroutine q does not read the file after the step.
Off(q) == job'[q].pc \in {"idle", "begin", "stat", "open"} /\ job'[q].data \in {job[q].data, Empty}

\* The writer, the event loop, a crash and a restart send nothing, read nothing,
\* and leave every goroutine as it is or away from the file.
LEMMA OtherSteps ==
  ASSUME TypeOK, Append \/ Replace \/ EventLoop \/ Fire \/ Crash \/ Restart \/ UNCHANGED vars
  PROVE  /\ file.gen <= file'.gen /\ (file'.gen = 0 => file.len <= file'.len)
         /\ copies' = copies /\ cut' = cut /\ overlaps' = overlaps
         /\ cursor' = cursor \/ (cursor' = 0 /\ main' = "down")
         /\ \A q \in Parsers : job'[q] = job[q] \/ Off(q)
<1>0. file \in File /\ job \in [Parsers -> Job] BY DEF TypeOK
<1>1. ASSUME Go PROVE \A q \in Parsers : job'[q] = job[q] \/ Off(q)
  <2>1. PICK p \in Idle : job' = [job EXCEPT ![p].pc = "begin"] BY <1>1 DEF Go
  <2>2. p \in Parsers /\ job'[p].pc = "begin" /\ job'[p].data = job[p].data
    BY <1>0, <2>1 DEF Idle, Job
  <2>3. \A q \in Parsers : q # p => job'[q] = job[q] BY <1>0, <2>1
  <2> QED BY <2>2, <2>3 DEF Off
<1>2. CASE Append
  <2>1. PICK n \in file.len + 1..MaxRows : Written([file EXCEPT !.len = n]) BY <1>2 DEF Append
  <2>2. file'.gen = file.gen /\ file'.len = n BY <1>0, <2>1 DEF Written, File
  <2>3. file.gen \in Int /\ file.len \in Int /\ file.len <= n
    BY <1>0, <2>1, BoundsAssumption DEF File
  <2> QED BY <2>1, <2>2, <2>3 DEF Written, serviceVars
<1>3. CASE Replace
  <2>1. PICK n \in 0..MaxRows : Written([gen |-> file.gen + 1, len |-> n]) BY <1>3 DEF Replace
  <2>2. file'.gen = file.gen + 1 BY <2>1 DEF Written
  <2>3. file.gen \in Nat BY <1>0 DEF File
  <2> QED BY <2>1, <2>2, <2>3 DEF Written, serviceVars
<1>4. CASE EventLoop \/ Fire \/ Restart \/ UNCHANGED vars
  <2>1. file' = file /\ copies' = copies /\ cut' = cut /\ overlaps' = overlaps /\ cursor' = cursor
    BY <1>4 DEF EventLoop, Fire, Restart, ScanStat, ScanParse, WatchDir, HandleWrite,
                vars, serviceVars, ghostVars
  <2>2. job' = job \/ Go
    BY <1>4 DEF EventLoop, Fire, Restart, ScanStat, ScanParse, WatchDir, HandleWrite, vars
  <2>3. file.gen \in Int /\ file.len \in Int BY <1>0 DEF File
  <2> QED BY <1>1, <2>1, <2>2, <2>3
<1>5. CASE Crash
  <2>1. file' = file /\ copies' = copies /\ cut' = cut /\ overlaps' = overlaps
        /\ cursor' = 0 /\ main' = "down"
    BY <1>5 DEF Crash, serviceVars
  <2>2. \A q \in Parsers : job'[q] = NoJob BY <1>5 DEF Crash
  <2>3. file.gen \in Int /\ file.len \in Int BY <1>0 DEF File
  <2> QED BY <2>1, <2>2, <2>3 DEF Off, NoJob
<1> QED BY <1>2, <1>3, <1>4, <1>5

\* A row that the service had taken, or takes now, is taken.
LEMMA TakeKeeps ==
  ASSUME TypeOK, NEW rows, Take(rows), NEW r \in Row, copies[r] > 0 \/ r \in rows
  PROVE  copies'[r] > 0
<1>1. copies[r] \in Nat /\ copies'[r] = copies[r] + IF r \in rows THEN 1 ELSE 0
  BY DEF TypeOK, Take
<1> QED BY <1>1

\* After a success every row of the batch is sent, and what was sent stays sent.
LEMMA SendKeeps ==
  ASSUME TypeOK, NEW p \in Parsers, SendTaken(p), NEW r \in Row, Sent(r) \/ r \in Batch(p)
  PROVE  Sent(r)'
<1>1. PICK taken \in (SUBSET Batch(p)) \ {{}} : Take(taken) /\ cut' = cut \cup (Batch(p) \ taken)
  BY DEF SendTaken
<1>2. CASE copies[r] > 0 \/ r \in taken BY <1>1, <1>2, TakeKeeps DEF Sent
<1>3. CASE r \in cut \/ (r \in Batch(p) /\ r \notin taken) BY <1>1, <1>3 DEF Sent
<1> QED BY <1>2, <1>3 DEF Sent

\* What a goroutine leaves alone: the file and the other goroutines, the cursor
\* unless it ends well, and what was sent; overlaps are only added.
LEMMA ParseSteps ==
  ASSUME TypeOK, NEW p \in Parsers, Parse(p)
  PROVE  /\ file' = file /\ \A q \in Parsers \ {p} : job'[q] = job[q]
         /\ overlaps' \in {overlaps, overlaps + 1}
         /\ cursor' = cursor \/ SetCursor(p)
         /\ \A r \in Row : Sent(r) => Sent(r)'
<1>1. CASE Stat(p) \/ StatAgain(p) \/ ReadCursor(p) \/ SetCursor(p) \/ Open(p)
  <2>1. copies' = copies /\ cut' = cut
    BY <1>1 DEF Stat, StatAgain, ReadCursor, ReadRows, SetCursor, Open, serviceVars
  <2> QED BY <1>1, <2>1
      DEF Stat, StatAgain, ReadCursor, ReadRows, SetCursor, Open, GiveUp, Return,
          ghostVars, Sent, TypeOK
<1>2. CASE SendTaken(p)
  BY <1>2, SendKeeps DEF SendTaken, ghostVars, TypeOK
<1>3. CASE SendTransient(p) \/ SendRefused(p)
  <2>1. PICK taken \in SUBSET Batch(p) : Take(taken) BY <1>3 DEF SendTransient, SendRefused
  <2>2. \A r \in Row : Sent(r) => Sent(r)'
    BY <1>3, <2>1, TakeKeeps DEF SendTransient, SendRefused, Sent
  <2> QED BY <1>3, <2>2 DEF SendTransient, SendRefused, GiveUp, Return, TypeOK
<1> QED BY <1>1, <1>2, <1>3 DEF Parse

\* What a goroutine does to its own place in the file.
LEMMA ParserPlace ==
  ASSUME TypeOK, NEW p \in Parsers, Parse(p)
  PROVE  \/ Off(p) /\ (cursor' = cursor \/ SetCursor(p))
         \/ Open(p) /\ job'[p].pc = "cursor" /\ job'[p].data = file /\ cursor' = cursor
         \/ /\ p \in Reading /\ job'[p].pc \in {"send", "done"} /\ job'[p].data = job[p].data
            /\ cursor' = cursor
            /\ \/ ReadCursor(p) /\ job'[p].next = StartRow(p) /\ job'[p].pc = "send"
               \/ /\ SendTaken(p) /\ job[p].pc = "send" /\ job'[p].next = BatchEnd(p)
                  /\ job'[p].pc = "done" => BatchEnd(p) = Total(p)
               \/ job'[p].next = job[p].next /\ job'[p].pc = "send" /\ job[p].pc = "send"
<1>0. job \in [Parsers -> Job] /\ job[p] \in Job BY DEF TypeOK
<1>1. ASSUME Return(p) PROVE Off(p) BY <1>0, <1>1 DEF Return, Off, NoJob
<1>2. CASE Stat(p)
  BY <1>0, <1>2 DEF Stat, Off, Job
<1>3. CASE StatAgain(p)
  BY <1>0, <1>1, <1>3 DEF StatAgain, Off, Job
<1>4. CASE Open(p)
  BY <1>0, <1>1, <1>4 DEF Open, GiveUp, Job
<1>5. CASE ReadCursor(p)
  BY <1>0, <1>1, <1>5 DEF ReadCursor, ReadRows, Reading, Job
<1>6. CASE SendTaken(p)
  <2>1. cursor' = cursor /\ job[p].pc = "send" BY <1>6 DEF SendTaken
  <2>2. /\ job'[p].next = BatchEnd(p) /\ job'[p].data = job[p].data
        /\ job'[p].pc = IF BatchEnd(p) = Total(p) THEN "done" ELSE "send"
    BY <1>0, <1>6 DEF SendTaken, Job
  <2> QED BY <1>6, <2>1, <2>2 DEF Reading
<1>7. CASE SendTransient(p)
  BY <1>0, <1>1, <1>7 DEF SendTransient, GiveUp, Reading, Job
<1>8. CASE SendRefused(p)
  BY <1>1, <1>8 DEF SendRefused, GiveUp
<1>9. CASE SetCursor(p)
  BY <1>1, <1>9 DEF SetCursor
<1> QED BY <1>2, <1>3, <1>4, <1>5, <1>6, <1>7, <1>8, <1>9 DEF Parse

-----------------------------------------------------------------------------
(* The inductive invariant                                                 *)

\* A step of the tool or its environment is one of these two kinds.
Other == Append \/ Replace \/ EventLoop \/ Fire \/ Crash \/ Restart \/ UNCHANGED vars

\* There is no third kind.
LEMMA Kinds ==
  ASSUME [Next]_vars
  PROVE  Other \/ \E p \in Parsers : Parse(p)
BY DEF Next, Other

\* The file of an open goroutine is not newer than the file, and its last batch
\* ends at the end of what it read.
LEMMA FreshStep ==
  ASSUME IInv, [Next]_vars
  PROVE  Fresh'
<1> USE DEF IInv
<1>0. /\ \A q \in Parsers : job[q] \in Job
      /\ file \in File /\ \A q \in Parsers : job[q].data.gen \in Int
      /\ Empty.gen = 0 /\ file.gen \in Nat
  BY DEF TypeOK, Job, File, Empty
<1>1. ASSUME NEW q \in Parsers, Off(q), file.gen <= file'.gen, file'.gen \in Int
      PROVE  job'[q].data.gen <= file'.gen /\ job'[q].pc # "done"
  BY <1>0, <1>1 DEF Off, Fresh
<1>2. file'.gen \in Int BY TypeStep DEF TypeOK, File
<1>3. CASE Other
  <2>1. file.gen <= file'.gen /\ \A q \in Parsers : job'[q] = job[q] \/ Off(q)
    BY <1>3, OtherSteps DEF Other
  <2>2. ASSUME NEW q \in Parsers, job'[q] = job[q]
        PROVE  job'[q].data.gen <= file'.gen /\ (job'[q].pc = "done" => job'[q].next = Total(q)')
    BY <1>0, <1>2, <2>1, <2>2 DEF Fresh, Total
  <2> QED BY <1>1, <1>2, <2>1, <2>2 DEF Fresh
<1>4. ASSUME NEW p \in Parsers, Parse(p) PROVE Fresh'
  <2>1. file' = file /\ \A q \in Parsers \ {p} : job'[q] = job[q] BY <1>4, ParseSteps
  <2>2. \A q \in Parsers \ {p} : /\ job'[q].data.gen <= file'.gen
                                 /\ job'[q].pc = "done" => job'[q].next = Total(q)'
    BY <2>1 DEF Fresh, Total
  <2>3. job'[p].data.gen <= file'.gen /\ (job'[p].pc = "done" => job'[p].next = Total(p)')
    <3>1. CASE Off(p) BY <1>0, <1>1, <1>2, <2>1, <3>1
    <3>2. CASE Open(p) /\ job'[p].pc = "cursor" /\ job'[p].data = file BY <1>0, <2>1, <3>2
    <3>3. CASE /\ job'[p].data = job[p].data
               /\ job'[p].pc = "done" => job'[p].next = BatchEnd(p) /\ BatchEnd(p) = Total(p)
      BY <2>1, <3>3 DEF Fresh, Total
    <3> QED BY <1>4, <3>1, <3>2, <3>3, ParserPlace
  <2> QED BY <2>2, <2>3 DEF Fresh
<1> QED BY <1>3, <1>4, Kinds

\* The rows of a file up to its length are rows.
LEMMA RowsOfFile ==
  ASSUME NEW f \in File, NEW n \in 0..MaxRows
  PROVE  /\ RowsOf(f, 1, n) \subseteq Row
         /\ \A g \in File : g.gen = f.gen => RowsOf(g, 1, n) = RowsOf(f, 1, n)
BY BoundsAssumption DEF RowsOf, Row, File

\* What was sent stays sent, in any step.
LEMMA SentStays ==
  ASSUME TypeOK, [Next]_vars, NEW r \in Row, Sent(r)
  PROVE  Sent(r)'
<1>1. CASE Other BY <1>1, OtherSteps DEF Other, Sent
<1>2. ASSUME NEW p \in Parsers, Parse(p) PROVE Sent(r)' BY <1>2, ParseSteps
<1> QED BY <1>1, <1>2, Kinds

\* While the file has only been appended to, so has every copy of it.
LEMMA OneVersion ==
  ASSUME TypeOK, Fresh, file.gen = 0, NEW q \in Parsers
  PROVE  job[q].data.gen = 0
<1>1. job[q].data.gen \in Nat BY DEF TypeOK, Job, File
<1> QED BY <1>1 DEF Fresh

\* The rows up to the place of a goroutine were sent.  A goroutine begins at the
\* cursor, whose rows were, and moves on by a batch when the batch was answered
\* with success.
LEMMA CoveredStep ==
  ASSUME IInv, [Next]_vars
  PROVE  Covered'
<1> USE DEF IInv
<1> SUFFICES ASSUME file'.gen = 0, NEW q \in Parsers, job'[q].pc \in {"send", "done"},
                    NEW r \in RowsOf(file', 1, job'[q].next)
             PROVE  Sent(r)'
  BY DEF Covered
<1>1. file.gen = 0
  <2>1. file.gen \in Nat BY DEF TypeOK, File
  <2>2. CASE Other BY <2>1, <2>2, OtherSteps DEF Other
  <2>3. ASSUME NEW p \in Parsers, Parse(p) PROVE file.gen = 0 BY <2>3, ParseSteps
  <2> QED BY <2>2, <2>3, Kinds
<1>2. PICK i \in 1..job'[q].next : r = <<0, i>> BY DEF RowsOf
<1>3. job'[q].next \in 0..MaxRows BY TypeStep DEF TypeOK, Job
<1>4. r \in Row /\ i \in 1..MaxRows BY <1>2, <1>3, BoundsAssumption DEF Row
<1>5. ASSUME job[q].pc \in {"send", "done"}, i \in 1..job[q].next PROVE Sent(r)'
  <2>1. r \in RowsOf(file, 1, job[q].next) BY <1>1, <1>2, <1>5 DEF RowsOf
  <2> QED BY <1>1, <1>4, <1>5, <2>1, SentStays DEF Covered
<1>6. CASE job'[q] = job[q] BY <1>2, <1>5, <1>6
<1>7. CASE Off(q) BY <1>7 DEF Off
<1>8. ASSUME Parse(q) PROVE Sent(r)'
  <2>0. job[q].next \in 0..MaxRows /\ job[q].data.gen = 0 /\ BatchEnd(q) \in 0..MaxRows
    BY <1>1, OneVersion, BatchEndBounds DEF TypeOK, Job
  <2>1. CASE ReadCursor(q) /\ job'[q].next = StartRow(q)
    <3>1. cursor \in 0..MaxRows BY DEF TypeOK
    <3>2. i \in 1..cursor BY <1>2, <2>1, <3>1 DEF StartRow
    <3>3. r \in RowsOf(file, 1, cursor) BY <1>1, <1>2, <3>2 DEF RowsOf
    <3> QED BY <1>1, <1>4, <3>3, SentStays DEF CursorCoversSent
  <2>2. CASE SendTaken(q) /\ job[q].pc = "send" /\ job'[q].next = BatchEnd(q)
    <3>1. CASE i \in 1..job[q].next BY <1>5, <2>2, <3>1
    <3>2. CASE i \in job[q].next + 1..BatchEnd(q)
      <4>1. r \in Batch(q) BY <1>2, <2>0, <3>2 DEF Batch, RowsOf
      <4> QED BY <1>4, <2>2, <4>1, SendKeeps
    <3> QED BY <1>2, <2>0, <2>2, <3>1, <3>2
  <2>3. CASE job'[q].next = job[q].next /\ job[q].pc = "send" BY <1>2, <1>5, <2>3
  <2> QED BY <1>7, <1>8, <2>1, <2>2, <2>3, ParserPlace
<1>9. CASE Other BY <1>6, <1>7, <1>9, OtherSteps DEF Other
<1>10. ASSUME NEW p \in Parsers \ {q}, Parse(p) PROVE Sent(r)' BY <1>6, <1>10, ParseSteps
<1> QED BY <1>8, <1>9, <1>10, Kinds

\* The cursor takes the place of a goroutine that has sent all it read.
LEMMA CursorStep ==
  ASSUME IInv, [Next]_vars
  PROVE  CursorCoversSent'
<1> USE DEF IInv
<1> SUFFICES ASSUME file'.gen = 0, NEW r \in RowsOf(file', 1, cursor') PROVE Sent(r)'
  BY DEF CursorCoversSent
<1>0. file.gen \in Nat /\ cursor' \in 0..MaxRows BY TypeStep DEF TypeOK, File
<1>1. PICK i \in 1..cursor' : r = <<0, i>> BY DEF RowsOf
<1>2. r \in Row BY <1>0, <1>1, BoundsAssumption DEF Row
<1>3. ASSUME cursor' = cursor, file.gen = 0 PROVE Sent(r)'
  <2>1. r \in RowsOf(file, 1, cursor) BY <1>1, <1>3 DEF RowsOf
  <2> QED BY <1>2, <1>3, <2>1, SentStays DEF CursorCoversSent
<1>4. CASE Other
  <2>1. file.gen = 0 /\ (cursor' = cursor \/ cursor' = 0) BY <1>0, <1>4, OtherSteps DEF Other
  <2> QED BY <1>1, <1>3, <2>1
<1>5. ASSUME NEW p \in Parsers, Parse(p) PROVE Sent(r)'
  <2>1. file' = file BY <1>5, ParseSteps
  <2>2. CASE SetCursor(p)
    <3>1. cursor' = job[p].next /\ job[p].pc = "done" BY <2>2 DEF SetCursor, Fresh
    <3>2. r \in RowsOf(file, 1, job[p].next) BY <1>1, <2>1, <3>1 DEF RowsOf
    <3> QED BY <1>2, <2>1, <3>1, <3>2, SentStays DEF Covered
  <2> QED BY <1>3, <1>5, <2>1, <2>2, ParseSteps
<1> QED BY <1>4, <1>5, Kinds

\* Without overlap one goroutine at most has the file open, the cursor was set
\* from an earlier look at the file, and a file that is only appended to has not
\* become shorter since.
LEMMA AloneStep ==
  ASSUME IInv, [Next]_vars
  PROVE  Alone'
<1> USE DEF IInv
<1> SUFFICES ASSUME overlaps' = 0 PROVE Alone' BY DEF Alone
<1> DEFINE Ahead(q) == cursor <= Total(q) /\ Total(q) <= file.len
<1>0. /\ file \in File /\ file' \in File /\ cursor \in 0..MaxRows /\ overlaps \in Nat
      /\ \A q \in Parsers : job[q] \in Job
      /\ \A q \in Reading : q \in Parsers /\ Total(q) \in Int
  BY TypeStep DEF TypeOK, Job, File, Reading, Total
<1>1. file.len \in Nat /\ file'.len \in Nat /\ file.gen \in Nat BY <1>0 DEF File
<1>2. CASE Other
  <2>1. /\ overlaps' = overlaps /\ file.gen <= file'.gen
        /\ file'.gen = 0 => file.len <= file'.len
        /\ cursor' = cursor \/ cursor' = 0
        /\ \A q \in Parsers : job'[q] = job[q] \/ Off(q)
    BY <1>2, OtherSteps DEF Other
  <2>2. \A q \in Reading' : q \in Reading /\ job'[q] = job[q] /\ Total(q)' = Total(q)
    BY <2>1 DEF Reading, Off, Total
  <2>3. \A p, q \in Reading' : p = q BY <2>1, <2>2 DEF Alone
  <2>4. ASSUME file'.gen = 0 PROVE file.gen = 0 /\ file.len <= file'.len /\ cursor' <= cursor
    BY <1>0, <1>1, <2>1, <2>4, BoundsAssumption
  <2>5. ASSUME file'.gen = 0 PROVE cursor' <= file'.len /\ \A q \in Reading' : Ahead(q)'
    <3>1. cursor <= file.len /\ \A q \in Reading : cursor <= Total(q) /\ Total(q) <= file.len
      BY <2>1, <2>4, <2>5 DEF Alone
    <3>2. cursor' \in Int BY <1>0, <2>1, BoundsAssumption
    <3> QED BY <1>0, <1>1, <2>2, <2>4, <2>5, <3>1, <3>2, BoundsAssumption
  <2> QED BY <2>3, <2>5 DEF Alone
<1>3. ASSUME NEW p \in Parsers, Parse(p) PROVE Alone'
  <2>1. file' = file /\ overlaps = 0 /\ \A q \in Parsers \ {p} : job'[q] = job[q]
    BY <1>0, <1>3, ParseSteps
  <2>2. \A q \in Reading' : q # p => q \in Reading /\ Total(q)' = Total(q)
    BY <2>1 DEF Reading, Total
  <2>3. \A a, b \in Reading : a = b BY <2>1 DEF Alone
  <2>4. ASSUME file.gen = 0 PROVE cursor <= file.len /\ \A q \in Reading : Ahead(q)
    BY <2>1, <2>4 DEF Alone
  <2>5. CASE Off(p) /\ cursor' = cursor
    <3>1. p \notin Reading' BY <2>5 DEF Off, Reading
    <3>2. \A q \in Reading' : q \in Reading /\ Total(q)' = Total(q) BY <2>2, <3>1
    <3>3. \A a, b \in Reading' : a = b BY <2>3, <3>2
    <3> QED BY <2>1, <2>4, <2>5, <3>2, <3>3 DEF Alone
  <2>6. CASE Off(p) /\ SetCursor(p)
    <3>1. p \in Reading /\ p \notin Reading' /\ cursor' = Total(p)
      BY <2>6 DEF Off, Reading, SetCursor
    <3>2. Reading' = {} BY <2>2, <2>3, <3>1
    <3> QED BY <2>1, <2>4, <3>1, <3>2 DEF Alone
  <2>7. CASE Open(p) /\ job'[p].pc = "cursor" /\ job'[p].data = file /\ cursor' = cursor
    <3>1. Reading = {} BY <1>0, <2>1, <2>7 DEF Open, GiveUp, Return, NoJob, TypeOK
    <3>2. \A q \in Reading' : q = p BY <2>2, <3>1
    <3>3. Total(p)' = file.len BY <2>7 DEF Total
    <3> QED BY <1>1, <2>1, <2>4, <2>7, <3>2, <3>3 DEF Alone
  <2>8. CASE p \in Reading /\ job'[p].data = job[p].data /\ cursor' = cursor
    <3>1. \A q \in Reading' : q \in Reading /\ Total(q)' = Total(q) BY <2>2, <2>8 DEF Total
    <3>2. \A a, b \in Reading' : a = b BY <2>3, <3>1
    <3> QED BY <2>1, <2>4, <2>8, <3>1, <3>2 DEF Alone
  <2> QED BY <1>3, <2>5, <2>6, <2>7, <2>8, ParserPlace
<1> QED BY <1>2, <1>3, Kinds

-----------------------------------------------------------------------------
(* The theorems                                                            *)

\* The strengthening holds in every reachable state.
THEOREM DumpInvariant == Spec => []IInv
<1>1. Init => IInv
  <2> SUFFICES ASSUME Init PROVE IInv OBVIOUS
  <2>1. TypeOK BY InitTypes
  <2>2. \A p \in Parsers : job[p] = NoJob BY DEF Init
  <2>3. cursor = 0 /\ file.len \in Nat /\ file.gen = 0 BY <2>1 DEF Init, TypeOK, File
  <2>4. Fresh /\ Covered /\ Reading = {}
    BY <2>2, <2>3 DEF Fresh, Covered, Reading, NoJob, Empty
  <2>5. CursorCoversSent BY <2>3 DEF CursorCoversSent, RowsOf
  <2>6. Alone BY <2>3, <2>4 DEF Alone
  <2> QED BY <2>1, <2>4, <2>5, <2>6 DEF IInv
<1>2. IInv /\ [Next]_vars => IInv'
  BY TypeStep, FreshStep, CoveredStep, CursorStep, AloneStep DEF IInv
<1> QED BY <1>1, <1>2, PTL DEF Spec

\* The cursor never covers a row that was not sent, for any number of parses at
\* once, retried calls, crashes and restarts.
THEOREM CursorCovered == Spec => []CursorCoversSent
<1>1. IInv => CursorCoversSent BY DEF IInv
<1> QED BY <1>1, DumpInvariant, PTL

\* The cursor of a file that is only appended to goes back only by a crash or by
\* two parses at the same time.
THEOREM CursorGoesBack == Spec => CursorGoesBackOnlyByOverlap
<1>1. ASSUME IInv, [Next]_vars
      PROVE  [cursor' < cursor => overlaps > 0 \/ file.gen > 0 \/ main' = "down"]_vars
  <2> SUFFICES ASSUME cursor' < cursor, ~(overlaps > 0), ~(file.gen > 0) PROVE main' = "down"
    OBVIOUS
  <2>1. cursor \in Int /\ overlaps = 0 /\ file.gen = 0 BY <1>1 DEF IInv, TypeOK, File
  <2>2. CASE Other BY <1>1, <2>1, <2>2, OtherSteps DEF Other, IInv
  <2>3. ASSUME NEW p \in Parsers, SetCursor(p) PROVE FALSE
    <3>1. p \in Reading /\ cursor' = Total(p) BY <2>3 DEF SetCursor, Reading
    <3>2. cursor <= Total(p) BY <1>1, <2>1, <3>1 DEF IInv, Alone
    <3>3. Total(p) \in Int BY <1>1 DEF IInv, TypeOK, Job, File, Total
    <3> QED BY <2>1, <3>1, <3>2, <3>3
  <2>4. ASSUME NEW p \in Parsers, Parse(p) PROVE FALSE
    BY <1>1, <2>1, <2>3, <2>4, ParseSteps DEF IInv
  <2> QED BY <1>1, <2>2, <2>4, Kinds
<1>2. IInv /\ [Next]_vars => [cursor' < cursor => overlaps > 0 \/ file.gen > 0 \/ main' = "down"]_vars
  BY <1>1
<1> QED BY <1>2, DumpInvariant, PTL DEF Spec, CursorGoesBackOnlyByOverlap
-----------------------------------------------------------------------------
(* Copies and their causes                                                 *)

\* What is counted is a number.
LEMMA Numbers ==
  ASSUME TypeOK, NEW r \in Row
  PROVE  /\ r[1] \in Nat /\ r[2] \in Nat \ {0} /\ copies[r] \in Nat /\ Causes \in Nat /\ cursor \in Nat
         /\ file.gen \in Nat /\ file.len \in Nat
         /\ IsFiniteSet(Pending(r)) /\ Cardinality(Pending(r)) \in Nat
         /\ \A p \in Parsers : /\ job[p].data.gen \in Nat /\ job[p].next \in Nat /\ Total(p) \in Nat
<1>1. Pending(r) \in SUBSET Parsers BY DEF Pending, Reading
<1>2. IsFiniteSet(Pending(r)) /\ Cardinality(Pending(r)) \in Nat
  BY <1>1, BoundsAssumption, FS_Subset, FS_CardinalityType
<1>3. r[1] \in Nat /\ r[2] \in Nat \ {0} BY BoundsAssumption DEF Row
<1>4. copies[r] \in Nat /\ cursor \in Nat /\ file.gen \in Nat /\ file.len \in Nat
  BY BoundsAssumption DEF TypeOK, File
<1>5. Causes \in Nat BY BoundsAssumption DEF TypeOK, Causes
<1>6. \A p \in Parsers : job[p].data.gen \in Nat /\ job[p].next \in Nat /\ Total(p) \in Nat
  BY BoundsAssumption DEF TypeOK, Job, File, Total
<1> QED BY <1>2, <1>3, <1>4, <1>5, <1>6

\* The copies of a row that is explained are.
LEMMA ExplainedBound ==
  ASSUME TypeOK, NEW r \in Row, Explained(r)
  PROVE  copies[r] <= 1 + Causes
<1>0. copies[r] \in Nat /\ Causes \in Nat /\ Cardinality(Pending(r)) \in Nat /\ r[2] \in Nat
      /\ IsFiniteSet(Pending(r))
  BY Numbers
<1>1. CASE ~Skipped(r) \/ Reading = {}
  BY <1>0, <1>1 DEF Explained, One
<1>2. CASE Skipped(r) /\ Reading # {}
  <2>1. PICK p \in Reading : TRUE BY <1>2
  <2>2. p \in Pending(r) BY <1>2, <2>1 DEF Pending, Skipped, HasPassed
  <2>3. Cardinality(Pending(r)) # 0 BY <1>0, <2>2, FS_EmptySet
  <2> QED BY <1>0, <1>2, <2>3 DEF Explained, One
<1> QED BY <1>1, <1>2

\* A step of one goroutine adds only this one to Pending, or removes it.
LEMMA PendingAfter ==
  ASSUME TypeOK, NEW p \in Parsers, \A q \in Parsers \ {p} : job'[q] = job[q], NEW r \in Row
  PROVE  Cardinality(Pending(r)') =
           Cardinality(Pending(r)) + One(p \in Pending(r)') - One(p \in Pending(r))
<1> DEFINE A == Pending(r)
           B == Pending(r)'
<1>1. \A q \in Parsers \ {p} : q \in A <=> q \in B BY DEF Pending, HasPassed, Reading
<1>2. A \subseteq Parsers /\ B \subseteq Parsers BY DEF Pending, Reading
<1>3. IsFiniteSet(A) /\ Cardinality(A) \in Nat BY Numbers
<1> SUFFICES Cardinality(B) = Cardinality(A) + One(p \in B) - One(p \in A) OBVIOUS
<1> HIDE DEF A, B
<1>4. CASE p \in A /\ p \notin B
  <2>1. B = A \ {p} BY <1>1, <1>2, <1>4
  <2>2. Cardinality(B) = Cardinality(A) - 1 BY <1>3, <1>4, <2>1, FS_RemoveElement
  <2>3. One(p \in B) = 0 /\ One(p \in A) = 1 BY <1>4 DEF One
  <2> QED BY <1>3, <2>2, <2>3
<1>5. CASE p \notin A /\ p \in B
  <2>1. B = A \cup {p} BY <1>1, <1>2, <1>5
  <2>2. Cardinality(B) = Cardinality(A) + 1 BY <1>3, <1>5, <2>1, FS_AddElement
  <2>3. One(p \in B) = 1 /\ One(p \in A) = 0 BY <1>5 DEF One
  <2> QED BY <1>3, <2>2, <2>3
<1>6. CASE p \in A <=> p \in B
  <2>1. B = A BY <1>1, <1>2, <1>6
  <2> QED BY <1>3, <1>6, <2>1 DEF One
<1> QED BY <1>4, <1>5, <1>6

\* The steps of the writer, the event loop and a restart leave the goroutines
\* that have the file open where they are.
LEMMA QuietSteps ==
  ASSUME TypeOK, Append \/ Replace \/ EventLoop \/ Fire \/ Restart \/ UNCHANGED vars
  PROVE  /\ Reading' = Reading /\ \A q \in Reading : job'[q] = job[q]
         /\ copies' = copies /\ cursor' = cursor /\ Causes' = Causes
         /\ \/ file' = file \/ (file'.gen = file.gen /\ file.len <= file'.len)
            \/ file'.gen = file.gen + 1
<1>0. file \in File /\ job \in [Parsers -> Job] BY DEF TypeOK
<1>1. ASSUME Go PROVE Reading' = Reading /\ \A q \in Reading : job'[q] = job[q]
  <2>1. PICK p \in Idle : job' = [job EXCEPT ![p].pc = "begin"] BY <1>1 DEF Go
  <2>2. p \in Parsers /\ job'[p].pc = "begin" /\ job[p].pc = "idle"
    BY <1>0, <2>1 DEF Idle, Job, NoJob
  <2>3. \A q \in Parsers : q # p => job'[q] = job[q] BY <1>0, <2>1
  <2> QED BY <2>2, <2>3 DEF Reading
<1>2. ASSUME job' = job PROVE Reading' = Reading /\ \A q \in Reading : job'[q] = job[q]
  BY <1>2 DEF Reading
<1>3. CASE Append
  <2>1. PICK n \in file.len + 1..MaxRows : Written([file EXCEPT !.len = n]) BY <1>3 DEF Append
  <2>2. file'.gen = file.gen /\ file'.len = n BY <1>0, <2>1 DEF Written, File
  <2>3. file.len \in Nat /\ file.len <= n BY <1>0, <2>1, BoundsAssumption DEF File
  <2> QED BY <1>2, <2>1, <2>2, <2>3 DEF Written, serviceVars, Causes
<1>4. CASE Replace
  <2>1. PICK n \in 0..MaxRows : Written([gen |-> file.gen + 1, len |-> n]) BY <1>4 DEF Replace
  <2>2. file'.gen = file.gen + 1 BY <2>1 DEF Written
  <2> QED BY <1>2, <2>1, <2>2 DEF Written, serviceVars, Causes
<1>5. CASE EventLoop \/ Fire \/ Restart \/ UNCHANGED vars
  <2>1. file' = file /\ copies' = copies /\ cursor' = cursor /\ Causes' = Causes
    BY <1>5 DEF EventLoop, Fire, Restart, ScanStat, ScanParse, WatchDir, HandleWrite,
                vars, serviceVars, ghostVars, Causes
  <2>2. job' = job \/ Go
    BY <1>5 DEF EventLoop, Fire, Restart, ScanStat, ScanParse, WatchDir, HandleWrite, vars
  <2> QED BY <1>1, <1>2, <2>1, <2>2
<1> QED BY <1>3, <1>4, <1>5

\* They keep what is explained: a file that grows or is replaced makes no row
\* less skipped.
LEMMA QuietExplained ==
  ASSUME TypeOK, Append \/ Replace \/ EventLoop \/ Fire \/ Restart \/ UNCHANGED vars,
         NEW r \in Row
  PROVE  /\ Explained(r) => Explained(r)'
         /\ Ended(r) => Ended(r)'
         /\ copies'[r] = copies[r] /\ Causes' = Causes
<1>0. /\ r[1] \in Nat /\ r[2] \in Nat /\ copies[r] \in Nat /\ Causes \in Nat /\ cursor \in Nat
      /\ file.gen \in Nat /\ file.len \in Nat /\ Cardinality(Pending(r)) \in Nat
  BY Numbers
<1>1. /\ Reading' = Reading /\ \A q \in Reading : job'[q] = job[q]
      /\ copies' = copies /\ cursor' = cursor /\ Causes' = Causes
      /\ (file'.gen = file.gen /\ file.len <= file'.len) \/ file'.gen = file.gen + 1
  BY <1>0, QuietSteps
<1>2. Pending(r)' = Pending(r) BY <1>1 DEF Pending, HasPassed
<1>3. \A q \in Reading : Total(q)' = Total(q) BY <1>1 DEF Total
<1>4. Skipped(r) => Skipped(r)'
  <2>1. file'.len \in Nat /\ file'.gen \in Nat BY TypeStep, BoundsAssumption DEF TypeOK, File, Next
  <2> QED BY <1>0, <1>1, <1>3, <2>1 DEF Skipped
<1>5. Explained(r) => Explained(r)' BY <1>0, <1>1, <1>2, <1>4 DEF Explained, One
<1>6. Ended(r) => Ended(r)' BY <1>0, <1>1 DEF Ended
<1> QED BY <1>1, <1>5, <1>6

\* After a crash every row may be sent again, and has one cause more for it.
LEMMA CrashExplained ==
  ASSUME TypeOK, Crash, NEW r \in Row
  PROVE  /\ copies[r] <= 1 + Causes => Explained(r)'
         /\ Ended(r) => Ended(r)'
         /\ copies'[r] = copies[r] /\ Causes' = Causes + 1
<1>0. r[2] \in Nat \ {0} /\ copies[r] \in Nat /\ Causes \in Nat BY Numbers
<1>1. /\ cursor' = 0 /\ file' = file /\ copies' = copies /\ faults' = faults
      /\ crashes' = crashes + 1 /\ overlaps' = overlaps
    BY DEF Crash, serviceVars
<1>2. Causes' = Causes + 1
  <2>1. faults \in Int /\ crashes \in Int /\ overlaps \in Int BY BoundsAssumption DEF TypeOK
  <2> QED BY <1>1, <2>1 DEF Causes
<1>3. Reading' = {} BY DEF Crash, Reading, NoJob
<1>4. Cardinality(Pending(r)') = 0
  <2>1. Pending(r)' = {} BY <1>3 DEF Pending
  <2> QED BY <2>1, FS_EmptySet
<1>5. copies[r] <= 1 + Causes => Explained(r)'
  <2>1. One(Reading' # {}) = 0 /\ One(Skipped(r)') \in Nat BY <1>3 DEF One
  <2> QED BY <1>0, <1>1, <1>2, <1>4, <2>1 DEF Explained
<1>6. Ended(r) => Ended(r)' BY <1>1, <1>3 DEF Ended
<1> QED BY <1>1, <1>2, <1>5, <1>6
\* A goroutine that leaves the file, and not the cursor, behind.  If it has passed
\* the row, it has a cause for leaving.
LEMMA LeaveExplained ==
  ASSUME TypeOK, NEW p \in Reading, \A q \in Parsers \ {p} : job'[q] = job[q], Off(p),
         file' = file, cursor' = cursor, NEW r \in Row, Explained(r),
         copies'[r] \in Nat, Causes' \in Nat,
         copies'[r] + Causes + One(p \notin Pending(r)) <= copies[r] + Causes'
  PROVE  Explained(r)'
<1>0. /\ copies[r] \in Nat /\ Causes \in Nat /\ Cardinality(Pending(r)) \in Nat /\ p \in Parsers
  BY Numbers DEF Reading
<1>1. p \notin Reading' /\ Reading' = Reading \ {p} BY DEF Reading, Off
<1>2. Cardinality(Pending(r)') = Cardinality(Pending(r)) - One(p \in Pending(r))
  <2>1. p \notin Pending(r)' BY <1>1 DEF Pending
  <2> QED BY <1>0, <2>1, PendingAfter DEF One
<1>3. Skipped(r) => Skipped(r)'
  <2>1. \A q \in Reading' : q \in Reading /\ job'[q] = job[q] BY <1>1 DEF Reading
  <2> QED BY <2>1 DEF Skipped, Total
<1>4. One(Skipped(r)) <= One(Skipped(r)') /\ One(Skipped(r)) \in Nat /\ One(Skipped(r)') \in Nat
  BY <1>3 DEF One
<1>5. One(Reading # {}) = 1 /\ One(Reading' # {}) \in {0, 1} BY DEF One
<1>6. One(p \in Pending(r)) + One(p \notin Pending(r)) = 1 BY DEF One
<1>7. One(p \in Pending(r)) \in {0, 1} /\ One(p \notin Pending(r)) \in {0, 1} BY DEF One
<1> QED BY <1>0, <1>2, <1>4, <1>5, <1>6, <1>7 DEF Explained

\* Before the file is open nothing can be sent.
LEMMA BeforeOpen ==
  ASSUME TypeOK, NEW p \in Parsers, Off(p), p \notin Reading, file' = file, cursor' = cursor,
         \A q \in Parsers \ {p} : job'[q] = job[q], NEW r \in Row, Explained(r),
         copies'[r] = copies[r], Causes' \in Nat, Causes <= Causes'
  PROVE  Explained(r)'
<1>0. copies[r] \in Nat /\ Causes \in Nat /\ Cardinality(Pending(r)) \in Nat BY Numbers
<1>1. Reading' = Reading /\ \A q \in Reading : job'[q] = job[q] BY DEF Reading, Off
<1>2. Pending(r)' = Pending(r) BY <1>1 DEF Pending, HasPassed
<1>3. Skipped(r)' = Skipped(r) BY <1>1 DEF Skipped, Total
<1> QED BY <1>0, <1>1, <1>2, <1>3 DEF Explained, One

\* Opening the file while another goroutine has it open is a cause.  A goroutine
\* that opens it alone, with the cursor past the row, will skip the row.
LEMMA OpenExplained ==
  ASSUME CopiesInv, NEW p \in Parsers, Open(p), job'[p].pc = "cursor", job'[p].data = file,
         NEW r \in Row, ~Ended(r), Explained(r)
  PROVE  Explained(r)'
<1>0. /\ copies[r] \in Nat /\ Causes \in Nat /\ Cardinality(Pending(r)) \in Nat /\ TypeOK
      /\ r[1] \in Nat /\ r[2] \in Nat /\ cursor \in Nat /\ file.gen \in Nat /\ file.len \in Nat
  BY Numbers DEF CopiesInv, IInv
<1>1. /\ file' = file /\ cursor' = cursor /\ copies' = copies /\ faults' = faults
      /\ crashes' = crashes /\ overlaps' = IF Reading = {} THEN overlaps ELSE overlaps + 1
      /\ job[p].pc = "open" /\ \A q \in Parsers \ {p} : job'[q] = job[q]
  BY <1>0 DEF Open, GiveUp, Return, NoJob, serviceVars, TypeOK
<1>2. p \notin Reading /\ Reading' = Reading \cup {p} BY <1>1 DEF Reading
<1>3. Cardinality(Pending(r)') = Cardinality(Pending(r)) + 1
  <2>1. p \in Pending(r)' /\ p \notin Pending(r) BY <1>2 DEF Pending, HasPassed
  <2> QED BY <1>0, <1>1, <2>1, PendingAfter DEF One
<1>4. Skipped(r) => Skipped(r)'
  <2>1. \A q \in Reading : job'[q] = job[q] /\ Total(q)' = Total(q) BY <1>1, <1>2 DEF Reading, Total
  <2>2. Total(p)' = file.len BY DEF Total
  <2> QED BY <1>0, <1>1, <1>2, <2>1, <2>2 DEF Skipped
<1>5. Causes' + One(Reading' # {}) = Causes + One(Reading # {}) + 1
  <2>1. faults \in Nat /\ crashes \in Nat /\ overlaps \in Nat
    BY <1>0, BoundsAssumption DEF TypeOK
  <2>2. Reading' # {} BY <1>2
  <2> QED BY <1>1, <2>1, <2>2 DEF Causes, One
<1>6. One(Skipped(r)) <= One(Skipped(r)') /\ One(Skipped(r)) \in Nat /\ One(Skipped(r)') \in Nat
  BY <1>4 DEF One
<1>7. One(Reading' # {}) \in {0, 1} /\ One(Reading # {}) \in {0, 1} BY DEF One
<1>8. Causes' \in Int BY <1>0, <1>1, BoundsAssumption DEF TypeOK, Causes
<1> QED BY <1>0, <1>1, <1>3, <1>5, <1>6, <1>7, <1>8 DEF Explained

\* A goroutine that has the file open and stays there, and does not change the
\* cursor, keeps what is explained if it does not start behind a skipped row.
LEMMA StayExplained ==
  ASSUME TypeOK, NEW p \in Reading, \A q \in Parsers \ {p} : job'[q] = job[q],
         job'[p].pc \in {"cursor", "send", "done"}, job'[p].data = job[p].data,
         file' = file, cursor' = cursor, NEW r \in Row, Explained(r),
         copies'[r] \in Nat, Causes' \in Nat,
         Skipped(r) /\ job[p].data.gen = r[1] =>
           p \in Pending(r) /\ p \notin Pending(r)' /\ copies'[r] = copies[r] /\ Causes' = Causes,
         copies'[r] + Causes + One(p \in Pending(r)') <= copies[r] + Causes' + One(p \in Pending(r))
  PROVE  Explained(r)'
<1>0. copies[r] \in Nat /\ Causes \in Nat /\ Cardinality(Pending(r)) \in Nat /\ p \in Parsers
  BY Numbers DEF Reading
<1>1. Reading' = Reading BY DEF Reading
<1>2. Cardinality(Pending(r)') =
        Cardinality(Pending(r)) + One(p \in Pending(r)') - One(p \in Pending(r))
  BY <1>0, PendingAfter
<1>3. Skipped(r) /\ job[p].data.gen # r[1] => Skipped(r)'
  <2>1. \A q \in Reading : job'[q].data = job[q].data /\ Total(q)' = Total(q) BY DEF Total, Reading
  <2>2. \A q \in Reading \ {p} : job'[q].pc = job[q].pc BY DEF Reading
  <2> QED BY <1>1, <2>1, <2>2 DEF Skipped
<1>4. /\ One(p \in Pending(r)') \in {0, 1} /\ One(p \in Pending(r)) \in {0, 1}
      /\ One(Skipped(r)) \in {0, 1} /\ One(Skipped(r)') \in {0, 1} /\ One(Reading # {}) \in {0, 1}
  BY DEF One
<1>5. CASE Skipped(r) /\ job[p].data.gen = r[1]
  <2>1. Cardinality(Pending(r)') = Cardinality(Pending(r)) - 1 BY <1>0, <1>2, <1>5 DEF One
  <2>2. One(Skipped(r)) = 1 BY <1>5 DEF One
  <2>3. copies[r] + Cardinality(Pending(r)) <= Causes + One(Reading # {}) + 1
    BY <2>2 DEF Explained
  <2>4. copies[r] + (Cardinality(Pending(r)) - 1) <= Causes + One(Reading # {}) + One(Skipped(r)')
    BY <1>0, <1>4, <2>3
  <2> QED BY <1>1, <1>5, <2>1, <2>4 DEF Explained
<1>6. CASE ~(Skipped(r) /\ job[p].data.gen = r[1])
  <2>1. One(Skipped(r)) <= One(Skipped(r)') BY <1>3, <1>6 DEF One
  <2> QED BY <1>0, <1>1, <1>2, <1>4, <2>1 DEF Explained
<1> QED BY <1>5, <1>6
\* What a goroutine that has the file open does to copies and causes.
LEMMA ParseCauses ==
  ASSUME TypeOK, NEW p \in Parsers, Parse(p), NEW r \in Row
  PROVE  /\ copies'[r] \in Nat /\ Causes' \in Nat /\ Causes <= Causes'
         /\ copies'[r] # copies[r] =>
              /\ p \in Pending(r) /\ job[p].data.gen = r[1] /\ copies'[r] = copies[r] + 1
              /\ \/ SendTaken(p) /\ Causes' = Causes /\ BatchEnd(p) >= r[2]
                 \/ (SendTransient(p) \/ SendRefused(p)) /\ Causes' = Causes + 1
         /\ SendTransient(p) \/ SendRefused(p) => Causes' = Causes + 1
<1>0. /\ copies[r] \in Nat /\ job[p].next \in Nat /\ BatchEnd(p) \in Nat
      /\ faults \in Nat /\ crashes \in Nat /\ overlaps \in Nat
  BY Numbers, BatchEndBounds, BoundsAssumption DEF TypeOK
<1>1. ASSUME NEW rows \in SUBSET Batch(p), Take(rows), job[p].pc = "send", copies'[r] # copies[r]
      PROVE  /\ p \in Pending(r) /\ job[p].data.gen = r[1] /\ copies'[r] = copies[r] + 1
             /\ BatchEnd(p) >= r[2]
  <2>1. copies'[r] = copies[r] + IF r \in rows THEN 1 ELSE 0 BY <1>1 DEF Take
  <2>2. r \in Batch(p) BY <1>0, <1>1, <2>1
  <2>3. PICK i \in job[p].next + 1..BatchEnd(p) : r = <<job[p].data.gen, i>> BY <2>2 DEF Batch, RowsOf
  <2>4. r[1] = job[p].data.gen /\ r[2] = i BY <2>3
  <2>5. i \in Int /\ i > job[p].next /\ i <= BatchEnd(p) BY <1>0, <2>3
  <2>6. p \in Pending(r) BY <1>0, <1>1, <2>4, <2>5 DEF Pending, HasPassed, Reading
  <2> QED BY <1>0, <1>1, <2>1, <2>4, <2>5, <2>6
<1>2. CASE SendTaken(p)
  <2>1. PICK rows \in (SUBSET Batch(p)) \ {{}} : Take(rows) BY <1>2 DEF SendTaken
  <2>2. Causes' = Causes /\ Causes \in Nat BY <1>0, <1>2 DEF SendTaken, ghostVars, Causes
  <2>3. copies'[r] \in Nat BY <1>0, <2>1 DEF Take
  <2>4. ~Fault BY <1>0, <1>2 DEF SendTaken, Fault, ghostVars
  <2>5. ~SendTransient(p) /\ ~SendRefused(p) BY <2>4 DEF SendTransient, SendRefused
  <2>6. job[p].pc = "send" BY <1>2 DEF SendTaken
  <2>7. copies'[r] # copies[r] =>
          /\ p \in Pending(r) /\ job[p].data.gen = r[1] /\ copies'[r] = copies[r] + 1
          /\ BatchEnd(p) >= r[2]
    BY <1>1, <2>1, <2>6
  <2> QED BY <1>2, <2>2, <2>3, <2>5, <2>7
<1>3. CASE SendTransient(p) \/ SendRefused(p)
  <2>1. PICK rows \in SUBSET Batch(p) : Take(rows) BY <1>3 DEF SendTransient, SendRefused
  <2>2. Causes' = Causes + 1 /\ Causes \in Nat
    BY <1>0, <1>3 DEF SendTransient, SendRefused, Fault, Causes
  <2>3. copies'[r] \in Nat BY <1>0, <2>1 DEF Take
  <2>4. job[p].pc = "send" BY <1>3 DEF SendTransient, SendRefused
  <2>5. copies'[r] # copies[r] =>
          p \in Pending(r) /\ job[p].data.gen = r[1] /\ copies'[r] = copies[r] + 1
    BY <1>1, <2>1, <2>4
  <2> QED BY <1>0, <1>3, <2>2, <2>3, <2>5
<1>4. CASE Stat(p) \/ StatAgain(p) \/ Open(p) \/ ReadCursor(p) \/ SetCursor(p)
  <2>1. copies' = copies /\ ~SendTransient(p) /\ ~SendRefused(p)
    BY <1>4 DEF Stat, StatAgain, Open, ReadCursor, ReadRows, SetCursor, serviceVars, SendTransient,
                SendRefused
  <2>2. /\ faults' \in {faults, faults + 1} /\ crashes' = crashes
        /\ overlaps' \in {overlaps, overlaps + 1}
    BY <1>4 DEF Stat, StatAgain, Open, Fault, ReadCursor, ReadRows, SetCursor, ghostVars
  <2>3. \A a, b, c \in Nat : \A x \in {a, a + 1}, y \in {c, c + 1} :
          x + b + y \in Nat /\ a + b + c <= x + b + y
    OBVIOUS
  <2>4. Causes' \in Nat /\ Causes <= Causes' BY <1>0, <2>2, <2>3 DEF Causes
  <2> QED BY <1>0, <2>1, <2>4
<1> QED BY <1>2, <1>3, <1>4 DEF Parse
\* A goroutine that starts at the cursor skips the rows that are skipped.
LEMMA ReadExplained ==
  ASSUME CopiesInv, NEW p \in Parsers, ReadCursor(p), NEW r \in Row, Explained(r)
  PROVE  Explained(r)'
<1>0. /\ copies[r] \in Nat /\ Causes \in Nat /\ TypeOK /\ Within /\ cursor \in Nat /\ r[2] \in Nat
      /\ job \in [Parsers -> Job] /\ job[p] \in Job /\ Total(p) \in Nat
  BY Numbers DEF CopiesInv, IInv, TypeOK
<1>1. /\ job[p].pc = "cursor" /\ p \in Reading /\ p \in Pending(r) /\ cursor' = cursor
      /\ file' = file /\ copies' = copies /\ Causes' = Causes
      /\ \A q \in Parsers \ {p} : job'[q] = job[q]
  BY <1>0 DEF ReadCursor, ReadRows, Reading, Pending, HasPassed, serviceVars, ghostVars, Causes, Return
<1>2. One(p \in Pending(r)) = 1 /\ One(p \notin Pending(r)) = 0 /\ One(p \in Pending(r)') \in {0, 1}
  BY <1>1 DEF One
<1>3. CASE StartRow(p) = Total(p)
  <2>1. Off(p) BY <1>0, <1>3 DEF ReadCursor, ReadRows, Return, NoJob, Off
  <2> QED BY <1>0, <1>1, <1>2, <2>1, LeaveExplained
<1>4. CASE StartRow(p) # Total(p)
  <2>1. job'[p].pc = "send" /\ job'[p].data = job[p].data /\ job'[p].next = StartRow(p)
    BY <1>0, <1>4 DEF ReadCursor, ReadRows, Job
  <2>2. ASSUME Skipped(r), job[p].data.gen = r[1] PROVE p \notin Pending(r)'
    <3>1. r[2] <= cursor /\ cursor <= Total(p) BY <1>1, <2>2 DEF Skipped
    <3>2. StartRow(p) = cursor BY <1>0, <3>1 DEF StartRow
    <3> QED BY <2>1, <2>2, <3>1, <3>2 DEF Pending, HasPassed
  <2> QED BY <1>0, <1>1, <1>2, <2>1, <2>2, StayExplained
<1> QED BY <1>3, <1>4

\* A goroutine that sends a row has then passed it.
LEMMA SendExplained ==
  ASSUME CopiesInv, NEW p \in Parsers, SendTaken(p), NEW r \in Row, Explained(r)
  PROVE  Explained(r)'
<1>0. /\ copies[r] \in Nat /\ Causes \in Nat /\ TypeOK /\ Within /\ r[2] \in Nat
      /\ job \in [Parsers -> Job] /\ job[p] \in Job /\ Total(p) \in Nat /\ job[p].next \in Nat
      /\ BatchEnd(p) \in Nat
  BY Numbers, BatchEndBounds, BoundsAssumption DEF CopiesInv, IInv, TypeOK
<1>1. Parse(p) BY DEF Parse
<1>2. /\ job[p].pc = "send" /\ p \in Reading /\ cursor' = cursor /\ file' = file
      /\ \A q \in Parsers \ {p} : job'[q] = job[q] /\ Causes' = Causes
      /\ job'[p].pc \in {"send", "done"} /\ job'[p].data = job[p].data /\ job'[p].next = BatchEnd(p)
  BY <1>0 DEF SendTaken, Reading, ghostVars, Causes, Job
<1>3. Causes' = Causes BY DEF SendTaken, ghostVars, Causes
<1>4. job[p].next <= BatchEnd(p) BY <1>0, <1>2, BatchEndBounds DEF Within
<1>5. p \in Pending(r)' => p \in Pending(r)
  BY <1>0, <1>2, <1>4 DEF Pending, HasPassed, Reading
<1>6. ~(Skipped(r) /\ job[p].data.gen = r[1]) BY <1>2 DEF Skipped
<1>7. copies'[r] + One(p \in Pending(r)') <= copies[r] + One(p \in Pending(r))
  <2>1. CASE copies'[r] = copies[r] BY <1>0, <1>5, <2>1 DEF One
  <2>2. CASE copies'[r] # copies[r]
    <3>1. /\ p \in Pending(r) /\ job[p].data.gen = r[1] /\ copies'[r] = copies[r] + 1
          /\ BatchEnd(p) >= r[2]
      <4>1. (~SendTransient(p) /\ ~SendRefused(p)) \/ Causes' = Causes + 1
        BY <1>0, <1>1, <2>2, ParseCauses
      <4> QED BY <1>0, <1>1, <1>3, <2>2, <4>1, ParseCauses
    <3>2. p \notin Pending(r)' BY <1>0, <1>2, <3>1 DEF Pending, HasPassed
    <3> QED BY <1>0, <3>1, <3>2 DEF One
  <2> QED BY <2>1, <2>2
<1>8. copies'[r] \in Nat BY <1>0, <1>1, ParseCauses
<1>9. One(p \in Pending(r)') \in {0, 1} /\ One(p \in Pending(r)) \in {0, 1} BY DEF One
<1> QED BY <1>0, <1>2, <1>3, <1>6, <1>7, <1>8, <1>9, StayExplained

\* A call that fails is a cause, whether the goroutine tries again or gives up.
LEMMA FailExplained ==
  ASSUME CopiesInv, NEW p \in Parsers, SendTransient(p) \/ SendRefused(p), NEW r \in Row,
         Explained(r)
  PROVE  Explained(r)'
<1>0. /\ copies[r] \in Nat /\ Causes \in Nat /\ TypeOK /\ job \in [Parsers -> Job] /\ job[p] \in Job
  BY Numbers DEF CopiesInv, IInv, TypeOK
<1>1. Parse(p) BY DEF Parse
<1>2. /\ Causes' = Causes + 1 /\ copies'[r] \in Nat
      /\ copies'[r] = copies[r] \/ (copies'[r] = copies[r] + 1 /\ p \in Pending(r))
  BY <1>0, <1>1, ParseCauses
<1>3. /\ job[p].pc = "send" /\ p \in Reading /\ cursor' = cursor /\ file' = file
      /\ \A q \in Parsers \ {p} : job'[q] = job[q]
  BY <1>0 DEF SendTransient, SendRefused, GiveUp, Return, Reading
<1>4. /\ One(p \in Pending(r)) \in {0, 1} /\ One(p \notin Pending(r)) \in {0, 1}
      /\ p \in Pending(r) => One(p \notin Pending(r)) = 0
  BY DEF One
<1>5. CASE Return(p)
  <2>1. Off(p) BY <1>0, <1>5 DEF Return, NoJob, Off
  <2>2. copies'[r] + Causes + One(p \notin Pending(r)) <= copies[r] + Causes'
    BY <1>0, <1>2, <1>4
  <2> QED BY <1>0, <1>2, <1>3, <2>1, <2>2, LeaveExplained
<1>6. CASE ~Return(p)
  <2>1. job' = [job EXCEPT ![p].attempt = @ + 1] BY <1>6 DEF SendTransient, SendRefused, GiveUp
  <2>2. job'[p].pc = "send" /\ job'[p].data = job[p].data /\ job'[p].next = job[p].next
    BY <1>0, <1>3, <2>1 DEF Job
  <2>3. p \in Pending(r)' <=> p \in Pending(r) BY <1>3, <2>2 DEF Pending, HasPassed, Reading
  <2>4. One(p \in Pending(r)') = One(p \in Pending(r)) BY <2>3 DEF One
  <2>5. ~(Skipped(r) /\ job[p].data.gen = r[1]) BY <1>3 DEF Skipped
  <2>6. copies'[r] + Causes + One(p \in Pending(r)') <= copies[r] + Causes' + One(p \in Pending(r))
    BY <1>0, <1>2, <1>4, <2>4
  <2> QED BY <1>0, <1>2, <1>3, <2>2, <2>5, <2>6, StayExplained
<1> QED BY <1>5, <1>6

\* A goroutine that takes the cursor back behind a row has not sent it.  If it
\* has, and was alone, the cursor is now past the row.
LEMMA DoneExplained ==
  ASSUME CopiesInv, NEW p \in Parsers, SetCursor(p), NEW r \in Row, Explained(r)
  PROVE  Explained(r)' \/ Ended(r)'
<1>0. /\ copies[r] \in Nat /\ Causes \in Nat /\ TypeOK /\ Within /\ Fresh /\ r[1] \in Nat
      /\ r[2] \in Nat /\ file.gen \in Nat /\ file.len \in Nat /\ job[p].data.gen \in Nat
      /\ Total(p) \in Nat /\ Cardinality(Pending(r)) \in Nat /\ job \in [Parsers -> Job]
  BY Numbers DEF CopiesInv, IInv, TypeOK
<1>1. /\ job[p].pc = "done" /\ p \in Reading /\ p \notin Reading' /\ cursor' = Total(p)
      /\ file' = file /\ copies' = copies /\ Causes' = Causes
      /\ \A q \in Parsers \ {p} : job'[q] = job[q]
  BY <1>0 DEF SetCursor, Return, NoJob, Reading, serviceVars, ghostVars, Causes
<1>2. Reading' = Reading \ {p} BY <1>1 DEF Reading
<1>3. Cardinality(Pending(r)') = Cardinality(Pending(r)) - One(p \in Pending(r))
  <2>1. p \notin Pending(r)' BY <1>1 DEF Pending
  <2> QED BY <1>0, <1>1, <2>1, PendingAfter DEF One
<1>4. /\ One(Reading # {}) = 1 /\ One(Skipped(r)) \in {0, 1} /\ One(Skipped(r)') \in {0, 1}
      /\ Reading' # {} => One(Reading' # {}) = 1
      /\ Reading' = {} => One(Reading' # {}) = 0
  BY <1>1 DEF One
<1>5. CASE p \in Pending(r)
  <2>1. One(p \in Pending(r)) = 1 BY <1>5 DEF One
  <2>2. CASE Reading' # {}
    BY <1>0, <1>1, <1>3, <1>4, <2>1, <2>2 DEF Explained
  <2>3. CASE Reading' = {} /\ ~Skipped(r)
    <3>1. One(Skipped(r)) = 0 BY <2>3 DEF One
    <3> QED BY <1>0, <1>1, <1>3, <1>4, <2>1, <2>3, <3>1 DEF Explained
  <2>4. CASE Reading' = {} /\ Skipped(r)
    <3>1. job[p].data.gen >= r[1] /\ job[p].data.gen # r[1] BY <1>1, <2>4 DEF Skipped
    <3>2. file'.gen > r[1] BY <1>0, <1>1, <3>1 DEF Fresh
    <3> QED BY <2>4, <3>2 DEF Ended
  <2> QED BY <2>2, <2>3, <2>4
<1>6. CASE p \notin Pending(r)
  <2>1. One(p \in Pending(r)) = 0 BY <1>6 DEF One
  <2>2. HasPassed(p, r) BY <1>1, <1>6 DEF Pending
  <2>3. job[p].data.gen = r[1] /\ Total(p) >= r[2] BY <1>0, <1>1, <2>2 DEF HasPassed, Fresh
  <2>4. One(Skipped(r)) = 0
    <3>1. ~Skipped(r) BY <1>1, <2>3 DEF Skipped
    <3> QED BY <3>1 DEF One
  <2>5. CASE Reading' # {}
    BY <1>0, <1>1, <1>3, <1>4, <2>1, <2>4, <2>5 DEF Explained
  <2>6. CASE Reading' = {} /\ file.gen = r[1]
    <3>1. Total(p) <= file.len BY <1>0, <2>3, <2>6 DEF Within
    <3>2. Skipped(r)' BY <1>0, <1>1, <2>3, <2>6, <3>1 DEF Skipped
    <3>3. One(Skipped(r)') = 1 BY <3>2 DEF One
    <3> QED BY <1>0, <1>1, <1>3, <1>4, <2>1, <2>4, <2>6, <3>3 DEF Explained
  <2>7. CASE Reading' = {} /\ file.gen # r[1]
    <3>1. job[p].data.gen <= file.gen BY <1>0 DEF Fresh
    <3> QED BY <1>0, <1>1, <2>3, <2>7, <3>1 DEF Ended
  <2> QED BY <2>5, <2>6, <2>7
<1> QED BY <1>5, <1>6
\* What a goroutine has read of the file is still there, unless the file was
\* replaced, and it sends no more than that.
LEMMA WithinStep ==
  ASSUME CopiesInv, [Next]_vars
  PROVE  Within'
<1>0. /\ TypeOK /\ TypeOK' /\ Fresh /\ Within /\ file.gen \in Nat /\ file.len \in Nat
      /\ file'.gen \in Nat /\ file'.len \in Nat
  BY TypeStep, BoundsAssumption DEF CopiesInv, IInv, TypeOK, File
<1>1. \A q \in Parsers : /\ job[q].data.gen \in Nat /\ job[q].data.len \in Nat
                         /\ job[q].data.gen <= file.gen /\ job[q] \in Job
  BY <1>0, BoundsAssumption DEF TypeOK, Job, File, Fresh
<1> DEFINE In(q) == /\ job[q].data.gen = file.gen => Total(q) <= file.len
                    /\ job[q].pc = "send" => job[q].next <= Total(q)
<1>2. ASSUME NEW q \in Parsers, job'[q] = job[q] \/ Off(q),
             (file'.gen = file.gen /\ file.len <= file'.len) \/ file'.gen = file.gen + 1
      PROVE  In(q)'
  <2>1. CASE job'[q].data = job[q].data /\ (job'[q] = job[q] \/ job'[q].pc # "send")
    <3>1. job'[q].data.gen = file'.gen => file'.gen = file.gen /\ file.len <= file'.len
      BY <1>0, <1>1, <1>2, <2>1
    <3>2. job'[q].data.gen = file'.gen => Total(q)' <= file'.len
      BY <1>0, <1>1, <2>1, <3>1 DEF Within, Total
    <3> QED BY <1>0, <2>1, <3>2 DEF Within, Total
  <2>2. CASE job'[q].data = Empty /\ job'[q].pc # "send"
    <3>1. Total(q)' = 0 BY <2>2 DEF Total, Empty
    <3> QED BY <1>0, <2>2, <3>1
  <2> QED BY <1>2, <2>1, <2>2 DEF Off
<1>3. CASE Append \/ Replace \/ EventLoop \/ Fire \/ Restart \/ UNCHANGED vars
  <2>1. (file'.gen = file.gen /\ file.len <= file'.len) \/ file'.gen = file.gen + 1
    BY <1>0, <1>3, QuietSteps
  <2>2. \A q \in Parsers : job'[q] = job[q] \/ Off(q) BY <1>0, <1>3, OtherSteps
  <2> QED BY <1>2, <2>1, <2>2 DEF Within
<1>4. CASE Crash
  <2>1. file' = file /\ \A q \in Parsers : job'[q] = NoJob BY <1>4 DEF Crash
  <2> QED BY <1>0, <1>2, <2>1 DEF Within, Off, NoJob
<1>5. ASSUME NEW p \in Parsers, Parse(p) PROVE Within'
  <2>1. file' = file /\ \A q \in Parsers \ {p} : job'[q] = job[q] BY <1>0, <1>5, ParseSteps
  <2>2. \A q \in Parsers \ {p} : In(q)' BY <1>0, <1>2, <2>1
  <2>3. CASE Off(p) BY <1>0, <1>2, <2>1, <2>2, <2>3 DEF Within
  <2>4. CASE job'[p].pc = "cursor" /\ job'[p].data = file
    <3>1. In(p)' BY <1>0, <2>1, <2>4 DEF Total
    <3> QED BY <2>2, <3>1 DEF Within
  <2>5. CASE job'[p].data = job[p].data /\ (job'[p].pc = "send" => job'[p].next <= Total(p))
    <3>1. In(p)' BY <1>0, <2>1, <2>5 DEF Within, Total
    <3> QED BY <2>2, <3>1 DEF Within
  <2>6. BatchEnd(p) <= Total(p) BY <1>0, BatchEndBounds
  <2>7. StartRow(p) <= Total(p)
    <3>1. cursor \in Nat /\ Total(p) \in Nat BY <1>0, <1>1, BoundsAssumption DEF TypeOK, Total
    <3> QED BY <3>1 DEF StartRow
  <2>8. job[p].pc = "send" => job[p].next <= Total(p) BY <1>0 DEF Within
  <2> QED BY <1>0, <1>5, <2>3, <2>4, <2>5, <2>6, <2>7, <2>8, ParserPlace
<1> QED BY <1>3, <1>4, <1>5, Kinds DEF Other

\* Every step keeps the copies explained.
LEMMA CopiesStep ==
  ASSUME CopiesInv, [Next]_vars
  PROVE  CopiesExplained'
<1>0. TypeOK /\ TypeOK' /\ Fresh BY TypeStep DEF CopiesInv, IInv
<1> SUFFICES ASSUME NEW r \in Row
             PROVE  IF Ended(r)' THEN copies'[r] <= 1 + Causes' ELSE Explained(r)'
  BY DEF CopiesExplained
<1>1. /\ copies[r] \in Nat /\ Causes \in Nat /\ r[1] \in Nat /\ file.gen \in Nat
      /\ copies[r] <= 1 + Causes /\ (Ended(r) \/ Explained(r))
  BY <1>0, Numbers, ExplainedBound DEF CopiesInv, CopiesExplained
<1>2. CASE Append \/ Replace \/ EventLoop \/ Fire \/ Restart \/ UNCHANGED vars
  BY <1>0, <1>1, <1>2, QuietExplained
<1>3. CASE Crash
  BY <1>0, <1>1, <1>3, CrashExplained
<1>4. ASSUME NEW p \in Parsers, Parse(p)
      PROVE  IF Ended(r)' THEN copies'[r] <= 1 + Causes' ELSE Explained(r)'
  <2>1. file' = file /\ \A q \in Parsers \ {p} : job'[q] = job[q] BY <1>0, <1>4, ParseSteps
  <2>2. /\ copies'[r] \in Nat /\ Causes' \in Nat /\ Causes <= Causes'
        /\ copies'[r] # copies[r] => /\ job[p].data.gen = r[1] /\ copies'[r] = copies[r] + 1
                                     /\ SendTaken(p) \/ Causes' = Causes + 1
    BY <1>0, <1>4, ParseCauses
  <2>3. ~SendTaken(p) => copies'[r] <= 1 + Causes' BY <1>1, <2>2
  <2>4. ASSUME SendTaken(p) PROVE p \in Reading /\ Reading' = Reading /\ job'[p].data = job[p].data
    <3>1. job[p].pc = "send" /\ job'[p].data = job[p].data /\ job'[p].pc \in {"send", "done"}
      BY <1>0, <2>4 DEF SendTaken, TypeOK, Job
    <3> QED BY <2>1, <3>1 DEF Reading
  <2>5. CASE Ended(r)
    <3>1. copies'[r] <= 1 + Causes'
      <4>1. SendTaken(p) => copies'[r] = copies[r] BY <2>2, <2>4, <2>5 DEF Ended
      <4> QED BY <1>1, <2>2, <2>3, <4>1
    <3>2. Ended(r)'
      <4>1. \A q \in Reading' \ {p} : q \in Reading /\ job'[q] = job[q] BY <2>1 DEF Reading
      <4>2. p \in Reading' => job'[p].data.gen # r[1]
        <5>1. CASE Off(p) BY <5>1 DEF Off, Reading
        <5>2. CASE job'[p].data = file BY <1>1, <2>5, <5>2 DEF Ended
        <5>3. CASE p \in Reading /\ job'[p].data = job[p].data BY <2>5, <5>3 DEF Ended
        <5> QED BY <1>0, <1>4, <5>1, <5>2, <5>3, ParserPlace
      <4> QED BY <2>1, <2>5, <4>1, <4>2 DEF Ended
    <3> QED BY <3>1, <3>2
  <2>6. CASE ~Ended(r)
    <3>1. Explained(r) BY <1>1, <2>6
    <3>2. CASE SendTaken(p)
      <4>1. Explained(r)' BY <3>1, <3>2, SendExplained
      <4>2. ~Ended(r)'
        <5>1. \A q \in Reading : job'[q].data = job[q].data BY <2>1, <2>4, <3>2 DEF Reading
        <5> QED BY <2>1, <2>4, <2>6, <3>2, <5>1 DEF Ended
      <4> QED BY <4>1, <4>2
    <3>3. CASE ~SendTaken(p) /\ (Explained(r)' \/ Ended(r)') BY <2>3, <3>3
    <3>4. CASE ReadCursor(p) BY <3>1, <3>3, <3>4, ReadExplained DEF ReadCursor, SendTaken, ReadRows
    <3>5. CASE SendTransient(p) \/ SendRefused(p)
      <4>1. ~SendTaken(p)
        <5>1. ~UNCHANGED faults BY <1>0, <3>5, BoundsAssumption DEF SendTransient, SendRefused, Fault, TypeOK
        <5> QED BY <5>1 DEF SendTaken, ghostVars
      <4> QED BY <3>1, <3>3, <3>5, <4>1, FailExplained
    <3>6. CASE SetCursor(p) BY <3>1, <3>3, <3>6, DoneExplained DEF SetCursor, SendTaken
    <3>7. CASE Open(p) /\ job'[p].pc = "cursor" /\ job'[p].data = file
      BY <2>6, <3>1, <3>3, <3>7, OpenExplained DEF Open, SendTaken
    <3>8. CASE (Stat(p) \/ StatAgain(p) \/ Open(p)) /\ Off(p)
      <4>1. p \notin Reading /\ cursor' = cursor /\ copies' = copies
        BY <3>8 DEF Stat, StatAgain, Open, Reading, serviceVars
      <4>2. Explained(r)' BY <1>0, <2>1, <2>2, <3>1, <3>8, <4>1, BeforeOpen
      <4> QED BY <3>3, <3>8, <4>2 DEF Stat, StatAgain, Open, SendTaken
    <3>9. CASE Stat(p) \/ StatAgain(p) \/ Open(p)
      <4>1. p \notin Reading BY <3>9 DEF Stat, StatAgain, Open, Reading
      <4>2. ~SetCursor(p) /\ ~SendTaken(p)
        BY <3>9 DEF Stat, StatAgain, Open, SetCursor, SendTaken
      <4>3. Off(p) \/ (Open(p) /\ job'[p].pc = "cursor" /\ job'[p].data = file)
        BY <1>0, <1>4, <4>1, <4>2, ParserPlace
      <4> QED BY <3>7, <3>8, <3>9, <4>3
    <3> QED BY <1>4, <3>2, <3>4, <3>5, <3>6, <3>9 DEF Parse
  <2> QED BY <2>5, <2>6
<1> QED BY <1>2, <1>3, <1>4, Kinds DEF Other

\* Every copy of a row beyond the first has a cause of its own, a failed call or
\* open, a crash, or two parses at the same time, for any number of goroutines
\* that parse the file while it grows and is replaced.
THEOREM CopiesHaveCause == Spec => []ExtraCopiesHaveCause
<1>1. IInv /\ Init => CopiesInv
  <2> SUFFICES ASSUME IInv, Init PROVE CopiesInv OBVIOUS
  <2>1. \A p \in Parsers : job[p] = NoJob BY DEF Init
  <2>2. Reading = {} /\ file.len \in Nat
    BY <2>1, BoundsAssumption DEF Reading, NoJob, IInv, TypeOK, File
  <2>3. Within BY <2>1, <2>2 DEF Within, Total, NoJob, Empty
  <2>4. ASSUME NEW r \in Row PROVE Explained(r) /\ copies[r] <= 1 + Causes
    <3>1. r[2] \in Nat \ {0} /\ Causes \in Nat /\ cursor = 0 /\ copies[r] = 0
      BY Numbers DEF IInv, Init
    <3>2. Causes = 0 BY DEF Init, Causes
    <3>3. Pending(r) = {} BY <2>2 DEF Pending
    <3>4. Cardinality(Pending(r)) = 0 BY <3>3, FS_EmptySet
    <3>5. One(Reading # {}) = 0 /\ One(Skipped(r)) \in Nat BY <2>2 DEF One
    <3> QED BY <3>1, <3>2, <3>4, <3>5 DEF Explained
  <2> QED BY <2>3, <2>4 DEF CopiesInv, CopiesExplained
<1>2. CopiesInv /\ IInv' /\ [Next]_vars => CopiesInv'
  BY WithinStep, CopiesStep DEF CopiesInv
<1>3. CopiesInv => ExtraCopiesHaveCause
  <2> SUFFICES ASSUME CopiesInv, NEW r \in Row PROVE copies[r] <= 1 + faults + crashes + overlaps
    BY DEF ExtraCopiesHaveCause
  <2>1. TypeOK BY DEF CopiesInv, IInv
  <2>2. copies[r] <= 1 + Causes BY <2>1, ExplainedBound DEF CopiesInv, CopiesExplained
  <2>3. faults \in Nat /\ crashes \in Nat /\ overlaps \in Nat /\ copies[r] \in Nat
    BY <2>1, BoundsAssumption DEF TypeOK
  <2> QED BY <2>2, <2>3 DEF Causes
<1> QED BY <1>1, <1>2, <1>3, DumpInvariant, PTL DEF Spec
=============================================================================
