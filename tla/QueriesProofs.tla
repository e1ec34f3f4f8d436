---------------------------- MODULE QueriesProofs ----------------------------
(***************************************************************************)
(* Proofs about Queries for every finite set of rows, every day and every  *)
(* limit.                                                                  *)
(***************************************************************************)
EXTENDS Queries, SequenceTheorems, FiniteSetTheorems, TLAPS

-----------------------------------------------------------------------------
(* Times                                                                   *)

\* Rounding down stays below the time.
LEMMA RoundDown ==
  ASSUME NEW a \in Nat, NEW b \in Nat \ {0}
  PROVE  /\ a - (a % b) \in Nat /\ a - (a % b) <= a
         /\ (a \div b) \in Nat /\ (a \div b) * b \in Nat /\ (a \div b) * b <= a
<1>1. a % b \in 0..(b - 1) /\ (a \div b) \in Nat OBVIOUS
<1>2. a = b * (a \div b) + (a % b) OBVIOUS
<1>3. b * (a \div b) \in Nat /\ b * (a \div b) = (a \div b) * b BY <1>1
<1> QED BY <1>1, <1>2, <1>3

\* A later time has a later second.
LEMMA LaterSecond ==
  ASSUME NEW m \in Nat, NEW n \in Nat, m <= n, NEW b \in Nat \ {0}
  PROVE  m \div b <= n \div b /\ (m \div b) * b <= (n \div b) * b
<1>1. m % b \in 0..(b - 1) /\ (m \div b) \in Nat /\ n % b \in 0..(b - 1) /\ (n \div b) \in Nat OBVIOUS
<1>2. m = b * (m \div b) + (m % b) /\ n = b * (n \div b) + (n % b) OBVIOUS
<1>3. m \div b <= n \div b
  <2> SUFFICES ASSUME m \div b >= n \div b + 1 PROVE FALSE BY <1>1
  <2>1. \A x, y \in Nat : x >= y + 1 => b * x >= b * y + b OBVIOUS
  <2>2. b * (m \div b) >= b * (n \div b) + b BY <1>1, <2>1
  <2>3. \A p, q, c, d \in Int : p >= q + b /\ c >= 0 /\ d < b => p + c > q + d OBVIOUS
  <2> QED BY <1>1, <1>2, <2>2, <2>3
<1>4. \A x, y \in Nat : x <= y => x * b <= y * b OBVIOUS
<1> QED BY <1>1, <1>3, <1>4

-----------------------------------------------------------------------------
(* Positions in an answer                                                  *)

\* The members of S that an answer in order of time has before s.
Before(S, s) == {t \in S : t.time > s.time}
\* No other member of S has the time of s.
Alone(S, s) == \A t \in S : t.time = s.time => t = s

\* An ordered answer lists its set without repetition, and an item with a
\* time of its own comes right after those that are newer.
LEMMA Position ==
  ASSUME NEW S, IsFiniteSet(S), \A x \in S : x.time \in Nat, NEW q \in NewestFirst(S)
  PROVE  /\ q \in [1..Cardinality(S) -> S] /\ Len(q) = Cardinality(S) /\ Len(q) \in Nat
         /\ \A i, j \in 1..Len(q) : q[i] = q[j] => i = j
         /\ \A s \in S : Alone(S, s) =>
              /\ Cardinality(Before(S, s)) \in Nat
              /\ Cardinality(Before(S, s)) + 1 \in 1..Len(q)
              /\ q[Cardinality(Before(S, s)) + 1] = s
<1> DEFINE n == Cardinality(S)
<1>1. n \in Nat BY FS_CardinalityType
<1>2. q \in [1..n -> S] /\ \A i, j \in 1..n : q[i] = q[j] => i = j
  BY DEF NewestFirst, SetToSeqs
<1> HIDE DEF n
<1>3. q \in Seq(S) /\ Len(q) = n
  BY <1>1, <1>2, SeqDef, LenProperties
<1>4. q \in Surjection(1..n, S)
  <2>1. q \in Injection(1..n, S) BY <1>2 DEF Injection, IsInjective
  <2>2. Cardinality(1..n) = n BY <1>1, FS_Interval
  <2> QED BY <2>1, <2>2, FS_Injection DEF n
<1>5. ASSUME NEW s \in S, Alone(S, s)
      PROVE  /\ Cardinality(Before(S, s)) \in Nat
             /\ Cardinality(Before(S, s)) + 1 \in 1..n
             /\ q[Cardinality(Before(S, s)) + 1] = s
  <2>1. PICK k \in 1..n : q[k] = s BY <1>4 DEF Surjection
  <2> DEFINE g == [j \in 1..(k - 1) |-> q[j]]
  <2>2. \A j \in 1..n : q[j].time > s.time <=> j < k
    <3> TAKE j \in 1..n
    <3>1. \A i, h \in 1..n : i < h => q[i].time >= q[h].time
      BY <1>3 DEF NewestFirst
    <3>2. q[j] \in S /\ q[j].time \in Nat /\ s.time \in Nat /\ k \in 1..n /\ j \in Nat /\ k \in Nat
      BY <1>1, <1>2
    <3>3. CASE j < k
      <4>1. q[j].time >= s.time BY <2>1, <3>1, <3>3
      <4>2. q[j] # s BY <1>2, <2>1, <3>2, <3>3
      <4>3. q[j].time # s.time BY <1>5, <3>2, <4>2 DEF Alone
      <4> QED BY <3>2, <3>3, <4>1, <4>3
    <3>4. CASE j = k BY <2>1, <3>2, <3>4
    <3>5. CASE j > k
      <4>1. s.time >= q[j].time BY <2>1, <3>1, <3>5
      <4> QED BY <3>2, <3>5, <4>1
    <3> QED BY <3>2, <3>3, <3>4, <3>5
  <2>3. g \in Bijection(1..(k - 1), Before(S, s))
    <3>1. \A j \in 1..(k - 1) : j \in 1..n /\ j < k BY <1>1
    <3>2. g \in [1..(k - 1) -> Before(S, s)] BY <1>2, <2>2, <3>1 DEF Before
    <3>3. \A i, j \in 1..(k - 1) : g[i] = g[j] => i = j BY <1>2, <3>1
    <3>4. ASSUME NEW t \in Before(S, s) PROVE \E j \in 1..(k - 1) : g[j] = t
      <4>1. t \in S /\ t.time > s.time BY DEF Before
      <4>2. PICK j \in 1..n : q[j] = t BY <1>4, <4>1 DEF Surjection
      <4>3. j \in 1..(k - 1) BY <1>1, <2>2, <4>1, <4>2
      <4> QED BY <4>2, <4>3
    <3> QED BY <3>2, <3>3, <3>4 DEF Bijection, Injection, IsInjective, Surjection
  <2>4. Cardinality(Before(S, s)) = k - 1
    <3>1. ExistsBijection(1..(k - 1), Before(S, s)) BY <2>3 DEF ExistsBijection
    <3>2. k - 1 \in Nat BY <1>1
    <3> QED BY <3>1, <3>2, FS_CountingElements
  <2> QED BY <1>1, <2>1, <2>4
<1>6. Len(q) = Cardinality(S) BY <1>3 DEF n
<1> QED BY <1>1, <1>2, <1>3, <1>5, <1>6 DEF n

\* What a page holds: the items whose position is past the offset, up to the
\* length of the page; an empty page means that all come before the offset.
LEMMA PageHolds ==
  ASSUME NEW S, IsFiniteSet(S), \A x \in S : x.time \in Nat, NEW q \in NewestFirst(S),
         NEW limit \in Nat \ {0}, NEW offset \in Nat, NEW p, p = Page(q, limit, offset)
  PROVE  /\ p \in Seq(S) /\ Len(p) \in Nat /\ ToSet(p) \subseteq S
         /\ \A s \in S : Alone(S, s) =>
              /\ Cardinality(Before(S, s)) \in Nat
              /\ s \in ToSet(p) =>
                   Cardinality(Before(S, s)) >= offset /\ Cardinality(Before(S, s)) < offset + Len(p)
              /\ Cardinality(Before(S, s)) >= offset =>
                   p # <<>> /\ (s \in ToSet(p) \/ Cardinality(Before(S, s)) >= offset + Len(p))
<1> DEFINE e == IF offset + limit < Len(q) THEN offset + limit ELSE Len(q)
<1>1. /\ q \in [1..Cardinality(S) -> S] /\ Len(q) = Cardinality(S) /\ Len(q) \in Nat
      /\ \A i, j \in 1..Len(q) : q[i] = q[j] => i = j
  BY Position
<1>2. e \in Nat /\ e <= Len(q) /\ (offset < Len(q) => e > offset) BY <1>1
<1>3. p = SubSeq(q, offset + 1, e) BY DEF Page
<1> HIDE DEF e
<1>4. \A i \in (offset + 1)..e : i \in 1..Len(q) /\ q[i] \in S BY <1>1, <1>2
<1>5. /\ p \in Seq(S) /\ Len(p) = (IF offset + 1 <= e THEN e - (offset + 1) + 1 ELSE 0)
      /\ \A i \in 1..(e - (offset + 1) + 1) : p[i] = q[offset + 1 + i - 1]
  BY <1>2, <1>3, <1>4, SubSeqProperties
<1>6. /\ Len(p) \in Nat /\ (offset < e => Len(p) = e - offset) /\ (offset >= e => Len(p) = 0)
      /\ \A i \in 1..Len(p) : p[i] = q[offset + i] /\ offset + i \in 1..Len(q)
  <2>1. CASE offset < e BY <1>2, <1>5, <2>1
  <2>2. CASE offset >= e BY <1>2, <1>5, <2>2
  <2> QED BY <1>2, <2>1, <2>2
<1>7. DOMAIN p = 1..Len(p) /\ ToSet(p) \subseteq S BY <1>5, LenProperties, ElementOfSeq DEF ToSet
<1>8. ASSUME NEW s \in S, Alone(S, s)
      PROVE  /\ Cardinality(Before(S, s)) \in Nat
             /\ s \in ToSet(p) =>
                  Cardinality(Before(S, s)) >= offset /\ Cardinality(Before(S, s)) < offset + Len(p)
             /\ Cardinality(Before(S, s)) >= offset =>
                  p # <<>> /\ (s \in ToSet(p) \/ Cardinality(Before(S, s)) >= offset + Len(p))
  <2> DEFINE c == Cardinality(Before(S, s))
  <2>1. c \in Nat /\ c + 1 \in 1..Len(q) /\ q[c + 1] = s BY <1>8, Position
  <2> HIDE DEF c
  <2>2. ASSUME s \in ToSet(p) PROVE c >= offset /\ c < offset + Len(p)
    <3>1. PICK i \in 1..Len(p) : p[i] = s BY <1>7, <2>2 DEF ToSet
    <3>2. offset + i = c + 1 BY <1>1, <1>6, <2>1, <3>1
    <3> QED BY <1>6, <2>1, <3>2
  <2>3. ASSUME c >= offset PROVE p # <<>> /\ (s \in ToSet(p) \/ c >= offset + Len(p))
    <3>1. offset < e /\ Len(p) = e - offset BY <1>1, <1>2, <1>6, <2>1, <2>3
    <3>2. p # <<>> BY <1>2, <3>1
    <3>3. ASSUME c < offset + Len(p) PROVE s \in ToSet(p)
      <4>1. c + 1 - offset \in 1..Len(p) BY <1>6, <2>1, <2>3, <3>3
      <4>2. p[c + 1 - offset] = q[c + 1]
        <5>1. p[c + 1 - offset] = q[offset + (c + 1 - offset)] BY <1>6, <4>1
        <5>2. offset + (c + 1 - offset) = c + 1 BY <2>1
        <5> QED BY <5>1, <5>2
      <4> QED BY <1>7, <2>1, <4>1, <4>2 DEF ToSet
    <3> QED BY <1>6, <2>1, <3>2, <3>3
  <2> QED BY <2>1, <2>2, <2>3 DEF c
<1> QED BY <1>5, <1>6, <1>7, <1>8

-----------------------------------------------------------------------------
(* Slots and answers                                                       *)

LEMMA MsNat == MsAsked \subseteq Nat
<1>1. \A i \in DOMAIN Millis : Millis[i] \in Nat BY SMTT(30) DEF Millis
<1>2. \A i : intervalToMilliseconds(i) \in Nat BY <1>1 DEF intervalToMilliseconds
<1> QED BY <1>2, BoundsAssumption DEF MsAsked

\* An item has the key of its rows and a time not after theirs.
LEMMA SlotTypes ==
  ASSUME NEW r \in Rows, NEW ms \in Nat
  PROVE  /\ Slot(r, ms).time \in Nat /\ Slot(r, ms).time <= Time[r] /\ Time[r] \in Nat
         /\ Slot(r, ms).key = Key[r] /\ Key[r] \in Keys
<1>1. Time[r] \in Nat /\ Key[r] \in Keys BY RowsAssumption DEF Keys
<1>2. CASE ms = 0 BY <1>1, <1>2 DEF Slot
<1>3. CASE ms # 0
  <2>1. Time[r] - (Time[r] % ms) \in Nat /\ Time[r] - (Time[r] % ms) <= Time[r]
    BY <1>1, <1>3, RoundDown
  <2>2. Slot(r, ms) = [time |-> Time[r] - (Time[r] % ms), key |-> Key[r], row |-> NoRow]
    BY <1>3 DEF Slot
  <2> QED BY <1>1, <2>1, <2>2
<1> QED BY <1>2, <1>3

\* A finite table has finitely many items.
LEMMA SlotsFinite ==
  ASSUME NEW T \in SUBSET Rows, NEW ms
  PROVE  IsFiniteSet({Slot(r, ms) : r \in T})
<1> DEFINE f == [r \in T |-> Slot(r, ms)]
<1>1. IsFiniteSet(T) BY RowsAssumption, FS_Subset
<1>2. f \in Surjection(T, {Slot(r, ms) : r \in T}) BY DEF Surjection
<1> QED BY <1>1, <1>2, FS_Surjection

\* What an answer is chosen from is finite.
LEMMA MatchingFinite ==
  ASSUME table \subseteq Rows, NEW ms \in Nat, NEW keys
  PROVE  /\ IsFiniteSet(Matching(keys, ms))
         /\ \A s \in Matching(keys, ms) :
              s.time \in Nat /\ s.key \in keys /\ \E r \in table : s = Slot(r, ms)
<1>1. Matching(keys, ms) \in SUBSET {Slot(r, ms) : r \in table} BY DEF Matching
<1>2. IsFiniteSet({Slot(r, ms) : r \in table}) BY SlotsFinite
<1>3. IsFiniteSet(Matching(keys, ms)) BY <1>1, <1>2, FS_Subset
<1>4. \A r \in table : Slot(r, ms).time \in Nat BY SlotTypes
<1> QED BY <1>3, <1>4 DEF Matching

\* A page of the key set being read.
LEMMA PageTypes ==
  ASSUME TypeOK, WalkOK, walk.pc # "idle", NEW keys,
         NEW p \in getTickers(keys, walk.ms, walk.limit, walk.offset)
  PROVE  /\ walk.ms \in Nat /\ walk.ms \in MsAsked /\ walk.limit \in Nat \ {0} /\ walk.offset \in Nat
         /\ Len(p) \in Nat /\ ToSet(p) \subseteq Slots /\ ToSet(p) \subseteq Matching(keys, walk.ms)
<1>1. walk.ms \in Nat /\ walk.ms \in MsAsked /\ walk.limit \in Nat \ {0} /\ walk.offset \in Nat
      /\ table \subseteq Rows
  BY DEF TypeOK, WalkOK, Walk
<1>2. PICK q \in NewestFirst(Matching(keys, walk.ms)) : p = Page(q, walk.limit, walk.offset)
  BY DEF getTickers
<1>3. Len(p) \in Nat /\ ToSet(p) \subseteq Matching(keys, walk.ms)
  BY <1>1, <1>2, MatchingFinite, PageHolds
<1>4. Matching(keys, walk.ms) \subseteq Slots BY <1>1 DEF Matching, Slots
<1> QED BY <1>1, <1>3, <1>4

-----------------------------------------------------------------------------
(* Type correctness                                                        *)

LEMMA LimitTypes ==
  ASSUME NEW n \in Asked
  PROVE  HttpLimit(n) \in Nat \ {0} /\ GrpcLimit(n) \in Nat \ {0}
BY BoundsAssumption DEF HttpLimit, GrpcLimit

\* What a new export is.
LEMMA StartTypes ==
  ASSUME TypeOK, HttpExport \/ GrpcExport
  PROVE  \E ms \in MsAsked, limit \in Nat \ {0} : Start(ms, limit)
<1>1. CASE HttpExport BY <1>1, LimitTypes DEF HttpExport, MsAsked
<1>2. CASE GrpcExport BY <1>2, LimitTypes DEF GrpcExport, MsAsked
<1> QED BY <1>1, <1>2

\* A set of numbers has a least one.
LEMMA Least ==
  ASSUME NEW T, T \subseteq Nat, T # {}
  PROVE  \E x \in T : \A y \in T : x <= y
<1> DEFINE F == {0..t : t \in T}
           R == StrictSubsetOrdering(Nat)
<1>1. F \subseteq FiniteSubsetsOf(Nat) /\ F # {}
  <2>1. \A t \in T : IsFiniteSet(0..t)
    <3> TAKE t \in T
    <3> QED BY FS_Interval
  <2>2. \A t \in T : 0..t \in SUBSET Nat OBVIOUS
  <2> QED BY <2>1, <2>2 DEF FiniteSubsetsOf
<1>2. IsWellFoundedOn(R, FiniteSubsetsOf(Nat)) BY FS_StrictSubsetOrderingWellFounded
<1>3. PICK d \in F : \A e \in F : <<e, d>> \notin R BY <1>1, <1>2, WFMin
<1>4. PICK x \in T : d = 0..x BY <1>3
<1>5. ASSUME NEW y \in T PROVE x <= y
  <2> SUFFICES ASSUME y < x PROVE FALSE OBVIOUS
  <2>1. 0..y \in F /\ 0..y \subseteq 0..x /\ 0..y # 0..x /\ 0..x \in SUBSET Nat /\ 0..y \in SUBSET Nat
    <3>1. x \in 0..x /\ x \notin 0..y OBVIOUS
    <3> QED BY <3>1
  <2>2. <<0..y, 0..x>> \in R BY <2>1 DEF StrictSubsetOrdering
  <2> QED BY <1>3, <1>4, <2>1, <2>2
<1> QED BY <1>5

LEMMA InitTypes ==
  ASSUME Init
  PROVE  TypeOK /\ TableOK /\ WalkOK
<1>1. MinInstant \in Instants
  <2>1. \E t \in Instants : \A u \in Instants : t <= u BY BoundsAssumption, Least
  <2> QED BY <2>1 DEF MinInstant
<1>2. walk \in Walk BY DEF Init, NoWalk, Walk
<1>3. \A k \in Keys : latest[k] = NoRow BY DEF Init
<1>4. TypeOK
  BY <1>1, <1>2, <1>3, RowsAssumption, BoundsAssumption DEF Init, TypeOK
<1>5. TableOK BY <1>1, <1>4 DEF Init, TableOK, NoWalk, TypeOK
<1>6. WalkOK BY DEF Init, WalkOK, NoWalk
<1> QED BY <1>4, <1>5, <1>6

\* What a step of the export does to the walk.
LEMMA GetTicksCases ==
  ASSUME TypeOK, WalkOK, GetTicks
  PROVE  /\ walk.pc = "page" /\ UNCHANGED <<storeVars, now, up, tick, latest>>
         /\ \/ walk.todo = {} /\ walk' = [walk EXCEPT !.pc = "done"]
            \/ /\ Current \in walk.todo
               /\ \E q \in NewestFirst(Matching(Current, walk.ms)) :
                    \E p : /\ p = Page(q, walk.limit, walk.offset)
                          /\ Len(p) \in Nat /\ ToSet(p) \subseteq Slots
                          /\ ToSet(p) \subseteq Matching(Current, walk.ms)
                          /\ \/ p = <<>> /\ walk' = [walk EXCEPT !.todo = @ \ {Current}, !.offset = 0]
                             \/ /\ p # <<>>
                                /\ walk' = [walk EXCEPT !.offset = @ + Len(p), !.seen = @ \cup ToSet(p),
                                              !.repeated = @ \cup (walk.seen \cap ToSet(p))]
<1>1. CASE walk.todo = {} BY <1>1 DEF GetTicks
<1>2. CASE walk.todo # {}
  <2>1. Current \in walk.todo BY <1>2 DEF Current
  <2>2. PICK p \in getTickers(Current, walk.ms, walk.limit, walk.offset) :
           walk' = IF p = <<>>
                      THEN [walk EXCEPT !.todo = @ \ {Current}, !.offset = 0]
                      ELSE [walk EXCEPT !.offset = @ + Len(p),
                              !.seen = @ \cup ToSet(p),
                              !.repeated = @ \cup (walk.seen \cap ToSet(p))]
    BY <1>2 DEF GetTicks
  <2>3. PICK q \in NewestFirst(Matching(Current, walk.ms)) : p = Page(q, walk.limit, walk.offset)
    BY DEF getTickers
  <2>4. Len(p) \in Nat /\ ToSet(p) \subseteq Slots /\ ToSet(p) \subseteq Matching(Current, walk.ms)
    BY PageTypes DEF GetTicks
  <2> QED BY <1>2, <2>1, <2>2, <2>3, <2>4 DEF GetTicks
<1> QED BY <1>1, <1>2

\* The walk of a new export.
LEMMA NewWalkType ==
  ASSUME NEW ms \in Nat, NEW limit \in Nat, NEW all \in BOOLEAN,
         NEW todo \in SUBSET SUBSET Keys, NEW owed \in SUBSET Rows
  PROVE  [pc |-> "page", ms |-> ms, limit |-> limit, all |-> all, todo |-> todo, offset |-> 0,
          seen |-> {}, repeated |-> {}, owed |-> owed, quiet |-> TRUE] \in Walk
BY DEF Walk

\* The walk keeps its type.
LEMMA WalkTypes ==
  ASSUME TypeOK, WalkOK, Next
  PROVE  walk' \in Walk /\ WalkOK'
<1>0. HttpExport \/ GrpcExport => \E ms \in MsAsked, limit \in Nat \ {0} : Start(ms, limit)
  BY StartTypes
<1> USE DEF TypeOK
<1>1. CASE HttpExport \/ GrpcExport
  <2>1. PICK ms \in MsAsked, limit \in Nat \ {0} : Start(ms, limit) BY <1>0, <1>1, Zenon
  <2>2. PICK all \in BOOLEAN :
          walk' = [NoWalk EXCEPT !.pc = "page", !.ms = ms, !.limit = limit, !.all = all,
                     !.todo = IF all THEN {Keys} ELSE {{k} : k \in getActiveSymbols},
                     !.owed = {r \in table : Time[r] <= EndTime * SecondMs}]
    BY <2>1 DEF Start
  <2>3. getActiveSymbols \subseteq Keys BY DEF getActiveSymbols, Keys
  <2>4. /\ walk'.pc = "page" /\ walk'.ms = ms /\ walk'.limit = limit /\ walk'.all = all
        /\ walk'.todo = IF all THEN {Keys} ELSE {{k} : k \in getActiveSymbols}
    BY <2>2 DEF NoWalk
  <2>5. walk' \in Walk
    <3>1. /\ ms \in Nat /\ limit \in Nat /\ 0 \in Nat /\ walk'.todo \in SUBSET SUBSET Keys
          /\ {r \in table : Time[r] <= EndTime * SecondMs} \in SUBSET Rows
      BY <2>3, <2>4, MsNat
    <3>2. walk' = [pc |-> "page", ms |-> ms, limit |-> limit, all |-> all, todo |-> walk'.todo,
                   offset |-> 0, seen |-> {}, repeated |-> {},
                   owed |-> {r \in table : Time[r] <= EndTime * SecondMs}, quiet |-> TRUE]
      BY <2>2, <2>4 DEF NoWalk
    <3> QED BY <3>1, <3>2, NewWalkType
  <2>6. WalkOK' BY <2>3, <2>4 DEF WalkOK, MsAsked, Keys
  <2> QED BY <2>5, <2>6
<1>2. CASE GetTicks
  <2>1. CASE walk.todo = {} /\ walk' = [walk EXCEPT !.pc = "done"]
    BY <2>1, <1>2, GetTicksCases DEF WalkOK, Walk
  <2>2. CASE walk' = [walk EXCEPT !.todo = @ \ {Current}, !.offset = 0]
    BY <2>2, <1>2, GetTicksCases DEF WalkOK, Walk
  <2>3. ASSUME NEW p, Len(p) \in Nat, ToSet(p) \subseteq Slots,
               walk' = [walk EXCEPT !.offset = @ + Len(p), !.seen = @ \cup ToSet(p),
                          !.repeated = @ \cup (walk.seen \cap ToSet(p))]
        PROVE  walk' \in Walk /\ WalkOK'
    <3>1. walk.pc = "page" BY <1>2, GetTicksCases
    <3>2. walk.offset + Len(p) \in Nat BY <2>3 DEF Walk
    <3>3. walk.seen \cup ToSet(p) \in SUBSET Slots BY <2>3 DEF Walk
    <3>4. walk.repeated \cup (walk.seen \cap ToSet(p)) \in SUBSET Slots BY <2>3 DEF Walk
    <3>5. walk' \in Walk BY <2>3, <3>2, <3>3, <3>4 DEF Walk
    <3>6. WalkOK' BY <2>3, <3>1 DEF WalkOK, Walk
    <3> QED BY <3>5, <3>6
  <2> QED BY <1>2, <2>1, <2>2, <2>3, GetTicksCases
<1>3. CASE GetTicksFails BY <1>3 DEF GetTicksFails, WalkOK, Walk
<1>4. CASE Forget BY <1>4 DEF Forget, WalkOK, Walk, NoWalk
<1>5. CASE HttpLatest \/ GrpcLatest \/ Cleanup \/ Restart
  BY <1>5 DEF HttpLatest, GrpcLatest, Cleanup, Restart, WalkOK
<1>6. CASE Insert \/ Delete \/ Pass
  <2>1. walk' = [walk EXCEPT !.quiet = FALSE] BY <1>6 DEF Insert, Delete, Pass, Disturb
  <2>2. walk' \in Walk BY <2>1 DEF Walk
  <2>3. /\ walk'.pc = walk.pc /\ walk'.ms = walk.ms /\ walk'.limit = walk.limit
        /\ walk'.all = walk.all /\ walk'.todo = walk.todo
    BY <2>1 DEF Walk
  <2> QED BY <2>2, <2>3 DEF WalkOK
<1> QED BY <1>1, <1>2, <1>3, <1>4, <1>5, <1>6 DEF Next

LEMMA NextTypes ==
  ASSUME TypeOK, WalkOK, Next
  PROVE  TypeOK'
<1> USE DEF TypeOK
<1>1. walk' \in Walk BY WalkTypes
<1>2. CASE HttpExport \/ GrpcExport
  BY <1>1, <1>2, StartTypes DEF Start, storeVars
<1>3. CASE GetTicks \/ GetTicksFails \/ Forget
  BY <1>1, <1>3 DEF GetTicks, GetTicksFails, Forget, storeVars
<1>4. CASE HttpLatest
  <2>1. PICK k \in Keys : \E r \in Newest(RowsOf(k)) : latest' = [latest EXCEPT ![k] = r]
    BY <1>4 DEF HttpLatest
  <2>2. PICK r \in Newest(RowsOf(k)) : latest' = [latest EXCEPT ![k] = r] BY <2>1
  <2>3. r \in Rows /\ Key[r] = k BY DEF Newest, RowsOf
  <2> QED BY <1>1, <1>4, <2>2, <2>3 DEF HttpLatest, storeVars
<1>5. CASE GrpcLatest \/ Restart
  <2>1. up' \in BOOLEAN BY <1>5, Zenon DEF GrpcLatest, Restart
  <2>2. tick' \in Nat /\ UNCHANGED <<storeVars, now, walk, latest>>
    BY <1>5 DEF GrpcLatest, Restart
  <2> QED BY <2>1, <2>2 DEF storeVars
<1>6. CASE Insert BY <1>1, <1>6 DEF Insert
<1>7. CASE Cleanup BY <1>1, <1>7, BoundsAssumption DEF Cleanup
<1>8. CASE Delete BY <1>1, <1>8 DEF Delete
<1>9. CASE Pass BY <1>1, <1>9 DEF Pass, storeVars
<1> QED BY <1>2, <1>3, <1>4, <1>5, <1>6, <1>7, <1>8, <1>9 DEF Next

\* The facts about the rows are kept.
LEMMA NextTable ==
  ASSUME TypeOK, TableOK, Next
  PROVE  TableOK'
<1> DEFINE end == EndTime * SecondMs
<1>1. /\ \A r \in Rows : Time[r] \in Nat
      /\ now \in Nat /\ Day \in Nat /\ SecondMs \in Nat \ {0} /\ Threshold \in Int
      /\ table \subseteq Rows /\ due \subseteq table /\ walk.owed \subseteq Rows
  BY RowsAssumption, BoundsAssumption DEF TypeOK, Threshold, Walk
<1>2. end \in Nat BY <1>1, RoundDown DEF EndTime
<1>3. UNCHANGED now => end' = end /\ Threshold' = Threshold BY DEF EndTime, Threshold
<1> HIDE DEF end
<1>4. /\ \A r \in due : Time[r] < Threshold
      /\ \A r \in walk.owed : Time[r] <= end /\ (Time[r] >= Threshold => r \in table)
  BY DEF TableOK, end
<1>5. SUFFICES
        /\ \A r \in due' : Time[r] < Threshold'
        /\ \A r \in walk'.owed : Time[r] <= end' /\ (Time[r] >= Threshold' => r \in table')
  BY DEF TableOK, end
<1>6. CASE HttpExport \/ GrpcExport
  <2>1. PICK ms \in MsAsked, limit \in Nat \ {0} : Start(ms, limit) BY <1>6, StartTypes
  <2>2. walk'.owed = {r \in table : Time[r] <= end} BY <2>1 DEF Start, NoWalk, end
  <2>3. UNCHANGED <<table, due, now>> BY <2>1 DEF Start, storeVars
  <2> QED BY <1>3, <1>4, <2>2, <2>3
<1>7. CASE GetTicks
  <2>1. UNCHANGED <<table, due, now>> BY <1>7 DEF GetTicks, storeVars
  <2>2. walk \in Walk BY DEF TypeOK
  <2>3. walk'.owed = walk.owed
    <3>1. CASE walk.todo = {}
      <4>1. walk' = [walk EXCEPT !.pc = "done"] BY <1>7, <3>1 DEF GetTicks
      <4> QED BY <2>2, <4>1 DEF Walk
    <3>2. CASE walk.todo # {}
      <4>1. PICK page : walk' = IF page = <<>>
                  THEN [walk EXCEPT !.todo = @ \ {Current}, !.offset = 0]
                  ELSE [walk EXCEPT !.offset = @ + Len(page),
                          !.seen = @ \cup ToSet(page),
                          !.repeated = @ \cup (walk.seen \cap ToSet(page))]
        BY <1>7, <3>2 DEF GetTicks
      <4>2. CASE page = <<>>
        <5>1. walk' = [walk EXCEPT !.todo = @ \ {Current}, !.offset = 0] BY <4>1, <4>2
        <5> QED BY <2>2, <5>1 DEF Walk
      <4>3. CASE page # <<>>
        <5>1. walk' = [walk EXCEPT !.offset = @ + Len(page),
                          !.seen = @ \cup ToSet(page),
                          !.repeated = @ \cup (walk.seen \cap ToSet(page))]
          BY <4>1, <4>3
        <5> QED BY <2>2, <5>1 DEF Walk
      <4> QED BY <4>2, <4>3
    <3> QED BY <3>1, <3>2
  <2> QED BY <1>3, <1>4, <2>1, <2>3
<1>8. CASE GetTicksFails
  <2>1. walk'.owed = walk.owed /\ UNCHANGED <<table, due, now>>
    BY <1>8 DEF GetTicksFails, storeVars, TypeOK, Walk
  <2> QED BY <1>3, <1>4, <2>1
<1>9. CASE Forget
  <2>1. walk'.owed = {} /\ UNCHANGED <<table, due, now>> BY <1>9 DEF Forget, NoWalk, storeVars
  <2> QED BY <1>3, <1>4, <2>1
<1>10. CASE HttpLatest \/ GrpcLatest \/ Restart
  <2>1. UNCHANGED <<walk, table, due, now>>
    BY <1>10 DEF HttpLatest, GrpcLatest, Restart, storeVars
  <2> QED BY <1>3, <1>4, <2>1
<1>11. CASE Insert
  <2>1. walk'.owed = walk.owed /\ UNCHANGED <<due, now>> BY <1>11 DEF Insert, Disturb, TypeOK, Walk
  <2>2. PICK r \in future : table' = table \cup {r} BY <1>11 DEF Insert
  <2> QED BY <1>3, <1>4, <2>1, <2>2
<1>12. CASE Cleanup
  <2>1. UNCHANGED <<walk, table, now>> BY <1>12 DEF Cleanup
  <2>2. \A r \in due' : r \in due \/ Time[r] < Threshold BY <1>12 DEF Cleanup
  <2> QED BY <1>3, <1>4, <2>1, <2>2
<1>13. CASE Delete
  <2>1. walk'.owed = walk.owed /\ UNCHANGED now BY <1>13 DEF Delete, Disturb, TypeOK, Walk
  <2>2. PICK r \in due : table' = table \ {r} /\ due' = due \ {r} BY <1>13 DEF Delete
  <2>3. Time[r] < Threshold /\ Time[r] \in Nat BY <1>1, <1>4, <2>2
  <2> QED BY <1>1, <1>3, <1>4, <2>1, <2>2, <2>3
<1>14. CASE Pass
  <2>1. walk'.owed = walk.owed /\ UNCHANGED <<table, due>> BY <1>14 DEF Pass, Disturb, storeVars, TypeOK, Walk
  <2>2. now' \in Nat /\ now < now' BY <1>14, BoundsAssumption DEF Pass
  <2>3. Threshold < Threshold' /\ Threshold' \in Int
    <3>1. Threshold = now - Day /\ Threshold' = now' - Day BY DEF Threshold
    <3>2. \A a, b, c \in Nat : a < b => a - c < b - c /\ b - c \in Int OBVIOUS
    <3>3. now - Day < now' - Day /\ now' - Day \in Int BY <1>1, <2>2, <3>2
    <3> QED BY <3>1, <3>3
  <2>4. end <= end' /\ end' \in Nat
    <3>1. end = (now \div SecondMs) * SecondMs /\ end' = (now' \div SecondMs) * SecondMs
      BY DEF end, EndTime
    <3>2. now <= now' BY <1>1, <2>2
    <3>3. (now \div SecondMs) * SecondMs <= (now' \div SecondMs) * SecondMs
      BY <1>1, <2>2, <3>2, LaterSecond
    <3>4. (now' \div SecondMs) * SecondMs \in Nat BY <1>1, <2>2, RoundDown
    <3> QED BY <3>1, <3>3, <3>4
  <2>5. \A r \in Rows : (Time[r] <= end => Time[r] <= end') /\ (Time[r] >= Threshold' => Time[r] >= Threshold)
    BY <1>1, <1>2, <2>3, <2>4
  <2>6. \A r \in Rows : Time[r] < Threshold => Time[r] < Threshold'
    BY <1>1, <2>3
  <2> QED BY <1>1, <1>4, <2>1, <2>5, <2>6
<1> QED BY <1>6, <1>7, <1>8, <1>9, <1>10, <1>11, <1>12, <1>13, <1>14 DEF Next

\* The invariant without what it says of the export.
LEMMA TypesAndRows == Spec => [](TypeOK /\ TableOK /\ WalkOK)
<1>1. Init => TypeOK /\ TableOK /\ WalkOK BY InitTypes
<1>2. TypeOK /\ TableOK /\ WalkOK /\ [Next]_vars => (TypeOK /\ TableOK /\ WalkOK)'
  <2> SUFFICES ASSUME TypeOK, TableOK, WalkOK, [Next]_vars PROVE (TypeOK /\ TableOK /\ WalkOK)'
    OBVIOUS
  <2>1. CASE Next BY <2>1, NextTypes, NextTable, WalkTypes
  <2>2. CASE UNCHANGED vars
    BY <2>2 DEF vars, storeVars, TypeOK, TableOK, WalkOK, EndTime, Threshold
  <2> QED BY <2>1, <2>2
<1> QED BY <1>1, <1>2, PTL DEF Spec

\* The model keeps its types; in particular what GET /latest and
\* GetLatestTick answer for a key is a row of that key.
THEOREM TypeCorrect == Spec => []TypeOK
BY TypesAndRows, PTL

\* The latest tick of a key goes back in time only after a delete of the row
\* answered before, whatever is inserted in whatever order.
THEOREM LatestMonotone == Spec => LatestNeverGoesBack
<1> DEFINE A == \A k \in Keys :
                  latest[k] # NoRow /\ latest[k] \in table => Time[latest'[k]] >= Time[latest[k]]
<1>1. TypeOK /\ [Next]_vars => [A]_vars
  <2> SUFFICES ASSUME TypeOK, Next, NEW k \in Keys, latest[k] # NoRow, latest[k] \in table
               PROVE  Time[latest'[k]] >= Time[latest[k]]
    OBVIOUS
  <2>1. latest[k] \in Rows /\ Time[latest[k]] \in Nat /\ Key[latest[k]] = k
    BY RowsAssumption DEF TypeOK
  <2>2. CASE HttpLatest
    <3>1. PICK h \in Keys : \E r \in Newest(RowsOf(h)) : latest' = [latest EXCEPT ![h] = r]
      BY <2>2 DEF HttpLatest
    <3>2. PICK r \in Newest(RowsOf(h)) : latest' = [latest EXCEPT ![h] = r] BY <3>1
    <3>3. CASE h = k
      <4>1. latest'[k] = r BY <3>2, <3>3 DEF TypeOK
      <4>2. latest[k] \in RowsOf(k) BY <2>1 DEF RowsOf
      <4>3. Time[latest[k]] <= Time[r] /\ Time[r] \in Nat
        BY <3>2, <3>3, <4>2, RowsAssumption DEF Newest, RowsOf, TypeOK
      <4> QED BY <2>1, <4>1, <4>3
    <3>4. CASE h # k BY <2>1, <3>2, <3>4 DEF TypeOK
    <3> QED BY <3>3, <3>4
  <2>3. CASE ~HttpLatest
    <3>1. UNCHANGED latest
      BY <2>3, StartTypes
      DEF Next, Start, GetTicks, GetTicksFails, Forget, GrpcLatest, Insert, Cleanup, Delete, Pass, Restart
    <3> QED BY <2>1, <3>1
  <2> QED BY <2>2, <2>3
<1> QED BY <1>1, TypesAndRows, PTL DEF Spec, LatestNeverGoesBack

-----------------------------------------------------------------------------
(* Items that stay in the answer                                           *)

\* A key belongs to one of the key sets only.
LEMMA OneKeySet ==
  ASSUME WalkOK, NEW K \in walk.todo, NEW L \in walk.todo, NEW x, x \in K, x \in L
  PROVE  K = L
<1>1. CASE walk.all BY <1>1 DEF WalkOK
<1>2. CASE ~walk.all
  <2>1. (\E k \in Keys : K = {k}) /\ (\E k \in Keys : L = {k}) BY <1>2 DEF WalkOK
  <2> QED BY <2>1
<1> QED BY <1>1, <1>2

\* An untied item of the key set being read has a time of its own there.
LEMMA UntiedIsAlone ==
  ASSUME TypeOK, WalkOK, Current \in walk.todo, NEW s \in Matching(Current, walk.ms), ~Tied(s)
  PROVE  Alone(Matching(Current, walk.ms), s)
<1> SUFFICES ASSUME NEW t \in Matching(Current, walk.ms), t.time = s.time, t # s PROVE FALSE
  BY DEF Alone
<1>1. PICK r \in Rows : t = Slot(r, walk.ms) BY DEF Matching, TypeOK
<1>2. t.key \in Current /\ s.key \in Current BY DEF Matching
<1>3. walk.all \/ t.key = s.key
  <2>1. CASE walk.all BY <2>1
  <2>2. CASE ~walk.all
    <3>1. \E k \in Keys : Current = {k} BY <2>2 DEF WalkOK
    <3> QED BY <1>2, <3>1
  <2> QED BY <2>1, <2>2
<1> QED BY <1>1, <1>3 DEF Tied

LEMMA AboveIsBefore == \A s : Above(s) = Before(Matching(Current, walk.ms), s)
BY DEF Above, Before

\* The items before another are finitely many, and so they are after a step.
LEMMA AboveFinite ==
  ASSUME TypeOK, NEW s
  PROVE  IsFiniteSet(Above(s)) /\ Cardinality(Above(s)) \in Nat
<1>1. table \in SUBSET Rows BY DEF TypeOK
<1>2. IsFiniteSet({Slot(r, walk.ms) : r \in table}) BY <1>1, SlotsFinite
<1>3. Above(s) \in SUBSET {Slot(r, walk.ms) : r \in table} BY DEF Above, Matching
<1> QED BY <1>2, <1>3, FS_Subset, FS_CardinalityType
LEMMA AboveFiniteNext ==
  ASSUME TypeOK', NEW s
  PROVE  IsFiniteSet(Above(s)') /\ Cardinality(Above(s)') \in Nat
<1>1. table' \in SUBSET Rows BY DEF TypeOK
<1>2. IsFiniteSet({Slot(r, walk'.ms) : r \in table'}) BY <1>1, SlotsFinite
<1>3. Above(s)' \in SUBSET {Slot(r, walk'.ms) : r \in table'} BY DEF Above, Matching
<1> QED BY <1>2, <1>3, FS_Subset, FS_CardinalityType

\* The bounds of the request at time n.
LEMMA BoundsAt ==
  ASSUME NEW n \in Nat, n >= Day
  PROVE  /\ n - Day \in Nat /\ ((n - Day) \div SecondMs) \in Nat
         /\ ((n - Day) \div SecondMs) * SecondMs \in Nat
         /\ ((n - Day) \div SecondMs) * SecondMs <= n - Day
         /\ (n \div SecondMs) \in Nat /\ (n \div SecondMs) * SecondMs \in Nat
<1>1. Day \in Nat /\ SecondMs \in Nat \ {0} BY BoundsAssumption
<1>2. \A a, b \in Nat : a >= b => a - b \in Nat OBVIOUS
<1>3. n - Day \in Nat BY <1>1, <1>2
<1> QED BY <1>1, <1>3, RoundDown

\* The same in the state and after the step.
LEMMA Bounds ==
  ASSUME TypeOK
  PROVE  /\ now \in Nat /\ Threshold \in Nat
         /\ StartTime \in Nat /\ StartTime * SecondMs \in Nat /\ StartTime * SecondMs <= Threshold
         /\ EndTime \in Nat /\ EndTime * SecondMs \in Nat
<1>1. now \in Nat /\ now >= Day BY BoundsAssumption, InstantsAssumption DEF TypeOK
<1> QED BY <1>1, BoundsAt DEF Threshold, StartTime, EndTime
LEMMA BoundsNext ==
  ASSUME TypeOK'
  PROVE  /\ now' \in Nat /\ Threshold' \in Nat
         /\ (StartTime * SecondMs)' \in Nat /\ (StartTime * SecondMs)' <= Threshold'
         /\ EndTime' \in Nat /\ (EndTime * SecondMs)' \in Nat
<1>1. now' \in Nat /\ now' >= Day BY BoundsAssumption, InstantsAssumption DEF TypeOK
<1> QED BY <1>1, BoundsAt DEF Threshold, StartTime, EndTime

\* An owed item of the last day is in the answer for its key.
LEMMA OwedIsMatching ==
  ASSUME TypeOK, TableOK, NEW r \in walk.owed, NEW K,
         Slot(r, walk.ms).time >= Threshold, Slot(r, walk.ms).key \in K
  PROVE  Slot(r, walk.ms) \in Matching(K, walk.ms)
<1> DEFINE s == Slot(r, walk.ms)
<1>1. r \in Rows /\ walk.ms \in Nat BY DEF TypeOK, Walk
<1>2. s.time \in Nat /\ s.time <= Time[r] /\ Time[r] \in Nat BY <1>1, SlotTypes
<1> HIDE DEF s
<1>3. Time[r] >= Threshold BY <1>2, Bounds DEF s
<1>4. r \in table /\ Time[r] <= EndTime * SecondMs BY <1>3 DEF TableOK
<1>5. InTimes(s.time)
  <2>1. s.time >= StartTime * SecondMs
    <3>1. s.time >= Threshold BY DEF s
    <3> QED BY <1>2, <3>1, Bounds
  <2>2. s.time <= EndTime * SecondMs
    <3>1. \A a, b, c \in Nat : a <= b /\ b <= c => a <= c OBVIOUS
    <3> QED BY <1>2, <1>4, <3>1, Bounds
  <2> QED BY <2>1, <2>2 DEF InTimes
<1> QED BY <1>4, <1>5 DEF Matching, s

\* A time of the last day within the bounds stays within them.
LEMMA InTimesKept ==
  ASSUME TypeOK, TypeOK', now <= now', NEW t \in Nat, InTimes(t), t >= Threshold'
  PROVE  InTimes(t)'
<1>1. t >= (StartTime * SecondMs)'
  <2>1. \A a, b, c \in Nat : a <= b /\ b <= c => a <= c OBVIOUS
  <2> QED BY <2>1, BoundsNext
<1>2. ASSUME EndTime' > 0 PROVE t <= (EndTime * SecondMs)'
  <2>1. now \in Nat /\ now' \in Nat /\ SecondMs \in Nat \ {0}
    BY Bounds, BoundsNext, BoundsAssumption
  <2>2. EndTime * SecondMs <= (EndTime * SecondMs)'
    BY <2>1, LaterSecond DEF EndTime
  <2>3. EndTime \in Nat /\ EndTime * SecondMs \in Nat /\ EndTime' \in Nat /\ (EndTime * SecondMs)' \in Nat
    BY Bounds, BoundsNext
  <2>4. CASE EndTime > 0
    <3>1. t <= EndTime * SecondMs BY <2>4 DEF InTimes
    <3>2. \A a, b, c \in Nat : a <= b /\ b <= c => a <= c OBVIOUS
    <3> QED BY <2>2, <2>3, <3>1, <3>2
  <2>5. CASE EndTime = 0
    <3>1. now < SecondMs
      <4>1. now = SecondMs * (now \div SecondMs) + (now % SecondMs) /\ now % SecondMs \in 0..(SecondMs - 1)
        BY <2>1
      <4>2. now = SecondMs * 0 + (now % SecondMs) BY <2>5, <4>1 DEF EndTime
      <4> QED BY <2>1, <4>1, <4>2
    <3>2. SecondMs <= Day /\ Day <= now /\ Day \in Nat BY BoundsAssumption, InstantsAssumption DEF TypeOK
    <3> QED BY <2>1, <3>1, <3>2
  <2> QED BY <2>3, <2>4, <2>5
<1> QED BY <1>1, <1>2 DEF InTimes

\* Inserts, deletes and time only add to what comes before an item of the
\* last day: new rows are in front of it, and only older rows are deleted.
LEMMA AboveGrows ==
  ASSUME TypeOK, TypeOK', TableOK, now <= now', walk'.todo = walk.todo, walk'.ms = walk.ms,
         \A r \in table : r \in table' \/ Time[r] < Threshold,
         NEW s, s.time \in Nat, s.time >= Threshold'
  PROVE  Cardinality(Above(s)) \in Nat /\ Cardinality(Above(s))' \in Nat
         /\ Cardinality(Above(s)) <= Cardinality(Above(s))'
<1>1. Above(s) \subseteq Above(s)'
  <2> SUFFICES ASSUME NEW t \in Above(s) PROVE t \in Above(s)' OBVIOUS
  <2>1. t \in Matching(Current, walk.ms) /\ t.time > s.time BY DEF Above
  <2>2. PICK r \in table : t = Slot(r, walk.ms) BY <2>1 DEF Matching
  <2>3. r \in Rows /\ walk.ms \in Nat BY DEF TypeOK, Walk
  <2>4. t.time \in Nat /\ Time[r] \in Nat /\ t.time <= Time[r] BY <2>2, <2>3, SlotTypes
  <2>5. Threshold \in Nat /\ Threshold' \in Nat /\ Threshold <= Threshold' /\ now \in Nat
    <3>1. Threshold = now - Day /\ Threshold' = now' - Day BY DEF Threshold
    <3>2. \A a, b, c \in Nat : a <= b => a - c <= b - c OBVIOUS
    <3> QED BY <3>1, <3>2, Bounds, BoundsNext, BoundsAssumption
  <2>6. \A a, b, c, d, e \in Nat : a <= b /\ b <= c /\ c < d /\ d <= e => b <= d /\ ~(e < a) OBVIOUS
  <2>7. t.time >= Threshold' /\ ~(Time[r] < Threshold) BY <2>1, <2>4, <2>5, <2>6
  <2>10. InTimes(t.time)' BY <2>1, <2>4, <2>7, InTimesKept DEF Matching
  <2>11. r \in table' BY <2>7
  <2>12. Slot(r, walk'.ms) = t BY <2>2
  <2>13. Current' = Current BY DEF Current
  <2>14. t \in Matching(Current, walk.ms)' BY <2>1, <2>10, <2>11, <2>12, <2>13 DEF Matching
  <2> QED BY <2>1, <2>14 DEF Above
<1>2. Cardinality(Above(s)) \in Nat BY AboveFinite
<1>3. IsFiniteSet(Above(s)') /\ Cardinality(Above(s)') \in Nat BY AboveFiniteNext
<1> QED BY <1>1, <1>2, <1>3, FS_Subset

-----------------------------------------------------------------------------
(* The export                                                              *)

\* The state of the export that tells where an item is.
Sight == <<walk.pc, walk.ms, walk.all, walk.todo, walk.offset, walk.seen, walk.owed>>

\* A step of the others leaves it alone.
LEMMA OthersLeaveSight ==
  ASSUME TypeOK, Insert \/ Delete \/ Pass
  PROVE  /\ UNCHANGED Sight /\ walk'.quiet = FALSE /\ walk'.repeated = walk.repeated
         /\ now <= now' /\ walk'.todo = walk.todo /\ walk'.ms = walk.ms
         /\ \A r \in table : r \in table' \/ r \in due
<1>1. walk' = [walk EXCEPT !.quiet = FALSE] BY DEF Insert, Delete, Pass, Disturb
<1>2. UNCHANGED Sight /\ walk'.quiet = FALSE /\ walk'.repeated = walk.repeated
      /\ walk'.todo = walk.todo /\ walk'.ms = walk.ms
  BY <1>1 DEF TypeOK, Walk, Sight
<1>3. now \in Nat BY BoundsAssumption DEF TypeOK
<1>4. now <= now' BY <1>3, BoundsAssumption DEF Insert, Delete, Pass
<1>5. \A r \in table : r \in table' \/ r \in due BY DEF Insert, Delete, Pass, storeVars
<1> QED BY <1>2, <1>4, <1>5

\* What is ahead stays ahead while the others work.
LEMMA AheadOfOthers ==
  ASSUME TypeOK, TypeOK', TableOK, Ahead, Insert \/ Delete \/ Pass
  PROVE  Ahead'
<1>1. /\ walk'.pc = walk.pc /\ walk'.ms = walk.ms /\ walk'.all = walk.all /\ walk'.todo = walk.todo
      /\ walk'.offset = walk.offset /\ walk'.seen = walk.seen /\ walk'.owed = walk.owed
      /\ now <= now' /\ \A r \in table : r \in table' \/ Time[r] < Threshold
  BY OthersLeaveSight DEF Sight, TableOK
<1> SUFFICES ASSUME walk.pc \in {"page", "done"}, NEW r \in walk.owed, NEW s, s = Slot(r, walk.ms),
                    s.time >= Threshold', ~Tied(s)', s \notin walk.seen
             PROVE  ToCome(s)'
  BY <1>1 DEF Ahead
<1>2. r \in Rows /\ walk.ms \in Nat BY DEF TypeOK, Walk
<1>3. s.time \in Nat BY <1>2, SlotTypes
<1>4. ~Tied(s) BY <1>1 DEF Tied
<1>5. s.time >= Threshold
  <2>1. Threshold = now - Day /\ Threshold' = now' - Day BY DEF Threshold
  <2>2. \A a, b, c, d \in Nat : a <= b /\ b - c <= d => a - c <= d OBVIOUS
  <2> QED BY <1>1, <1>3, <2>1, <2>2, Bounds, BoundsNext, BoundsAssumption
<1>6. ToCome(s) BY <1>4, <1>5 DEF Ahead
<1>7. PICK K \in walk.todo : s.key \in K /\ (K = Current => Cardinality(Above(s)) >= walk.offset)
  BY <1>6 DEF ToCome
<1>8. Current' = Current BY <1>1 DEF Current
<1>9. walk.offset \in Nat BY DEF TypeOK, Walk
<1>10. K = Current => Cardinality(Above(s))' >= walk.offset BY <1>1, <1>3, <1>7, <1>9, AboveGrows
<1> QED BY <1>1, <1>7, <1>8, <1>10 DEF ToCome

\* A page that is read: its untied items are those that come next, and only
\* an answer without any is empty.
LEMMA PageRead ==
  ASSUME TypeOK, WalkOK, walk.pc = "page", Current \in walk.todo,
         NEW q \in NewestFirst(Matching(Current, walk.ms)),
         NEW p, p = Page(q, walk.limit, walk.offset),
         NEW s \in Matching(Current, walk.ms), ~Tied(s)
  PROVE  /\ Cardinality(Above(s)) \in Nat /\ s.key \in Current
         /\ s \in ToSet(p) =>
              Cardinality(Above(s)) >= walk.offset /\ Cardinality(Above(s)) < walk.offset + Len(p)
         /\ Cardinality(Above(s)) >= walk.offset =>
              p # <<>> /\ (s \in ToSet(p) \/ Cardinality(Above(s)) >= walk.offset + Len(p))
<1> DEFINE S == Matching(Current, walk.ms)
<1>1. /\ table \subseteq Rows /\ walk.ms \in Nat
      /\ walk.limit \in Nat \ {0} /\ walk.offset \in Nat
  BY DEF TypeOK, WalkOK, Walk
<1>2. IsFiniteSet(S) /\ \A x \in S : x.time \in Nat BY <1>1, MatchingFinite
<1>3. Alone(S, s) BY UntiedIsAlone
<1>4. Above(s) = Before(S, s) BY AboveIsBefore
<1>5. s.key \in Current BY DEF Matching
<1> HIDE DEF S
<1>6. q \in NewestFirst(S) /\ s \in S BY DEF S
<1> QED BY <1>1, <1>2, <1>3, <1>4, <1>5, <1>6, PageHolds

\* The items that come before another depend on the table, the time, and the
\* key set and interval being read.
LEMMA SameAbove ==
  ASSUME UNCHANGED <<table, now>>, walk'.todo = walk.todo, walk'.ms = walk.ms, NEW s
  PROVE  /\ Current' = Current /\ Cardinality(Above(s))' = Cardinality(Above(s))
         /\ \A K : Matching(K, walk.ms)' = Matching(K, walk.ms)
BY DEF Above, Current, Matching, InTimes, StartTime, EndTime

\* What is ahead is read before the export ends.
LEMMA AheadOfPages ==
  ASSUME TypeOK, TypeOK', TableOK, WalkOK, Ahead, GetTicks
  PROVE  Ahead'
<1>1. walk.pc = "page" /\ UNCHANGED <<table, now>> BY GetTicksCases DEF storeVars
<1>2. walk \in Walk BY DEF TypeOK
<1>3. CASE walk.todo = {} /\ walk' = [walk EXCEPT !.pc = "done"]
  <2>1. /\ walk'.ms = walk.ms /\ walk'.all = walk.all /\ walk'.todo = walk.todo
        /\ walk'.seen = walk.seen /\ walk'.owed = walk.owed
    BY <1>2, <1>3 DEF Walk
  <2> SUFFICES ASSUME NEW s \in {Slot(r, walk.ms) : r \in walk.owed},
                      s.time >= Threshold, ~Tied(s)
               PROVE  s \in walk.seen
    BY <1>1, <2>1 DEF Ahead, Tied, Threshold
  <2>2. s \in walk.seen \/ ToCome(s) BY <1>1 DEF Ahead
  <2> QED BY <1>3, <2>2 DEF ToCome
<1>4. ASSUME Current \in walk.todo, NEW q \in NewestFirst(Matching(Current, walk.ms)),
             NEW p, p = Page(q, walk.limit, walk.offset), Len(p) \in Nat,
             \/ p = <<>> /\ walk' = [walk EXCEPT !.todo = @ \ {Current}, !.offset = 0]
             \/ /\ p # <<>>
                /\ walk' = [walk EXCEPT !.offset = @ + Len(p), !.seen = @ \cup ToSet(p),
                              !.repeated = @ \cup (walk.seen \cap ToSet(p))]
      PROVE  Ahead'
  <2>1. /\ walk'.pc = walk.pc /\ walk'.ms = walk.ms /\ walk'.all = walk.all
        /\ walk'.owed = walk.owed /\ walk.seen \subseteq walk'.seen
    <3>1. CASE p = <<>> BY <1>2, <1>4, <3>1 DEF Walk
    <3>2. CASE p # <<>>
      <4>1. walk' = [walk EXCEPT !.offset = @ + Len(p), !.seen = @ \cup ToSet(p),
                       !.repeated = @ \cup (walk.seen \cap ToSet(p))]
        BY <1>4, <3>2
      <4>2. /\ walk'.pc = walk.pc /\ walk'.ms = walk.ms /\ walk'.all = walk.all
            /\ walk'.owed = walk.owed /\ walk'.seen = walk.seen \cup ToSet(p)
        BY <1>2, <4>1 DEF Walk
      <4> QED BY <4>2
    <3> QED BY <3>1, <3>2
  <2> SUFFICES ASSUME NEW r \in walk.owed, NEW s, s = Slot(r, walk.ms),
                      s.time >= Threshold, ~Tied(s), s \notin walk'.seen
               PROVE  ToCome(s)'
    BY <1>1, <2>1 DEF Ahead, Tied, Threshold
  <2>2. s \notin walk.seen /\ (s \in walk.seen \/ ToCome(s)) BY <1>1, <2>1 DEF Ahead
  <2>3. PICK K \in walk.todo : s.key \in K /\ (K = Current => Cardinality(Above(s)) >= walk.offset)
    BY <2>2 DEF ToCome
  <2>4. CASE p = <<>>
    <3>1. walk'.todo = walk.todo \ {Current} /\ walk'.offset = 0 BY <1>2, <1>4, <2>4 DEF Walk
    <3>2. K # Current
      <4> SUFFICES ASSUME K = Current PROVE FALSE OBVIOUS
      <4>1. s \in Matching(Current, walk.ms) BY <2>3, OwedIsMatching
      <4> QED BY <1>1, <1>4, <2>3, <2>4, <4>1, PageRead
    <3>3. Cardinality(Above(s))' \in Nat BY AboveFiniteNext
    <3> QED BY <2>3, <3>1, <3>2, <3>3 DEF ToCome
  <2>5. CASE p # <<>>
    <3>1. /\ walk'.todo = walk.todo /\ walk'.offset = walk.offset + Len(p)
          /\ walk'.seen = walk.seen \cup ToSet(p)
      BY <1>2, <1>4, <2>5 DEF Walk
    <3>2. Current' = Current /\ Cardinality(Above(s))' = Cardinality(Above(s))
      BY <1>1, <2>1, <3>1, SameAbove
    <3>3. ASSUME K = Current PROVE Cardinality(Above(s)) >= walk.offset + Len(p)
      <4>1. s \in Matching(Current, walk.ms) BY <2>3, <3>3, OwedIsMatching
      <4> QED BY <1>1, <1>4, <2>3, <3>1, <3>3, <4>1, PageRead
    <3> QED BY <2>3, <3>1, <3>2, <3>3 DEF ToCome
  <2> QED BY <2>4, <2>5
<1> QED BY <1>3, <1>4, GetTicksCases

\* What is owed is ahead after every step.
LEMMA NextAhead ==
  ASSUME TypeOK, TypeOK', TableOK, WalkOK, Ahead, Next
  PROVE  Ahead'
<1>1. CASE HttpExport \/ GrpcExport
  <2>1. PICK ms \in MsAsked, limit \in Nat \ {0} : Start(ms, limit) BY <1>1, StartTypes, Zenon
  <2>2. PICK all \in BOOLEAN :
          walk' = [NoWalk EXCEPT !.pc = "page", !.ms = ms, !.limit = limit, !.all = all,
                     !.todo = IF all THEN {Keys} ELSE {{k} : k \in getActiveSymbols},
                     !.owed = {r \in table : Time[r] <= EndTime * SecondMs}]
    BY <2>1 DEF Start
  <2>3. /\ walk'.ms = ms /\ walk'.offset = 0 /\ walk'.owed \subseteq table
        /\ walk'.todo = IF all THEN {Keys} ELSE {{k} : k \in getActiveSymbols}
    BY <2>2 DEF NoWalk
  <2> SUFFICES ASSUME NEW r \in table, NEW s, s = Slot(r, ms) PROVE ToCome(s)'
    BY <2>3 DEF Ahead
  <2>4. s.key = Key[r] /\ Key[r] \in Keys BY SlotTypes, MsNat DEF TypeOK
  <2>5. \E K \in walk'.todo : s.key \in K
    <3>1. Key[r] \in getActiveSymbols BY DEF getActiveSymbols
    <3>2. CASE all = TRUE BY <2>3, <2>4, <3>2
    <3>3. CASE all = FALSE BY <2>3, <2>4, <3>1, <3>3
    <3> QED BY <3>2, <3>3
  <2>6. Cardinality(Above(s))' \in Nat BY AboveFiniteNext
  <2> QED BY <2>3, <2>5, <2>6 DEF ToCome
<1>2. CASE GetTicks BY <1>2, AheadOfPages
<1>3. CASE GetTicksFails \/ Forget
  <2>1. walk'.pc \notin {"page", "done"}
    BY <1>3 DEF GetTicksFails, Forget, NoWalk, TypeOK, Walk
  <2> QED BY <2>1 DEF Ahead
<1>4. CASE HttpLatest \/ GrpcLatest \/ Cleanup \/ Restart
  <2>1. UNCHANGED <<walk, table, now>>
    BY <1>4 DEF HttpLatest, GrpcLatest, Cleanup, Restart, storeVars
  <2>2. \A s : ToCome(s)' = ToCome(s) BY <2>1, SameAbove DEF ToCome
  <2> QED BY <2>1, <2>2 DEF Ahead, Tied, Threshold
<1>5. CASE Insert \/ Delete \/ Pass BY <1>5, AheadOfOthers
<1> QED BY <1>1, <1>2, <1>3, <1>4, <1>5 DEF Next

\* While nothing changes, a page repeats no untied item, and what it holds is
\* behind the next one.
LEMMA BehindOfPages ==
  ASSUME TypeOK, TypeOK', WalkOK, Behind, QuietExportRepeatsNothing, GetTicks
  PROVE  Behind' /\ QuietExportRepeatsNothing'
<1>1. walk.pc = "page" /\ UNCHANGED <<table, now>> BY GetTicksCases DEF storeVars
<1>2. walk \in Walk BY DEF TypeOK
<1>3. CASE walk.todo = {} /\ walk' = [walk EXCEPT !.pc = "done"]
  <2>1. /\ walk'.pc = "done" /\ walk'.ms = walk.ms /\ walk'.all = walk.all
        /\ walk'.repeated = walk.repeated /\ walk'.quiet = walk.quiet
    BY <1>2, <1>3 DEF Walk
  <2> QED BY <2>1 DEF Behind, QuietExportRepeatsNothing, Tied
<1>4. ASSUME Current \in walk.todo, NEW q \in NewestFirst(Matching(Current, walk.ms)),
             NEW p, p = Page(q, walk.limit, walk.offset), Len(p) \in Nat,
             ToSet(p) \subseteq Matching(Current, walk.ms),
             \/ p = <<>> /\ walk' = [walk EXCEPT !.todo = @ \ {Current}, !.offset = 0]
             \/ /\ p # <<>>
                /\ walk' = [walk EXCEPT !.offset = @ + Len(p), !.seen = @ \cup ToSet(p),
                              !.repeated = @ \cup (walk.seen \cap ToSet(p))]
      PROVE  Behind' /\ QuietExportRepeatsNothing'
  <2>1. CASE p = <<>>
    <3>1. /\ walk'.todo = walk.todo \ {Current} /\ walk'.pc = walk.pc /\ walk'.quiet = walk.quiet
          /\ walk'.seen = walk.seen /\ walk'.repeated = walk.repeated
          /\ walk'.ms = walk.ms /\ walk'.all = walk.all
      BY <1>2, <1>4, <2>1 DEF Walk
    <3>2. ASSUME walk.quiet, NEW s \in walk.seen, ~Tied(s) PROVE Passed(s)'
      <4>1. Passed(s) BY <1>1, <3>2 DEF Behind
      <4> QED BY <3>1, <4>1 DEF Passed
    <3> QED BY <3>1, <3>2 DEF Behind, QuietExportRepeatsNothing, Tied
  <2>2. CASE p # <<>>
    <3>1. /\ walk'.todo = walk.todo /\ walk'.pc = walk.pc /\ walk'.quiet = walk.quiet
          /\ walk'.ms = walk.ms /\ walk'.all = walk.all /\ walk'.offset = walk.offset + Len(p)
          /\ walk'.seen = walk.seen \cup ToSet(p)
          /\ walk'.repeated = walk.repeated \cup (walk.seen \cap ToSet(p))
      BY <1>2, <1>4, <2>2 DEF Walk
    <3>2. ASSUME walk.quiet, NEW s \in walk.seen, s \in ToSet(p) PROVE Tied(s)
      <4> SUFFICES ASSUME ~Tied(s) PROVE FALSE OBVIOUS
      <4>1. s \in Matching(Current, walk.ms) BY <1>4, <3>2
      <4>2. Cardinality(Above(s)) \in Nat /\ s.key \in Current /\ Cardinality(Above(s)) >= walk.offset
        BY <1>1, <1>4, <3>2, <4>1, PageRead
      <4>3. Passed(s) BY <1>1, <3>2 DEF Behind
      <4>4. Cardinality(Above(s)) < walk.offset BY <1>4, <4>2, <4>3 DEF Passed
      <4>5. walk.offset \in Nat BY <1>2 DEF Walk
      <4> QED BY <4>2, <4>4, <4>5
    <3>3. ASSUME walk.quiet, NEW s \in walk'.seen, ~Tied(s) PROVE Passed(s)'
      <4>1. /\ Current' = Current /\ Cardinality(Above(s))' = Cardinality(Above(s))
            /\ \A K : Matching(K, walk.ms)' = Matching(K, walk.ms)
        BY <1>1, <3>1, SameAbove
      <4>2. walk.offset \in Nat /\ Cardinality(Above(s)) \in Nat BY <1>2, AboveFinite DEF Walk
      <4> SUFFICES ASSUME NEW K \in walk.todo, s.key \in K
                   PROVE  K = Current /\ s \in Matching(K, walk.ms)
                          /\ Cardinality(Above(s)) < walk.offset + Len(p)
        BY <3>1, <4>1 DEF Passed
      <4>3. CASE s \in walk.seen
        <5>1. Passed(s) BY <1>1, <3>3, <4>3 DEF Behind
        <5>2. K = Current /\ s \in Matching(K, walk.ms) /\ Cardinality(Above(s)) < walk.offset
          BY <5>1 DEF Passed
        <5>3. \A a, b, c \in Nat : a < b => a < b + c OBVIOUS
        <5> QED BY <1>4, <4>2, <5>2, <5>3
      <4>4. CASE s \in ToSet(p)
        <5>1. s \in Matching(Current, walk.ms) BY <1>4, <4>4
        <5>2. s.key \in Current /\ Cardinality(Above(s)) < walk.offset + Len(p)
          BY <1>1, <1>4, <3>3, <4>4, <5>1, PageRead
        <5>3. K = Current BY <1>4, <5>2, OneKeySet
        <5> QED BY <5>1, <5>2, <5>3
      <4> QED BY <3>1, <4>3, <4>4
    <3>4. \A s : Tied(s)' = Tied(s) BY <3>1 DEF Tied
    <3>5. Behind' BY <3>1, <3>3, <3>4 DEF Behind
    <3>6. QuietExportRepeatsNothing' BY <3>1, <3>2, <3>4 DEF QuietExportRepeatsNothing
    <3> QED BY <3>5, <3>6
  <2> QED BY <2>1, <2>2
<1> QED BY <1>3, <1>4, GetTicksCases

\* Every step keeps what is known of a quiet export.
LEMMA NextQuiet ==
  ASSUME TypeOK, TypeOK', WalkOK, Behind, QuietExportRepeatsNothing, Next
  PROVE  Behind' /\ QuietExportRepeatsNothing'
<1>1. CASE HttpExport \/ GrpcExport
  <2>1. PICK ms \in MsAsked, limit \in Nat \ {0} : Start(ms, limit) BY <1>1, StartTypes
  <2>2. walk'.seen = {} /\ walk'.repeated = {} BY <2>1 DEF Start, NoWalk
  <2> QED BY <2>2 DEF Behind, QuietExportRepeatsNothing
<1>2. CASE GetTicks BY <1>2, BehindOfPages
<1>3. CASE GetTicksFails
  <2>1. /\ walk'.pc = "failed" /\ walk'.quiet = walk.quiet /\ walk'.repeated = walk.repeated
        /\ walk'.ms = walk.ms /\ walk'.all = walk.all
    BY <1>3 DEF GetTicksFails, TypeOK, Walk
  <2> QED BY <2>1 DEF Behind, QuietExportRepeatsNothing, Tied
<1>4. CASE Forget
  <2>1. walk'.pc = "idle" /\ walk'.repeated = {} BY <1>4 DEF Forget, NoWalk
  <2> QED BY <2>1 DEF Behind, QuietExportRepeatsNothing
<1>5. CASE HttpLatest \/ GrpcLatest \/ Cleanup \/ Restart
  <2>1. UNCHANGED <<walk, table, now>>
    BY <1>5 DEF HttpLatest, GrpcLatest, Cleanup, Restart, storeVars
  <2>2. \A s : Passed(s)' = Passed(s) BY <2>1, SameAbove DEF Passed
  <2> QED BY <2>1, <2>2 DEF Behind, QuietExportRepeatsNothing, Tied
<1>6. CASE Insert \/ Delete \/ Pass
  BY <1>6, OthersLeaveSight DEF Behind, QuietExportRepeatsNothing
<1> QED BY <1>1, <1>2, <1>3, <1>4, <1>5, <1>6 DEF Next

\* The inductive invariant.
LEMMA Invariance == Spec => []IInv
<1>1. Init => IInv
  <2> SUFFICES ASSUME Init PROVE IInv OBVIOUS
  <2>1. Ahead /\ Behind /\ QuietExportRepeatsNothing
    BY DEF Init, NoWalk, Ahead, Behind, QuietExportRepeatsNothing
  <2> QED BY <2>1, InitTypes DEF IInv
<1>2. IInv /\ [Next]_vars => IInv'
  <2> SUFFICES ASSUME IInv, [Next]_vars PROVE IInv' OBVIOUS
  <2>1. CASE Next
    <3>1. TypeOK' /\ TableOK' /\ WalkOK' BY <2>1, NextTypes, NextTable, WalkTypes DEF IInv
    <3> QED BY <2>1, <3>1, NextAhead, NextQuiet DEF IInv
  <2>2. CASE UNCHANGED vars
    <3>1. UNCHANGED <<storeVars, now, up, tick, walk, latest, table, future, due>>
      BY <2>2 DEF vars, storeVars
    <3>2. TypeOK' /\ TableOK' /\ WalkOK' BY <3>1 DEF IInv, TypeOK, TableOK, WalkOK, EndTime, Threshold
    <3>3. \A s : ToCome(s)' = ToCome(s) /\ Passed(s)' = Passed(s)
      BY <3>1, SameAbove DEF ToCome, Passed
    <3>4. Ahead' /\ Behind' /\ QuietExportRepeatsNothing'
      BY <3>1, <3>3 DEF IInv, Ahead, Behind, QuietExportRepeatsNothing, Tied, Threshold
    <3> QED BY <3>2, <3>4 DEF IInv
  <2> QED BY <2>1, <2>2
<1> QED BY <1>1, <1>2, PTL DEF Spec

\* An export that ends has every item of the last day that was there when it
\* began and has a time of its own, for every limit, interval and table,
\* whatever is inserted and deleted between the pages.
THEOREM ExportComplete == Spec => []ExportMissesNothing
<1>1. IInv => ExportMissesNothing
  <2> SUFFICES ASSUME IInv, walk.pc = "done", NEW s \in {Slot(r, walk.ms) : r \in walk.owed},
                      s.time >= now - Day, ~Tied(s)
               PROVE  s \in walk.seen
    BY DEF ExportMissesNothing
  <2>1. s \in walk.seen \/ ToCome(s) BY DEF IInv, Ahead, Threshold
  <2>2. walk.todo = {} BY DEF IInv, WalkOK
  <2> QED BY <2>1, <2>2 DEF ToCome
<1> QED BY <1>1, Invariance, PTL

\* An export during which neither the table nor the time changes returns no
\* item twice that has a time of its own.
THEOREM QuietExportOnce == Spec => []QuietExportRepeatsNothing
<1>1. IInv => QuietExportRepeatsNothing BY DEF IInv
<1> QED BY <1>1, Invariance, PTL

=============================================================================
