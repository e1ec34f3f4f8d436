---------------------------- MODULE IngestProofs ----------------------------
(***************************************************************************)
(* Proofs about Ingest for every set of calls and payloads, every queue    *)
(* capacity and batch size and every number of failures and timeouts.      *)
(***************************************************************************)
EXTENDS Ingest, SeqLemmas, FiniteSetTheorems

-----------------------------------------------------------------------------
(* Steps outside the write path                                            *)

\* What main(), the queries and stuttering do.
Elsewhere == Main \/ Panic \/ Querying \/ UNCHANGED vars

\* It leaves handlers, channel, batcher and table alone, and takes neither a
\* signal nor the end of the process back.
LEMMA ElsewhereKeeps ==
  ASSUME Elsewhere
  PROVE  /\ UNCHANGED <<handlerVars, in, batcherVars, storeVars, accepted, dropped, faultVars>>
         /\ (Cancelled => Cancelled') /\ (Alive' => Alive)
<1>1. CASE Main
  BY <1>1 DEF Main, Signal, ShutdownHttp, HttpDown, GracefulStop, Goto, Cancelled, Alive
<1>2. CASE Panic
  BY <1>2 DEF Panic, Cancelled, Alive
<1>3. CASE Querying \/ UNCHANGED vars
  BY <1>3 DEF Querying, BeginQuery, QueryReturns, PoolLeaks, vars, pathVars, Cancelled, Alive
<1> QED BY <1>1, <1>2, <1>3 DEF Elsewhere

-----------------------------------------------------------------------------
(* Type correctness                                                        *)

\* The tick a running handler looks at is a tick.
LEMMA CurrentTick ==
  ASSUME HandlersOK, NEW c \in Calls, InLoop(c)
  PROVE  Current(c) \in Ticks /\ pos[c] \in 1..Len(Payload[c])
<1>1. Payload[c] \in Seq(Ticks) BY CallsAssumption
<1>2. pos[c] \in 1..Len(Payload[c]) BY <1>1, LenProperties DEF HandlersOK, InLoop
<1> QED BY <1>1, <1>2, ElementOfSeq DEF Current

\* A handler step moves pos forward, and counts and answers for its own call.
LEMMA HandlerSteps ==
  ASSUME HandlersOK, NEW c \in Calls, Handler(c)
  PROVE  /\ reply[c] = "running"
         /\ pos' \in [Calls -> Nat] /\ pos'[c] >= pos[c]
         /\ \A d \in Calls \ {c} : pos'[d] = pos[d]
         /\ processed' = processed \/ processed' = [processed EXCEPT ![c] = @ + 1]
         /\ reply' = reply \/ \E r \in {"202", "OK", "NoSuccess", "ResourceExhausted", "Invalid"} :
                                 reply' = [reply EXCEPT ![c] = r]
<1>1. Len(Payload[c]) \in Nat
  BY CallsAssumption, LenProperties
<1>2. reply[c] = "running"
  BY DEF Handler, HttpPush, HttpReply, IngestTick, IngestTicksNext, IngestTicksReply, InLoop, LoopDone
<1>3. \/ pos' = pos
      \/ pos' = [pos EXCEPT ![c] = @ + 1]
      \/ pos' = [pos EXCEPT ![c] = Len(Payload[c]) + 1] /\ pos[c] <= Len(Payload[c])
  BY DEF Handler, HttpPush, HttpReply, IngestTick, IngestTicksNext, IngestTicksReply,
         InLoop, Advance, BreakLoop
<1>4. processed' = processed \/ processed' = [processed EXCEPT ![c] = @ + 1]
  BY DEF Handler, HttpPush, HttpReply, IngestTick, IngestTicksNext, IngestTicksReply
<1>5. reply' = reply \/ \E r \in {"202", "OK", "NoSuccess", "ResourceExhausted", "Invalid"} :
                           reply' = [reply EXCEPT ![c] = r]
  BY DEF Handler, HttpPush, HttpReply, IngestTick, IngestTicksNext, IngestTicksReply, Answer
<1>6. pos' \in [Calls -> Nat] /\ pos'[c] >= pos[c] /\ \A d \in Calls \ {c} : pos'[d] = pos[d]
  <2>1. pos \in [Calls -> Nat] /\ pos[c] \in Nat BY DEF HandlersOK
  <2> QED BY <1>1, <1>3, <2>1
<1> QED BY <1>2, <1>4, <1>5, <1>6

\* A handler step leaves the channel alone or appends the current tick.
LEMMA HandlerPushes ==
  ASSUME HandlersOK, NEW c \in Calls, Begin(c) \/ Handler(c)
  PROVE  /\ \/ in' = in /\ accepted' = accepted
            \/ Handler(c) /\ InLoop(c) /\ Room /\ Enqueue(Current(c)) /\ pos' = [pos EXCEPT ![c] = @ + 1]
         /\ UNCHANGED <<batcherVars, main, storeVars, dropped, faultVars, queryVars>>
BY DEF Handler, Begin, HttpPush, HttpReply, IngestTick, IngestTicksNext, IngestTicksReply, Advance

\* No step of a handler breaks the types.
LEMMA HandlerTypes ==
  ASSUME TypeOK, NEW c \in Calls, Begin(c) \/ Handler(c)
  PROVE  TypeOK'
<1>1. HandlersOK'
  <2>1. CASE Begin(c)
    BY <2>1 DEF TypeOK, HandlersOK, Begin
  <2>2. CASE Handler(c)
    BY <2>2, HandlerSteps DEF TypeOK, HandlersOK
  <2> QED BY <2>1, <2>2
<1>2. ChannelOK'
  <2>1. CASE in' = in /\ accepted' = accepted
    BY <2>1 DEF TypeOK, ChannelOK
  <2>2. CASE InLoop(c) /\ Room /\ Enqueue(Current(c))
    BY <2>2, CurrentTick, RangeAppend, LenProperties, BoundsAssumption
    DEF TypeOK, ChannelOK, Enqueue, Room
  <2> QED BY <2>1, <2>2, HandlerPushes DEF TypeOK
<1>3. UNCHANGED <<batcherVars, main, storeVars, dropped, faultVars, queryVars>>
  BY HandlerPushes DEF TypeOK
<1>4. BatcherOK' /\ StoreOK' /\ QueriesOK'
  BY <1>3 DEF TypeOK, BatcherOK, StoreOK, QueriesOK, batcherVars, storeVars, faultVars, queryVars, Cancelled
<1> QED BY <1>1, <1>2, <1>4 DEF TypeOK

\* Starting a flush leaves the batcher where its state fits its place.
LEMMA StartFlushTypes ==
  ASSUME BatcherOK, NEW b \in Seq(Ticks), b # <<>>, Len(b) <= MaxBatch, StartFlush(b),
         main' = main, expired' = expired, exiting' \in BOOLEAN, exiting' => Cancelled
  PROVE  BatcherOK'
BY RangeEmpty, BoundsAssumption DEF BatcherOK, StartFlush, Places, Attempts, Cancelled

\* So do returning from a flush, giving its batch up and starting to requeue it.
LEMMA FlushTypes ==
  ASSUME BatcherOK, StoreOK, UNCHANGED <<main, buf, exiting>>
  PROVE  /\ Return /\ batch' = <<>> => BatcherOK'
         /\ GiveUp => BatcherOK' /\ dropped' \subseteq Ticks
         /\ StartRequeue /\ pc = "check" => BatcherOK' /\ dropped' \subseteq Ticks
<1>1. ASSUME Return, batch' = <<>> PROVE BatcherOK'
  <2>1. pc' \in {"exited", "select"} /\ attempt' = 0 /\ expired' = FALSE
        /\ (exiting => pc' = "exited")
    BY <1>1 DEF Return
  <2>2. batch' \in Seq(Ticks) /\ Len(batch') <= MaxBatch
    BY <1>1, RangeEmpty, BoundsAssumption
  <2>3. expired' \in BOOLEAN
    BY <2>1
  <2>4. /\ pc' \in Places /\ attempt' \in 0..Attempts
        /\ ~(batch' # <<>>) /\ pc' \notin {"check", "get", "prepare", "send", "requeue"}
        /\ ~(attempt' # 0) /\ pc' \notin {"check", "get", "prepare", "send"}
    BY <1>1, <2>1 DEF Places, Attempts
  <2> QED BY <2>1, <2>2, <2>3, <2>4 DEF BatcherOK, Cancelled
<1>2. GiveUp => BatcherOK' /\ dropped' \subseteq Ticks
  BY <1>1, RangeOf DEF GiveUp, BatcherOK, StoreOK
<1>3. StartRequeue /\ pc = "check" => BatcherOK' /\ dropped' \subseteq Ticks
  BY DEF StartRequeue, BatcherOK, StoreOK, Places, Attempts, Cancelled
<1> QED BY <1>1, <1>2, <1>3

\* No step of the batcher breaks the types.
LEMMA BatcherTypes ==
  ASSUME TypeOK, Batcher
  PROVE  TypeOK'
<1>0. /\ UNCHANGED <<handlerVars, main, accepted>>
      /\ exiting' \in BOOLEAN /\ BatcherOK /\ StoreOK /\ HandlersOK' /\ QueriesOK'
  BY DEF Batcher, Receive, TickerFires, HealthTick, PingReturns, Exit, CheckCtx, StepOk, SendOk,
         GetFails, PrepareFails, SendFails, AttemptFails, RequeueNext, Deadline,
         TypeOK, BatcherOK, HandlersOK, QueriesOK, handlerVars, queryVars
<1> USE <1>0
<1>1. CASE Receive
  <2>1. /\ Head(in) \in Ticks /\ Tail(in) \in Seq(Ticks) /\ Len(Tail(in)) <= MaxQueue
    BY <1>1, RangeTail, LenProperties, BoundsAssumption DEF Receive, TypeOK, ChannelOK
  <2>2. /\ Append(buf, Head(in)) \in Seq(Ticks) /\ Append(buf, Head(in)) # <<>>
        /\ Len(Append(buf, Head(in))) <= MaxBatch
    BY <2>1, RangeAppend, LenProperties, BoundsAssumption DEF BatcherOK
  <2>3. BatcherOK'
    <3>1. CASE StartFlush(Append(buf, Head(in)))
      BY <1>1, <2>2, <3>1, StartFlushTypes DEF Receive, BatcherOK
    <3>2. CASE buf' = Append(buf, Head(in)) /\ Len(buf') < MaxBatch /\ UNCHANGED <<batch, pc, attempt>>
      BY <1>1, <2>2, <3>2 DEF Receive, BatcherOK, Cancelled
    <3> QED BY <1>1, <2>2, <3>1, <3>2, LenProperties, BoundsAssumption DEF Receive
  <2> QED BY <1>1, <2>1, <2>3 DEF Receive, TypeOK, ChannelOK, StoreOK, storeVars, faultVars
<1>2. CASE TickerFires
  <2>1. BatcherOK'
    BY <1>2, StartFlushTypes, LenProperties, BoundsAssumption DEF TickerFires, BatcherOK
  <2> QED BY <1>2, <2>1 DEF TickerFires, TypeOK, ChannelOK, StoreOK, storeVars, faultVars
<1>3. CASE HealthTick \/ PingReturns
  BY <1>3 DEF HealthTick, PingReturns, At, TypeOK, ChannelOK, BatcherOK, StoreOK, Places, Cancelled,
              storeVars, faultVars
<1>4. CASE Exit
  <2>1. BatcherOK'
    <3>1. CASE buf = <<>>
      BY <1>4, <3>1 DEF Exit, At, BatcherOK, Places, Cancelled
    <3>2. CASE buf # <<>>
      BY <1>4, <3>2, StartFlushTypes, LenProperties, BoundsAssumption DEF Exit, BatcherOK
    <3> QED BY <3>1, <3>2
  <2> QED BY <1>4, <2>1 DEF Exit, TypeOK, ChannelOK, StoreOK, storeVars, faultVars
<1>5. CASE CheckCtx
  <2>1. BatcherOK' /\ dropped' \subseteq Ticks
    <3>1. CASE pc' = "get" /\ UNCHANGED <<batch, attempt, expired, dropped>>
      BY <1>5, <3>1 DEF CheckCtx, At, BatcherOK, StoreOK, Places, Cancelled
    <3>2. CASE GiveUp
      BY <1>5, <3>2, FlushTypes DEF CheckCtx
    <3>3. CASE StartRequeue
      BY <1>5, <3>3, FlushTypes DEF CheckCtx, At
    <3> QED BY <1>5, <3>1, <3>2, <3>3 DEF CheckCtx, CtxErr
  <2> QED BY <1>5, <2>1 DEF CheckCtx, TypeOK, ChannelOK, StoreOK, storeVars, faultVars
<1>6. CASE StepOk
  BY <1>6 DEF StepOk, At, TypeOK, ChannelOK, BatcherOK, StoreOK, Places, Cancelled, storeVars, faultVars
<1>7. CASE SendOk
  BY <1>7, FlushTypes DEF SendOk, Insert, TypeOK, ChannelOK, StoreOK, faultVars
<1>8. CASE GetFails \/ PrepareFails \/ SendFails
  <2>1. AttemptFails /\ pc \in {"get", "prepare", "send"}
    BY <1>8 DEF GetFails, PrepareFails, SendFails, At
  <2>2. BatcherOK' /\ dropped' \subseteq Ticks
    <3>1. CASE GiveUp
      BY <2>1, <3>1, FlushTypes DEF AttemptFails
    <3>2. CASE /\ attempt < Attempts /\ pc' = "check" /\ attempt' = attempt + 1
               /\ UNCHANGED <<batch, expired, dropped>>
      BY <2>1, <3>2 DEF AttemptFails, BatcherOK, StoreOK, Places, Attempts, Cancelled
    <3> QED BY <2>1, <3>1, <3>2 DEF AttemptFails
  <2>3. failures' \in 0..MaxFailures /\ timeouts' = timeouts
    BY <2>1, BoundsAssumption DEF AttemptFails, StoreOK
  <2>4. table' \in [Ticks -> Nat] /\ unacked' \in [Ticks -> Nat]
    BY <1>8 DEF GetFails, PrepareFails, SendFails, Insert, StoreOK, storeVars
  <2> QED BY <2>1, <2>2, <2>3, <2>4 DEF AttemptFails, TypeOK, ChannelOK, StoreOK
<1>9. CASE RequeueNext
  <2>1. /\ batch # <<>> /\ Head(batch) \in Ticks /\ Tail(batch) \in Seq(Ticks)
        /\ Len(Tail(batch)) = Len(batch) - 1 /\ Len(batch) \in Nat
    BY <1>9, RangeTail, LenProperties DEF RequeueNext, At, BatcherOK
  <2>2. in' \in Seq(Ticks) /\ Len(in') <= MaxQueue /\ dropped' \subseteq Ticks
    <3>1. CASE Room /\ in' = Append(in, Head(batch)) /\ dropped' = dropped
      BY <2>1, <3>1, RangeAppend, LenProperties, BoundsAssumption DEF Room, TypeOK, ChannelOK, StoreOK
    <3>2. CASE in' = in /\ dropped' = dropped \cup {Head(batch)}
      BY <2>1, <3>2 DEF TypeOK, ChannelOK, StoreOK
    <3> QED BY <1>9, <3>1, <3>2 DEF RequeueNext
  <2>3. BatcherOK'
    <3>1. CASE Len(batch) = 1
      <4>1. batch' = <<>> BY <1>9, <2>1, <3>1, EmptySeq, LenProperties DEF RequeueNext
      <4> QED BY <1>9, <3>1, <4>1, FlushTypes DEF RequeueNext
    <3>2. CASE Len(batch) # 1
      <4>1. batch' = Tail(batch) /\ Len(batch) # 0
        BY <1>9, <2>1, LenProperties, EmptySeq DEF RequeueNext
      <4>2. Len(batch') > 0 /\ batch' \in Seq(Ticks) /\ Len(batch') <= MaxBatch
        BY <2>1, <3>2, <4>1, BoundsAssumption DEF BatcherOK
      <4>3. batch' # <<>>
        BY <4>2, RangeEmpty
      <4> QED BY <1>9, <3>2, <4>2, <4>3 DEF RequeueNext, At, BatcherOK, Cancelled
    <3> QED BY <3>1, <3>2
  <2> QED BY <1>9, <2>2, <2>3 DEF RequeueNext, TypeOK, ChannelOK, StoreOK, storeVars, faultVars
<1>10. CASE Deadline
  BY <1>10, BoundsAssumption DEF Deadline, TypeOK, ChannelOK, BatcherOK, StoreOK, Places, Cancelled, storeVars
<1> QED BY <1>1, <1>2, <1>3, <1>4, <1>5, <1>6, <1>7, <1>8, <1>9, <1>10 DEF Batcher

\* No step breaks the types.
LEMMA NextTypes ==
  ASSUME TypeOK, [Next]_vars
  PROVE  TypeOK'
<1>1. CASE \E c \in Calls : Begin(c) \/ Handler(c)
  BY <1>1, HandlerTypes
<1>2. CASE Batcher
  BY <1>2, BatcherTypes
<1>3. CASE Elsewhere
  <2>1. UNCHANGED <<handlerVars, in, batcherVars, storeVars, accepted, dropped, faultVars>>
        /\ (Cancelled => Cancelled')
    BY <1>3, ElsewhereKeeps
  <2>2. main' \in {"serving", "signalled", "http", "grpc", "stopped", "crashed"}
    BY <1>3 DEF Elsewhere, Main, Signal, ShutdownHttp, HttpDown, GracefulStop, Panic, Goto, Querying,
                BeginQuery, QueryReturns, PoolLeaks, vars, pathVars, TypeOK, BatcherOK
  <2>3. QueriesOK'
    BY <1>3 DEF Elsewhere, Main, Signal, ShutdownHttp, HttpDown, GracefulStop, Panic, Goto, Querying,
                BeginQuery, QueryReturns, PoolLeaks, vars, queryVars, TypeOK, QueriesOK
  <2> QED BY <2>1, <2>2, <2>3 DEF TypeOK, HandlersOK, ChannelOK, BatcherOK, StoreOK,
                                  handlerVars, batcherVars, storeVars, faultVars
<1> QED BY <1>1, <1>2, <1>3 DEF Next, Stopped, Elsewhere

\* The service starts with everything empty.
LEMMA InitTypes == Init => TypeOK
<1>1. <<>> \in Seq(Ticks) /\ Len(<<>>) <= MaxQueue /\ Len(<<>>) < MaxBatch
  BY RangeEmpty, BoundsAssumption
<1>2. Init => HandlersOK BY DEF Init, HandlersOK
<1>3. Init => ChannelOK BY <1>1 DEF Init, ChannelOK
<1>4. Init => BatcherOK
  <2>1. Init => /\ buf \in Seq(Ticks) /\ Len(buf) < MaxBatch
                /\ batch \in Seq(Ticks) /\ Len(batch) <= MaxBatch
    BY <1>1, RangeEmpty, BoundsAssumption DEF Init
  <2>2. Init => pc \in Places /\ attempt \in 0..Attempts
    BY DEF Init, Places, Attempts
  <2>3. Init => expired \in BOOLEAN /\ exiting \in BOOLEAN
    BY DEF Init
  <2>4. Init => /\ batch # <<>> <=> pc \in {"check", "get", "prepare", "send", "requeue"}
                /\ attempt # 0 <=> pc \in {"check", "get", "prepare", "send"}
    BY DEF Init
  <2> QED BY <2>1, <2>2, <2>3, <2>4 DEF Init, BatcherOK
<1>5. Init => StoreOK BY BoundsAssumption DEF Init, StoreOK
<1>6. Init => QueriesOK BY DEF Init, QueriesOK
<1> QED BY <1>2, <1>3, <1>4, <1>5, <1>6 DEF TypeOK

\* Type correctness: channel, buffer and batch keep within their capacities and
\* the batcher's state always fits the place it is at, for every configuration.
THEOREM TypeCorrect == Spec => []TypeOK
<1>1. Init => TypeOK
  BY InitTypes
<1>2. TypeOK /\ [Next]_vars => TypeOK'
  BY NextTypes
<1> QED BY <1>1, <1>2, PTL DEF Spec

-----------------------------------------------------------------------------
(* Ticks are held once, do not vanish, and are stored once unless a Send   *)
(* that failed was applied                                                 *)

\* A step that only moves ticks within the pipeline keeps the invariant.
LEMMA MoveKeeps ==
  ASSUME IInv, TypeOK', HeldOnce', InMemory' = InMemory, UNCHANGED <<pos, accepted, storeVars, dropped>>
  PROVE  IInv'
BY DEF IInv, Accounted, DuplicatesNeedLostAck, FreshUntouched, HeldBalanced, storeVars

\* So does one after which the ticks that left the pipeline are on the list of
\* the dropped ones; rows it adds are all unreported.
LEMMA DropKeeps ==
  ASSUME IInv, TypeOK', HeldOnce', InMemory' \subseteq InMemory, InMemory \subseteq InMemory' \cup dropped',
         dropped \subseteq dropped', UNCHANGED <<pos, accepted>>,
         UNCHANGED storeVars \/ (table' = Insert(table) /\ unacked' = Insert(unacked))
  PROVE  IInv'
<1>1. \A t \in Ticks : \/ table'[t] = table[t] /\ unacked'[t] = unacked[t]
                       \/ table'[t] = table[t] + 1 /\ unacked'[t] = unacked[t] + 1
  BY DEF Insert, storeVars
<1>2. \A t \in Ticks : table[t] \in Nat /\ unacked[t] \in Nat
  BY DEF IInv, TypeOK, StoreOK
<1>3. accepted \subseteq Ticks BY DEF IInv, TypeOK, ChannelOK
<1>4. Accounted' BY <1>1, <1>2, <1>3 DEF IInv, Accounted
<1>5. DuplicatesNeedLostAck' /\ HeldBalanced'
  BY <1>1, <1>2 DEF IInv, DuplicatesNeedLostAck, HeldBalanced
<1> QED BY <1>4, <1>5 DEF IInv, FreshUntouched

\* A handler puts a tick into the channel that was never there before.
LEMMA HandlerKeeps ==
  ASSUME IInv, TypeOK', NEW c \in Calls, Begin(c) \/ Handler(c)
  PROVE  IInv'
<1> DEFINE t == Current(c)
<1>0. /\ UNCHANGED <<buf, batch, table, unacked, dropped>>
      /\ Payload \in [Calls -> Seq(Ticks)] /\ pos \in [Calls -> Nat]
      /\ \A d \in Calls : Len(Payload[d]) \in Nat
  BY HandlerPushes, CallsAssumption, LenProperties DEF IInv, TypeOK, HandlersOK, batcherVars, storeVars
<1>1. pos' \in [Calls -> Nat] /\ \A d \in Calls : pos'[d] >= pos[d]
  <2>1. CASE Begin(c)
    <3>1. pos' = pos \/ (pos' = [pos EXCEPT ![c] = 1] /\ pos[c] = 0)
      BY <2>1 DEF Begin, IInv, TypeOK, HandlersOK
    <3>2. pos \in [Calls -> Nat] BY <1>0
    <3>3. pos' \in [Calls -> Nat] BY <3>1, <3>2
    <3>4. ASSUME NEW d \in Calls PROVE pos'[d] >= pos[d]
      <4>1. pos[d] \in Nat BY <3>2
      <4> QED BY <3>1, <3>2, <4>1
    <3> QED BY <3>3, <3>4
  <2>2. CASE Handler(c)
    <3>1. /\ pos' \in [Calls -> Nat] /\ pos'[c] >= pos[c]
          /\ \A d \in Calls \ {c} : pos'[d] = pos[d]
      BY <2>2, HandlerSteps DEF IInv, TypeOK
    <3>2. ASSUME NEW d \in Calls PROVE pos'[d] >= pos[d]
      <4>1. pos[d] \in Nat /\ pos'[d] \in Nat BY <1>0, <3>1
      <4> QED BY <3>1, <4>1
    <3> QED BY <3>1, <3>2
  <2> QED BY <2>1, <2>2
<1>2. CASE in' = in /\ accepted' = accepted
  <2>1. FreshUntouched' BY <1>0, <1>1, <1>2 DEF IInv, FreshUntouched
  <2> QED
    BY <1>0, <1>2, <2>1
    DEF IInv, HeldOnce, InMemory, Accounted, DuplicatesNeedLostAck, HeldBalanced
<1>3. CASE InLoop(c) /\ Enqueue(t) /\ pos' = [pos EXCEPT ![c] = @ + 1]
  <2>1. t \in Ticks /\ pos[c] \in 1..Len(Payload[c]) /\ t = Payload[c][pos[c]]
    BY <1>3, CurrentTick DEF IInv, TypeOK, Current
  <2>2. t \notin accepted /\ t \notin InMemory /\ accepted' = accepted \cup {t}
    BY <1>0, <1>3, <2>1 DEF IInv, FreshUntouched, Enqueue
  <2>3. in \in Seq(Ticks) BY DEF IInv, TypeOK, ChannelOK
  <2>4. Range(in') = Range(in) \cup {t} /\ (IsInjective(in) => IsInjective(in'))
    BY <1>3, <2>1, <2>2, <2>3, RangeAppend DEF Enqueue, InMemory
  <2>5. HeldOnce' /\ InMemory' = InMemory \cup {t}
    BY <1>0, <2>2, <2>4 DEF IInv, HeldOnce, InMemory, Apart
  <2>6. FreshUntouched'
    <3> SUFFICES ASSUME NEW d \in Calls, NEW i \in 1..Len(Payload[d]), i >= pos'[d]
                 PROVE  Payload[d][i] \notin accepted'
      BY DEF FreshUntouched
    <3>1. i >= pos[d] BY <1>0, <1>1
    <3>2. Payload[d][i] # t
      BY <1>0, <1>3, <2>1, OccurrencesAssumption
    <3> QED BY <2>2, <3>1, <3>2 DEF IInv, FreshUntouched
  <2>7. Accounted' /\ DuplicatesNeedLostAck' /\ HeldBalanced' /\ (InMemory \subseteq accepted)'
    BY <1>0, <2>2, <2>5 DEF IInv, Accounted, DuplicatesNeedLostAck, HeldBalanced
  <2> QED BY <2>5, <2>6, <2>7 DEF IInv
<1> QED BY <1>2, <1>3, HandlerPushes DEF IInv, TypeOK

\* The batcher moves ticks along, stores a batch, or gives it up.
LEMMA BatcherKeeps ==
  ASSUME IInv, TypeOK', Batcher
  PROVE  IInv'
<1>0. /\ in \in Seq(Ticks) /\ buf \in Seq(Ticks) /\ batch \in Seq(Ticks) /\ HeldOnce
      /\ pos' = pos /\ accepted' = accepted
      /\ batch = <<>> <=> pc \notin {"check", "get", "prepare", "send", "requeue"}
  BY DEF Batcher, Receive, TickerFires, HealthTick, PingReturns, Exit, CheckCtx, StepOk, SendOk,
         GetFails, PrepareFails, SendFails, AttemptFails, RequeueNext, Deadline,
         IInv, TypeOK, BatcherOK, ChannelOK, handlerVars
<1> USE <1>0, RangeEmpty
<1>1. CASE Receive
  <2>1. in # <<>> /\ in' = Tail(in) /\ batch = <<>> /\ UNCHANGED <<storeVars, dropped>>
    BY <1>1 DEF Receive, At
  <2> DEFINE h == Head(in)  b == Append(buf, h)
  <2>2. /\ h \in Ticks /\ h \notin Range(in') /\ IsInjective(in')
        /\ Range(in) = Range(in') \cup {h}
    BY <2>1, RangeTail DEF HeldOnce
  <2>3. h \notin Range(buf) BY <2>2 DEF HeldOnce, Apart
  <2>4. IsInjective(b) /\ Range(b) = Range(buf) \cup {h}
    BY <2>2, <2>3, RangeAppend DEF HeldOnce
  <2>5. (buf' = b /\ batch' = <<>>) \/ (buf' = <<>> /\ batch' = b)
    BY <1>1, <2>1 DEF Receive, StartFlush
  <2>6. HeldOnce' /\ InMemory' = InMemory
    <3>1. Range(b) \cap Range(in') = {} /\ Range(batch) = {}
      BY <2>1, <2>2, <2>4 DEF HeldOnce, Apart
    <3>2. Range(in) \cup Range(buf) \cup Range(batch) = Range(in') \cup Range(b)
      BY <2>2, <2>4, <3>1
    <3> HIDE DEF b
    <3>3. CASE buf' = b /\ batch' = <<>>
      BY <2>2, <2>4, <3>1, <3>2, <3>3 DEF HeldOnce, InMemory, Apart
    <3>4. CASE buf' = <<>> /\ batch' = b
      BY <2>2, <2>4, <3>1, <3>2, <3>4 DEF HeldOnce, InMemory, Apart
    <3> QED BY <2>5, <3>3, <3>4
  <2> QED BY <2>1, <2>6, MoveKeeps
<1>2. CASE TickerFires \/ (Exit /\ buf # <<>>)
  <2>1. /\ batch = <<>> /\ batch' = buf /\ buf' = <<>> /\ in' = in /\ UNCHANGED <<storeVars, dropped>>
    BY <1>2 DEF TickerFires, Exit, StartFlush, At
  <2>2. HeldOnce' /\ InMemory' = InMemory BY <2>1 DEF HeldOnce, InMemory, Apart
  <2> QED BY <2>1, <2>2, MoveKeeps
<1>3. CASE UNCHANGED <<in, buf, batch, storeVars, dropped>>
  BY <1>3, MoveKeeps DEF HeldOnce, InMemory, Apart
<1>4. ASSUME GiveUp, in' = in, buf' = buf,
             UNCHANGED storeVars \/ (table' = Insert(table) /\ unacked' = Insert(unacked))
      PROVE  IInv'
  <2>1. batch' = <<>> /\ dropped' = dropped \cup Range(batch) BY <1>4 DEF GiveUp
  <2>2. HeldOnce' /\ InMemory' \subseteq InMemory /\ InMemory \subseteq InMemory' \cup dropped'
    BY <1>4, <2>1 DEF HeldOnce, InMemory, Apart
  <2> QED BY <1>4, <2>1, <2>2, DropKeeps
<1>5. CASE CheckCtx
  BY <1>3, <1>4, <1>5 DEF CheckCtx, StartRequeue, storeVars
<1>6. CASE SendOk
  <2>1. /\ batch' = <<>> /\ in' = in /\ buf' = buf /\ table' = Insert(table)
        /\ unacked' = unacked /\ dropped' = dropped
    BY <1>6 DEF SendOk
  <2>2. HeldOnce' /\ InMemory' = InMemory \ Range(batch)
    BY <2>1 DEF HeldOnce, InMemory, Apart
  <2>3. /\ \A t \in Range(batch) : t \in accepted /\ table'[t] = table[t] + 1 /\ table[t] <= unacked[t]
        /\ \A t \in Ticks \ Range(batch) : table'[t] = table[t]
        /\ table \in [Ticks -> Nat] /\ unacked \in [Ticks -> Nat] /\ Range(batch) \subseteq Ticks
    BY <2>1, RangeOf DEF Insert, IInv, TypeOK, StoreOK, HeldBalanced, InMemory
  <2>4. Accounted'
    BY <2>1, <2>2, <2>3 DEF IInv, Accounted, TypeOK, ChannelOK
  <2>5. DuplicatesNeedLostAck'
    <3> SUFFICES ASSUME NEW t \in Ticks PROVE table'[t] <= 1 + unacked[t]
      BY <2>1 DEF DuplicatesNeedLostAck
    <3>1. table[t] \in Nat /\ unacked[t] \in Nat BY <2>3
    <3>2. CASE t \in Range(batch) BY <2>3, <3>1, <3>2
    <3>3. CASE t \notin Range(batch) BY <2>3, <3>1, <3>3 DEF IInv, DuplicatesNeedLostAck
    <3> QED BY <3>2, <3>3
  <2>6. HeldBalanced'
    BY <2>1, <2>2, <2>3 DEF IInv, HeldBalanced
  <2> QED BY <2>2, <2>4, <2>5, <2>6 DEF IInv, FreshUntouched
<1>7. CASE GetFails \/ PrepareFails \/ SendFails
  <2>1. /\ AttemptFails /\ in' = in /\ buf' = buf
        /\ UNCHANGED storeVars \/ (table' = Insert(table) /\ unacked' = Insert(unacked))
    BY <1>7 DEF GetFails, PrepareFails, SendFails, AttemptFails
  <2>2. CASE UNCHANGED <<batch, dropped>>
    <3>1. HeldOnce' /\ InMemory' = InMemory BY <2>1, <2>2 DEF HeldOnce, InMemory, Apart
    <3> QED BY <2>1, <2>2, <3>1, DropKeeps
  <2> QED BY <1>4, <2>1, <2>2 DEF AttemptFails
<1>8. CASE RequeueNext
  <2> DEFINE h == Head(batch)
  <2>1. batch # <<>> /\ batch' = Tail(batch) /\ buf' = buf /\ UNCHANGED storeVars
    BY <1>8 DEF RequeueNext, At
  <2>2. /\ h \in Ticks /\ h \notin Range(batch') /\ IsInjective(batch')
        /\ Range(batch) = Range(batch') \cup {h}
    BY <2>1, RangeTail DEF HeldOnce
  <2>3. CASE in' = Append(in, h) /\ dropped' = dropped
    <3>1. Range(in') = Range(in) \cup {h} /\ IsInjective(in')
      BY <2>2, <2>3, RangeAppend DEF HeldOnce, Apart
    <3>2. HeldOnce' /\ InMemory' = InMemory BY <2>1, <2>2, <3>1 DEF HeldOnce, InMemory, Apart
    <3> QED BY <2>1, <2>3, <3>2, MoveKeeps
  <2>4. CASE in' = in /\ dropped' = dropped \cup {h}
    <3>1. HeldOnce' /\ InMemory' \subseteq InMemory /\ InMemory \subseteq InMemory' \cup dropped'
      BY <2>1, <2>2, <2>4 DEF HeldOnce, InMemory, Apart
    <3> QED BY <2>1, <2>4, <3>1, DropKeeps
  <2> QED BY <1>8, <2>3, <2>4 DEF RequeueNext
<1> QED
  BY <1>1, <1>2, <1>3, <1>5, <1>6, <1>7, <1>8
  DEF Batcher, HealthTick, PingReturns, StepOk, Deadline, Exit

\* The inductive invariant holds.
THEOREM PipelineInvariant == Spec => []IInv
<1>1. Init => IInv
  <2>1. Init => TypeOK
    BY InitTypes
  <2> QED
    BY <2>1, RangeEmpty
    DEF Init, IInv, HeldOnce, InMemory, Apart, Accounted, DuplicatesNeedLostAck, FreshUntouched, HeldBalanced
<1>2. IInv /\ [Next]_vars => IInv'
  <2> SUFFICES ASSUME IInv, [Next]_vars PROVE IInv'
    OBVIOUS
  <2>1. TypeOK' BY NextTypes DEF IInv
  <2>2. CASE \E c \in Calls : Begin(c) \/ Handler(c)
    BY <2>1, <2>2, HandlerKeeps
  <2>3. CASE Batcher
    BY <2>1, <2>3, BatcherKeeps
  <2>4. CASE Elsewhere
    <3>1. UNCHANGED <<pos, in, buf, batch, accepted, storeVars, dropped>>
      BY <2>4, ElsewhereKeeps DEF handlerVars, batcherVars
    <3> QED BY <2>1, <3>1, MoveKeeps DEF IInv, HeldOnce, InMemory, Apart
  <2> QED BY <2>2, <2>3, <2>4 DEF Next, Stopped, Elsewhere
<1> QED BY <1>1, <1>2, PTL DEF Spec

\* No tick is in two places of the pipeline, whatever the queue and batch sizes.
THEOREM TicksHeldOnce == Spec => []HeldOnce
BY PipelineInvariant, PTL DEF IInv

\* A tick has at most one row more than Sends of it that were applied and
\* reported an error, however often its batch is retried or requeued.
THEOREM DuplicatesBounded == Spec => []DuplicatesNeedLostAck
BY PipelineInvariant, PTL DEF IInv

-----------------------------------------------------------------------------
(* A drop needs a cause                                                    *)

\* A step of a handler or of main changes nothing that counts failures, and a
\* shutdown is not taken back.
LEMMA CausesElsewhere ==
  ASSUME Causes, TypeOK,
         (\E c \in Calls : Begin(c) \/ Handler(c)) \/ Elsewhere
  PROVE  Causes'
<1>1. UNCHANGED <<expired, pc, attempt, dropped, failures, timeouts>>
  BY HandlerPushes, ElsewhereKeeps DEF TypeOK, batcherVars, faultVars
<1>2. Cancelled => Cancelled'
  BY HandlerPushes, ElsewhereKeeps DEF TypeOK, Cancelled
<1> QED BY <1>1, <1>2 DEF Causes, DropNeedsCause

\* A failed attempt counts as a failure unless the context was done.
LEMMA CausesAttempt ==
  ASSUME Causes, TypeOK, AttemptFails, pc \in {"get", "prepare", "send"}
  PROVE  Causes'
<1>0. /\ failures \in Nat /\ timeouts \in Nat /\ attempt \in 1..3 /\ main' = main /\ timeouts' = timeouts
      /\ pc # "requeue"
  BY BoundsAssumption DEF TypeOK, BatcherOK, StoreOK, Attempts, AttemptFails
<1>1. failures' \in Nat /\ failures' >= failures
      /\ (Cancelled \/ timeouts > 0 \/ failures' >= attempt)
  BY <1>0 DEF AttemptFails, CtxErr, Causes
<1>2. CASE attempt < Attempts
  <2>1. attempt' = attempt + 1 /\ pc' = "check" /\ expired' = expired /\ dropped' = dropped
    BY <1>2 DEF AttemptFails
  <2> QED BY <1>0, <1>1, <2>1 DEF Causes, DropNeedsCause, Cancelled
<1>3. CASE ~(attempt < Attempts)
  <2>1. attempt = 3 BY <1>0, <1>3 DEF Attempts
  <2>2. attempt' = 0 /\ pc' # "requeue" /\ expired' = FALSE
    BY <1>3 DEF AttemptFails, GiveUp, Return
  <2> QED BY <1>0, <1>1, <2>1, <2>2 DEF Causes, DropNeedsCause, Cancelled
<1> QED BY <1>2, <1>3

\* Every step of the batcher keeps Causes.
LEMMA CausesBatcher ==
  ASSUME Causes, TypeOK, Batcher
  PROVE  Causes'
<1>0. failures \in Nat /\ timeouts \in Nat /\ attempt \in 0..3
  BY BoundsAssumption DEF TypeOK, BatcherOK, StoreOK, Attempts
<1> USE DEF Causes, DropNeedsCause, Cancelled
<1>1. CASE Receive \/ TickerFires \/ Exit
  <2>1. /\ UNCHANGED <<expired, main, dropped, failures, timeouts>>
        /\ (pc' = pc /\ attempt' = attempt) \/ (pc' = "check" /\ attempt' = 1)
           \/ (pc' = "exited" /\ attempt' = attempt)
    BY <1>1 DEF Receive, TickerFires, Exit, StartFlush, faultVars
  <2> QED BY <1>0, <2>1
<1>2. CASE HealthTick \/ PingReturns \/ StepOk
  BY <1>2 DEF HealthTick, PingReturns, StepOk, faultVars
<1>3. CASE CheckCtx
  <2>1. UNCHANGED <<main, failures, timeouts>> BY <1>3 DEF CheckCtx, faultVars
  <2>2. CASE pc' = "get" /\ UNCHANGED <<batch, attempt, expired, dropped>> BY <2>1, <2>2
  <2>3. CASE CtxErr = "Canceled" /\ GiveUp
    BY <1>0, <2>1, <2>3 DEF CtxErr, GiveUp, Return
  <2>4. CASE CtxErr = "DeadlineExceeded" /\ StartRequeue
    BY <1>0, <2>1, <2>4 DEF CtxErr, StartRequeue
  <2> QED BY <1>3, <2>2, <2>3, <2>4 DEF CheckCtx
<1>4. CASE SendOk BY <1>0, <1>4 DEF SendOk, Return, faultVars
<1>5. CASE GetFails \/ PrepareFails \/ SendFails
  BY <1>5, CausesAttempt DEF GetFails, PrepareFails, SendFails, At
<1>6. CASE RequeueNext
  <2>1. timeouts > 0 /\ timeouts' = timeouts /\ failures' = failures /\ main' = main
    BY <1>6 DEF RequeueNext, At, faultVars
  <2> QED BY <1>0, <2>1
<1>7. CASE Deadline
  BY <1>0, <1>7 DEF Deadline
<1> QED BY <1>1, <1>2, <1>3, <1>4, <1>5, <1>6, <1>7 DEF Batcher

\* While nothing is being stopped, a tick that was accepted is given up only
\* after three failed steps or an insert timeout (main.go:235, 358-372).
THEOREM DropsHaveCause == Spec => []DropNeedsCause
<1>1. Init => Causes BY BoundsAssumption DEF Init, Causes, DropNeedsCause
<1>2. TypeOK /\ Causes /\ [Next]_vars => Causes'
  BY CausesElsewhere, CausesBatcher DEF Next, Stopped, Elsewhere
<1>3. Causes => DropNeedsCause BY DEF Causes
<1> QED BY <1>1, <1>2, <1>3, TypeCorrect, PTL DEF Spec

-----------------------------------------------------------------------------
(* What the gRPC replies say                                               *)

\* What a call has taken is what of its payload was ever accepted.
LEMMA TakenWasAccepted ==
  ASSUME NEW c \in Calls
  PROVE  /\ FreshUntouched /\ pos \in [Calls -> Nat] =>
              Taken(c) = {i \in 1..Len(Payload[c]) : Payload[c][i] \in accepted}
         /\ (FreshUntouched /\ pos \in [Calls -> Nat])' =>
              Taken(c)' = {i \in 1..Len(Payload[c]) : Payload[c][i] \in accepted'}
<1>1. Len(Payload[c]) \in Nat BY CallsAssumption, LenProperties
<1> QED BY <1>1 DEF FreshUntouched, Taken, Before

\* It is a finite set of positions before the current one.
LEMMA TakenFinite ==
  ASSUME NEW c \in Calls
  PROVE  IsFiniteSet(Taken(c)) /\ (Taken(c) = {} <=> Cardinality(Taken(c)) = 0)
<1>1. Len(Payload[c]) \in Nat BY CallsAssumption, LenProperties
<1>2. IsFiniteSet(1..Len(Payload[c])) BY <1>1, FS_Interval
<1>3. Taken(c) \in SUBSET (1..Len(Payload[c])) BY DEF Taken, Before
<1>4. IsFiniteSet(Taken(c)) BY <1>2, <1>3, FS_Subset
<1> QED BY <1>4, FS_EmptySet

\* What reply[c] may be.
Answers == {"none", "running", "202", "OK", "NoSuccess", "ResourceExhausted", "Invalid"}

\* A step of one call takes its current tick or nothing, and the other calls
\* do not notice.
LEMMA TakenByStep ==
  ASSUME IInv, IInv', NEW c \in Calls, Begin(c) \/ Handler(c)
  PROVE  /\ \A d \in Calls \ {c} : /\ Taken(d)' = Taken(d) /\ pos'[d] = pos[d]
                                   /\ reply'[d] = reply[d] /\ processed'[d] = processed[d]
         /\ \/ accepted' = accepted /\ Taken(c)' = Taken(c)
            \/ /\ Enqueue(Current(c)) /\ pos[c] \in 1..Len(Payload[c])
               /\ Taken(c)' = Taken(c) \cup {pos[c]} /\ pos[c] \notin Taken(c)
<1>0. HandlersOK /\ FreshUntouched /\ FreshUntouched'
      /\ pos \in [Calls -> Nat] /\ pos' \in [Calls -> Nat] /\ reply \in [Calls -> Answers]
  BY DEF IInv, TypeOK, HandlersOK, Answers
<1>1. ASSUME NEW d \in Calls \ {c}
      PROVE  pos'[d] = pos[d] /\ reply'[d] = reply[d] /\ processed'[d] = processed[d]
  <2>1. CASE Begin(c) BY <1>0, <1>1, <2>1 DEF Begin
  <2>2. CASE Handler(c) BY <1>0, <1>1, <2>2, HandlerSteps DEF HandlersOK
  <2> QED BY <2>1, <2>2
<1>2. \A d \in Calls :
        /\ Taken(d) = {i \in 1..Len(Payload[d]) : Payload[d][i] \in accepted}
        /\ Taken(d)' = {i \in 1..Len(Payload[d]) : Payload[d][i] \in accepted'}
  BY <1>0, TakenWasAccepted
<1>3. CASE accepted' = accepted
  BY <1>1, <1>2, <1>3
<1>4. CASE InLoop(c) /\ Enqueue(Current(c))
  <2> DEFINE t == Current(c)
  <2>1. pos[c] \in 1..Len(Payload[c]) /\ t = Payload[c][pos[c]]
    BY <1>0, <1>4, CurrentTick DEF Current
  <2>2. accepted' = accepted \cup {t} /\ t \notin accepted
    BY <1>0, <1>4, <2>1 DEF Enqueue, FreshUntouched
  <2>3. \A d \in Calls : \A i \in 1..Len(Payload[d]) : Payload[d][i] = t => d = c /\ i = pos[c]
    BY <2>1, OccurrencesAssumption
  <2>4. Taken(c)' = Taken(c) \cup {pos[c]} /\ pos[c] \notin Taken(c)
    BY <1>2, <2>1, <2>2, <2>3
  <2>5. ASSUME NEW d \in Calls \ {c} PROVE Taken(d)' = Taken(d)
    <3>1. \A i \in 1..Len(Payload[d]) : Payload[d][i] # t BY <2>3
    <3> QED BY <1>2, <2>2, <3>1
  <2> QED BY <1>1, <1>4, <2>1, <2>4, <2>5
<1> QED BY <1>0, <1>3, <1>4, HandlerPushes

\* What Replies says of one call.
RepliesOf(c) ==
  /\ Kind[c] = "ticks" => processed[c] = Cardinality(Taken(c))
  /\ Kind[c] = "tick" /\ reply[c] = "OK" => Taken(c) = {1}
  /\ reply[c] \in {"NoSuccess", "ResourceExhausted", "Invalid"} => Taken(c) = {}
  /\ Kind[c] = "ticks" =>
       \A j \in Taken(c), i \in 1..Len(Payload[c]) :
         i < j /\ Payload[c][i] \in Valid => i \in Taken(c)
  /\ Kind[c] = "ticks" /\ reply[c] = "running" /\ pos[c] <= Len(Payload[c]) =>
       \A i \in Before(c) : Payload[c][i] \in Valid => i \in Taken(c)

\* A call counts what it takes, takes no tick after one it skipped for want of
\* room, and answers what its count says.
LEMMA RepliesByStep ==
  ASSUME IInv, IInv', NEW c \in Calls, Begin(c) \/ Handler(c), RepliesOf(c)
  PROVE  RepliesOf(c)'
<1>0. /\ pos \in [Calls -> Nat] /\ processed \in [Calls -> Nat] /\ reply \in [Calls -> Answers]
      /\ pos[c] \in Nat /\ processed[c] \in Nat /\ Len(Payload[c]) \in Nat
      /\ Kind[c] \in {"http", "tick", "ticks"} /\ HandlersOK
  BY CallsAssumption, LenProperties DEF IInv, TypeOK, HandlersOK, Answers
<1>1. \/ accepted' = accepted /\ Taken(c)' = Taken(c)
      \/ /\ Enqueue(Current(c)) /\ pos[c] \in 1..Len(Payload[c])
         /\ Taken(c)' = Taken(c) \cup {pos[c]} /\ pos[c] \notin Taken(c)
  BY TakenByStep
<1>2. Enqueue(Current(c)) /\ InLoop(c) => accepted' # accepted
  BY <1>0, CurrentTick DEF Enqueue, IInv, FreshUntouched, Current
<1>3. CASE Begin(c)
  <2>1. reply[c] = "none" /\ accepted' = accepted /\ processed' = processed
    BY <1>3 DEF Begin
  <2>2. pos[c] = 0 /\ Taken(c) = {}
    BY <1>0, <2>1 DEF HandlersOK, Taken, Before
  <2>3. Taken(c)' = {}
    BY <1>1, <2>1, <2>2 DEF Enqueue, Current, Taken, Before, IInv, FreshUntouched
  <2>4. reply'[c] = "Invalid" \/ (reply'[c] = "running" /\ pos'[c] = 1)
    BY <1>0, <1>3 DEF Begin
  <2>5. reply'[c] = "running" => Before(c)' = {}
    BY <2>4, <1>0 DEF Before
  <2> QED BY <2>1, <2>2, <2>3, <2>4, <2>5 DEF RepliesOf
<1>4. CASE HttpPush(c) \/ HttpReply(c)
  <2>1. Kind[c] = "http" /\ reply'[c] \in {"running", "202"}
    BY <1>0, <1>4 DEF HttpPush, HttpReply, InLoop, Answer
  <2> QED BY <2>1 DEF RepliesOf
<1>5. CASE IngestTick(c)
  <2>1. Kind[c] = "tick" /\ InLoop(c) /\ Len(Payload[c]) <= 1
    BY <1>5, CallsAssumption DEF IngestTick
  <2>2. pos[c] = 1 /\ Taken(c) = {}
    BY <1>0, <2>1 DEF HandlersOK, InLoop, Taken, Before
  <2>3. \/ accepted' = accepted /\ reply'[c] \in {"Invalid", "ResourceExhausted"}
        \/ Enqueue(Current(c)) /\ reply'[c] = "OK"
    BY <1>0, <1>5 DEF IngestTick, Answer
  <2>4. accepted' = accepted => Taken(c)' = {}
    BY <1>1, <1>2, <2>1, <2>2
  <2>5. Enqueue(Current(c)) => Taken(c)' = {1}
    BY <1>1, <1>2, <2>1, <2>2
  <2> QED BY <2>1, <2>3, <2>4, <2>5 DEF RepliesOf
<1>6. CASE IngestTicksNext(c)
  <2>1. /\ Kind[c] = "ticks" /\ InLoop(c) /\ reply' = reply /\ reply[c] = "running"
        /\ pos[c] <= Len(Payload[c]) /\ Current(c) = Payload[c][pos[c]]
    BY <1>6 DEF IngestTicksNext, InLoop, Current
  <2>2. \A i \in Before(c) : Payload[c][i] \in Valid => i \in Taken(c)
    BY <2>1 DEF RepliesOf
  <2>3. CASE Current(c) \notin Valid /\ Advance(c) /\ UNCHANGED <<in, accepted, processed>>
    <3>1. Taken(c)' = Taken(c) BY <1>1, <1>2, <2>1, <2>3
    <3>2. \A i \in Before(c)' : i \in Before(c) \/ i = pos[c]
      BY <1>0, <2>3 DEF Advance, Before
    <3> QED BY <2>1, <2>2, <2>3, <3>1, <3>2 DEF RepliesOf
  <2>4. CASE Enqueue(Current(c)) /\ processed' = [processed EXCEPT ![c] = @ + 1] /\ Advance(c)
    <3>1. Taken(c)' = Taken(c) \cup {pos[c]} /\ pos[c] \notin Taken(c)
      BY <1>1, <1>2, <2>1, <2>4
    <3>2. Cardinality(Taken(c)') = Cardinality(Taken(c)) + 1
      BY <3>1, TakenFinite, FS_AddElement
    <3>3. processed'[c] = Cardinality(Taken(c)')
      BY <1>0, <2>1, <2>4, <3>2 DEF RepliesOf
    <3>4. \A i \in Before(c)' : i \in Before(c) \/ i = pos[c]
      BY <1>0, <2>4 DEF Advance, Before
    <3>5. \A i \in 1..Len(Payload[c]) : i < pos[c] => i \in Before(c)
      BY DEF Before
    <3>6. \A j \in Taken(c)', i \in 1..Len(Payload[c]) :
            i < j /\ Payload[c][i] \in Valid => i \in Taken(c)'
      BY <2>1, <2>2, <3>1, <3>5 DEF RepliesOf
    <3>7. \A i \in Before(c)' : Payload[c][i] \in Valid => i \in Taken(c)'
      BY <2>2, <3>1, <3>4
    <3> QED BY <2>1, <3>3, <3>6, <3>7 DEF RepliesOf
  <2>5. CASE BreakLoop(c) /\ UNCHANGED <<in, accepted, processed>>
    <3>1. Taken(c)' = Taken(c) BY <1>1, <1>2, <2>1, <2>5
    <3>2. ~(pos'[c] <= Len(Payload[c])) BY <1>0, <2>5 DEF BreakLoop
    <3> QED BY <2>1, <2>5, <3>1, <3>2 DEF RepliesOf
  <2> QED BY <1>6, <2>3, <2>4, <2>5 DEF IngestTicksNext
<1>7. CASE IngestTicksReply(c)
  <2>1. /\ Kind[c] = "ticks" /\ UNCHANGED <<pos, accepted, processed>>
        /\ reply'[c] = IF processed[c] > 0 THEN "OK" ELSE "NoSuccess"
    BY <1>0, <1>7 DEF IngestTicksReply, Answer
  <2>2. Taken(c)' = Taken(c) BY <2>1 DEF Taken, Before
  <2>3. processed[c] = 0 => Taken(c) = {} BY <2>1, TakenFinite DEF RepliesOf
  <2> QED BY <1>0, <2>1, <2>2, <2>3 DEF RepliesOf
<1> QED BY <1>3, <1>4, <1>5, <1>6, <1>7 DEF Handler

\* No step falsifies what the replies say.
LEMMA RepliesKept ==
  ASSUME IInv, IInv', Replies, [Next]_vars
  PROVE  Replies'
<1>1. \A d \in Calls : RepliesOf(d)
  BY DEF Replies, RepliesOf, AckCountsMatch, AcceptedPrefix, NoHoles
<1>2. \A d \in Calls : RepliesOf(d)'
  <2>1. ASSUME NEW c \in Calls, Begin(c) \/ Handler(c), NEW d \in Calls PROVE RepliesOf(d)'
    <3>1. CASE d = c BY <1>1, <2>1, <3>1, RepliesByStep
    <3>2. CASE d # c
      <4>1. /\ Taken(d)' = Taken(d) /\ pos'[d] = pos[d]
            /\ reply'[d] = reply[d] /\ processed'[d] = processed[d]
        BY <2>1, <3>2, TakenByStep
      <4>2. Before(d)' = Before(d) BY <4>1 DEF Before
      <4> QED BY <1>1, <4>1, <4>2 DEF RepliesOf
    <3> QED BY <3>1, <3>2
  <2>2. CASE UNCHANGED <<handlerVars, accepted>>
    BY <1>1, <2>2 DEF RepliesOf, Taken, Before, handlerVars
  <2>3. Batcher \/ Elsewhere => UNCHANGED <<handlerVars, accepted>>
    BY ElsewhereKeeps DEF Batcher, Receive, TickerFires, HealthTick, PingReturns, Exit, CheckCtx, StepOk, SendOk,
           GetFails, PrepareFails, SendFails, AttemptFails, RequeueNext, Deadline
  <2> QED BY <2>1, <2>2, <2>3 DEF Next, Stopped, Elsewhere
<1> QED BY <1>2 DEF Replies, RepliesOf, AckCountsMatch, AcceptedPrefix, NoHoles

\* The invariant of the replies holds.
THEOREM RepliesTrue == Spec => []Replies
<1>1. Init => Replies
  <2> SUFFICES ASSUME Init PROVE Replies
    OBVIOUS
  <2>1. \A c \in Calls : Taken(c) = {} /\ Before(c) = {} /\ reply[c] = "none" /\ processed[c] = 0
    BY DEF Init, Taken, Before
  <2> QED BY <2>1, FS_EmptySet DEF Replies, AckCountsMatch, AcceptedPrefix, NoHoles
<1>2. IInv /\ IInv' /\ Replies /\ [Next]_vars => Replies'
  BY RepliesKept
<1> QED BY <1>1, <1>2, PipelineInvariant, PTL DEF Spec

\* The replies of the gRPC calls tell the truth: ProcessedCount is the number of
\* ticks that entered the channel, OK of IngestTick means its tick did, and an
\* error means none did (grpc_service.go IngestTick and IngestTicks).
THEOREM AcksCorrect == Spec => []AckCountsMatch
BY RepliesTrue, PTL DEF Replies

\* What IngestTicks took is always a prefix of the valid ticks of the request.
THEOREM PrefixAccepted == Spec => []AcceptedPrefix
BY RepliesTrue, PTL DEF Replies

-----------------------------------------------------------------------------
(* Every step is a step of TickDelivery                                    *)

\* What a step of the batcher does to the ticks in the pipeline: it adds none,
\* only those of the batch may leave, and only those get a row.
LEMMA BatcherFlow ==
  ASSUME IInv, Batcher
  PROVE  /\ Alive /\ main' = main /\ accepted' = accepted
         /\ InMemory' \subseteq InMemory /\ InMemory \subseteq InMemory' \cup Range(batch)
         /\ table' = table \/ table' = Insert(table)
<1>0. /\ in \in Seq(Ticks) /\ buf \in Seq(Ticks) /\ batch \in Seq(Ticks)
      /\ batch = <<>> <=> pc \notin {"check", "get", "prepare", "send", "requeue"}
  BY DEF IInv, TypeOK, BatcherOK, ChannelOK
<1>1. Alive /\ main' = main /\ accepted' = accepted /\ (table' = table \/ table' = Insert(table))
  BY DEF Batcher, Receive, TickerFires, HealthTick, PingReturns, Exit, CheckCtx, StepOk, SendOk,
         GetFails, PrepareFails, SendFails, AttemptFails, RequeueNext, Deadline, At, Alive, storeVars
<1>2. InMemory' \subseteq InMemory /\ InMemory \subseteq InMemory' \cup Range(batch)
  <2>1. CASE Receive
    <3> DEFINE b == Append(buf, Head(in))
    <3>1. in' = Tail(in) /\ batch = <<>> /\ Range(in) = Range(Tail(in)) \cup {Head(in)}
      BY <1>0, <2>1, RangeTail DEF Receive, At
    <3>2. Range(b) = Range(buf) \cup {Head(in)}
      BY <1>0, <2>1, RangeTail, RangeAppend DEF Receive
    <3>3. (buf' = b /\ batch' = <<>>) \/ (buf' = <<>> /\ batch' = b)
      BY <2>1, <3>1 DEF Receive, StartFlush
    <3> HIDE DEF b
    <3> QED BY <3>1, <3>2, <3>3, RangeEmpty DEF InMemory
  <2>2. CASE TickerFires \/ (Exit /\ buf # <<>>)
    <3>1. batch = <<>> /\ batch' = buf /\ buf' = <<>> /\ in' = in
      BY <1>0, <2>2 DEF TickerFires, Exit, StartFlush, At
    <3> QED BY <3>1, RangeEmpty DEF InMemory
  <2>3. CASE in' = in /\ buf' = buf /\ (batch' = batch \/ batch' = <<>>)
    BY <2>3, RangeEmpty DEF InMemory
  <2>4. CASE RequeueNext
    <3>1. /\ batch' = Tail(batch) /\ buf' = buf /\ (in' = in \/ in' = Append(in, Head(batch)))
          /\ Range(batch) = Range(Tail(batch)) \cup {Head(batch)} /\ Head(batch) \in Ticks
      BY <1>0, <2>4, RangeTail DEF RequeueNext, At
    <3>2. Range(Append(in, Head(batch))) = Range(in) \cup {Head(batch)}
      BY <1>0, <3>1, RangeAppend
    <3> QED BY <3>1, <3>2 DEF InMemory
  <2>5. HealthTick \/ PingReturns \/ CheckCtx \/ StepOk \/ SendOk \/ GetFails \/ PrepareFails
        \/ SendFails \/ Deadline \/ (Exit /\ buf = <<>>)
        => in' = in /\ buf' = buf /\ (batch' = batch \/ batch' = <<>>)
    BY DEF HealthTick, PingReturns, CheckCtx, StepOk, SendOk, GetFails, PrepareFails, SendFails,
           AttemptFails, Deadline, Exit, GiveUp, StartRequeue
  <2> QED BY <2>1, <2>2, <2>3, <2>4, <2>5 DEF Batcher
<1> QED BY <1>1, <1>2

\* Only accepted ticks have rows: a batch has nothing else.
LEMMA StoredAcceptedKept ==
  ASSUME IInv, IInv', StoredAccepted, [Next]_vars
  PROVE  StoredAccepted'
<1>1. table \in [Ticks -> Nat] /\ Range(batch) \subseteq accepted
  BY DEF IInv, TypeOK, StoreOK, InMemory
<1>2. CASE Batcher
  BY <1>1, <1>2, BatcherFlow DEF StoredAccepted, Insert
<1>3. CASE \E c \in Calls : Begin(c) \/ Handler(c)
  <2>1. table' = table /\ accepted \subseteq accepted'
    BY <1>3, HandlerPushes DEF IInv, TypeOK, Enqueue, storeVars
  <2> QED BY <2>1 DEF StoredAccepted
<1>4. CASE Elsewhere
  BY <1>4, ElsewhereKeeps DEF StoredAccepted, storeVars
<1> QED BY <1>2, <1>3, <1>4 DEF Next, Stopped, Elsewhere

\* The first row of some ticks of the batch is a Store of TickDelivery.
LEMMA StepStores ==
  ASSUME IInv, Alive, main' = main, accepted' = accepted, table' = Insert(table),
         InMemory' \subseteq InMemory, InMemory \subseteq InMemory' \cup Range(batch)
  PROVE  Delivery!Store
<1> DEFINE S == {t \in Range(batch) : table[t] = 0}
<1>1. /\ table \in [Ticks -> Nat] /\ batch \in Seq(Ticks) /\ Range(batch) \subseteq Ticks
      /\ Range(batch) \subseteq accepted /\ Range(batch) \subseteq InMemory /\ Alive'
  BY RangeOf DEF IInv, TypeOK, StoreOK, BatcherOK, InMemory, Alive
<1>2. S \in SUBSET Ticks BY <1>1
<1>3. \A t \in S : Status[t] = "held"
  BY <1>1 DEF Status
<1>4. ASSUME NEW t \in Ticks PROVE Status'[t] = IF t \in S THEN "stored" ELSE Status[t]
  <2>1. table[t] \in Nat /\ table'[t] = IF t \in Range(batch) THEN table[t] + 1 ELSE table[t]
    BY <1>1 DEF Insert
  <2>2. CASE t \in Range(batch) BY <1>1, <2>1, <2>2 DEF Status
  <2>3. CASE t \notin Range(batch) BY <1>1, <2>1, <2>3 DEF Status
  <2> QED BY <2>2, <2>3
<1>5. Status' = [t \in Ticks |-> IF t \in S THEN "stored" ELSE Status[t]]
  BY <1>4 DEF Status
<1> QED BY <1>2, <1>3, <1>5 DEF Delivery!Store, Delivery!Move

\* Ticks that leave the pipeline without a row, and those in it when the process
\* ends, are lost; a step without such ticks changes no status.
LEMMA StepLoses ==
  ASSUME accepted' = accepted, table' = table, InMemory' \subseteq InMemory, InMemory \subseteq accepted,
         Alive' => Alive, \A t \in InMemory : table[t] \in Nat /\ t \in Ticks
  PROVE  Delivery!Lose
<1> DEFINE S == {t \in InMemory : table[t] = 0 /\ Alive /\ ~(t \in InMemory' /\ Alive')}
<1>1. S \in SUBSET Ticks OBVIOUS
<1>2. \A t \in S : Status[t] = "held" BY DEF Status
<1>3. ASSUME NEW t \in Ticks PROVE Status'[t] = IF t \in S THEN "lost" ELSE Status[t]
  BY DEF Status
<1>4. Status' = [t \in Ticks |-> IF t \in S THEN "lost" ELSE Status[t]]
  BY <1>3 DEF Status
<1> QED BY <1>1, <1>2, <1>4 DEF Delivery!Lose, Delivery!Move

\* A tick that enters the channel is accepted.
LEMMA StepAccepts ==
  ASSUME IInv, StoredAccepted, NEW c \in Calls, InLoop(c), Enqueue(Current(c)),
         UNCHANGED <<main, buf, batch, table>>
  PROVE  Delivery!Accept
<1> DEFINE t == Current(c)
<1>1. t \in Ticks /\ t \notin accepted /\ accepted' = accepted \cup {t} /\ table[t] = 0 /\ Alive
  BY CurrentTick DEF IInv, TypeOK, StoreOK, FreshUntouched, Enqueue, Current, StoredAccepted, InLoop
<1>2. InMemory' = InMemory \cup {t} /\ InMemory \subseteq accepted /\ Alive'
  BY <1>1, RangeAppend DEF IInv, TypeOK, ChannelOK, Enqueue, InMemory, Alive
<1>3. Status[t] = "new" BY <1>1 DEF Status
<1>4. ASSUME NEW u \in Ticks PROVE Status'[u] = IF u \in {t} THEN "held" ELSE Status[u]
  BY <1>1, <1>2 DEF Status
<1>5. Status' = [u \in Ticks |-> IF u \in {t} THEN "held" ELSE Status[u]]
  BY <1>4 DEF Status
<1> QED BY <1>1, <1>3, <1>5 DEF Delivery!Accept, Delivery!Move

\* The pipeline refines TickDelivery: a tick is accepted before it is stored or
\* lost, and either is final, whatever fails and whenever the process stops.
THEOREM PipelineDelivers == Spec => Delivery!Spec
<1>1. Init => StoredAccepted /\ Delivery!Init
  BY DEF Init, StoredAccepted, Status, Delivery!Init
<1>2. IInv /\ IInv' /\ StoredAccepted /\ [Next]_vars => StoredAccepted'
  BY StoredAcceptedKept
<1>3. IInv /\ StoredAccepted /\ [Next]_vars => [Delivery!Next]_Status
  <2> SUFFICES ASSUME IInv, StoredAccepted, [Next]_vars PROVE Delivery!Next
    OBVIOUS
  <2>0. InMemory \subseteq accepted /\ accepted \subseteq Ticks /\ table \in [Ticks -> Nat]
    BY DEF IInv, TypeOK, ChannelOK, StoreOK
  <2>1. CASE Batcher
    BY <2>0, <2>1, BatcherFlow, StepStores, StepLoses DEF Delivery!Next, Alive
  <2>2. CASE \E c \in Calls : Begin(c) \/ Handler(c)
    <3>1. PICK c \in Calls : Begin(c) \/ Handler(c) BY <2>2
    <3>2. /\ UNCHANGED <<main, buf, batch, table>>
          /\ (in' = in /\ accepted' = accepted) \/ (InLoop(c) /\ Enqueue(Current(c)))
      BY <3>1, HandlerPushes DEF IInv, TypeOK, batcherVars, storeVars
    <3>3. CASE in' = in /\ accepted' = accepted
      BY <2>0, <3>2, <3>3, StepLoses DEF Delivery!Next, Alive, InMemory
    <3>4. CASE InLoop(c) /\ Enqueue(Current(c))
      BY <3>2, <3>4, StepAccepts DEF Delivery!Next
    <3> QED BY <3>2, <3>3, <3>4
  <2>3. CASE Elsewhere
    <3>1. UNCHANGED <<in, buf, batch, table, accepted>> /\ (Alive' => Alive)
      BY <2>3, ElsewhereKeeps DEF storeVars, batcherVars
    <3> QED BY <2>0, <3>1, StepLoses DEF Delivery!Next, InMemory
  <2> QED BY <2>1, <2>2, <2>3 DEF Next, Stopped, Elsewhere
<1> QED BY <1>1, <1>2, <1>3, PipelineInvariant, PTL DEF Spec, Delivery!Spec

-----------------------------------------------------------------------------
(* The ticks of one call keep their order                                  *)

\* What InOrder says as long as no insert has timed out.
Ordered ==
  /\ Queued /\ Passed
  /\ \A t \in Range(in) \cup Range(buf) : table[t] = 0
  /\ \A s, t \in Range(batch) : table[s] = table[t]

\* A new tick of a call is behind all it has sent before.
LEMMA OrderPushed ==
  ASSUME IInv, IInv', StoredAccepted, Ordered, NEW c \in Calls, Begin(c) \/ Handler(c)
  PROVE  Ordered'
<1>0. /\ in \in Seq(Ticks) /\ Len(in) \in Nat /\ pos[c] \in Nat /\ UNCHANGED <<buf, batch, table>>
      /\ InMemory \subseteq accepted /\ HandlersOK /\ table \in [Ticks -> Nat]
  BY HandlerPushes, LenProperties
  DEF IInv, TypeOK, HandlersOK, ChannelOK, StoreOK, batcherVars, storeVars
<1>1. CASE in' = in /\ accepted' = accepted
  <2>1. \A d \in Calls : Taken(d)' = Taken(d)
    <3>1. \A d \in Calls : Taken(d)' = {i \in 1..Len(Payload[d]) : Payload[d][i] \in accepted'}
      BY TakenWasAccepted DEF IInv, TypeOK, HandlersOK
    <3>2. \A d \in Calls : Taken(d) = {i \in 1..Len(Payload[d]) : Payload[d][i] \in accepted}
      BY TakenWasAccepted DEF IInv, TypeOK, HandlersOK
    <3> QED BY <1>1, <3>1, <3>2
  <2> QED BY <1>0, <1>1, <2>1 DEF Ordered, Queued, Passed, InMemory
<1>2. CASE InLoop(c) /\ Enqueue(Current(c))
  <2> DEFINE u == Current(c)
  <2>1. /\ pos[c] \in 1..Len(Payload[c]) /\ u = Payload[c][pos[c]] /\ u \in Ticks /\ u \notin accepted
        /\ accepted' = accepted \cup {u} /\ in' = Append(in, u)
    BY <1>0, <1>2, CurrentTick DEF Current, Enqueue, IInv, FreshUntouched
  <2>2. /\ Len(in') = Len(in) + 1 /\ in'[Len(in) + 1] = u /\ \A a \in 1..Len(in) : in'[a] = in[a]
        /\ Range(in') = Range(in) \cup {u} /\ u \notin Range(in) /\ u \notin InMemory
        /\ \A a \in 1..Len(in) : in[a] \in Range(in)
    <3>1. Range(in') = Range(in) \cup {u} BY <1>0, <2>1, RangeAppend
    <3>2. u \notin Range(in) /\ u \notin InMemory BY <1>0, <2>1 DEF InMemory
    <3>3. \A a \in 1..Len(in) : in[a] \in Range(in)
      BY <1>0, LenProperties DEF Range
    <3>4. /\ Len(in') = Len(in) + 1 /\ in'[Len(in) + 1] = u
          /\ \A a \in 1..Len(in) : in'[a] = in[a]
      BY <1>0, <2>1, AppendProperties
    <3> QED BY <3>1, <3>2, <3>3, <3>4
  <2>3. /\ \A d \in Calls \ {c} : Taken(d)' = Taken(d)
        /\ Taken(c)' = Taken(c) \cup {pos[c]}
    BY <2>1, TakenByStep
  <2>4. /\ \A i \in Taken(c) : i < pos[c] /\ i \in Nat
        /\ \A d \in Calls : \A i \in Taken(d) : Payload[d][i] \in accepted
    BY CallsAssumption, LenProperties DEF Taken, Before
  <2>5. \* the later of two ticks of a call is an old one, or the new one
        \A d \in Calls : \A i, j \in Taken(d)' : i < j =>
          /\ i \in Taken(d) /\ Payload[d][i] # u
          /\ j \in Taken(d) \/ Payload[d][j] = u
    <3> SUFFICES ASSUME NEW d \in Calls, NEW i \in Taken(d)', NEW j \in Taken(d)', i < j
                 PROVE  i \in Taken(d) /\ Payload[d][i] # u /\ (j \in Taken(d) \/ Payload[d][j] = u)
      OBVIOUS
    <3>1. i \in Taken(d)
      <4>1. CASE d = c
        <5>1. i = pos[c] => FALSE
          <6>1. j = pos[c] \/ (j < pos[c] /\ j \in Nat) BY <2>3, <2>4, <4>1
          <6> QED BY <1>0, <6>1
        <5> QED BY <2>3, <4>1, <5>1
      <4>2. CASE d # c BY <2>3, <4>2
      <4> QED BY <4>1, <4>2
    <3>2. j \in Taken(d) \/ Payload[d][j] = u BY <2>1, <2>3
    <3> QED BY <2>1, <2>4, <3>1, <3>2
  <2>6. Queued'
    <3> SUFFICES ASSUME NEW a \in 1..Len(in'), NEW b \in 1..Len(in'), a < b,
                        NEW d \in Calls, NEW i \in Taken(d)', NEW j \in Taken(d)', i < j,
                        in'[a] = Payload[d][j], in'[b] = Payload[d][i]
                 PROVE  FALSE
      BY DEF Queued
    <3>1. i \in Taken(d) /\ Payload[d][i] # u BY <2>5
    <3>2. a \in 1..Len(in) /\ b \in 1..Len(in)
      <4>1. Len(in') = Len(in) + 1 /\ in'[Len(in) + 1] = u BY <2>2
      <4>2. b # Len(in) + 1 BY <3>1, <4>1
      <4>3. Len(in) \in Nat BY <1>0
      <4> QED BY <4>1, <4>2, <4>3
    <3>3. j \in Taken(d) BY <2>2, <2>5, <3>2
    <3> QED BY <2>2, <3>1, <3>2, <3>3 DEF Ordered, Queued
  <2>7. Passed'
    <3> SUFFICES ASSUME NEW d \in Calls, NEW i \in Taken(d)', NEW j \in Taken(d)', i < j
                 PROVE  LET s == Payload[d][i]  t == Payload[d][j] IN
                        /\ s \in Range(in') => t \in Range(in')
                        /\ s \in Range(buf') => t \in Range(in') \cup Range(buf')
                        /\ s \in Range(batch') => t \in InMemory'
      BY DEF Passed
    <3>1. i \in Taken(d) /\ Payload[d][i] # u /\ (j \in Taken(d) \/ Payload[d][j] = u) BY <2>5
    <3>2. InMemory' = InMemory \cup {u} BY <1>0, <2>2 DEF InMemory
    <3>3. CASE j \in Taken(d) BY <1>0, <2>2, <3>1, <3>2, <3>3 DEF Ordered, Passed
    <3>4. CASE Payload[d][j] = u BY <2>2, <3>2, <3>4
    <3> QED BY <3>1, <3>3, <3>4
  <2>8. table[u] = 0 BY <1>0, <2>1 DEF StoredAccepted
  <2> QED BY <1>0, <2>2, <2>6, <2>7, <2>8 DEF Ordered
<1> QED BY <1>1, <1>2, HandlerPushes DEF IInv, TypeOK

\* Storing a batch or giving it up leaves what is behind it alone.
LEMMA OrderStored ==
  ASSUME IInv, Ordered, UNCHANGED <<pos, accepted, in, buf>>, batch' = batch \/ batch' = <<>>,
         table' = table \/ table' = Insert(table)
  PROVE  Ordered'
<1>1. \A d \in Calls : Taken(d)' = Taken(d) BY DEF Taken, Before
<1>2. /\ in \in Seq(Ticks) /\ buf \in Seq(Ticks) /\ batch \in Seq(Ticks) /\ table \in [Ticks -> Nat]
      /\ HeldOnce
  BY DEF IInv, TypeOK, ChannelOK, BatcherOK, StoreOK
<1>3. Range(in) \cup Range(buf) \cup Range(batch) \subseteq Ticks BY <1>2, RangeOf
<1>4. Queued' /\ Passed'
  BY <1>1, RangeEmpty DEF Ordered, Queued, Passed, InMemory
<1>5. \A t \in Range(in) \cup Range(buf) : table'[t] = 0
  BY <1>2, <1>3 DEF Ordered, Insert, HeldOnce, Apart
<1>6. \A s, t \in Range(batch) : table'[s] = table'[t]
  BY <1>2, <1>3 DEF Ordered, Insert
<1> QED BY <1>4, <1>5, <1>6, RangeEmpty DEF Ordered

\* Moving the head of the channel to the end of the buffer, or a buffer into the
\* empty batch, moves what is in front first.
LEMMA OrderMoved ==
  ASSUME IInv, Ordered, UNCHANGED <<pos, accepted, table>>, batch = <<>>,
         Receive \/ TickerFires \/ (Exit /\ buf # <<>>)
  PROVE  Ordered'
<1>1. \A d \in Calls : Taken(d)' = Taken(d) BY DEF Taken, Before
<1>2. in \in Seq(Ticks) /\ buf \in Seq(Ticks) BY DEF IInv, TypeOK, ChannelOK, BatcherOK
<1>3. CASE Receive
  <2> DEFINE h == Head(in)  b == Append(buf, h)
  <2>1. /\ in' = Tail(in) /\ h \in Ticks /\ Range(in) = Range(in') \cup {h}
        /\ Range(b) = Range(buf) \cup {h}
        /\ (buf' = b /\ batch' = <<>>) \/ (buf' = <<>> /\ batch' = b)
    BY <1>2, <1>3, RangeTail, RangeAppend DEF Receive, StartFlush
  <2>2. /\ Len(in) \in Nat /\ Len(in') = Len(in) - 1 /\ h = in[1]
        /\ \A a \in 1..Len(in') : in'[a] = in[a + 1]
    BY <1>2, <1>3, HeadTailProperties, LenProperties DEF Receive
  <2>3. Queued'
    <3> SUFFICES ASSUME NEW a \in 1..Len(in'), NEW e \in 1..Len(in'), a < e
                 PROVE  ~\E d \in Calls : \E i, j \in Taken(d) :
                           i < j /\ in'[a] = Payload[d][j] /\ in'[e] = Payload[d][i]
      BY <1>1 DEF Queued
    <3>1. a + 1 \in 1..Len(in) /\ e + 1 \in 1..Len(in) /\ a + 1 < e + 1 BY <2>2
    <3>2. in'[a] = in[a + 1] /\ in'[e] = in[e + 1] BY <2>2
    <3> QED BY <3>1, <3>2 DEF Ordered, Queued
  <2>4. \* the later of two ticks in the channel is not its head
        ASSUME NEW d \in Calls, NEW i \in Taken(d), NEW j \in Taken(d), i < j,
               Payload[d][i] \in Range(in'), Payload[d][j] \in Range(in)
        PROVE  Payload[d][j] \in Range(in')
    <3>1. CASE Payload[d][j] = h
      <4>0. DOMAIN in' = 1..Len(in')
        BY <1>2, <1>3, <2>1, RangeTail, LenProperties DEF Receive
      <4>1. PICK a \in 1..Len(in') : in'[a] = Payload[d][i]
        BY <2>4, <4>0 DEF Range
      <4>2. a + 1 \in 1..Len(in) /\ 1 \in 1..Len(in) /\ 1 < a + 1 /\ in[a + 1] = Payload[d][i]
        BY <2>2, <4>1
      <4> QED BY <2>2, <2>4, <3>1, <4>2 DEF Ordered, Queued
    <3> QED BY <2>1, <2>4, <3>1
  <2>5. InMemory' = InMemory
    BY <2>1, RangeEmpty DEF InMemory
  <2> HIDE DEF b
  <2>6. Passed'
    <3> SUFFICES ASSUME NEW d \in Calls, NEW i \in Taken(d), NEW j \in Taken(d), i < j
                 PROVE  LET s == Payload[d][i]  t == Payload[d][j] IN
                        /\ s \in Range(in') => t \in Range(in')
                        /\ s \in Range(buf') => t \in Range(in') \cup Range(buf')
                        /\ s \in Range(batch') => t \in InMemory'
      BY <1>1 DEF Passed
    <3> DEFINE s == Payload[d][i]  t == Payload[d][j]
    <3>1. /\ s \in Range(in) => t \in Range(in)
          /\ s \in Range(buf) => t \in Range(in) \cup Range(buf)
      BY DEF Ordered, Passed
    <3>2. s \in Range(in') => t \in Range(in')
      BY <2>1, <2>4, <3>1
    <3>3. s \in Range(b) => t \in Range(in') \cup Range(b)
      BY <2>1, <3>1
    <3>4. Range(b) \cup Range(in') \subseteq InMemory'
      BY <2>1 DEF InMemory
    <3> HIDE DEF s, t
    <3>5. s \in Range(buf') => t \in Range(in') \cup Range(buf')
      BY <2>1, <3>3, RangeEmpty
    <3>6. s \in Range(batch') => t \in InMemory'
      BY <2>1, <3>3, <3>4, RangeEmpty
    <3> QED BY <3>2, <3>5, <3>6 DEF s, t
  <2>7. \A t \in Range(in') \cup Range(buf') \cup Range(batch') : table[t] = 0
    BY <2>1, RangeEmpty DEF Ordered
  <2> QED BY <2>3, <2>6, <2>7 DEF Ordered
<1>4. CASE TickerFires \/ (Exit /\ buf # <<>>)
  <2>1. batch' = buf /\ buf' = <<>> /\ in' = in
    BY <1>4 DEF TickerFires, Exit, StartFlush
  <2>2. InMemory' = InMemory BY <2>1, RangeEmpty DEF InMemory
  <2>3. Queued' /\ Passed'
    BY <1>1, <2>1, <2>2, RangeEmpty DEF Ordered, Queued, Passed, InMemory
  <2> QED BY <2>1, <2>3, RangeEmpty DEF Ordered
<1> QED BY <1>3, <1>4

\* Every step keeps the order until an insert times out.
LEMMA OrderKept ==
  ASSUME IInv, IInv', StoredAccepted, Causes, InOrder, [Next]_vars
  PROVE  InOrder'
<1> SUFFICES ASSUME timeouts' = 0 PROVE Ordered'
  BY DEF InOrder, Ordered
<1>1. timeouts = 0 /\ Ordered
  <2>1. timeouts = 0 \/ (timeouts \in Nat /\ timeouts' = timeouts + 1) \/ timeouts' = timeouts
    <3>1. timeouts \in Nat BY BoundsAssumption DEF IInv, TypeOK, StoreOK
    <3>2. CASE \E c \in Calls : Begin(c) \/ Handler(c)
      BY <3>2, HandlerPushes DEF IInv, TypeOK, faultVars
    <3>3. CASE Batcher
      BY <3>1, <3>3 DEF Batcher, Receive, TickerFires, HealthTick, PingReturns, Exit, CheckCtx, StepOk, SendOk,
         GetFails, PrepareFails, SendFails, AttemptFails, RequeueNext, Deadline, faultVars
    <3>4. CASE Elsewhere
      BY <3>4, ElsewhereKeeps DEF faultVars
    <3> QED BY <3>2, <3>3, <3>4 DEF Next, Stopped, Elsewhere
  <2> QED BY <2>1 DEF InOrder, Ordered
<1>2. CASE \E c \in Calls : Begin(c) \/ Handler(c)
  BY <1>1, <1>2, OrderPushed
<1>3. CASE Receive \/ TickerFires \/ (Exit /\ buf # <<>>)
  <2>1. batch = <<>> /\ UNCHANGED <<pos, accepted, table>>
    BY <1>3 DEF Receive, TickerFires, Exit, At, IInv, TypeOK, BatcherOK, handlerVars, storeVars
  <2> QED BY <1>1, <1>3, <2>1, OrderMoved
<1>4. CASE HealthTick \/ PingReturns \/ CheckCtx \/ StepOk \/ SendOk \/ GetFails \/ PrepareFails
           \/ SendFails \/ (Exit /\ buf = <<>>) \/ Elsewhere
  <2>1. /\ UNCHANGED <<pos, accepted, in, buf>>
        /\ batch' = batch \/ batch' = <<>>
        /\ table' = table \/ table' = Insert(table)
    BY <1>4, ElsewhereKeeps DEF HealthTick, PingReturns, CheckCtx, StepOk, SendOk, GetFails, PrepareFails, SendFails,
           AttemptFails, Exit, GiveUp, StartRequeue, handlerVars, batcherVars, storeVars
  <2> QED BY <1>1, <2>1, OrderStored
<1>5. ~RequeueNext /\ ~Deadline
  <2>1. timeouts = 0 => pc # "requeue" BY DEF Causes
  <2> QED BY <1>1, <2>1 DEF RequeueNext, Deadline, At
<1> QED BY <1>2, <1>3, <1>4, <1>5 DEF Next, Batcher, Stopped, Elsewhere

\* Until an insert times out, the ticks of a call are stored in their order:
\* when one is in ClickHouse, the earlier ones are too or were reported dropped.
THEOREM OrderPreserved == Spec => []NoOvertaking
<1>1. Init => StoredAccepted /\ Causes /\ InOrder
  BY BoundsAssumption, RangeEmpty
  DEF Init, StoredAccepted, Causes, DropNeedsCause, InOrder, Queued, Passed, Taken
<1>2. IInv /\ IInv' /\ StoredAccepted /\ Causes /\ InOrder /\ [Next]_vars
        => StoredAccepted' /\ Causes' /\ InOrder'
  BY StoredAcceptedKept, OrderKept, CausesElsewhere, CausesBatcher DEF Next, Stopped, Elsewhere, IInv
<1>3. IInv /\ InOrder => NoOvertaking
  <2> SUFFICES ASSUME IInv, timeouts = 0, Ordered,
                      NEW c \in Calls, NEW i \in Taken(c), NEW j \in Taken(c),
                      i < j, table[Payload[c][j]] > 0, Payload[c][i] \notin dropped
               PROVE  table[Payload[c][i]] > 0
    BY DEF NoOvertaking, InOrder, Ordered
  <2> DEFINE s == Payload[c][i]  t == Payload[c][j]
  <2>1. s \in InMemory \/ table[s] > 0 BY DEF Taken, IInv, Accounted
  <2>2. t \notin Range(in) /\ t \notin Range(buf) BY DEF Ordered
  <2>3. /\ s \in Range(in) => t \in Range(in)
        /\ s \in Range(buf) => t \in Range(in) \cup Range(buf)
        /\ s \in Range(batch) => t \in InMemory
    BY DEF Ordered, Passed
  <2>4. s \in Range(batch) => table[s] = table[t] BY <2>2, <2>3 DEF InMemory, Ordered
  <2> QED BY <2>1, <2>2, <2>3, <2>4 DEF InMemory
<1> QED BY <1>1, <1>2, <1>3, PipelineInvariant, PTL DEF Spec

-----------------------------------------------------------------------------
(* The last flush                                                          *)

\* What makes LastFlushIsRefused inductive: outside a flush no timeout is
\* pending, so that the context of the last flush was cancelled and no more.
LastFlush ==
  /\ exiting => pc \in {"check", "exited"} /\ buf = <<>> /\ ~expired
  /\ pc \in {"select", "ping"} => ~expired
  /\ pc = "exited" => exiting

\* Every step of the batcher keeps LastFlush.
LEMMA LastFlushBatcher ==
  ASSUME TypeOK, LastFlush, Batcher
  PROVE  LastFlush'
<1>0. exiting => Cancelled /\ pc \notin {"select", "ping"} BY DEF TypeOK, BatcherOK
<1> USE DEF LastFlush, At
<1>1. CASE Receive \/ TickerFires
  <2>1. /\ ~exiting /\ exiting' = exiting /\ ~expired /\ expired' = expired
        /\ pc' \in {"select", "check"}
    BY <1>0, <1>1 DEF Receive, TickerFires, StartFlush
  <2> QED BY <2>1
<1>2. CASE HealthTick \/ PingReturns
  <2>1. ~exiting /\ exiting' = exiting /\ ~expired /\ expired' = expired /\ pc' \in {"select", "ping"}
    BY <1>0, <1>2 DEF HealthTick, PingReturns
  <2> QED BY <2>1
<1>3. CASE Exit
  <2>1. /\ ~expired /\ expired' = expired /\ exiting' = TRUE /\ buf' = <<>>
        /\ pc' \in {"check", "exited"}
    BY <1>3 DEF Exit, StartFlush
  <2> QED BY <2>1
<1>4. CASE CheckCtx
  <2>1. exiting' = exiting /\ buf' = buf /\ pc = "check" BY <1>4 DEF CheckCtx
  <2>2. CASE CtxErr = "Canceled" /\ GiveUp
    <3>1. expired' = FALSE /\ pc' = IF exiting THEN "exited" ELSE "select"
      BY <2>2 DEF GiveUp, Return
    <3> QED BY <2>1, <3>1
  <2>3. CASE CtxErr # "Canceled"
    <3>1. ~exiting BY <1>0, <2>3 DEF CtxErr
    <3>2. pc' \in {"get", "requeue"} BY <1>4, <2>3 DEF CheckCtx, StartRequeue
    <3> QED BY <2>1, <3>1, <3>2
  <2> QED BY <1>4, <2>2, <2>3 DEF CheckCtx
<1>5. CASE StepOk
  <2>1. ~exiting /\ exiting' = exiting /\ pc' \in {"prepare", "send"} BY <1>5 DEF StepOk
  <2> QED BY <2>1
<1>6. CASE SendOk
  <2>1. ~exiting /\ exiting' = exiting /\ expired' = FALSE /\ pc' = "select"
    BY <1>6 DEF SendOk, Return
  <2> QED BY <2>1
<1>7. CASE GetFails \/ PrepareFails \/ SendFails
  <2>1. AttemptFails /\ ~exiting /\ exiting' = exiting
    BY <1>7 DEF GetFails, PrepareFails, SendFails, AttemptFails
  <2>2. pc' = "check" \/ (pc' = "select" /\ expired' = FALSE)
    BY <2>1 DEF AttemptFails, GiveUp, Return
  <2> QED BY <2>1, <2>2
<1>8. CASE RequeueNext
  <2>1. ~exiting /\ exiting' = exiting BY <1>8 DEF RequeueNext
  <2>2. pc' = "requeue" \/ (pc' = "select" /\ expired' = FALSE)
    BY <1>8, <2>1 DEF RequeueNext, Return
  <2> QED BY <2>1, <2>2
<1>9. CASE Deadline
  <2>1. ~exiting /\ exiting' = exiting /\ pc' = pc /\ pc \in {"check", "get", "prepare", "send"}
    BY <1>0, <1>9 DEF Deadline, Cancelled
  <2> QED BY <2>1
<1> QED BY <1>1, <1>2, <1>3, <1>4, <1>5, <1>6, <1>7, <1>8, <1>9 DEF Batcher

\* The flush that Run makes when its context is done never gets to ClickHouse,
\* and with the batcher gone nothing is left of the pipeline but the channel
\* (main.go:236-240, 320): what it dropped then is all that was not in the channel.
THEOREM LastFlushRefused == Spec => []LastFlushIsRefused
<1>1. Init => LastFlush BY DEF Init, LastFlush
<1>2. TypeOK /\ LastFlush /\ [Next]_vars => LastFlush'
  <2> SUFFICES ASSUME TypeOK, LastFlush, [Next]_vars PROVE LastFlush' OBVIOUS
  <2>1. CASE Batcher BY <2>1, LastFlushBatcher
  <2>2. CASE (\E c \in Calls : Begin(c) \/ Handler(c)) \/ Elsewhere
    <3>1. UNCHANGED <<exiting, pc, buf, expired>>
      BY <2>2, HandlerPushes, ElsewhereKeeps DEF TypeOK, batcherVars
    <3> QED BY <3>1 DEF LastFlush
  <2> QED BY <2>1, <2>2 DEF Next, Stopped, Elsewhere
<1>3. TypeOK /\ LastFlush => LastFlushIsRefused
  BY RangeEmpty DEF TypeOK, BatcherOK, LastFlush, LastFlushIsRefused, InMemory
<1> QED BY <1>1, <1>2, <1>3, TypeCorrect, PTL DEF Spec

\* While the process lives no accepted tick disappears without a log line; its
\* end takes silently what was in memory and nothing else, and once the batcher
\* has made its last flush no more than what is in the channel (main.go:320, 559).
THEOREM OnlyExitLosesSilently == Spec => []SilentLossNeedsExit
<1>1. IInv /\ LastFlushIsRefused => SilentLossNeedsExit
  BY DEF IInv, Accounted, LastFlushIsRefused, SilentLossNeedsExit, Silent
<1> QED BY <1>1, PipelineInvariant, LastFlushRefused, PTL

-----------------------------------------------------------------------------
(* A flush goes through the loop of InsertBatch                            *)

\* Every step of the batcher is a step of InsertAttempts, or none.
LEMMA BatcherAttempts ==
  ASSUME TypeOK, Batcher
  PROVE  [Inserting!Next]_<<Stage, attempt, CtxEnded>>
<1>0. /\ pc \in Places /\ attempt \in 0..Attempts /\ expired \in BOOLEAN /\ Cancelled \in BOOLEAN
      /\ attempt # 0 <=> pc \in {"check", "get", "prepare", "send"}
  BY DEF TypeOK, BatcherOK, Cancelled
<1>1. Cancelled' = Cancelled
  BY DEF Batcher, Receive, TickerFires, HealthTick, PingReturns, Exit, CheckCtx, StepOk, SendOk,
         GetFails, PrepareFails, SendFails, AttemptFails, RequeueNext, Deadline, Cancelled
<1>2. ASSUME pc \in {"select", "ping"}, pc' = "check", attempt' = 1
      PROVE  Inserting!Begin
  <2>1. Stage = "idle" /\ Stage' = "check" BY <1>2 DEF Stage
  <2>2. CtxEnded' \in BOOLEAN BY Zenon DEF CtxEnded
  <2> QED BY <1>2, <2>1, <2>2 DEF Inserting!Begin
<1>3. ASSUME Stage' = "idle", attempt' = 0, Stage # "idle"
      PROVE  Inserting!Return
  <2>1. CtxEnded' = FALSE BY <1>3 DEF CtxEnded
  <2> QED BY <1>3, <2>1 DEF Inserting!Return
<1>4. CASE Receive \/ TickerFires \/ Exit
  <2>1. /\ pc = "select"
        /\ (pc' \in {"select", "exited"} /\ attempt' = attempt) \/ (pc' = "check" /\ attempt' = 1)
    BY <1>4 DEF Receive, TickerFires, Exit, StartFlush, At
  <2>2. CASE pc' = "check" /\ attempt' = 1 BY <1>2, <2>1, <2>2 DEF Inserting!Next
  <2>3. CASE pc' \in {"select", "exited"} /\ attempt' = attempt
    BY <2>1, <2>3 DEF Stage, CtxEnded
  <2> QED BY <2>1, <2>2, <2>3
<1>5. CASE HealthTick \/ PingReturns \/ RequeueNext
  <2>1. pc \in {"select", "ping", "requeue"} /\ pc' \in {"select", "ping", "requeue", "exited"}
    BY <1>5 DEF HealthTick, PingReturns, RequeueNext, Return, At
  <2>2. attempt' = attempt
    BY <1>0, <1>5 DEF HealthTick, PingReturns, RequeueNext, Return, At
  <2> QED BY <2>1, <2>2 DEF Stage, CtxEnded
<1>6. CASE CheckCtx
  <2>1. pc = "check" /\ Stage = "check" BY <1>6 DEF CheckCtx, At, Stage
  <2>2. CASE CtxErr = "none"
    <3>1. pc' = "get" /\ attempt' = attempt /\ expired' = expired /\ ~expired /\ ~Cancelled
      BY <1>6, <2>2 DEF CheckCtx, CtxErr
    <3>2. Stage' = "trying" /\ CtxEnded = FALSE /\ CtxEnded' = FALSE
      BY <1>1, <3>1 DEF Stage, CtxEnded
    <3> QED BY <2>1, <3>1, <3>2 DEF Inserting!Next, Inserting!Try
  <2>3. CASE CtxErr # "none"
    <3>1. CtxEnded BY <2>1, <2>3 DEF CtxErr, CtxEnded
    <3>2. attempt' = 0 /\ pc' \in {"select", "exited", "requeue"}
      BY <1>6, <2>3 DEF CheckCtx, GiveUp, Return, StartRequeue
    <3>3. Stage' = "idle" BY <3>2 DEF Stage
    <3> QED BY <1>3, <2>1, <3>1, <3>2, <3>3 DEF Inserting!Next, Inserting!Refused
  <2> QED BY <2>2, <2>3
<1>7. CASE StepOk
  <2>1. pc \in {"get", "prepare"} /\ pc' \in {"prepare", "send"} /\ UNCHANGED <<attempt, expired>>
    BY <1>7 DEF StepOk, At
  <2> QED BY <1>1, <2>1 DEF Stage, CtxEnded
<1>8. CASE SendOk
  <2>1. pc = "send" /\ pc' \in {"select", "exited"} /\ attempt' = 0 BY <1>8 DEF SendOk, Return, At
  <2>2. Stage = "trying" /\ Stage' = "idle" BY <2>1 DEF Stage
  <2> QED BY <1>3, <2>1, <2>2 DEF Inserting!Next, Inserting!Succeeds
<1>9. CASE GetFails \/ PrepareFails \/ SendFails
  <2>1. AttemptFails /\ pc \in {"get", "prepare", "send"}
    BY <1>9 DEF GetFails, PrepareFails, SendFails, At
  <2>2. Stage = "trying" BY <2>1 DEF Stage
  <2>3. CASE attempt < Attempts
    <3>1. pc' = "check" /\ attempt' = attempt + 1 /\ expired' = expired
      BY <2>1, <2>3 DEF AttemptFails
    <3>2. Stage' = "check" /\ CtxEnded' = CtxEnded BY <1>1, <2>2, <3>1 DEF Stage, CtxEnded
    <3> QED BY <2>2, <2>3, <3>1, <3>2 DEF Inserting!Next, Inserting!Fails
  <2>4. CASE ~(attempt < Attempts)
    <3>1. attempt' = 0 /\ pc' \in {"select", "exited"} BY <2>1, <2>4 DEF AttemptFails, GiveUp, Return
    <3>2. attempt = Attempts BY <1>0, <2>4 DEF Attempts
    <3>3. Stage' = "idle" BY <3>1 DEF Stage
    <3> QED BY <1>3, <2>2, <3>1, <3>2, <3>3 DEF Inserting!Next, Inserting!Fails
  <2> QED BY <2>3, <2>4
<1>10. CASE Deadline
  <2>1. /\ pc' = pc /\ attempt' = attempt /\ expired' = TRUE /\ ~expired /\ ~Cancelled
        /\ pc \in {"check", "get", "prepare", "send"}
    BY <1>10 DEF Deadline, Cancelled
  <2>2. /\ Stage' = Stage /\ Stage # "idle" /\ ~CtxEnded /\ CtxEnded' = TRUE
    BY <2>1 DEF Stage, CtxEnded
  <2> QED BY <2>1, <2>2 DEF Inserting!Next, Inserting!CtxEnds
<1> QED BY <1>4, <1>5, <1>6, <1>7, <1>8, <1>9, <1>10 DEF Batcher

\* The write path goes through InsertBatch as InsertAttempts says: no attempt
\* begins once the context has ended, by the deadline or by the signal, the next
\* one follows a failure, and there are three at most (main.go:235-291).
THEOREM FlushesAttempt == Spec => ImplementsAttempts
<1>1. Init => Inserting!Init
  BY DEF Init, Inserting!Init, Stage, CtxEnded
<1>2. TypeOK /\ [Next]_vars => [Inserting!Next]_<<Stage, attempt, CtxEnded>>
  <2> SUFFICES ASSUME TypeOK, [Next]_vars PROVE [Inserting!Next]_<<Stage, attempt, CtxEnded>>
    OBVIOUS
  <2>1. CASE Batcher BY <2>1, BatcherAttempts
  <2>2. CASE \E c \in Calls : Begin(c) \/ Handler(c)
    <3>1. UNCHANGED <<pc, attempt, expired, main>>
      BY <2>2, HandlerPushes DEF TypeOK, batcherVars
    <3> QED BY <3>1 DEF Stage, CtxEnded, Cancelled
  <2>3. CASE Elsewhere
    <3>1. UNCHANGED <<pc, attempt, expired>> /\ (Cancelled => Cancelled')
      BY <2>3, ElsewhereKeeps DEF batcherVars
    <3>2. Stage' = Stage BY <3>1 DEF Stage
    <3>3. CtxEnded' = CtxEnded \/ (Stage # "idle" /\ ~CtxEnded /\ CtxEnded' = TRUE)
      BY <3>1, <3>2 DEF CtxEnded
    <3> QED BY <3>1, <3>2, <3>3 DEF Inserting!Next, Inserting!CtxEnds
  <2> QED BY <2>1, <2>2, <2>3 DEF Next, Stopped, Elsewhere
<1> QED BY <1>1, <1>2, TypeCorrect, PTL DEF Spec, ImplementsAttempts, Inserting!Spec, Inserting!vars
=============================================================================
