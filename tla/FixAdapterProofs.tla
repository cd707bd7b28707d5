--------------------------- MODULE FixAdapterProofs ---------------------------
(***************************************************************************)
(* Theorems about FixAdapter, for any number of FIX sessions, any size of  *)
(* the pools and any depth of the recursion.                               *)
(***************************************************************************)
EXTENDS FixAdapter, FiniteSetTheorems, TLAPS

\* The queue is as large as the pool, and the size is a number.
LEMMA Sizes == getMaxSize \in Nat /\ QueueSize = getMaxSize /\ getMaxSize > 0
<1>1. \A m, n \in Nat \ {0} : m * n \in Nat /\ m * n > 0
  OBVIOUS
<1> QED BY <1>1, RouterAssumption DEF getMaxSize, QueueSize

\* The number of sessions with a buffer.
LEMMA HoldingType ==
    ASSUME NEW S \in SUBSET Sessions
    PROVE  /\ IsFiniteSet(S) /\ Cardinality(S) \in Nat
           /\ S # {} => Cardinality(S) > 0
<1>1. IsFiniteSet(S) /\ Cardinality(S) \in Nat
  BY SessionsAssumption, FS_Subset, FS_CardinalityType
<1>2. S # {} => Cardinality(S) # 0
  BY <1>1, FS_EmptySet
<1> QED BY <1>1, <1>2

\* A session gets a buffer, or gives it up.
LEMMA HoldingAdd ==
    ASSUME NEW S \in SUBSET Sessions, NEW s \in Sessions, s \notin S
    PROVE  Cardinality(S \cup {s}) = Cardinality(S) + 1
BY HoldingType, FS_AddElement

LEMMA HoldingRemove ==
    ASSUME NEW S \in SUBSET Sessions, NEW s \in S
    PROVE  Cardinality(S \ {s}) = Cardinality(S) - 1
BY HoldingType, FS_RemoveElement

\* What is inductive; that there is room follows from it.
CoreInv == TypeOK /\ ThreadsKnown /\ BuffersAccounted

LEMMA RoomLeft == CoreInv => ProduceNeverBlocks
<1> SUFFICES ASSUME CoreInv PROVE ProduceNeverBlocks
  OBVIOUS
<1> USE DEF CoreInv, BuffersAccounted
<1>1. /\ reqPool \in Nat /\ respPool \in Nat /\ lost.req \in Nat /\ lost.resp \in Nat
      /\ Len(reqQueue) \in Nat /\ Len(batch) \in Nat /\ Len(respQueue) \in Nat
  BY Sizes DEF TypeOK
<1>2. Cardinality(Holding) \in Nat /\ (Holding # {} => Cardinality(Holding) > 0)
  BY HoldingType DEF Holding
<1>3. Holding # {} => Len(reqQueue) < QueueSize
  BY <1>1, <1>2, Sizes DEF RequestBuffers
<1>4. ReaderHolds => Len(respQueue) < QueueSize
  BY <1>1, Sizes DEF ResponseBuffers
<1> QED BY <1>3, <1>4 DEF ProduceNeverBlocks

\* All buffers are in the pools at the start.
LEMMA CoreInit == Init => CoreInv
<1> SUFFICES ASSUME Init PROVE CoreInv
  OBVIOUS
<1> USE DEF Init
<1>1. TypeOK
  <2>1. reqPool \in 0..getMaxSize /\ respPool \in 0..getMaxSize
    BY Sizes
  <2>2. /\ batch \in Seq(Requests) /\ reqQueue \in Seq(Requests) /\ done \in 0..Len(batch)
        /\ respQueue \in Seq(Headers \ {"none"})
    OBVIOUS
  <2>3. /\ depth \in [IOThreads -> 0..MaxDepth] /\ received \in 0..MaxRequests
        /\ held \in [Sessions -> 0..MaxRequests] /\ sent \in [Sessions -> 0..MaxRequests]
    BY BoundAssumption
  <2>4. lost \in [req : Nat, resp : Nat] /\ header \in Headers /\ handling \in Headers
    BY DEF Headers
  <2>5. pc \in [Threads -> Labels]
    BY DEF Labels
  <2> QED BY <2>1, <2>2, <2>3, <2>4, <2>5 DEF TypeOK
<1>2. ThreadsKnown
  BY DEF ThreadsKnown, Threads, IOThreads
<1>3. RequestBuffers
  <2>1. Holding = {}
    BY DEF Holding
  <2> QED BY <2>1, FS_EmptySet, Sizes DEF RequestBuffers
<1>4. ResponseBuffers
  BY Sizes DEF ResponseBuffers, ReaderHolds, Threads, IOThreads
<1> QED BY <1>1, <1>2, <1>3, <1>4 DEF CoreInv, BuffersAccounted

\* What a step does not touch stays accounted for.
LEMMA RequestsKept ==
    ASSUME RequestBuffers, UNCHANGED <<reqPool, held, reqQueue, batch>>, lost'.req = lost.req
    PROVE  RequestBuffers'
BY DEF RequestBuffers, Holding

LEMMA ResponsesKept ==
    ASSUME ResponseBuffers, UNCHANGED <<respPool, respQueue, handling>>,
           ReaderHolds' <=> ReaderHolds, lost'.resp = lost.resp
    PROVE  ResponseBuffers'
BY DEF ResponseBuffers

LEMMA ReaderKept ==
    ASSUME UNCHANGED <<pc, depth>>
    PROVE  ReaderHolds' <=> ReaderHolds
BY DEF ReaderHolds

-------------------------------------------------------------------------------
(* The steps of each part keep CoreInv.                                    *)

\* connect() does not change whether the reader has a buffer; an exception that
\* ends the reader drops it.
LEMMA ConnectStep ==
    ASSUME CoreInv, NEW t \in IOThreads, Connect(t)
    PROVE  CoreInv'
<1> USE DEF CoreInv, BuffersAccounted
<1>0. t \in Threads /\ t \in {"writer", "reader"} /\ "reader" \in Threads /\ "main" \in Threads
      /\ t # "main" /\ depth[t] \in 0..MaxDepth /\ MaxDepth \in Nat
  BY BoundAssumption DEF IOThreads, Threads, TypeOK
<1>1. CASE ConnectNothing(t) \/ ConnectOk(t)
  <2>1. /\ pc[t] \in {"connect", "attempt"} /\ Go(t, After(t))
        /\ header' = header \/ (header = "fresh" /\ header' = "stale")
        /\ UNCHANGED <<depth, requests, writing, respPool, respQueue, handling, lost>>
    BY <1>1 DEF ConnectNothing, ConnectOk, responses
  <2>2. TypeOK'
    <3>1. After(t) \in {"consume", "send", "allocate", "header", "body"}
      BY <1>0 DEF After
    <3>2. pc' = [pc EXCEPT ![t] = After(t)]
      BY <2>1 DEF Go
    <3>3. socket' \in {"closed", "open", "up"} /\ lock' \in IOThreads \cup {"free"}
      BY <1>1 DEF ConnectNothing, ConnectOk, connector, TypeOK
    <3>4. pc' \in [Threads -> Labels]
      BY <1>0, <3>1, <3>2 DEF TypeOK, Labels
    <3> QED BY <2>1, <3>3, <3>4 DEF TypeOK, requests, writing, Headers
  <2>3. ThreadsKnown'
    BY <1>0, <2>1 DEF TypeOK, ThreadsKnown, After, Go, writing
  <2>4. ReaderHolds' <=> ReaderHolds
    BY <1>0, <2>1 DEF TypeOK, ReaderHolds, After, Go
  <2>5. RequestBuffers' /\ ResponseBuffers'
    BY <2>1, <2>4, RequestsKept, ResponsesKept DEF requests, writing
  <2> QED BY <2>2, <2>3, <2>5
<1>2. CASE ConnectResolve(t) \/ ConnectFails(t) \/ ResolveThrows(t)
  <2>1. PICK l \in {"attempt", "exited", "unwind"} :
           /\ pc[t] \in {"connect", "attempt"} /\ pc' = [pc EXCEPT ![t] = l]
           /\ (l = "exited" => depth[t] = 0) /\ (l = "unwind" => depth[t] > 0)
    <3>1. CASE ConnectResolve(t)
      BY <3>1 DEF ConnectResolve, Go
    <3>2. CASE ConnectFails(t)
      BY <1>0, <3>2 DEF ConnectFails, TypeOK
    <3>3. CASE ResolveThrows(t)
      <4>1. CASE depth[t] = 0
        BY <3>3, <4>1 DEF ResolveThrows, Go
      <4>2. CASE depth[t] > 0
        BY <1>0, <3>3, <4>2 DEF ResolveThrows, Go
      <4> QED BY <1>0, <4>1, <4>2
    <3> QED BY <1>2, <3>1, <3>2, <3>3
  <2>2. UNCHANGED <<depth, requests, writing, responses, lost>>
    BY <1>2 DEF ConnectResolve, ConnectFails, ResolveThrows
  <2>3. TypeOK'
    <3>1. pc' \in [Threads -> Labels]
      BY <1>0, <2>1 DEF TypeOK, Labels
    <3>2. socket' \in {"closed", "open", "up"} /\ lock' \in IOThreads \cup {"free"}
      BY <1>2 DEF ConnectResolve, ConnectFails, ResolveThrows, connector, TypeOK
    <3> QED BY <2>2, <3>1, <3>2 DEF requests, writing, responses, TypeOK
  <2>4. ThreadsKnown'
    BY <1>0, <2>1, <2>2 DEF TypeOK, ThreadsKnown, responses, writing
  <2>5. ReaderHolds' <=> ReaderHolds
    BY <1>0, <2>1, <2>2 DEF TypeOK, ReaderHolds
  <2>6. RequestBuffers' /\ ResponseBuffers'
    BY <2>2, <2>5, RequestsKept, ResponsesKept DEF requests, writing, responses
  <2> QED BY <2>3, <2>4, <2>6
<1>3. CASE Unwind(t)
  <2>1. /\ pc[t] = "unwind" /\ depth[t] > 0
        /\ depth' = [depth EXCEPT ![t] = depth[t] - 1]
        /\ pc' = [pc EXCEPT ![t] = IF depth[t] = 1 THEN "exited" ELSE "unwind"]
        /\ lost' = IF depth[t] = 1 /\ t = "reader" THEN [lost EXCEPT !.resp = lost.resp + 1] ELSE lost
        /\ socket' = "closed" /\ lock' = lock
        /\ UNCHANGED <<requests, writing, responses>>
    BY <1>3 DEF Unwind, Go, ThreadsKnown, disconnect
  <2>2. TypeOK'
    <3>1. depth' \in [IOThreads -> 0..MaxDepth]
      <4>1. depth[t] - 1 \in 0..MaxDepth
        BY <1>0, <2>1
      <4> QED BY <2>1, <4>1 DEF TypeOK
    <3>3. lost' \in [req : Nat, resp : Nat]
      <4>1. lost \in [req : Nat, resp : Nat]
        BY DEF TypeOK
      <4>2. lost' = lost \/ lost' = [lost EXCEPT !.resp = lost.resp + 1]
        BY <2>1
      <4> QED BY <4>1, <4>2
    <3>2. pc' \in [Threads -> Labels]
      BY <1>0, <2>1 DEF TypeOK, Labels
    <3> QED BY <2>1, <3>1, <3>2, <3>3 DEF TypeOK, requests, writing, responses
  <2>3. ThreadsKnown'
    BY <1>0, <2>1 DEF TypeOK, ThreadsKnown, responses, writing
  <2>4. RequestBuffers'
    BY <2>1, RequestsKept DEF TypeOK, requests, writing
  <2>5. ResponseBuffers'
    <3>1. CASE t = "reader" /\ depth[t] = 1
      <4>1. ReaderHolds /\ ~ReaderHolds' /\ lost'.resp = lost.resp + 1
        BY <1>0, <2>1, <3>1 DEF TypeOK, ReaderHolds
      <4>2. /\ respPool \in Nat /\ Len(respQueue) \in Nat /\ lost.resp \in Nat
            /\ UNCHANGED <<respPool, respQueue, handling>>
        BY <2>1, Sizes DEF TypeOK, responses
      <4> QED BY <4>1, <4>2 DEF ResponseBuffers
    <3>2. CASE ~(t = "reader" /\ depth[t] = 1)
      <4>1. ReaderHolds' <=> ReaderHolds
        BY <1>0, <2>1, <3>2 DEF TypeOK, ReaderHolds
      <4> QED BY <2>1, <3>2, <4>1, ResponsesKept DEF responses
    <3> QED BY <3>1, <3>2
  <2> QED BY <2>2, <2>3, <2>4, <2>5
<1> QED BY <1>1, <1>2, <1>3 DEF Connect

\* A buffer goes from the pool to a session and from there to the queue, or is
\* lost.
LEMMA SessionStep ==
    ASSUME CoreInv, NEW s \in Sessions, Session(s)
    PROVE  CoreInv'
<1> USE DEF CoreInv, BuffersAccounted
<1>1. UNCHANGED <<connector, pc, depth, writing, responses>> /\ lost'.resp = lost.resp
  BY DEF Session, Allocate, AllocateFails, Produce, ConvertThrows, TypeOK
<1>2. ThreadsKnown' /\ ResponseBuffers'
  BY <1>1, ReaderKept, ResponsesKept DEF ThreadsKnown, responses, writing
<1>3. /\ Holding \in SUBSET Sessions /\ Cardinality(Holding) \in Nat
      /\ reqPool \in Nat /\ Len(reqQueue) \in Nat /\ Len(batch) \in Nat /\ lost.req \in Nat
  BY HoldingType, Sizes DEF Holding, TypeOK
<1>4. CASE Allocate(s)
  <2>1. TypeOK'
    <3>1. received' \in 0..MaxRequests /\ held' \in [Sessions -> 0..MaxRequests] /\ reqPool' \in 0..getMaxSize
      BY <1>4, Sizes, BoundAssumption DEF Allocate, TypeOK
    <3> QED BY <1>1, <1>4, <3>1 DEF Allocate, TypeOK, connector, writing, responses
  <2>2. Holding' = Holding \cup {s} /\ s \notin Holding
    BY <1>4, BoundAssumption DEF Allocate, Holding, TypeOK
  <2>3. Cardinality(Holding') = Cardinality(Holding) + 1
    BY <1>3, <2>2, HoldingAdd
  <2>4. RequestBuffers'
    BY <1>3, <1>4, <2>3 DEF Allocate, RequestBuffers, writing
  <2> QED BY <1>2, <2>1, <2>4
<1>5. CASE AllocateFails(s)
  <2>1. TypeOK'
    BY <1>5, BoundAssumption DEF AllocateFails, TypeOK, connector, writing, responses
  <2>2. RequestBuffers'
    BY <1>5, RequestsKept DEF AllocateFails, writing
  <2> QED BY <1>2, <2>1, <2>2
<1>6. CASE Produce(s) \/ ConvertThrows(s)
  <2>1. /\ s \in Holding /\ held' = [held EXCEPT ![s] = 0] /\ UNCHANGED <<reqPool, batch, received>>
    BY <1>6 DEF Produce, ConvertThrows, Holding, writing
  <2>2. Holding' = Holding \ {s}
    BY <2>1 DEF Holding, TypeOK
  <2>3. Cardinality(Holding') = Cardinality(Holding) - 1
    BY <1>3, <2>1, <2>2, HoldingRemove
  <2>4. /\ reqQueue' \in Seq(Requests) /\ lost' \in [req : Nat, resp : Nat]
        /\ Len(reqQueue') + lost'.req = Len(reqQueue) + lost.req + 1
    <3>1. <<s, held[s]>> \in Requests
      BY <2>1, BoundAssumption DEF Requests, Holding, TypeOK
    <3>2. CASE Produce(s)
      BY <1>3, <3>1, <3>2 DEF Produce, TypeOK
    <3>3. CASE ConvertThrows(s)
      <4>1. /\ lost \in [req : Nat, resp : Nat] /\ lost' = [lost EXCEPT !.req = lost.req + 1]
            /\ reqQueue' = reqQueue /\ reqQueue \in Seq(Requests)
        BY <3>3 DEF ConvertThrows, TypeOK
      <4>2. lost' \in [req : Nat, resp : Nat] /\ lost'.req = lost.req + 1
        BY <4>1
      <4> QED BY <1>3, <4>1, <4>2
    <3> QED BY <1>6, <3>2, <3>3
  <2>5. TypeOK'
    BY <1>1, <2>1, <2>4, BoundAssumption DEF TypeOK, connector, writing, responses
  <2>6. RequestBuffers'
    <3>1. Len(reqQueue') \in Nat /\ lost'.req \in Nat
      BY <2>4
    <3>2. /\ reqPool' = reqPool /\ Len(batch') = Len(batch)
          /\ Cardinality(Holding') = Cardinality(Holding) - 1
          /\ Len(reqQueue') + lost'.req = Len(reqQueue) + lost.req + 1
          /\ reqPool + Cardinality(Holding) + Len(reqQueue) + Len(batch) + lost.req = getMaxSize
      BY <2>1, <2>3, <2>4 DEF RequestBuffers
    <3>3. reqPool' + Cardinality(Holding') + Len(reqQueue') + Len(batch') + lost'.req = getMaxSize
      <4>1. Cardinality(Holding') \in Int
        BY <1>3, <2>3
      <4>2. reqPool + Cardinality(Holding') + Len(reqQueue') + Len(batch) + lost'.req = getMaxSize
        <5> DEFINE h == Cardinality(Holding)  h1 == Cardinality(Holding')
                   q == Len(reqQueue)  q1 == Len(reqQueue')  b == Len(batch)
        <5>1. /\ h \in Nat /\ q \in Nat /\ b \in Nat /\ h1 \in Int /\ q1 \in Nat
              /\ reqPool + h + q + b + lost.req = getMaxSize /\ h1 = h - 1
              /\ q1 + lost'.req = q + lost.req + 1 /\ reqPool \in Nat /\ lost.req \in Nat /\ lost'.req \in Nat
          BY <1>3, <3>1, <3>2, <4>1
        <5> HIDE DEF h, h1, q, q1, b
        <5>2. reqPool + h1 + q1 + b + lost'.req = getMaxSize
          BY <5>1, Sizes
        <5> QED BY <5>2 DEF h, h1, q, q1, b
      <4> QED BY <3>2, <4>2
    <3> QED BY <3>3 DEF RequestBuffers
  <2> QED BY <1>2, <2>5, <2>6
<1> QED BY <1>4, <1>5, <1>6 DEF Session

\* Sums of the lengths of the queue and the batch: what the writer pops it has.
LEMMA Popped ==
    ASSUME NEW q \in Seq(Requests), q # <<>>, NEW b \in Seq(Requests)
    PROVE  /\ Head(q) \in Requests /\ Tail(q) \in Seq(Requests)
           /\ Append(b, Head(q)) \in Seq(Requests) /\ <<Head(q)>> \in Seq(Requests)
           /\ Len(Tail(q)) = Len(q) - 1 /\ Len(Append(b, Head(q))) = Len(b) + 1
           /\ Len(<<Head(q)>>) = 1
OBVIOUS

\* The writer moves buffers from the queue to its batch and back to the pool.
LEMMA WriterStep ==
    ASSUME CoreInv, Writer
    PROVE  CoreInv'
<1> USE DEF CoreInv, BuffersAccounted
<1>0. /\ "writer" \in Threads /\ "reader" \in Threads /\ "main" \in Threads
      /\ "writer" \in IOThreads /\ MaxDepth \in Nat /\ MaxDepth > 0
  BY BoundAssumption DEF IOThreads, Threads
<1>1. /\ UNCHANGED <<connector, received, held, responses, lost>> /\ pc["writer"] # "unwind"
      /\ \E l \in {"consume", "wait", "send", "connect"} : pc' = [pc EXCEPT !["writer"] = l]
      /\ \E d \in 0..MaxDepth : depth' = [depth EXCEPT !["writer"] = d]
  <2>1. pc = [pc EXCEPT !["writer"] = pc["writer"]] /\ depth = [depth EXCEPT !["writer"] = depth["writer"]]
        /\ depth["writer"] \in 0..MaxDepth
    BY <1>0 DEF TypeOK
  <2>2. CASE TryPop
    BY <2>1, <2>2 DEF TryPop
  <2>3. CASE TryPopFails
    BY <2>1, <2>3 DEF TryPopFails, Go, requests
  <2>4. CASE PopBlocking
    BY <2>1, <2>4 DEF PopBlocking, Go
  <2>5. CASE Write
    BY <2>1, <2>5 DEF Write, requests
  <2>6. CASE WriteFails
    <3>1. (IF depth["writer"] < MaxDepth THEN depth["writer"] + 1 ELSE depth["writer"]) \in 0..MaxDepth
      BY <1>0, <2>1
    <3> QED BY <2>1, <2>6, <3>1 DEF WriteFails, Go, Deeper, requests
  <2>7. CASE Delocate
    <3>1. 0 \in 0..MaxDepth
      BY <1>0
    <3> QED BY <2>1, <2>7, <3>1 DEF Delocate, Go, Return
  <2> QED BY <2>2, <2>3, <2>4, <2>5, <2>6, <2>7 DEF Writer
<1>2. /\ pc' \in [Threads -> Labels] /\ depth' \in [IOThreads -> 0..MaxDepth]
      /\ pc'["reader"] = pc["reader"] /\ pc'["main"] = pc["main"]
      /\ depth'["reader"] = depth["reader"] /\ pc'["writer"] # "unwind"
  BY <1>0, <1>1 DEF TypeOK, Labels, IOThreads
<1>3. ThreadsKnown'
  <2>1. pc'["writer"] = "wait" => batch' = <<>>
    BY <1>0 DEF Writer, TryPop, TryPopFails, PopBlocking, Write, WriteFails, Delocate, Go, writing,
                TypeOK
  <2> QED BY <1>1, <1>2, <2>1 DEF ThreadsKnown, responses, IOThreads
<1>4. ResponseBuffers'
  <2>1. ReaderHolds' <=> ReaderHolds
    BY <1>2 DEF ReaderHolds
  <2> QED BY <1>1, <2>1, ResponsesKept DEF responses
<1>5. /\ Cardinality(Holding) \in Nat /\ Holding' = Holding /\ lost'.req = lost.req
      /\ reqPool \in Nat /\ lost.req \in Nat
      /\ reqQueue \in Seq(Requests) /\ batch \in Seq(Requests)
      /\ Len(reqQueue) \in Nat /\ Len(batch) \in Nat /\ done \in 0..Len(batch)
      /\ \A n \in 1..Len(batch) : batch[n] \in Requests
  BY <1>1, HoldingType, Sizes DEF Holding, TypeOK
\* What is left to show of each step.
<1>6. ASSUME reqQueue' \in Seq(Requests), batch' \in Seq(Requests), done' \in 0..Len(batch'),
             sent' \in [Sessions -> 0..MaxRequests], reqPool' \in Nat,
             reqPool' + Len(reqQueue') + Len(batch') = reqPool + Len(reqQueue) + Len(batch)
      PROVE  CoreInv'
  <2> DEFINE h == Cardinality(Holding)  q == Len(reqQueue)  b == Len(batch)
             q1 == Len(reqQueue')  b1 == Len(batch')
  <2>1. /\ h \in Nat /\ q \in Nat /\ b \in Nat /\ q1 \in Nat /\ b1 \in Nat
        /\ reqPool \in Nat /\ reqPool' \in Nat /\ lost.req \in Nat
        /\ reqPool + h + q + b + lost.req = getMaxSize
        /\ reqPool' + q1 + b1 = reqPool + q + b
    BY <1>5, <1>6 DEF RequestBuffers
  <2> HIDE DEF h, q, b, q1, b1
  <2>2. reqPool' + h + q1 + b1 + lost.req = getMaxSize
    <3>1. reqPool + h + q + b + lost.req = h + lost.req + (reqPool + q + b)
      BY <2>1
    <3>2. reqPool' + h + q1 + b1 + lost.req = h + lost.req + (reqPool' + q1 + b1)
      BY <2>1
    <3> QED BY <2>1, <3>1, <3>2
  <2>5. reqPool' \in 0..getMaxSize
    BY <2>1, <2>2, Sizes
  <2>3. RequestBuffers'
    BY <1>5, <2>2 DEF RequestBuffers, h, q1, b1
  <2>4. TypeOK'
    BY <1>1, <1>2, <1>6, <2>5 DEF TypeOK, connector, responses
  <2> QED BY <1>3, <1>4, <2>3, <2>4
<1>7. CASE TryPop
  <2>1. /\ reqQueue # <<>> /\ batch' = Append(batch, Head(reqQueue)) /\ reqQueue' = Tail(reqQueue)
        /\ UNCHANGED <<reqPool, done, sent>>
    BY <1>7 DEF TryPop
  <2>2. /\ reqQueue' \in Seq(Requests) /\ batch' \in Seq(Requests)
        /\ Len(reqQueue') = Len(reqQueue) - 1 /\ Len(batch') = Len(batch) + 1
    BY <1>5, <2>1, Popped
  <2> QED BY <1>5, <1>6, <2>1, <2>2 DEF TypeOK
<1>8. CASE PopBlocking
  <2>1. /\ reqQueue # <<>> /\ batch' = <<Head(reqQueue)>> /\ reqQueue' = Tail(reqQueue)
        /\ UNCHANGED <<reqPool, done, sent>> /\ batch = <<>>
    BY <1>8 DEF PopBlocking, ThreadsKnown
  <2>2. /\ reqQueue' \in Seq(Requests) /\ batch' \in Seq(Requests)
        /\ Len(reqQueue') = Len(reqQueue) - 1 /\ Len(batch') = 1 /\ Len(batch) = 0
    BY <1>5, <2>1, Popped
  <2> QED BY <1>5, <1>6, <2>1, <2>2 DEF TypeOK
<1>9. CASE Write
  <2>1. batch[done + 1] \in Requests /\ done' \in 0..Len(batch)
    BY <1>5, <1>9 DEF Write
  <2>2. sent' \in [Sessions -> 0..MaxRequests]
    <3>1. batch[done + 1][2] \in 0..MaxRequests
      BY <2>1, BoundAssumption DEF Requests
    <3> QED BY <1>9, <3>1 DEF Write, TypeOK
  <2> QED BY <1>5, <1>6, <1>9, <2>1, <2>2 DEF Write, requests
<1>10. CASE TryPopFails
  BY <1>5, <1>6, <1>10 DEF TryPopFails, requests, writing, TypeOK
<1>11. CASE WriteFails
  BY <1>5, <1>6, <1>11 DEF WriteFails, requests, TypeOK
<1>12. CASE Delocate
  <2>1. reqPool' = reqPool + Len(batch) /\ batch' = <<>> /\ done' = 0 /\ UNCHANGED <<reqQueue, sent>>
    BY <1>12 DEF Delocate
  <2>2. Len(batch') = 0 /\ batch' \in Seq(Requests)
    BY <2>1
  <2> QED BY <1>5, <1>6, <2>1, <2>2 DEF TypeOK
<1> QED BY <1>7, <1>8, <1>9, <1>10, <1>11, <1>12 DEF Writer

\* What a step of the reader or the manager has to show of its own.
LEMMA ResponseFrame ==
    ASSUME CoreInv, UNCHANGED <<connector, requests, writing>>, lost'.req = lost.req,
           pc' \in [Threads -> Labels], depth' \in [IOThreads -> 0..MaxDepth],
           respPool' \in 0..getMaxSize, header' \in Headers, handling' \in Headers,
           respQueue' \in Seq(Headers \ {"none"}), lost' \in [req : Nat, resp : Nat]
    PROVE  TypeOK' /\ RequestBuffers'
BY RequestsKept DEF CoreInv, BuffersAccounted, TypeOK, connector, requests, writing

LEMMA ReaderStep ==
    ASSUME CoreInv, Reader
    PROVE  CoreInv'
<1> USE DEF CoreInv, BuffersAccounted
<1>0. /\ "reader" \in Threads /\ "writer" \in Threads /\ "main" \in Threads
      /\ "reader" \in IOThreads /\ MaxDepth \in Nat /\ MaxDepth > 0
      /\ depth["reader"] \in 0..MaxDepth /\ respPool \in 0..getMaxSize /\ getMaxSize \in Nat
      /\ Len(respQueue) \in Nat /\ lost.resp \in Nat /\ lost \in [req : Nat, resp : Nat]
      /\ respQueue \in Seq(Headers \ {"none"}) /\ header \in Headers /\ handling \in Headers
  BY BoundAssumption, Sizes DEF IOThreads, Threads, TypeOK
\* What is left to show of each step.
<1>1. ASSUME NEW l \in {"header", "body", "allocate", "connect"}, NEW d \in 0..MaxDepth,
             pc' = [pc EXCEPT !["reader"] = l], depth' = [depth EXCEPT !["reader"] = d],
             pc["reader"] # "new", l = "body" => header' # "none",
             respPool' \in 0..getMaxSize, header' \in Headers, respQueue' \in Seq(Headers \ {"none"}),
             ResponseBuffers', UNCHANGED <<connector, requests, writing, handling, lost>>
      PROVE  CoreInv'
  <2>1. pc' \in [Threads -> Labels] /\ depth' \in [IOThreads -> 0..MaxDepth]
    BY <1>1 DEF TypeOK, Labels
  <2>2. TypeOK' /\ RequestBuffers'
    BY <1>0, <1>1, <2>1, ResponseFrame
  <2>3. /\ pc'["reader"] = l /\ pc'["main"] = pc["main"] /\ pc'["writer"] = pc["writer"]
        /\ depth'["writer"] = depth["writer"]
    BY <1>0, <1>1 DEF TypeOK, IOThreads
  <2>4. ThreadsKnown'
    BY <1>1, <2>3 DEF ThreadsKnown, IOThreads, writing
  <2> QED BY <1>1, <2>2, <2>4
<1>2. CASE AllocateResponse
  <2>1. /\ pc["reader"] = "allocate" /\ respPool > 0 /\ respPool' = respPool - 1
        /\ pc' = [pc EXCEPT !["reader"] = "header"]
        /\ UNCHANGED <<connector, depth, requests, writing, header, respQueue, handling, lost>>
    BY <1>2 DEF AllocateResponse, Go
  <2>2. ~ReaderHolds /\ ReaderHolds'
    BY <1>0, <2>1 DEF ReaderHolds, TypeOK
  <2>3. ResponseBuffers'
    BY <1>0, <2>1, <2>2 DEF ResponseBuffers
  <2>4. depth' = [depth EXCEPT !["reader"] = depth["reader"]]
    BY <1>0, <2>1 DEF TypeOK
  <2>5. respPool' \in 0..getMaxSize
    BY <1>0, <2>1
  <2> QED BY <1>0, <1>1, <2>1, <2>3, <2>4, <2>5
<1>3. CASE ReadHeader
  <2>1. /\ pc["reader"] = "header" /\ header' = "fresh"
        /\ pc' = [pc EXCEPT !["reader"] = "body"] /\ depth' = [depth EXCEPT !["reader"] = 0]
        /\ UNCHANGED <<connector, requests, writing, respPool, respQueue, handling, lost>>
    BY <1>3 DEF ReadHeader, Go, Return
  <2>2. ReaderHolds /\ ReaderHolds' /\ 0 \in 0..MaxDepth /\ "fresh" \in Headers
    BY <1>0, <2>1 DEF ReaderHolds, TypeOK, Headers
  <2>3. ResponseBuffers'
    BY <2>1, <2>2, ResponsesKept
  <2> QED BY <1>0, <1>1, <2>1, <2>2, <2>3
<1>4. CASE ReadBody
  <2>1. /\ pc["reader"] = "body" /\ header' = "none" /\ respQueue' = Append(respQueue, header)
        /\ pc' = [pc EXCEPT !["reader"] = "allocate"] /\ depth' = [depth EXCEPT !["reader"] = 0]
        /\ UNCHANGED <<connector, requests, writing, respPool, handling, lost>>
    BY <1>4 DEF ReadBody, Go, Return
  <2>2. header \in Headers \ {"none"}
    BY <1>0, <2>1 DEF ThreadsKnown
  <2>3. respQueue' \in Seq(Headers \ {"none"}) /\ Len(respQueue') = Len(respQueue) + 1
    BY <1>0, <2>1, <2>2
  <2>4. ReaderHolds /\ ~ReaderHolds' /\ 0 \in 0..MaxDepth /\ "none" \in Headers
    BY <1>0, <2>1 DEF ReaderHolds, TypeOK, Headers
  <2>5. ResponseBuffers'
    BY <1>0, <2>1, <2>3, <2>4 DEF ResponseBuffers
  <2> QED BY <1>0, <1>1, <2>1, <2>3, <2>4, <2>5
<1>5. CASE ReadFails
  <2> DEFINE d == IF depth["reader"] < MaxDepth THEN depth["reader"] + 1 ELSE depth["reader"]
  <2>1. d \in 0..MaxDepth /\ d > 0 /\ depth' = [depth EXCEPT !["reader"] = d]
    <3>1. d \in 0..MaxDepth /\ d > 0
      BY <1>0
    <3> QED BY <1>5, <3>1 DEF ReadFails, Deeper
  <2> HIDE DEF d
  <2>2. /\ pc["reader"] \in {"header", "body"} /\ pc' = [pc EXCEPT !["reader"] = "connect"]
        /\ UNCHANGED <<connector, requests, writing, responses, lost>>
    BY <1>5 DEF ReadFails, Go
  <2>3. ReaderHolds /\ ReaderHolds'
    BY <1>0, <2>1, <2>2 DEF ReaderHolds, TypeOK
  <2>4. ResponseBuffers'
    BY <2>2, <2>3, ResponsesKept DEF responses
  <2> QED BY <1>0, <1>1, <2>1, <2>2, <2>4 DEF responses
<1> QED BY <1>2, <1>3, <1>4, <1>5 DEF Reader

\* The manager takes a response from the queue and frees its buffer, or loses it.
LEMMA ManagerStep ==
    ASSUME CoreInv, Manager
    PROVE  CoreInv'
<1> USE DEF CoreInv, BuffersAccounted
<1>1. UNCHANGED <<connector, pc, depth, requests, writing, header>> /\ lost'.req = lost.req
  BY DEF Manager, Consume, Manage, ManageThrows, TypeOK
<1>2. /\ respPool \in 0..getMaxSize /\ getMaxSize \in Nat /\ Len(respQueue) \in Nat /\ lost.resp \in Nat
      /\ respQueue \in Seq(Headers \ {"none"}) /\ lost \in [req : Nat, resp : Nat]
      /\ pc \in [Threads -> Labels] /\ depth \in [IOThreads -> 0..MaxDepth]
      /\ header \in Headers /\ handling \in Headers /\ "none" \in Headers
  BY Sizes DEF TypeOK, Headers
<1>3. ThreadsKnown' /\ (ReaderHolds' <=> ReaderHolds)
  BY <1>1, ReaderKept DEF ThreadsKnown, writing
\* What a response is counted as may change, not how many there are.
<1>4. ASSUME Len(respQueue') \in Nat, lost'.resp \in Nat, UNCHANGED respPool,
             Len(respQueue') + (IF handling' # "none" THEN 1 ELSE 0) + lost'.resp
                = Len(respQueue) + (IF handling # "none" THEN 1 ELSE 0) + lost.resp
      PROVE  ResponseBuffers'
  <2> DEFINE r == IF ReaderHolds THEN 1 ELSE 0
             h == IF handling # "none" THEN 1 ELSE 0
             h1 == IF handling' # "none" THEN 1 ELSE 0
             q == Len(respQueue)
             q1 == Len(respQueue')
  <2>1. /\ r \in Nat /\ h \in Nat /\ h1 \in Nat /\ q \in Nat /\ q1 \in Nat /\ respPool \in Nat
        /\ lost.resp \in Nat /\ lost'.resp \in Nat
    BY <1>2, <1>4
  <2>3. q1 + h1 + lost'.resp = q + h + lost.resp
    BY <1>4
  <2>4. respPool + r + q + h + lost.resp = getMaxSize
    BY DEF ResponseBuffers
  <2> HIDE DEF r, h, h1, q, q1
  <2>2. respPool + r + q1 + h1 + lost'.resp = getMaxSize
    <3>1. respPool + r + q + h + lost.resp = respPool + r + (q + h + lost.resp)
      BY <2>1
    <3>2. respPool + r + q1 + h1 + lost'.resp = respPool + r + (q1 + h1 + lost'.resp)
      BY <2>1
    <3> QED BY <2>3, <2>4, <3>1, <3>2
  <2> QED BY <1>3, <1>4, <2>2 DEF ResponseBuffers, r, h1, q1
<1>5. CASE Consume
  <2>1. /\ handling = "none" /\ respQueue # <<>> /\ handling' = Head(respQueue)
        /\ respQueue' = Tail(respQueue) /\ UNCHANGED <<respPool, lost>>
    BY <1>5 DEF Consume
  <2>2. /\ handling' \in Headers \ {"none"} /\ respQueue' \in Seq(Headers \ {"none"})
        /\ Len(respQueue') = Len(respQueue) - 1
    BY <1>2, <2>1
  <2>3. TypeOK' /\ RequestBuffers'
    BY <1>1, <1>2, <2>1, <2>2, ResponseFrame
  <2>4. ResponseBuffers'
    BY <1>2, <1>4, <2>1, <2>2
  <2> QED BY <1>3, <2>3, <2>4
<1>6. CASE Manage
  <2>1. /\ handling # "none" /\ handling' = "none" /\ respPool' = respPool + 1
        /\ UNCHANGED <<respQueue, lost>>
    BY <1>6 DEF Manage
  <2>2. respPool' \in 0..getMaxSize /\ ResponseBuffers'
    <3>1. CASE ReaderHolds
      BY <1>2, <1>3, <2>1, <3>1 DEF ResponseBuffers
    <3>2. CASE ~ReaderHolds
      BY <1>2, <1>3, <2>1, <3>2 DEF ResponseBuffers
    <3> QED BY <3>1, <3>2
  <2>3. TypeOK' /\ RequestBuffers'
    BY <1>1, <1>2, <2>1, <2>2, ResponseFrame
  <2> QED BY <1>3, <2>2, <2>3
<1>7. CASE ManageThrows
  <2>1. /\ handling # "none" /\ handling' = "none" /\ lost' = [lost EXCEPT !.resp = lost.resp + 1]
        /\ UNCHANGED <<respQueue, respPool>>
    BY <1>7 DEF ManageThrows
  <2>2. lost' \in [req : Nat, resp : Nat] /\ lost'.resp = lost.resp + 1
    BY <1>2, <2>1
  <2>3. ResponseBuffers'
    <3>1. Len(respQueue') = Len(respQueue) /\ Len(respQueue') \in Nat
      BY <1>2, <2>1
    <3>2. Len(respQueue) + 0 + (lost.resp + 1) = Len(respQueue) + 1 + lost.resp
      BY <1>2
    <3> QED BY <1>2, <1>4, <2>1, <2>2, <3>1, <3>2
  <2>4. TypeOK' /\ RequestBuffers'
    BY <1>1, <1>2, <2>1, <2>2, ResponseFrame
  <2> QED BY <1>3, <2>3, <2>4
<1> QED BY <1>5, <1>6, <1>7 DEF Manager

\* The main thread starts each thread once and stops none; the peer only
\* touches the socket.
LEMMA MainStep ==
    ASSUME CoreInv, Start \/ Stop \/ PeerCloses
    PROVE  CoreInv'
<1> USE DEF CoreInv, BuffersAccounted
<1>0. /\ "reader" \in Threads /\ "writer" \in Threads /\ "main" \in Threads
      /\ pc \in [Threads -> Labels]
  BY DEF IOThreads, Threads, TypeOK
<1>1. /\ UNCHANGED <<depth, requests, writing, responses, lost>>
      /\ socket' \in {"closed", "open", "up"} /\ lock' = lock
  BY DEF Start, StartAcceptor, StartIO, StartManager, Stop, StopAcceptor, StopIO, disconnect, PeerCloses,
         connector, TypeOK
\* What is left to show of each step.
<1>2. ASSUME pc' \in [Threads -> Labels], ThreadsKnown', ReaderHolds' <=> ReaderHolds
      PROVE  CoreInv'
  <2>1. TypeOK'
    BY <1>1, <1>2 DEF TypeOK, requests, writing, responses
  <2>2. RequestBuffers' /\ ResponseBuffers'
    BY <1>1, <1>2, RequestsKept, ResponsesKept DEF requests, writing, responses
  <2> QED BY <1>2, <2>1, <2>2
<1>3. CASE \/ StartAcceptor \/ StartManager \/ Stop
  <2>1. PICK l \in Labels : /\ pc' = [pc EXCEPT !["main"] = l]
                            /\ l \in {"new", "accepting", "writers"} => pc["main"] = "new"
    BY <1>3 DEF StartAcceptor, StartManager, Stop, StopAcceptor, StopIO, Advance, Go, Labels
  <2>2. /\ pc' \in [Threads -> Labels] /\ pc'["main"] = l
        /\ \A t \in IOThreads : pc'[t] = pc[t]
    BY <1>0, <2>1 DEF IOThreads
  <2>3. ThreadsKnown' /\ (ReaderHolds' <=> ReaderHolds)
    BY <1>1, <2>1, <2>2 DEF ThreadsKnown, ReaderHolds, IOThreads, responses, writing
  <2> QED BY <1>2, <2>2, <2>3
<1>4. CASE StartIO("writer", "accepting", "writers")
  <2>1. /\ pc["main"] = "accepting" /\ pc' \in [Threads -> Labels] /\ pc'["main"] = "writers"
        /\ pc'["writer"] = "connect" /\ pc'["reader"] = pc["reader"]
    BY <1>0, <1>4 DEF StartIO, Labels
  <2>2. ThreadsKnown' /\ (ReaderHolds' <=> ReaderHolds)
    BY <1>1, <2>1 DEF ThreadsKnown, ReaderHolds, IOThreads, responses
  <2> QED BY <1>2, <2>1, <2>2
<1>5. CASE StartIO("reader", "writers", "readers")
  <2>1. /\ pc["main"] = "writers" /\ pc' \in [Threads -> Labels] /\ pc'["main"] = "readers"
        /\ pc'["reader"] = "connect" /\ pc'["writer"] = pc["writer"]
    BY <1>0, <1>5 DEF StartIO, Labels
  <2>2. pc["reader"] = "new" /\ depth["reader"] = 0
    BY <2>1 DEF ThreadsKnown
  <2>3. ThreadsKnown' /\ (ReaderHolds' <=> ReaderHolds)
    BY <1>1, <2>1, <2>2 DEF ThreadsKnown, ReaderHolds, IOThreads, responses, writing
  <2> QED BY <1>2, <2>1, <2>3
<1>6. CASE PeerCloses
  <2>1. UNCHANGED pc
    BY <1>6 DEF PeerCloses
  <2>2. ThreadsKnown' /\ (ReaderHolds' <=> ReaderHolds)
    BY <1>1, <2>1, ReaderKept DEF ThreadsKnown, responses, writing
  <2> QED BY <1>0, <1>2, <2>1, <2>2
<1> QED BY <1>3, <1>4, <1>5, <1>6 DEF Start

LEMMA CoreStep == CoreInv /\ [Next]_vars => CoreInv'
<1> SUFFICES ASSUME CoreInv, [Next]_vars PROVE CoreInv'
  OBVIOUS
<1>1. CASE Next
  BY <1>1, ConnectStep, SessionStep, WriterStep, ReaderStep, ManagerStep, MainStep DEF Next
<1>2. CASE UNCHANGED vars
  <2>1. UNCHANGED <<connector, pc, depth, requests, writing, responses, lost>>
    BY <1>2 DEF vars
  <2>2. TypeOK' /\ ThreadsKnown'
    BY <2>1 DEF CoreInv, TypeOK, ThreadsKnown, connector, requests, writing, responses
  <2>3. RequestBuffers' /\ ResponseBuffers'
    BY <2>1, ReaderKept, RequestsKept, ResponsesKept
       DEF CoreInv, BuffersAccounted, requests, writing, responses
  <2> QED BY <2>2, <2>3 DEF CoreInv, BuffersAccounted
<1> QED BY <1>1, <1>2

\* Every buffer of both routers is accounted for, whatever the connection, the
\* exceptions and the stop do, and a thread that has a buffer to push finds room
\* in the queue (fix_tsI.h, ts_connector.cpp, ts_reader.h, ts_writer.h).
THEOREM BuffersAreAccounted == Spec => []RouterInv
<1>1. CoreInv => RouterInv
  BY RoomLeft DEF CoreInv, RouterInv
<1> QED BY <1>1, CoreInit, CoreStep, PTL DEF Spec

-------------------------------------------------------------------------------
(* Before the stop a connection that is lost is never made again.          *)

\* A thread is past its first connect() if it is in its loop, also when that has
\* failed and calls connect() again.
Past(t) == /\ pc[t] \notin {"new", "attempt", "exited"}
           /\ pc[t] = "connect" => depth[t] > 0

\* Before anybody disconnects a thread past its connect() finds the socket open
\* for ever, so nobody connects again and no exception leaves connect() inside
\* the loops.
ConnectedOnce ==
    /\ pc["main"] \in {"new", "accepting"} => pc["writer"] = "new"
    /\ pc["writer"] = "new" => depth["writer"] = 0
    /\ \A t \in IOThreads : pc[t] = "attempt" => lock = t
    /\ ~Stopping => \A t \in IOThreads :
                        /\ pc[t] # "unwind"
                        /\ Past(t) => /\ socket # "closed"
                                      /\ \A u \in IOThreads : pc[u] # "attempt"

\* A header belongs to a reader past its connect(), so its connection is the last.
HeaderFresh ==
    ~Stopping => /\ header # "stale"
                 /\ header = "fresh" => Past("reader")

\* For each session a number that all requests it has pushed are up to.
Newest == [s \in Sessions |-> IF held[s] = 0 THEN received ELSE held[s] - 1]

Before(r, q) == r[1] = q[1] => r[2] < q[2]

\* Requests of a session are in order, first those in the batch b, then those in
\* the queue q; what was sent last is before all in the queue.
InOrder(b, q, last, newest) ==
    /\ \A s \in Sessions : last[s] <= newest[s]
    /\ \A i \in 1..Len(b) : b[i][2] <= newest[b[i][1]]
    /\ \A i \in 1..Len(q) : last[q[i][1]] < q[i][2] /\ q[i][2] <= newest[q[i][1]]
    /\ \A i, j \in 1..Len(b) : i < j => Before(b[i], b[j])
    /\ \A i, j \in 1..Len(q) : i < j => Before(q[i], q[j])
    /\ \A i \in 1..Len(b), j \in 1..Len(q) : Before(b[i], q[j])

RequestsOrdered ==
    /\ \A s \in Sessions : held[s] <= received
    /\ InOrder(batch, reqQueue, sent, Newest)

\* As long as the connection is up what is left of the batch was not sent before.
BatchUnsent ==
    ~Stopping =>
        /\ ~Past("writer") => batch = <<>>
        /\ socket = "up" => \A i \in (done + 1)..Len(batch) : sent[batch[i][1]] < batch[i][2]

\* The labels and depths of the two threads, for the steps below.
LEMMA ThreadTypes ==
    ASSUME TypeOK
    PROVE  /\ pc \in [Threads -> Labels] /\ depth \in [IOThreads -> 0..MaxDepth]
           /\ MaxDepth \in Nat /\ MaxDepth > 0
           /\ IOThreads = {"writer", "reader"} /\ Threads = {"writer", "reader", "main"}
           /\ \A t \in IOThreads : depth[t] \in Nat
BY BoundAssumption DEF TypeOK, IOThreads, Threads

\* A step within the loop of a thread past its connect(): the socket and the
\* other threads are as they were.
LEMMA LoopStep ==
    ASSUME TypeOK, ConnectedOnce, NEW t \in IOThreads,
           NEW l \in {"consume", "wait", "send", "connect", "allocate", "header", "body"},
           NEW d \in Nat, pc[t] \in {"consume", "wait", "send", "allocate", "header", "body"},
           pc' = [pc EXCEPT ![t] = l], depth' = [depth EXCEPT ![t] = d],
           l = "connect" => d > 0, UNCHANGED connector
    PROVE  ConnectedOnce' /\ Past(t)' /\ \A u \in IOThreads : (Past(u)' <=> Past(u))
<1>1. /\ pc'[t] = l /\ depth'[t] = d /\ pc'["main"] = pc["main"]
      /\ \A u \in IOThreads : u # t => pc'[u] = pc[u] /\ depth'[u] = depth[u]
  BY ThreadTypes
<1>2. Past(t) /\ Past(t)'
  BY <1>1 DEF Past
<1>3. \A u \in IOThreads : (Past(u)' <=> Past(u))
  BY <1>1, <1>2 DEF Past
<1>4. /\ pc'["main"] \in {"new", "accepting"} => pc'["writer"] = "new"
      /\ pc'["writer"] = "new" => depth'["writer"] = 0
  BY <1>1, ThreadTypes DEF ConnectedOnce
<1>5. \A u \in IOThreads : pc'[u] = "attempt" => lock' = u
  BY <1>1 DEF ConnectedOnce, connector
<1>6. ~Stopping' => \A u \in IOThreads :
                        /\ pc'[u] # "unwind"
                        /\ Past(u)' => /\ socket' # "closed"
                                       /\ \A v \in IOThreads : pc'[v] # "attempt"
  BY <1>1, <1>3 DEF ConnectedOnce, connector, Stopping
<1> QED BY <1>2, <1>3, <1>4, <1>5, <1>6 DEF ConnectedOnce

\* connect() itself.
LEMMA ConnectOnce ==
    ASSUME CoreInv, ConnectedOnce, NEW t \in IOThreads, Connect(t)
    PROVE  /\ ConnectedOnce' /\ (Stopping' <=> Stopping)
           /\ ~Stopping => \A u \in IOThreads : Past(u) => Past(u)'
           /\ ~Stopping /\ pc[t] = "attempt" => \A u \in IOThreads : ~Past(u)
<1>0. TypeOK
  BY DEF CoreInv
<1>1. PICK l \in Labels \ {"new"} : pc' = [pc EXCEPT ![t] = l]
  <2>1. pc[t] \in Labels /\ pc = [pc EXCEPT ![t] = pc[t]] /\ After(t) \in Labels \ {"new"}
    BY <1>0, ThreadTypes DEF After, Labels
  <2>2. CASE ConnectNothing(t) \/ ConnectOk(t)
    BY <2>1, <2>2 DEF ConnectNothing, ConnectOk, Go
  <2>3. CASE ConnectResolve(t) \/ ResolveThrows(t) \/ Unwind(t)
    BY <2>3 DEF ConnectResolve, ResolveThrows, Unwind, Go, Labels
  <2>4. CASE ConnectFails(t)
    BY <2>1, <2>4 DEF ConnectFails
  <2> QED BY <2>2, <2>3, <2>4 DEF Connect
<1>2. /\ pc'[t] = l /\ pc'["main"] = pc["main"] /\ pc[t] \in {"connect", "attempt", "unwind"}
      /\ \A u \in IOThreads : u # t => pc'[u] = pc[u] /\ depth'[u] = depth[u]
  <2>1. depth' = depth \/ depth' = [depth EXCEPT ![t] = depth[t] - 1]
    BY DEF Connect, ConnectNothing, ConnectResolve, ResolveThrows, ConnectOk, ConnectFails, Unwind
  <2>2. pc[t] \in {"connect", "attempt", "unwind"}
    BY DEF Connect, ConnectNothing, ConnectResolve, ResolveThrows, ConnectOk, ConnectFails, Unwind
  <2> QED BY <1>0, <1>1, <2>1, <2>2, ThreadTypes
<1>3. Stopping' <=> Stopping
  BY <1>2 DEF Stopping
<1>4. /\ pc'["main"] \in {"new", "accepting"} => pc'["writer"] = "new"
      /\ pc'["writer"] = "new" => depth'["writer"] = 0
  BY <1>0, <1>2, ThreadTypes DEF ConnectedOnce
<1>5. \A u \in IOThreads : pc'[u] = "attempt" => lock' = u
  <2>1. CASE ConnectNothing(t) \/ ConnectResolve(t) \/ ResolveThrows(t)
    <3>1. \A u \in IOThreads : pc[u] # "attempt"
      BY <1>0, <2>1, ThreadTypes DEF ConnectNothing, ConnectResolve, ResolveThrows, ConnectedOnce
    <3>2. ConnectResolve(t) \/ l # "attempt"
      BY <1>0, <1>1, <1>2, <2>1, ThreadTypes DEF ConnectNothing, ResolveThrows, Go, After
    <3> QED BY <1>2, <2>1, <3>1, <3>2 DEF ConnectResolve
  <2>2. CASE ConnectOk(t)
    <3>1. \A u \in IOThreads : u # t => pc[u] # "attempt"
      BY <2>2 DEF ConnectOk, ConnectedOnce
    <3>2. l # "attempt"
      BY <1>0, <1>1, <1>2, <2>2, ThreadTypes DEF ConnectOk, Go, After
    <3> QED BY <1>2, <3>1, <3>2
  <2>3. CASE ConnectFails(t)
    BY <2>3 DEF ConnectFails, ConnectedOnce
  <2>4. CASE Unwind(t)
    <3>1. l # "attempt" /\ lock' = lock
      BY <1>0, <1>1, <1>2, <2>4, ThreadTypes DEF Unwind, disconnect, Go
    <3> QED BY <1>2, <3>1 DEF ConnectedOnce
  <2> QED BY <2>1, <2>2, <2>3, <2>4 DEF Connect
<1>6. ASSUME ~Stopping
      PROVE  /\ \A u \in IOThreads :
                    /\ pc'[u] # "unwind" /\ (Past(u) => Past(u)')
                    /\ Past(u)' => /\ socket' # "closed"
                                   /\ \A v \in IOThreads : pc'[v] # "attempt"
             /\ pc[t] = "attempt" => \A u \in IOThreads : ~Past(u)
  <2>0. \A u \in IOThreads :
            /\ pc[u] # "unwind"
            /\ Past(u) => /\ socket # "closed"
                          /\ \A v \in IOThreads : pc[v] # "attempt"
    BY <1>6 DEF ConnectedOnce
  <2>1. \A u \in IOThreads : u # t => (Past(u)' <=> Past(u))
    BY <1>2 DEF Past
  <2>2. pc[t] = "attempt" => \A u \in IOThreads : ~Past(u)
    BY <2>0
  <2>3. CASE ConnectNothing(t)
    <3>1. \A u \in IOThreads : pc[u] # "attempt"
      BY <2>3 DEF ConnectNothing, ConnectedOnce, IOThreads
    <3>2. /\ l \in {"consume", "send", "allocate", "header", "body"}
          /\ socket' # "closed"
      BY <1>0, <1>1, <1>2, <2>3, ThreadTypes DEF ConnectNothing, Go, After, connected, connector
    <3>3. Past(t)'
      BY <1>2, <3>2 DEF Past
    <3> QED BY <1>2, <2>0, <2>1, <2>2, <3>1, <3>2, <3>3
  <2>4. CASE ConnectResolve(t)
    <3>1. \A u \in IOThreads : ~Past(u)
      BY <2>0, <2>4 DEF ConnectResolve, connected
    <3>2. l = "attempt"
      BY <1>0, <1>1, <1>2, <2>4, ThreadTypes DEF ConnectResolve, Go
    <3>3. ~Past(t)'
      BY <1>2, <3>2 DEF Past
    <3> QED BY <1>2, <2>0, <2>1, <2>2, <3>1, <3>2, <3>3
  <2>5. CASE ResolveThrows(t)
    <3>1. \A u \in IOThreads : ~Past(u)
      BY <2>0, <2>5 DEF ResolveThrows, connected
    <3>2. depth[t] = 0 /\ l = "exited"
      <4>1. depth[t] = 0
        BY <1>0, <3>1, <2>5, ThreadTypes DEF ResolveThrows, Past
      <4> QED BY <1>0, <1>1, <1>2, <2>5, <4>1, ThreadTypes DEF ResolveThrows, Go
    <3>3. ~Past(t)'
      BY <1>2, <3>2 DEF Past
    <3> QED BY <1>2, <2>0, <2>1, <2>2, <3>1, <3>2, <3>3
  <2>6. CASE ConnectOk(t)
    <3>1. \A u \in IOThreads : u # t => pc[u] # "attempt"
      BY <2>6 DEF ConnectOk, ConnectedOnce
    <3>2. /\ l \in {"consume", "send", "allocate", "header", "body"}
          /\ socket' = "up"
      BY <1>0, <1>1, <1>2, <2>6, ThreadTypes DEF ConnectOk, Go, After
    <3>3. Past(t)'
      BY <1>2, <3>2 DEF Past
    <3> QED BY <1>2, <2>0, <2>1, <2>2, <3>1, <3>2, <3>3
  <2>7. CASE ConnectFails(t)
    <3>1. UNCHANGED <<pc, depth>> /\ pc[t] = "attempt" /\ socket' = "open"
      BY <2>7 DEF ConnectFails
    <3>2. \A u \in IOThreads : (Past(u)' <=> Past(u))
      BY <3>1 DEF Past
    <3> QED BY <2>0, <2>2, <3>1, <3>2
  <2>8. ~Unwind(t)
    BY <2>0 DEF Unwind
  <2> QED BY <2>3, <2>4, <2>5, <2>6, <2>7, <2>8 DEF Connect
<1> QED BY <1>3, <1>4, <1>5, <1>6 DEF ConnectedOnce

\* Steps that leave the threads of the connector and its socket alone, or take an
\* open socket away from use.
LEMMA OtherStep ==
    ASSUME ConnectedOnce, UNCHANGED <<lock, depth>>,
           \A t \in IOThreads : pc'[t] = pc[t],
           pc'["main"] = pc["main"] \/ pc'["main"] \notin {"new", "accepting"} \/ pc["main"] = "new",
           ~Stopping' => ~Stopping /\ (socket # "closed" => socket' # "closed")
    PROVE  ConnectedOnce' /\ \A t \in IOThreads : (Past(t)' <=> Past(t))
<1>1. \A t \in IOThreads : (Past(t)' <=> Past(t))
  BY DEF Past
<1> QED BY <1>1 DEF ConnectedOnce, IOThreads

LEMMA StartOnce ==
    ASSUME TypeOK, ConnectedOnce, ThreadsKnown, NEW t \in IOThreads, NEW l \in Labels,
           UNCHANGED <<connector, depth>>, pc' = [pc EXCEPT !["main"] = l, ![t] = "connect"],
           pc[t] = "new", l \in {"writers", "readers"}, ~Stopping
    PROVE  ConnectedOnce' /\ \A u \in IOThreads : (Past(u)' <=> Past(u))
<1>1. /\ pc'["main"] = l /\ pc'[t] = "connect" /\ depth[t] = 0
      /\ \A u \in IOThreads : u # t => pc'[u] = pc[u]
  BY ThreadTypes DEF ThreadsKnown, ConnectedOnce
<1>2. \A u \in IOThreads : (Past(u)' <=> Past(u))
  <2>1. ~Past(t) /\ ~Past(t)'
    BY <1>1 DEF Past
  <2>2. \A u \in IOThreads : u # t => (Past(u)' <=> Past(u))
    BY <1>1 DEF Past
  <2> QED BY <2>1, <2>2
<1>3. /\ pc'["main"] \in {"new", "accepting"} => pc'["writer"] = "new"
      /\ pc'["writer"] = "new" => depth'["writer"] = 0
  BY <1>1, ThreadTypes DEF ConnectedOnce
<1>4. \A u \in IOThreads : (pc'[u] = "attempt" => lock' = u) /\ (pc[u] # "unwind" => pc'[u] # "unwind")
  BY <1>1 DEF ConnectedOnce, connector
<1>5. \A u \in IOThreads :
          ~Stopping' /\ Past(u)' => socket' # "closed" /\ \A v \in IOThreads : pc'[v] # "attempt"
  BY <1>1, <1>2 DEF ConnectedOnce, connector
<1> QED BY <1>1, <1>2, <1>3, <1>4, <1>5 DEF ConnectedOnce

\* All steps: once a thread is past its connect() it stays so, until the stop.
LEMMA OnceStep ==
    ASSUME CoreInv, ConnectedOnce, [Next]_vars
    PROVE  /\ ConnectedOnce' /\ (Stopping => Stopping')
           /\ ~Stopping => \A t \in IOThreads : Past(t) => Past(t)'
<1>0. TypeOK /\ ThreadsKnown /\ 0 \in Nat
  BY DEF CoreInv
<1>1. ASSUME NEW t \in IOThreads, Connect(t) PROVE ConnectedOnce' /\ (Stopping => Stopping') /\ (~Stopping => \A u \in IOThreads : Past(u) => Past(u)')
  BY <1>1, ConnectOnce
<1>2. CASE UNCHANGED <<connector, pc, depth>>
  <2>1. Stopping' <=> Stopping
    BY <1>2 DEF Stopping
  <2> QED BY <1>2, <2>1, OtherStep DEF connector
\* What a step of the loops has to show.
<1>3. ASSUME NEW t \in IOThreads, UNCHANGED connector,
             NEW l \in {"consume", "wait", "send", "connect", "allocate", "header", "body"},
             NEW d \in Nat, pc[t] \in {"consume", "wait", "send", "allocate", "header", "body"},
             pc' = [pc EXCEPT ![t] = l], depth' = [depth EXCEPT ![t] = d], l = "connect" => d > 0
      PROVE  ConnectedOnce' /\ (Stopping => Stopping') /\ \A u \in IOThreads : Past(u) => Past(u)'
  <2>1. pc'["main"] = pc["main"]
    BY <1>0, <1>3, ThreadTypes
  <2> QED BY <1>0, <1>3, <2>1, LoopStep DEF Stopping
\* The call that fails is one deeper than none.
<1>4. ASSUME NEW t \in IOThreads
      PROVE  /\ depth = [depth EXCEPT ![t] = depth[t]] /\ depth[t] \in Nat
             /\ Deeper(t) => \E d \in Nat : d > 0 /\ depth' = [depth EXCEPT ![t] = d]
  <2>1. depth = [depth EXCEPT ![t] = depth[t]] /\ depth[t] \in Nat
    BY <1>0, ThreadTypes
  <2>2. /\ (IF depth[t] < MaxDepth THEN depth[t] + 1 ELSE depth[t]) \in Nat
        /\ (IF depth[t] < MaxDepth THEN depth[t] + 1 ELSE depth[t]) > 0
    BY <1>0, <2>1, ThreadTypes
  <2> QED BY <2>1, <2>2 DEF Deeper
<1>5. CASE Writer
  <2>1. CASE TryPop \/ Write
    BY <1>2, <2>1 DEF TryPop, Write
  <2>2. CASE TryPopFails \/ PopBlocking
    BY <1>3, <1>4, <2>2, ThreadTypes, <1>0 DEF TryPopFails, PopBlocking, Go
  <2>3. CASE WriteFails
    BY <1>3, <1>4, <2>3, ThreadTypes, <1>0 DEF WriteFails, Go
  <2>4. CASE Delocate
    BY <1>3, <2>4, ThreadTypes, <1>0 DEF Delocate, Go, Return
  <2> QED BY <1>5, <2>1, <2>2, <2>3, <2>4 DEF Writer
<1>6. CASE Reader
  <2>1. CASE AllocateResponse
    BY <1>3, <1>4, <2>1, ThreadTypes, <1>0 DEF AllocateResponse, Go
  <2>2. CASE ReadHeader \/ ReadBody
    BY <1>3, <2>2, ThreadTypes, <1>0 DEF ReadHeader, ReadBody, Go, Return
  <2>3. CASE ReadFails
    BY <1>3, <1>4, <2>3, ThreadTypes, <1>0 DEF ReadFails, Go
  <2> QED BY <1>6, <2>1, <2>2, <2>3 DEF Reader
<1>7. CASE StartIO("writer", "accepting", "writers")
  <2>1. pc["writer"] = "new" /\ ~Stopping
    BY <1>7 DEF StartIO, ConnectedOnce, Stopping
  <2>2. pc'["main"] = "writers"
    BY <1>0, <1>7, ThreadTypes DEF StartIO
  <2> QED BY <1>0, <1>7, <2>1, <2>2, StartOnce, ThreadTypes DEF StartIO, Labels, Stopping
<1>8. CASE StartIO("reader", "writers", "readers")
  <2>1. pc["reader"] = "new" /\ ~Stopping
    BY <1>0, <1>8 DEF StartIO, ThreadsKnown, Stopping
  <2>2. pc'["main"] = "readers"
    BY <1>0, <1>8, ThreadTypes DEF StartIO
  <2> QED BY <1>0, <1>8, <2>1, <2>2, StartOnce, ThreadTypes DEF StartIO, Labels, Stopping
<1>9. CASE StartAcceptor \/ StartManager \/ Stop
  <2>1. PICK l \in Labels :
            /\ pc' = [pc EXCEPT !["main"] = l] /\ UNCHANGED <<depth, lock>>
            /\ l \notin {"new", "accepting"} \/ pc["main"] = "new"
            /\ Stopping => l \in {"stopReaders", "stopped"}
            /\ socket' = socket \/ l \in {"stopReaders", "stopped"}
    BY <1>9 DEF StartAcceptor, StartManager, Stop, StopAcceptor, StopIO, Advance, Go, Labels, disconnect,
                connector, Stopping
  <2>2. pc'["main"] = l /\ \A t \in IOThreads : pc'[t] = pc[t]
    BY <1>0, <2>1, ThreadTypes
  <2> QED BY <2>1, <2>2, OtherStep DEF Stopping
<1>10. CASE PeerCloses
  <2>1. Stopping' <=> Stopping
    BY <1>10 DEF PeerCloses, Stopping
  <2> QED BY <1>10, <2>1, OtherStep DEF PeerCloses
<1>11. CASE \/ \E s \in Sessions : Session(s)
            \/ Manager \/ UNCHANGED vars
  <2>1. UNCHANGED <<connector, pc, depth>>
    BY <1>11 DEF Session, Allocate, AllocateFails, Produce, ConvertThrows, Manager, Consume, Manage,
                 ManageThrows, vars
  <2> QED BY <1>2, <2>1
<1> QED BY <1>1, <1>5, <1>6, <1>7, <1>8, <1>9, <1>10, <1>11 DEF Next, Start

LEMMA OnceInit == Init => ConnectedOnce
BY DEF Init, ConnectedOnce, Past, IOThreads, Threads, Stopping

\* What a queue holds after a push and after a pop.
LEMMA RangeOfQueue ==
    ASSUME NEW S, NEW q \in Seq(S)
    PROVE  /\ \A x \in S : Range(Append(q, x)) \subseteq Range(q) \cup {x}
           /\ q # <<>> => Head(q) \in Range(q) /\ Range(Tail(q)) \subseteq Range(q)
<1>1. ASSUME NEW x \in S PROVE Range(Append(q, x)) \subseteq Range(q) \cup {x}
  <2>1. \A i \in 1..Len(q) + 1 : Append(q, x)[i] \in {q[j] : j \in 1..Len(q)} \cup {x}
    OBVIOUS
  <2> QED BY <2>1 DEF Range
<1>2. ASSUME q # <<>> PROVE Head(q) \in Range(q) /\ Range(Tail(q)) \subseteq Range(q)
  <2>1. Head(q) = q[1] /\ 1 \in DOMAIN q
    BY <1>2
  <2>2. \A i \in DOMAIN Tail(q) : Tail(q)[i] = q[i + 1] /\ i + 1 \in DOMAIN q
    BY <1>2
  <2> QED BY <2>1, <2>2 DEF Range
<1> QED BY <1>1, <1>2

LEMMA FrameStep ==
    ASSUME CoreInv, ConnectedOnce, HeaderFresh, WholeFrames, [Next]_vars
    PROVE  HeaderFresh' /\ WholeFrames'
<1> SUFFICES ASSUME ~Stopping'
             PROVE  /\ header' # "stale" /\ (header' = "fresh" => Past("reader")')
                    /\ "stale" \notin Range(respQueue') \cup {handling'}
  BY DEF HeaderFresh, WholeFrames
<1>1. /\ ~Stopping /\ (Past("reader") => Past("reader")')
      /\ header # "stale" /\ (header = "fresh" => Past("reader"))
      /\ "stale" \notin Range(respQueue) /\ handling # "stale"
  BY OnceStep DEF HeaderFresh, WholeFrames, IOThreads
<1>2. respQueue \in Seq(Headers \ {"none"}) /\ header \in Headers /\ TypeOK
  BY DEF CoreInv, TypeOK
<1>3. CASE UNCHANGED <<header, respQueue, handling>>
  BY <1>1, <1>3
<1>4. ASSUME NEW t \in IOThreads, Connect(t) PROVE UNCHANGED <<header, respQueue, handling>>
  <2>1. CASE ConnectOk(t)
    <3>1. header # "fresh"
      BY <1>1, <2>1, <1>4, ConnectOnce DEF ConnectOk, IOThreads
    <3> QED BY <2>1, <3>1 DEF ConnectOk
  <2> QED BY <1>4, <2>1 DEF Connect, ConnectNothing, ConnectResolve, ResolveThrows, ConnectFails, Unwind, responses
<1>5. CASE Writer \/ Start \/ Stop \/ PeerCloses \/ (\E s \in Sessions : Session(s)) \/ UNCHANGED vars
  BY <1>3, <1>5 DEF Writer, TryPop, TryPopFails, PopBlocking, Write, WriteFails, Delocate, Start,
     StartAcceptor, StartIO, StartManager, Stop, StopAcceptor, StopIO, PeerCloses, Session, Allocate,
     AllocateFails, Produce, ConvertThrows, vars, responses
<1>6. CASE AllocateResponse \/ ReadFails
  BY <1>3, <1>6 DEF AllocateResponse, ReadFails, responses
<1>7. CASE ReadHeader
  <2>1. pc'["reader"] = "body"
    BY <1>2, <1>7, ThreadTypes DEF ReadHeader, Go
  <2> QED BY <1>1, <1>7, <2>1 DEF ReadHeader, Past
<1>8. CASE ReadBody
  <2>1. header \in Headers \ {"none"}
    BY <1>2, <1>8 DEF CoreInv, ThreadsKnown, ReadBody
  <2>2. Range(respQueue') \subseteq Range(respQueue) \cup {header}
    BY <1>2, <1>8, <2>1, RangeOfQueue DEF ReadBody
  <2> QED BY <1>1, <1>8, <2>2 DEF ReadBody
<1>9. CASE Consume
  <2>1. Head(respQueue) \in Range(respQueue) /\ Range(Tail(respQueue)) \subseteq Range(respQueue)
    BY <1>2, <1>9, RangeOfQueue DEF Consume
  <2> QED BY <1>1, <1>9, <2>1 DEF Consume
<1>10. CASE Manage \/ ManageThrows
  BY <1>1, <1>10 DEF Manage, ManageThrows
<1> QED BY <1>3, <1>4, <1>5, <1>6, <1>7, <1>8, <1>9, <1>10 DEF Next, Reader, Manager

\* Before the stop a response is never put together from two connections, for any
\* number of failures: no connection is made after the first (connect returns when
\* the socket is open, and it stays open until disconnect).
THEOREM ResponsesAreWhole == Spec => []WholeFrames
<1>1. Init => HeaderFresh /\ WholeFrames
  BY DEF Init, HeaderFresh, WholeFrames, Range
<1>2. CoreInv /\ ConnectedOnce /\ [Next]_vars => ConnectedOnce'
  BY OnceStep
<1>3. CoreInv /\ ConnectedOnce /\ HeaderFresh /\ WholeFrames /\ [Next]_vars => HeaderFresh' /\ WholeFrames'
  BY FrameStep
<1> QED BY <1>1, <1>2, <1>3, CoreInit, CoreStep, OnceInit, PTL DEF Spec

-------------------------------------------------------------------------------
(* Requests of a session keep their order, and none is written twice.      *)

\* What the types say of the batch b and the queue q.
Lines(b, q, last, newest) ==
    /\ b \in Seq(Requests) /\ q \in Seq(Requests)
    /\ last \in [Sessions -> Int] /\ newest \in [Sessions -> Int]

LEMMA LineTypes ==
    ASSUME NEW b, NEW q, NEW last, NEW newest, Lines(b, q, last, newest)
    PROVE  /\ Len(b) \in Nat /\ Len(q) \in Nat
           /\ \A i \in 1..Len(b) : b[i] \in Requests /\ b[i][1] \in Sessions /\ b[i][2] \in Int
           /\ \A i \in 1..Len(q) : q[i] \in Requests /\ q[i][1] \in Sessions /\ q[i][2] \in Int
           /\ \A s \in Sessions : last[s] \in Int /\ newest[s] \in Int
<1>1. \A r \in Requests : r[1] \in Sessions /\ r[2] \in Int
  BY BoundAssumption DEF Requests
<1> QED BY <1>1 DEF Lines

LEMMA Transitive == \A k, m, n \in Int : /\ k <= m /\ m <= n => k <= n
                                         /\ k <= m /\ m < n => k < n
OBVIOUS

\* Numbers of requests grow.
LEMMA OrderGrows ==
    ASSUME NEW b, NEW q, NEW last, NEW newest, NEW newer, Lines(b, q, last, newest),
           InOrder(b, q, last, newest), newer \in [Sessions -> Int],
           \A s \in Sessions : newest[s] <= newer[s]
    PROVE  InOrder(b, q, last, newer)
<1>1. \A s \in Sessions : last[s] <= newer[s] /\ newest[s] \in Int /\ newer[s] \in Int
  BY LineTypes, Transitive DEF InOrder
<1>2. \A i \in 1..Len(b) : b[i][2] <= newer[b[i][1]]
  BY <1>1, LineTypes, Transitive DEF InOrder
<1>3. \A i \in 1..Len(q) : q[i][2] <= newer[q[i][1]]
  BY <1>1, LineTypes, Transitive DEF InOrder
<1> QED BY <1>1, <1>2, <1>3 DEF InOrder

\* A session pushes its next request.
LEMMA OrderPush ==
    ASSUME NEW b, NEW q, NEW last, NEW newest, Lines(b, q, last, newest),
           NEW r \in Requests, NEW newer \in [Sessions -> Int],
           InOrder(b, q, last, newest), \A s \in Sessions : newest[s] <= newer[s],
           newest[r[1]] < r[2], r[2] <= newer[r[1]]
    PROVE  InOrder(b, Append(q, r), last, newer)
<1>0. r[1] \in Sessions /\ r[2] \in Int
  BY BoundAssumption DEF Requests
<1>1. InOrder(b, q, last, newer) /\ last[r[1]] < r[2]
  <2>1. last[r[1]] <= newest[r[1]] /\ last[r[1]] \in Int /\ newest[r[1]] \in Int
    BY <1>0, LineTypes DEF InOrder
  <2> QED BY <1>0, <2>1, OrderGrows
<1>2. \A i \in 1..Len(b) : Before(b[i], r)
  BY <1>0, LineTypes, Transitive DEF InOrder, Before
<1>3. \A i \in 1..Len(q) : Before(q[i], r)
  BY <1>0, LineTypes, Transitive DEF InOrder, Before
<1>4. /\ Len(Append(q, r)) = Len(q) + 1 /\ Append(q, r)[Len(q) + 1] = r
      /\ \A i \in 1..Len(q) : Append(q, r)[i] = q[i]
  BY DEF Lines
<1>5. \A i \in 1..(Len(q) + 1) : i \in 1..Len(q) \/ i = Len(q) + 1
  BY LineTypes
<1> DEFINE p == Append(q, r)
<1> HIDE DEF p
<1>6. /\ Len(p) = Len(q) + 1 /\ p[Len(q) + 1] = r
      /\ \A i \in 1..Len(q) : p[i] = q[i]
  BY <1>4 DEF p
<1>7. \A i \in 1..Len(p) : last[p[i][1]] < p[i][2] /\ p[i][2] <= newer[p[i][1]]
  BY <1>1, <1>5, <1>6 DEF InOrder
<1>8. \A i, j \in 1..Len(p) : i < j => Before(p[i], p[j])
  <2> SUFFICES ASSUME NEW i \in 1..Len(p), NEW j \in 1..Len(p), i < j PROVE Before(p[i], p[j])
    OBVIOUS
  <2>1. i \in 1..Len(q)
    BY <1>6, LineTypes
  <2> QED BY <1>1, <1>3, <1>5, <1>6, <2>1 DEF InOrder
<1>9. \A i \in 1..Len(b), j \in 1..Len(p) : Before(b[i], p[j])
  BY <1>1, <1>2, <1>5, <1>6 DEF InOrder
<1>10. InOrder(b, p, last, newer)
  BY <1>1, <1>7, <1>8, <1>9 DEF InOrder
<1> QED BY <1>10 DEF p

\* The writer takes a request from the queue.
LEMMA OrderPop ==
    ASSUME NEW b, NEW q, NEW last, NEW newest, Lines(b, q, last, newest), q # <<>>,
           InOrder(b, q, last, newest)
    PROVE  InOrder(Append(b, Head(q)), Tail(q), last, newest) /\ last[Head(q)[1]] < Head(q)[2]
<1>1. /\ Len(Append(b, q[1])) = Len(b) + 1 /\ Append(b, q[1])[Len(b) + 1] = q[1]
      /\ \A i \in 1..Len(b) : Append(b, q[1])[i] = b[i]
      /\ Head(q) = q[1] /\ 1 \in 1..Len(q)
      /\ Len(Tail(q)) = Len(q) - 1
      /\ \A i \in 1..(Len(q) - 1) : Tail(q)[i] = q[i + 1] /\ i + 1 \in 1..Len(q) /\ 1 < i + 1
  BY DEF Lines
<1>2. \A i \in 1..(Len(b) + 1) : i \in 1..Len(b) \/ i = Len(b) + 1
  BY LineTypes
<1> DEFINE c == Append(b, q[1])  t == Tail(q)
<1> HIDE DEF c, t
<1>3. /\ Len(c) = Len(b) + 1 /\ c[Len(b) + 1] = q[1] /\ \A i \in 1..Len(b) : c[i] = b[i]
      /\ Len(t) = Len(q) - 1 /\ 1 \in 1..Len(q)
      /\ \A i \in 1..(Len(q) - 1) : t[i] = q[i + 1] /\ i + 1 \in 1..Len(q) /\ 1 < i + 1
  BY <1>1 DEF c, t
<1>4. \A i \in 1..Len(c) : c[i][2] <= newest[c[i][1]]
  BY <1>2, <1>3 DEF InOrder
<1>5. \A i \in 1..Len(t) : last[t[i][1]] < t[i][2] /\ t[i][2] <= newest[t[i][1]]
  BY <1>3 DEF InOrder
<1>6. \A i, j \in 1..Len(c) : i < j => Before(c[i], c[j])
  <2> SUFFICES ASSUME NEW i \in 1..Len(c), NEW j \in 1..Len(c), i < j PROVE Before(c[i], c[j])
    OBVIOUS
  <2>1. i \in 1..Len(b)
    BY <1>3, LineTypes
  <2> QED BY <1>2, <1>3, <2>1 DEF InOrder
<1>7. \A i, j \in 1..Len(t) : i < j => Before(t[i], t[j])
  <2> SUFFICES ASSUME NEW i \in 1..Len(t), NEW j \in 1..Len(t), i < j PROVE Before(t[i], t[j])
    OBVIOUS
  <2>1. i + 1 < j + 1
    BY <1>3, LineTypes
  <2> QED BY <1>3, <2>1 DEF InOrder
<1>8. \A i \in 1..Len(c), j \in 1..Len(t) : Before(c[i], t[j])
  BY <1>2, <1>3 DEF InOrder
<1>9. InOrder(c, t, last, newest)
  BY <1>4, <1>5, <1>6, <1>7, <1>8 DEF InOrder
<1>10. last[Head(q)[1]] < Head(q)[2]
  BY <1>1 DEF InOrder
<1> QED BY <1>1, <1>9, <1>10 DEF c, t

\* The writer sends a request of the batch.
LEMMA OrderSend ==
    ASSUME NEW b, NEW q, NEW last, NEW newest, Lines(b, q, last, newest),
           InOrder(b, q, last, newest), NEW i \in 1..Len(b), NEW next,
           next = [last EXCEPT ![b[i][1]] = b[i][2]]
    PROVE  InOrder(b, q, next, newest)
<1>1. \A s \in Sessions : next[s] = IF s = b[i][1] THEN b[i][2] ELSE last[s]
  BY DEF Lines
<1>2. \A s \in Sessions : next[s] <= newest[s]
  BY <1>1 DEF InOrder
<1>3. \A j \in 1..Len(q) : next[q[j][1]] < q[j][2]
  BY <1>1, LineTypes DEF InOrder, Before
<1> QED BY <1>2, <1>3 DEF InOrder

LEMMA LinesNow ==
    ASSUME TypeOK
    PROVE  /\ Lines(batch, reqQueue, sent, Newest)
           /\ received \in Nat /\ done \in 0..Len(batch) /\ Len(batch) \in Nat
           /\ held \in [Sessions -> Nat] /\ \A s \in Sessions : held[s] \in Nat
<1>1. received \in Nat /\ held \in [Sessions -> Nat] /\ sent \in [Sessions -> Int]
  BY BoundAssumption DEF TypeOK
<1>2. Newest \in [Sessions -> Int]
  <2>1. \A s \in Sessions : (IF held[s] = 0 THEN received ELSE held[s] - 1) \in Int
    BY <1>1
  <2> QED BY <2>1 DEF Newest
<1> QED BY <1>1, <1>2 DEF TypeOK, Lines

\* The steps of a session.
LEMMA SessionOrder ==
    ASSUME TypeOK, TypeOK', RequestsOrdered, NEW s \in Sessions, Session(s)
    PROVE  RequestsOrdered'
<1>0. /\ \A u \in Sessions : held[u] <= received /\ held[u] \in Nat
      /\ \A u \in Sessions : Newest[u] = IF held[u] = 0 THEN received ELSE held[u] - 1
      /\ \A u \in Sessions : Newest'[u] = IF held'[u] = 0 THEN received' ELSE held'[u] - 1
      /\ received \in Nat /\ held \in [Sessions -> Nat]
      /\ Lines(batch, reqQueue, sent, Newest) /\ InOrder(batch, reqQueue, sent, Newest)
      /\ Newest' \in [Sessions -> Int] /\ (received + 1) - 1 = received
  <2>1. Newest' \in [Sessions -> Int]
    <3>1. \A u \in Sessions : held'[u] \in Nat /\ received' \in Nat
      BY BoundAssumption DEF TypeOK
    <3> QED BY <3>1 DEF Newest
  <2> QED BY <2>1, LinesNow DEF RequestsOrdered, Newest
\* What is left to show when nothing is pushed.
<1>1. ASSUME UNCHANGED <<reqQueue, batch, sent>>,
             \A u \in Sessions : held'[u] <= received' /\ Newest[u] <= Newest'[u]
      PROVE  RequestsOrdered'
  BY <1>0, <1>1, OrderGrows DEF RequestsOrdered
<1>2. CASE Allocate(s)
  <2>1. /\ \A u \in Sessions : held'[u] = IF u = s THEN received + 1 ELSE held[u]
        /\ held[s] = 0 /\ received' = received + 1 /\ UNCHANGED <<reqQueue, batch, sent>>
    BY <1>0, <1>2 DEF Allocate, writing
  <2>2. \A u \in Sessions : held'[u] <= received' /\ Newest[u] <= Newest'[u]
    BY <1>0, <2>1
  <2> QED BY <1>1, <2>1, <2>2
<1>3. CASE AllocateFails(s)
  <2>1. received' = received + 1 /\ UNCHANGED <<held, reqQueue, batch, sent>>
    BY <1>3 DEF AllocateFails, writing
  <2>2. \A u \in Sessions : held'[u] <= received' /\ Newest[u] <= Newest'[u]
    BY <1>0, <2>1
  <2> QED BY <1>1, <2>1, <2>2
<1>4. CASE ConvertThrows(s)
  <2>1. /\ \A u \in Sessions : held'[u] = IF u = s THEN 0 ELSE held[u]
        /\ UNCHANGED <<received, reqQueue, batch, sent>>
    BY <1>0, <1>4 DEF ConvertThrows, writing
  <2>2. \A u \in Sessions : held'[u] <= received' /\ Newest[u] <= Newest'[u]
    BY <1>0, <2>1
  <2> QED BY <1>1, <2>1, <2>2
<1>5. CASE Produce(s)
  <2>1. /\ \A u \in Sessions : held'[u] = IF u = s THEN 0 ELSE held[u]
        /\ UNCHANGED <<received, batch, sent>> /\ reqQueue' = Append(reqQueue, <<s, held[s]>>)
        /\ held[s] # 0
    BY <1>0, <1>5 DEF Produce, writing
  <2>2. \A u \in Sessions : held'[u] <= received' /\ Newest[u] <= Newest'[u]
    BY <1>0, <2>1
  <2>3. Newest[s] < held[s] /\ held[s] <= Newest'[s]
    BY <1>0, <2>1
  <2>4. <<s, held[s]>> \in Requests
    BY <1>0, <2>1, BoundAssumption DEF Requests, TypeOK
  <2>5. InOrder(batch, Append(reqQueue, <<s, held[s]>>), sent, Newest')
    <3> DEFINE r == <<s, held[s]>>
    <3>1. r \in Requests /\ r[1] = s /\ r[2] = held[s]
      BY <2>4
    <3> HIDE DEF r
    <3>2. InOrder(batch, Append(reqQueue, r), sent, Newest')
      BY <1>0, <2>2, <2>3, <3>1, OrderPush
    <3> QED BY <3>2 DEF r
  <2> QED BY <2>1, <2>2, <2>5 DEF RequestsOrdered
<1> QED BY <1>2, <1>3, <1>4, <1>5 DEF Session

\* The steps of the writer: requests stay in order...
LEMMA WriterOrder ==
    ASSUME TypeOK, ThreadsKnown, RequestsOrdered, Writer
    PROVE  RequestsOrdered'
<1>0. /\ Lines(batch, reqQueue, sent, Newest) /\ InOrder(batch, reqQueue, sent, Newest)
      /\ received \in Nat /\ done \in 0..Len(batch) /\ Len(batch) \in Nat
  BY LinesNow DEF RequestsOrdered
<1>1. UNCHANGED <<held, received>> /\ Newest' = Newest
  BY DEF Writer, TryPop, TryPopFails, PopBlocking, Write, WriteFails, Delocate, requests, Newest
<1>2. ASSUME InOrder(batch', reqQueue', sent', Newest) PROVE RequestsOrdered'
  BY <1>1, <1>2 DEF RequestsOrdered
<1>3. CASE TryPop
  BY <1>0, <1>2, <1>3, OrderPop DEF TryPop
<1>4. CASE PopBlocking
  <2>1. batch = <<>>
    BY <1>4 DEF PopBlocking, ThreadsKnown
  <2>2. <<Head(reqQueue)>> = Append(batch, Head(reqQueue))
    BY <2>1
  <2> QED BY <1>0, <1>2, <1>4, <2>2, OrderPop DEF PopBlocking
<1>5. CASE Write
  <2>1. done + 1 \in 1..Len(batch) /\ UNCHANGED <<batch, reqQueue>>
    BY <1>0, <1>5 DEF Write, requests
  <2>2. sent' = [sent EXCEPT ![batch[done + 1][1]] = batch[done + 1][2]]
    BY <1>5 DEF Write
  <2> QED BY <1>0, <1>2, <2>1, <2>2, OrderSend
<1>6. CASE TryPopFails \/ WriteFails
  BY <1>0, <1>2, <1>6 DEF TryPopFails, WriteFails, requests, writing
<1>7. CASE Delocate
  <2>1. InOrder(<<>>, reqQueue, sent, Newest)
    BY <1>0 DEF InOrder
  <2> QED BY <1>2, <1>7, <2>1 DEF Delocate
<1> QED BY <1>3, <1>4, <1>5, <1>6, <1>7 DEF Writer

\* ... and what is left of the batch was not sent before.
LEMMA WriterUnsent ==
    ASSUME TypeOK, ThreadsKnown, RequestsOrdered, Writer, socket = "up",
           \A i \in (done + 1)..Len(batch) : sent[batch[i][1]] < batch[i][2]
    PROVE  /\ \A i \in (done' + 1)..Len(batch') : sent'[batch'[i][1]] < batch'[i][2]
           /\ done' > done => batch'[done'][2] > sent[batch'[done'][1]]
<1>0. /\ Lines(batch, reqQueue, sent, Newest) /\ InOrder(batch, reqQueue, sent, Newest)
      /\ done \in 0..Len(batch) /\ Len(batch) \in Nat
      /\ \A i \in 1..Len(batch) : batch[i][1] \in Sessions /\ batch[i][2] \in Int
      /\ sent \in [Sessions -> Int]
  BY LinesNow, LineTypes DEF RequestsOrdered, Lines
<1>1. CASE TryPop \/ PopBlocking
  <2>1. batch' = Append(batch, Head(reqQueue)) /\ reqQueue # <<>> /\ UNCHANGED <<done, sent>>
    <3>1. CASE PopBlocking
      <4>1. batch = <<>>
        BY <3>1 DEF PopBlocking, ThreadsKnown
      <4>2. <<Head(reqQueue)>> = Append(batch, Head(reqQueue))
        BY <4>1
      <4> QED BY <3>1, <4>2 DEF PopBlocking
    <3> QED BY <1>1, <3>1 DEF TryPop
  <2>2. sent[Head(reqQueue)[1]] < Head(reqQueue)[2]
    BY <1>0, <2>1, OrderPop
  <2>3. /\ Len(batch') = Len(batch) + 1 /\ batch'[Len(batch) + 1] = Head(reqQueue)
        /\ \A i \in 1..Len(batch) : batch'[i] = batch[i]
    BY <1>0, <2>1 DEF Lines
  <2>4. \A i \in (done + 1)..(Len(batch) + 1) :
            i = Len(batch) + 1 \/ (i \in (done + 1)..Len(batch) /\ i \in 1..Len(batch))
    BY <1>0
  <2>5. ~(done' > done)
    BY <1>0, <2>1
  <2> QED BY <2>1, <2>2, <2>3, <2>4, <2>5
<1>2. CASE Write
  <2>1. /\ done + 1 \in 1..Len(batch) /\ done' = done + 1 /\ batch' = batch
        /\ sent' = [sent EXCEPT ![batch[done + 1][1]] = batch[done + 1][2]]
    BY <1>0, <1>2 DEF Write
  <2>2. sent[batch[done + 1][1]] < batch[done + 1][2]
    BY <1>0, <2>1
  <2>3. \A i \in (done + 2)..Len(batch) : /\ i \in 1..Len(batch) /\ i \in (done + 1)..Len(batch)
                                          /\ done + 1 < i
    BY <1>0
  <2>4. \A i \in (done + 2)..Len(batch) : Before(batch[done + 1], batch[i])
    BY <1>0, <2>1, <2>3 DEF InOrder
  <2>5. \A s \in Sessions : sent'[s] = IF s = batch[done + 1][1] THEN batch[done + 1][2] ELSE sent[s]
    BY <1>0, <2>1
  <2>6. \A i \in (done + 2)..Len(batch) : sent'[batch[i][1]] < batch[i][2]
    BY <1>0, <2>3, <2>4, <2>5 DEF Before
  <2>7. done' + 1 = done + 2
    BY <1>0, <2>1
  <2> QED BY <1>0, <2>1, <2>2, <2>6, <2>7
<1>3. CASE TryPopFails
  BY <1>0, <1>3 DEF TryPopFails, writing
<1>4. CASE WriteFails
  BY <1>4 DEF WriteFails
<1>5. CASE Delocate
  BY <1>0, <1>5 DEF Delocate
<1> QED BY <1>1, <1>2, <1>3, <1>4, <1>5 DEF Writer

\* Steps of the others do not touch batch and socket, or make the socket useless;
\* only connect() makes it useful, and then the writer has nothing to send.
LEMMA OthersUnsent ==
    ASSUME TypeOK, BatchUnsent, UNCHANGED <<batch, done, sent>>, Stopping => Stopping',
           ~Stopping => (Past("writer") => Past("writer")'),
           ~Stopping /\ socket' = "up" => socket = "up" \/ ~Past("writer")
    PROVE  BatchUnsent'
<1> SUFFICES ASSUME ~Stopping'
             PROVE  /\ ~Past("writer")' => batch' = <<>>
                    /\ socket' = "up" =>
                         \A i \in (done' + 1)..Len(batch') : sent'[batch'[i][1]] < batch'[i][2]
  BY DEF BatchUnsent
<1>1. ~Past("writer")' => batch' = <<>>
  BY DEF BatchUnsent
<1>2. batch = <<>> => \A i \in (done + 1)..Len(batch) : sent[batch[i][1]] < batch[i][2]
  BY LinesNow
<1> QED BY <1>1, <1>2 DEF BatchUnsent

\* All steps.
LEMMA OrderStep ==
    ASSUME CoreInv, CoreInv', ConnectedOnce, RequestsOrdered, BatchUnsent, [Next]_vars
    PROVE  /\ RequestsOrdered' /\ BatchUnsent'
           /\ ~Stopping /\ done' > done => batch'[done'][2] > sent[batch'[done'][1]]
<1>0. /\ TypeOK /\ TypeOK' /\ ThreadsKnown /\ done \in Nat
      /\ Stopping => Stopping'
      /\ ~Stopping => (Past("writer") => Past("writer")')
  BY LinesNow, OnceStep DEF CoreInv, IOThreads
<1>1. CASE Writer
  <2>1. /\ socket' = socket /\ Past("writer")
        /\ done' > done => socket = "up"
    <3>1. socket' = socket /\ pc["writer"] \in {"consume", "wait", "send"}
      BY <1>1 DEF Writer, TryPop, TryPopFails, PopBlocking, Write, WriteFails, Delocate, connector
    <3>2. done' > done => socket = "up"
      BY <1>0, <1>1 DEF Writer, TryPop, TryPopFails, PopBlocking, Write, WriteFails, Delocate, writing
    <3> QED BY <3>1, <3>2 DEF Past
  <2>2. BatchUnsent'
    BY <1>0, <1>1, <2>1, WriterUnsent DEF BatchUnsent
  <2>3. ~Stopping /\ done' > done => batch'[done'][2] > sent[batch'[done'][1]]
    BY <1>0, <1>1, <2>1, WriterUnsent DEF BatchUnsent
  <2> QED BY <1>0, <1>1, <2>2, <2>3, WriterOrder
\* What the other steps have to show.
<1>2. ASSUME UNCHANGED <<requests, writing>>, ~Stopping /\ socket' = "up" => socket = "up" \/ ~Past("writer")
      PROVE  RequestsOrdered' /\ BatchUnsent' /\ ~(done' > done)
  <2>1. RequestsOrdered'
    BY <1>2 DEF RequestsOrdered, requests, writing, Newest
  <2> QED BY <1>0, <1>2, <2>1, OthersUnsent DEF writing
<1>3. ASSUME NEW t \in IOThreads, Connect(t)
      PROVE  RequestsOrdered' /\ BatchUnsent' /\ ~(done' > done)
  <2>1. UNCHANGED <<requests, writing>>
    BY <1>3 DEF Connect, ConnectNothing, ConnectResolve, ResolveThrows, ConnectOk, ConnectFails, Unwind
  <2>2. ~Stopping /\ socket' = "up" => socket = "up" \/ ~Past("writer")
    <3>1. CASE ConnectOk(t)
      BY <1>3, <3>1, ConnectOnce DEF ConnectOk, IOThreads
    <3>2. CASE ~ConnectOk(t)
      BY <1>3, <3>2 DEF Connect, ConnectNothing, ConnectResolve, ResolveThrows, ConnectFails, Unwind,
                        connector, disconnect
    <3> QED BY <3>1, <3>2
  <2> QED BY <1>2, <2>1, <2>2
<1>4. ASSUME NEW s \in Sessions, Session(s)
      PROVE  RequestsOrdered' /\ BatchUnsent' /\ ~(done' > done)
  <2>1. UNCHANGED <<batch, done, sent, socket>>
    BY <1>4 DEF Session, Allocate, AllocateFails, Produce, ConvertThrows, writing, connector
  <2> QED BY <1>0, <1>4, <2>1, SessionOrder, OthersUnsent
<1>5. CASE Reader \/ Manager \/ Start \/ Stop \/ PeerCloses
  <2>1. UNCHANGED <<requests, writing>> /\ (socket' = "up" => socket = "up")
    BY <1>5 DEF Reader, AllocateResponse, ReadHeader, ReadBody, ReadFails, Manager, Consume, Manage,
       ManageThrows, Start, StartAcceptor, StartIO, StartManager, Stop, StopAcceptor, StopIO, disconnect,
       PeerCloses, connector
  <2> QED BY <1>2, <2>1
<1>6. CASE UNCHANGED vars
  BY <1>2, <1>6 DEF vars, connector
<1> QED BY <1>1, <1>3, <1>4, <1>5, <1>6 DEF Next

\* Before the stop no request is written twice or after a later one of its session,
\* for any number of sessions and failures, although send_to_ts starts the batch
\* again: a batch is only written again on a connection that takes nothing.
THEOREM RequestsSentOnce == Spec => SentOnceInOrder
<1>1. Init => RequestsOrdered /\ BatchUnsent
  <2> SUFFICES ASSUME Init PROVE RequestsOrdered /\ BatchUnsent
    OBVIOUS
  <2>1. \A s \in Sessions : held[s] = 0 /\ received = 0 /\ sent[s] = 0 /\ Newest[s] = 0
    BY DEF Init, Newest
  <2>2. Len(batch) = 0 /\ Len(reqQueue) = 0 /\ batch = <<>> /\ socket = "closed"
    BY DEF Init
  <2> QED BY <2>1, <2>2 DEF RequestsOrdered, InOrder, BatchUnsent
<1>2. CoreInv /\ ConnectedOnce /\ [Next]_vars => ConnectedOnce'
  BY OnceStep
<1>3. CoreInv /\ CoreInv' /\ ConnectedOnce /\ RequestsOrdered /\ BatchUnsent /\ [Next]_vars
      => /\ RequestsOrdered' /\ BatchUnsent'
         /\ [~Stopping /\ done' > done => batch[done'][2] > sent[batch[done'][1]]]_vars
  <2> SUFFICES ASSUME CoreInv, CoreInv', ConnectedOnce, RequestsOrdered, BatchUnsent, [Next]_vars
               PROVE  /\ RequestsOrdered' /\ BatchUnsent'
                      /\ ~Stopping /\ done' > done => batch[done'][2] > sent[batch[done'][1]]
    OBVIOUS
  <2>1. done' > done => batch' = batch
    <3>1. done \in Nat
      BY LinesNow DEF CoreInv
    <3> QED BY <3>1 DEF Next, Connect, ConnectNothing, ConnectResolve, ResolveThrows, ConnectOk, ConnectFails,
         Unwind, Session, Allocate, AllocateFails, Produce, ConvertThrows, Writer, TryPop, TryPopFails,
         PopBlocking, Write, WriteFails, Delocate, Reader, AllocateResponse, ReadHeader, ReadBody, ReadFails,
         Manager, Consume, Manage, ManageThrows, Start, StartAcceptor, StartIO, StartManager, Stop,
         StopAcceptor, StopIO, PeerCloses, writing, vars
  <2> QED BY <2>1, OrderStep
<1> QED BY <1>1, <1>2, <1>3, CoreInit, CoreStep, OnceInit, PTL DEF Spec, SentOnceInOrder
===============================================================================
