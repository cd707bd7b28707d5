---------------------------- MODULE MpscQueueProofs ----------------------------
(***************************************************************************)
(* Theorems about MpscQueue, for any number of producers, any capacity and *)
(* any size of the batches.                                                *)
(***************************************************************************)
EXTENDS MpscQueue, FiniteSetTheorems, SequenceTheorems, TLAPS

\* Producers that have passed the place where produce counts them.
Counted == {p \in Producers : pc[p] \in {"return", "ended"}}

\* Where everybody is.
Places == /\ pc \in [Producers -> {"loop", "count", "return", "ended"}]
          /\ cpc \in {"sweep", "call", "check", "ended"}
          /\ stop \in BOOLEAN
          /\ done \in Nat

\* done counts producers that are past the place, each once, since only a stopped
\* producer is counted and a stopped producer does not come back.
CountInv == /\ Places
            /\ ~stop => done = 0
            /\ done <= Cardinality(Counted)
            /\ cpc = "ended" => stop /\ Counted = Producers

\* Sets of producers are finite, and P of them are all.
LEMMA ProducerSets ==
    ASSUME NEW S \in SUBSET Producers
    PROVE  /\ IsFiniteSet(S) /\ Cardinality(S) \in Nat /\ Cardinality(S) <= P
           /\ Cardinality(S) = P => S = Producers
<1>1. IsFiniteSet(Producers) /\ Cardinality(Producers) = P
  BY SizesAssumption, FS_Interval DEF Producers
<1> QED BY <1>1, FS_Subset, FS_CardinalityType

\* One producer more.
LEMMA CountOne ==
    ASSUME NEW S \in SUBSET Producers, NEW p \in Producers, p \notin S
    PROVE  Cardinality(S \cup {p}) = Cardinality(S) + 1
BY ProducerSets, FS_AddElement

LEMMA CountInit == Init => CountInv
<1> SUFFICES ASSUME Init PROVE CountInv
  OBVIOUS
<1>1. Counted \in SUBSET Producers
  BY DEF Counted
<1>2. 0 <= Cardinality(Counted)
  BY <1>1, ProducerSets
<1>3. Places /\ done = 0 /\ cpc = "sweep"
  BY DEF Init, Places
<1> QED BY <1>2, <1>3 DEF CountInv

\* Steps of a producer.
LEMMA ProducerStep ==
    ASSUME CountInv, NEW p \in Producers, Produce(p)
    PROVE  CountInv'
<1> USE DEF CountInv, Places
<1>0. Counted \in SUBSET Producers /\ Cardinality(Counted) \in Nat
  BY ProducerSets DEF Counted
<1>1. CASE PushSome(p)
  BY <1>1 DEF PushSome, Counted
<1>2. CASE LoopEnds(p)
  <2>1. Counted' = Counted
    BY <1>2 DEF LoopEnds, Counted
  <2> QED BY <1>2, <2>1 DEF LoopEnds
<1>3. CASE Count(p)
  <2>1. /\ pc[p] = "count" /\ pc' = [pc EXCEPT ![p] = "return"] /\ UNCHANGED <<stop, cpc>>
        /\ done' = IF stop THEN done + 1 ELSE done
    BY <1>3 DEF Count
  <2>2. Counted' = Counted \cup {p} /\ p \notin Counted
    BY <2>1 DEF Counted
  <2>3. Cardinality(Counted') = Cardinality(Counted) + 1
    BY <1>0, <2>2, CountOne
  <2>4. done' \in Nat /\ (~stop => done' = 0) /\ done' <= Cardinality(Counted')
    BY <1>0, <2>1, <2>3
  <2>5. cpc # "ended"
    BY <2>2
  <2> QED BY <2>1, <2>4, <2>5
\* A producer that returns after stop is over, and stays counted.
<1>4. CASE Return(p)
  <2>1. /\ pc[p] = "return" /\ pc' = [pc EXCEPT ![p] = IF stop THEN "ended" ELSE "loop"]
        /\ UNCHANGED <<stop, cpc, done>>
    BY <1>4 DEF Return
  <2>2. CASE stop
    <3>1. Counted' = Counted
      BY <2>1, <2>2 DEF Counted
    <3> QED BY <2>1, <2>2, <3>1
  <2>3. CASE ~stop
    <3>1. Counted' \in SUBSET Producers
      BY DEF Counted
    <3>2. Cardinality(Counted') \in Nat
      BY <3>1, ProducerSets
    <3> QED BY <2>1, <2>3, <3>2
  <2> QED BY <2>2, <2>3
<1> QED BY <1>1, <1>2, <1>3, <1>4 DEF Produce

\* Steps of the consumer: when it ends, as many producers are counted as there
\* are.
LEMMA ConsumerStep ==
    ASSUME CountInv, Consume
    PROVE  CountInv'
<1> USE DEF CountInv, Places
<1>0. Counted \in SUBSET Producers
  BY DEF Counted
<1>1. UNCHANGED <<pc, stop, done>> /\ Counted' = Counted
  BY DEF Consume, PopChunk, NextQueue, Call, Check, Counted
<1>2. cpc' \in {"sweep", "call", "check"} \/ (cpc' = "ended" /\ stop /\ done = P)
  BY DEF Consume, PopChunk, NextQueue, Call, Check
<1>3. done = P => Counted = Producers
  BY <1>0, ProducerSets, SizesAssumption
<1> QED BY <1>1, <1>2, <1>3

LEMMA CountStep == CountInv /\ [Next]_vars => CountInv'
<1> SUFFICES ASSUME CountInv, [Next]_vars PROVE CountInv'
  OBVIOUS
<1>1. CASE Stop
  BY <1>1 DEF Stop, CountInv, Places, Counted
<1>2. CASE UNCHANGED vars
  BY <1>2 DEF vars, CountInv, Places, Counted
<1> QED BY <1>1, <1>2, ProducerStep, ConsumerStep DEF Next

\* The consumer ends after every producer has pushed its last item (the test of
\* _stop and _donePorodicers that ends consume): none of them pushes again.
THEOREM ConsumerIsLast == Spec => []ConsumerEndsLast
<1>1. CountInv => ConsumerEndsLast
  BY DEF CountInv, ConsumerEndsLast, Counted
<1> QED BY <1>1, CountInit, CountStep, PTL DEF Spec

-------------------------------------------------------------------------------
(* Items keep their order.                                                 *)

\* The offset at which a chunk is inserted is the end of the buffer, so a sweep
\* appends.
ItemsInv == QueueInv /\ offset = Len(buf)

\* What the types say about the sequences.
LEMMA TakenTypes ==
    ASSUME TypeOK
    PROVE  /\ Taken \in Seq(Items) /\ Len(Taken) \in Nat
           /\ \A p \in Producers : Gone(p) \in Int /\ queue[p] \in Seq(Items) /\ Len(queue[p]) \in Nat
           /\ \A i \in 1..Len(Taken) : Taken[i][1] \in Producers /\ Taken[i][2] \in Int
<1>1. Taken \in Seq(Items)
  BY ConcatProperties DEF Taken, TypeOK
<1>2. \A i \in 1..Len(Taken) : Taken[i] \in Items
  BY <1>1, ElementOfSeq
<1>3. \A x \in Items : x[1] \in Producers /\ x[2] \in Int
  BY DEF Items
<1>4. ASSUME NEW p \in Producers PROVE Gone(p) \in Int /\ queue[p] \in Seq(Items) /\ Len(queue[p]) \in Nat
  BY <1>4, SizesAssumption DEF Gone, TypeOK
<1> QED BY <1>1, <1>2, <1>3, <1>4

\* The part of Conserved about what was taken: s holds the first g[p] items of
\* each producer p, in their order.
InTurn(s, g) ==
    /\ \A p \in Producers : \A n \in 1..g[p] : \E i \in 1..Len(s) : s[i] = <<p, n>>
    /\ \A i \in 1..Len(s) : s[i][2] <= g[s[i][1]]
    /\ \A i, j \in 1..Len(s) : i < j /\ s[i][1] = s[j][1] => s[i][2] < s[j][2]

Amounts == [p \in Producers |-> Gone(p)]

LEMMA TakenInTurn ==
    ASSUME TypeOK
    PROVE  Conserved <=> /\ \A p \in Producers : \A i \in 1..Len(queue[p]) :
                                queue[p][i] = <<p, Gone(p) + i>>
                         /\ InTurn(Taken, Amounts)
BY TakenTypes DEF Conserved, InTurn, Amounts

\* The next items of a producer, behind those that were taken.
LEMMA ChunkInTurn ==
    ASSUME NEW c \in Producers, NEW s \in Seq(Items), NEW q \in Seq(Items),
           NEW g \in [Producers -> Int], \A i \in 1..Len(q) : q[i] = <<c, g[c] + i>>,
           InTurn(s, g)
    PROVE  InTurn(s \o q, [g EXCEPT ![c] = g[c] + Len(q)])
<1> DEFINE t == s \o q
           h == [g EXCEPT ![c] = g[c] + Len(q)]
           l == Len(s)
<1>1. /\ Len(t) = l + Len(q) /\ l \in Nat /\ Len(q) \in Nat
      /\ \A i \in 1..(l + Len(q)) : t[i] = IF i <= l THEN s[i] ELSE q[i - l]
  BY ConcatProperties
<1>2. h[c] = g[c] + Len(q) /\ g[c] \in Int /\ \A p \in Producers : p # c => h[p] = g[p]
  OBVIOUS
<1>3. \A i \in 1..l : s[i][1] \in Producers /\ s[i][2] \in Int
  <2>1. \A i \in 1..l : s[i] \in Items
    BY ElementOfSeq
  <2>2. \A x \in Items : x[1] \in Producers /\ x[2] \in Int
    BY DEF Items
  <2> QED BY <2>1, <2>2
<1> HIDE DEF t, h, l
<1>4. \A i \in 1..l : i \in 1..Len(t) /\ t[i] = s[i]
  BY <1>1
<1>5. ASSUME NEW i \in 1..Len(q)
      PROVE  l + i \in 1..Len(t) /\ t[l + i] = <<c, g[c] + i>>
  <2>1. l + i \in 1..(l + Len(q)) /\ ~(l + i <= l) /\ (l + i) - l = i
    BY <1>1
  <2>2. t[l + i] = q[i]
    BY <1>1, <2>1
  <2> QED BY <1>1, <2>1, <2>2
<1>6. ASSUME NEW i \in 1..Len(t), i \notin 1..l
      PROVE  i - l \in 1..Len(q) /\ t[i] = <<c, g[c] + (i - l)>>
  <2>1. i \in 1..(l + Len(q)) /\ ~(i <= l) /\ i - l \in 1..Len(q)
    BY <1>1, <1>6
  <2>2. t[i] = q[i - l]
    BY <1>1, <2>1
  <2> QED BY <2>1, <2>2
<1>7. \A p \in Producers : \A n \in 1..h[p] : \E i \in 1..Len(t) : t[i] = <<p, n>>
  <2> SUFFICES ASSUME NEW p \in Producers, NEW n \in 1..h[p] PROVE \E i \in 1..Len(t) : t[i] = <<p, n>>
    OBVIOUS
  <2>1. CASE n \in 1..g[p]
    <3>1. PICK i \in 1..l : s[i] = <<p, n>>
      BY <2>1 DEF InTurn, l
    <3> QED BY <1>4, <3>1
  <2>2. CASE n \notin 1..g[p]
    <3>1. p = c /\ n - g[c] \in 1..Len(q)
      BY <1>1, <1>2, <2>2
    <3>2. t[l + (n - g[c])] = <<c, n>>
      BY <1>2, <1>5, <3>1
    <3> QED BY <1>5, <3>1, <3>2
  <2> QED BY <2>1, <2>2
<1>8. \A i \in 1..Len(t) : t[i][2] <= h[t[i][1]]
  <2> SUFFICES ASSUME NEW i \in 1..Len(t) PROVE t[i][2] <= h[t[i][1]]
    OBVIOUS
  <2>1. CASE i \in 1..l
    <3>1. s[i][2] <= g[s[i][1]]
      BY <2>1 DEF InTurn, l
    <3>2. \A p \in Producers : g[p] \in Int /\ h[p] \in Int /\ g[p] <= h[p]
      BY <1>1, <1>2
    <3> QED BY <1>3, <1>4, <2>1, <3>1, <3>2
  <2>2. CASE i \notin 1..l
    BY <1>1, <1>2, <1>6, <2>2
  <2> QED BY <2>1, <2>2
<1>9. \A i, j \in 1..Len(t) : i < j /\ t[i][1] = t[j][1] => t[i][2] < t[j][2]
  <2> SUFFICES ASSUME NEW i \in 1..Len(t), NEW j \in 1..Len(t), i < j, t[i][1] = t[j][1]
               PROVE  t[i][2] < t[j][2]
    OBVIOUS
  <2>1. CASE j \in 1..l
    <3>1. i \in 1..l
      BY <1>1, <2>1
    <3> QED BY <1>4, <2>1, <3>1 DEF InTurn, l
  <2>2. CASE i \in 1..l /\ j \notin 1..l
    <3>1. t[j] = <<c, g[c] + (j - l)>> /\ j - l \in 1..Len(q)
      BY <1>6, <2>2
    <3>2. s[i][1] = c /\ s[i][2] <= g[c] /\ s[i][2] \in Int
      BY <1>3, <1>4, <2>2, <3>1 DEF InTurn, l
    <3> QED BY <1>1, <1>2, <1>4, <2>2, <3>1, <3>2
  <2>3. CASE i \notin 1..l /\ j \notin 1..l
    BY <1>1, <1>2, <1>6, <2>3
  <2> QED BY <1>1, <2>1, <2>2, <2>3
<1> QED BY <1>7, <1>8, <1>9 DEF InTurn, t, h, l

\* A step that moves no item between queue and buffer.
LEMMA SameItems ==
    ASSUME Conserved, UNCHANGED <<queue, pushed>>, Taken' = Taken
    PROVE  Conserved'
<1>1. \A p : Gone(p)' = Gone(p)
  BY DEF Gone
<1> QED BY <1>1 DEF Conserved

\* A producer appends to its queue what it counts as pushed.
LEMMA PushKeeps ==
    ASSUME ItemsInv, NEW p \in Producers, PushSome(p)
    PROVE  ItemsInv'
<1> DEFINE n == Room(p)
           new == [i \in 1..n |-> <<p, pushed[p] + i>>]
<1>1. TypeOK /\ Conserved /\ offset = Len(buf)
  BY DEF ItemsInv, QueueInv
<1>2. /\ queue' = [queue EXCEPT ![p] = queue[p] \o new]
      /\ pushed' = [pushed EXCEPT ![p] = pushed[p] + n] /\ pushed[p] + n <= MaxItems
      /\ left' = [left EXCEPT ![p] = left[p] - n]
      /\ UNCHANGED <<buf, offset, stop, done, pc, cpc, at, delivered>>
  BY DEF PushSome
<1>3. /\ n \in Nat /\ n <= left[p] /\ Len(queue[p]) + n <= Capacity /\ Len(queue[p]) \in Nat
      /\ queue[p] \in Seq(Items) /\ pushed[p] \in Nat /\ MaxItems \in Nat
      /\ left[p] \in 0..Batch /\ Batch \in Nat /\ queue \in [Producers -> Seq(Items)]
  BY <1>1, SizesAssumption DEF Room, TypeOK
<1> HIDE DEF n
<1>4. new \in Seq(Items) /\ Len(new) = n /\ \A i \in 1..n : new[i] = <<p, pushed[p] + i>>
  <2>1. \A i \in 1..n : <<p, pushed[p] + i>> \in Items
    BY <1>2, <1>3 DEF Items
  <2>2. new \in [1..n -> Items] /\ DOMAIN new = 1..n
    BY <2>1
  <2>3. new \in Seq(Items)
    BY <1>3, <2>2, SeqDef
  <2>4. Len(new) = n
    <3>1. Len(new) \in Nat /\ 1..Len(new) = 1..n
      BY <2>2, <2>3, LenProperties
    <3> QED BY <1>3, <3>1
  <2> QED BY <2>2, <2>3, <2>4
<1> HIDE DEF new
<1>5. /\ queue'[p] \in Seq(Items) /\ Len(queue'[p]) = Len(queue[p]) + n
      /\ \A i \in 1..(Len(queue[p]) + n) :
            queue'[p][i] = IF i <= Len(queue[p]) THEN queue[p][i] ELSE new[i - Len(queue[p])]
  <2>1. queue'[p] = queue[p] \o new
    BY <1>2, <1>3
  <2>2. /\ queue[p] \o new \in Seq(Items) /\ Len(queue[p] \o new) = Len(queue[p]) + Len(new)
        /\ \A i \in 1..(Len(queue[p]) + Len(new)) : (queue[p] \o new)[i] =
              IF i <= Len(queue[p]) THEN queue[p][i] ELSE new[i - Len(queue[p])]
    <3>1. queue[p] \in Seq(Items) /\ new \in Seq(Items)
      BY <1>3, <1>4
    <3> QED BY <3>1, ConcatProperties
  <2>3. Len(new) = n
    BY <1>4
  <2> QED BY <2>1, <2>2, <2>3, Zenon
<1>6. \A q \in Producers : q # p => queue'[q] = queue[q] /\ pushed'[q] = pushed[q]
  BY <1>1, <1>2 DEF TypeOK
<1>7. TypeOK'
  <2>1. queue' \in [Producers -> Seq(Items)]
    BY <1>2, <1>3, <1>5
  <2>2. \A q \in Producers : Len(queue'[q]) <= Capacity
    BY <1>1, <1>3, <1>5, <1>6 DEF TypeOK
  <2>3. pushed' \in [Producers -> 0..MaxItems] /\ left' \in [Producers -> 0..Batch]
    BY <1>1, <1>2, <1>3 DEF TypeOK
  <2> QED BY <1>1, <1>2, <2>1, <2>2, <2>3 DEF TypeOK
<1>8. pushed'[p] = pushed[p] + n
  BY <1>1, <1>2 DEF TypeOK
<1>9. \A q \in Producers : Gone(q)' = Gone(q)
  BY <1>3, <1>5, <1>6, <1>8 DEF Gone
<1>10. Taken' = Taken
  BY <1>2 DEF Taken
<1>11. \A q \in Producers : \A i \in 1..Len(queue'[q]) : queue'[q][i] = <<q, Gone(q) + i>>
  <2> SUFFICES ASSUME NEW q \in Producers, NEW i \in 1..Len(queue'[q])
               PROVE  queue'[q][i] = <<q, Gone(q) + i>>
    OBVIOUS
  <2>1. CASE q # p
    BY <1>1, <1>6, <2>1 DEF Conserved
  <2>2. CASE q = p /\ i <= Len(queue[p])
    BY <1>1, <1>3, <1>5, <2>2 DEF Conserved
  <2>3. CASE q = p /\ i > Len(queue[p])
    <3>1. i - Len(queue[p]) \in 1..n
      BY <1>3, <1>5, <2>3
    <3>2. queue'[p][i] = <<p, pushed[p] + (i - Len(queue[p]))>>
      BY <1>3, <1>4, <1>5, <2>3, <3>1
    <3> QED BY <1>3, <2>3, <3>2 DEF Gone
  <2> QED BY <1>3, <1>5, <2>1, <2>2, <2>3
<1>12. Conserved'
  <2>1. \A i \in 1..Len(Taken) : Taken[i][1] \in Producers
    BY <1>1, TakenTypes
  <2> QED BY <1>1, <1>9, <1>10, <1>11, <2>1 DEF Conserved
<1> QED BY <1>1, <1>2, <1>7, <1>12 DEF ItemsInv, QueueInv

\* The whole queue goes behind what was taken before.
LEMMA PopKeeps ==
    ASSUME ItemsInv, PopChunk
    PROVE  ItemsInv'
<1> DEFINE q == queue[at]
<1>1. TypeOK /\ Conserved /\ offset = Len(buf) /\ at \in Producers
  BY DEF ItemsInv, QueueInv, TypeOK
<1>2. /\ q \in Seq(Items) /\ Len(q) \in Nat /\ buf \in Seq(Items) /\ delivered \in Seq(Items)
      /\ Len(buf) \in Nat
  BY <1>1 DEF TypeOK
<1>3. /\ buf' = SubSeq(buf, 1, offset) \o q \o SubSeq(buf, offset + 1, Len(buf))
      /\ offset' = offset + Len(q) /\ queue' = [queue EXCEPT ![at] = <<>>]
      /\ UNCHANGED <<stop, done, pc, left, pushed, cpc, at, delivered>>
  BY DEF PopChunk
<1> HIDE DEF q
<1>4. buf' = buf \o q
  <2>1. SubSeq(buf, 1, offset) = buf
    BY <1>1, <1>2, SubSeqFull
  <2>2. SubSeq(buf, offset + 1, Len(buf)) = <<>>
    BY <1>1, <1>2, SubSeqEmpty
  <2>3. buf \o q \in Seq(Items)
    BY <1>2, ConcatProperties
  <2> QED BY <1>3, <2>1, <2>2, <2>3, ConcatEmptySeq
<1>5. buf' \in Seq(Items) /\ Len(buf') = Len(buf) + Len(q) /\ offset' = Len(buf')
  BY <1>1, <1>2, <1>3, <1>4, ConcatProperties
<1>6. queue'[at] = <<>> /\ \A p \in Producers : p # at => queue'[p] = queue[p]
  BY <1>1, <1>3 DEF TypeOK
<1>7. TypeOK'
  <2>0. <<>> \in Seq(Items) /\ Len(<<>>) = 0
    BY EmptySeq
  <2>1. queue' \in [Producers -> Seq(Items)]
    BY <1>1, <1>3, <2>0 DEF TypeOK
  <2>2. \A p \in Producers : Len(queue'[p]) <= Capacity
    <3> TAKE p \in Producers
    <3>1. Len(queue'[at]) = 0 /\ 0 <= Capacity
      BY <1>6, <2>0, SizesAssumption
    <3> QED BY <1>1, <1>6, <3>1 DEF TypeOK
  <2>3. offset' \in 0..Len(buf')
    BY <1>2, <1>5
  <2> QED BY <1>1, <1>3, <1>5, <2>1, <2>2, <2>3 DEF TypeOK
<1>8. Taken' = Taken \o q
  <2>1. Taken' = delivered \o (buf \o q)
    BY <1>3, <1>4 DEF Taken
  <2> QED BY <1>2, <2>1, ConcatAssociative DEF Taken
<1>9. Taken \in Seq(Items) /\ Amounts \in [Producers -> Int]
  BY <1>1, TakenTypes DEF Amounts
<1>10. Amounts' = [Amounts EXCEPT ![at] = Amounts[at] + Len(q)]
  <2>1. ASSUME NEW p \in Producers, p # at PROVE Gone(p)' = Gone(p)
    BY <1>3, <1>6, <2>1 DEF Gone
  <2>2. ASSUME NEW p \in Producers, p = at PROVE Gone(p)' = Gone(p) + Len(q)
    <3>1. Len(queue'[p]) = 0 /\ pushed'[p] = pushed[p] /\ pushed[p] \in Int
      BY <1>1, <1>3, <1>6, <2>2, EmptySeq, SizesAssumption DEF TypeOK
    <3> QED BY <1>2, <2>2, <3>1 DEF Gone, q
  <2> QED BY <1>1, <2>1, <2>2 DEF Amounts
<1>11. InTurn(Taken, Amounts) /\ \A i \in 1..Len(q) : q[i] = <<at, Amounts[at] + i>>
  BY <1>1, TakenInTurn DEF Amounts, q
<1>12. InTurn(Taken', Amounts')
  BY <1>1, <1>2, <1>8, <1>9, <1>10, <1>11, ChunkInTurn
<1>13. \A p \in Producers : \A i \in 1..Len(queue'[p]) : queue'[p][i] = <<p, Gone(p)' + i>>
  <2> SUFFICES ASSUME NEW p \in Producers, NEW i \in 1..Len(queue'[p])
               PROVE  queue'[p][i] = <<p, Gone(p)' + i>>
    OBVIOUS
  <2>1. p # at
    BY <1>6, EmptySeq
  <2>2. Gone(p)' = Gone(p)
    BY <1>3, <1>6, <2>1 DEF Gone
  <2> QED BY <1>1, <1>6, <2>1, <2>2 DEF Conserved
<1>14. Conserved'
  <2>1. \A p \in Producers : Amounts'[p] = Gone(p)'
    BY DEF Amounts
  <2>2. \A i \in 1..Len(Taken') : Taken'[i][1] \in Producers
    <3>1. Taken' \in Seq(Items)
      BY <1>2, <1>8, <1>9, ConcatProperties
    <3> QED BY <3>1, ElementOfSeq DEF Items
  <2> QED BY <1>12, <1>13, <2>1, <2>2 DEF Conserved, InTurn
<1> QED BY <1>5, <1>7, <1>14 DEF ItemsInv, QueueInv

LEMMA ItemsInit == Init => ItemsInv
<1> SUFFICES ASSUME Init PROVE ItemsInv
  OBVIOUS
<1>1. Len(<<>>) = 0 /\ \A S : <<>> \in Seq(S)
  BY EmptySeq
<1>2. TypeOK
  <2>1. \A p \in Producers : queue[p] = <<>> /\ Len(queue[p]) <= Capacity
    BY <1>1, SizesAssumption DEF Init
  <2>2. queue \in [Producers -> Seq(Items)] /\ buf \in Seq(Items) /\ delivered \in Seq(Items)
    BY <1>1 DEF Init
  <2>3. left \in [Producers -> 0..Batch] /\ pushed \in [Producers -> 0..MaxItems]
    BY SizesAssumption DEF Init
  <2>4. offset \in 0..Len(buf)
    BY <1>1 DEF Init
  <2>5. done \in 0..P /\ at \in Producers
    BY SizesAssumption DEF Init, Producers
  <2> QED BY <2>1, <2>2, <2>3, <2>4, <2>5 DEF Init, TypeOK
<1>3. Taken = <<>> /\ \A p \in Producers : queue[p] = <<>> /\ Gone(p) = 0
  BY <1>1 DEF Init, Taken, Gone
<1>4. Conserved
  BY <1>1, <1>3 DEF Conserved
<1> QED BY <1>1, <1>2, <1>4 DEF ItemsInv, QueueInv, Init

\* The other steps: the callback gets the buffer, the rest moves no item.
LEMMA OthersKeep ==
    ASSUME ItemsInv, CountInv, CountInv',
           \/ \E p \in Producers : LoopEnds(p) \/ Count(p) \/ Return(p)
           \/ NextQueue \/ Call \/ Check \/ Stop \/ UNCHANGED vars
    PROVE  ItemsInv'
<1>1. TypeOK /\ Conserved /\ offset = Len(buf) /\ queue' = queue /\ pushed' = pushed
  BY DEF ItemsInv, QueueInv, LoopEnds, Count, Return, NextQueue, Call, Check, Stop, vars
<1>2. /\ Taken' = Taken /\ buf' \in Seq(Items) /\ delivered' \in Seq(Items)
      /\ offset' = Len(buf') /\ offset' \in 0..Len(buf')
  <2>1. CASE Call
    <3>1. delivered \o buf \in Seq(Items) /\ delivered' = delivered \o buf /\ buf' = <<>> /\ offset' = 0
      BY <1>1, <2>1, ConcatProperties DEF Call, TypeOK
    <3> QED BY <3>1, EmptySeq, ConcatEmptySeq DEF Taken
  <2>2. CASE ~Call
    <3>1. UNCHANGED <<buf, offset, delivered>>
      BY <2>2 DEF LoopEnds, Count, Return, NextQueue, Check, Stop, vars
    <3> QED BY <1>1, <3>1 DEF Taken, TypeOK
  <2> QED BY <2>1, <2>2
<1>3. Conserved'
  BY <1>1, <1>2, SameItems
<1>4. at' \in Producers
  <2>1. CASE NextQueue
    BY <1>1, <2>1, SizesAssumption DEF TypeOK, Producers, NextQueue
  <2>2. CASE ~NextQueue
    <3>1. at' = at
      BY <2>2 DEF LoopEnds, Count, Return, Call, Check, Stop, vars
    <3> QED BY <1>1, <3>1 DEF TypeOK
  <2> QED BY <2>1, <2>2
<1>5. left' \in [Producers -> 0..Batch]
  <2>1. CASE \E p \in Producers : Return(p)
    <3>1. PICK p \in Producers : left' = [left EXCEPT ![p] = Batch]
      BY <2>1 DEF Return
    <3> QED BY <1>1, <3>1, SizesAssumption DEF TypeOK
  <2>2. CASE ~\E p \in Producers : Return(p)
    <3>1. left' = left
      BY <2>2 DEF LoopEnds, Count, NextQueue, Call, Check, Stop, vars
    <3> QED BY <1>1, <3>1 DEF TypeOK
  <2> QED BY <2>1, <2>2
<1>6. done' \in 0..P
  <2>1. Counted' \in SUBSET Producers
    BY DEF Counted
  <2>2. Cardinality(Counted') \in Nat /\ Cardinality(Counted') <= P
    BY <2>1, ProducerSets
  <2> QED BY <2>2, SizesAssumption DEF CountInv, Places
<1>7. TypeOK'
  BY <1>1, <1>2, <1>4, <1>5, <1>6 DEF TypeOK, CountInv, Places
<1> QED BY <1>2, <1>3, <1>7 DEF ItemsInv, QueueInv

\* No item of a producer is lost, repeated or reordered on its way through queue,
\* buffer and callback, for any number of producers, any capacity and any size of
\* the batches.
THEOREM ItemsKeepOrder == Spec => []QueueInv
<1>1. ItemsInv /\ CountInv /\ CountInv' /\ [Next]_vars => ItemsInv'
  BY PushKeeps, PopKeeps, OthersKeep DEF Next, Produce, Consume
<1>2. ItemsInv => QueueInv
  BY DEF ItemsInv
<1> QED BY <1>1, <1>2, ItemsInit, CountInit, CountStep, PTL DEF Spec
================================================================================
