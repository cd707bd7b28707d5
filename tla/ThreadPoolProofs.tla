-------------------------- MODULE ThreadPoolProofs --------------------------
(***************************************************************************)
(* Proofs about ThreadPool, for any number of workers, clients and tasks.  *)
(***************************************************************************)
EXTENDS ThreadPool, FiniteSetTheorems, TLAPS

\* Appending adds one element; the appended sequence has no duplicate when the
\* element is new.
LEMMA ElemsAppend ==
  ASSUME NEW S, NEW s \in Seq(S), NEW e \in S
  PROVE  /\ Append(s, e) \in Seq(S)
         /\ Append(s, e) # <<>>
         /\ Elems(Append(s, e)) = Elems(s) \cup {e}
         /\ Distinct(s) /\ e \notin Elems(s) => Distinct(Append(s, e))
  <1> DEFINE t == Append(s, e)
  <1>1. /\ t \in Seq(S)
        /\ Len(t) = Len(s) + 1
        /\ Len(s) \in Nat
        /\ t[Len(s) + 1] = e
        /\ \A i \in 1..Len(s) : t[i] = s[i]
    OBVIOUS
  <1> HIDE DEF t
  <1>2. Elems(t) = Elems(s) \cup {e}
    BY <1>1 DEF Elems
  <1>3. t # <<>>
    BY <1>1
  <1>4. ASSUME Distinct(s), e \notin Elems(s)
        PROVE  Distinct(t)
    BY <1>1, <1>4 DEF Distinct, Elems
  <1> QED
    BY <1>1, <1>2, <1>3, <1>4 DEF t

\* Popping the front removes the head and nothing else.
LEMMA ElemsTail ==
  ASSUME NEW S, NEW s \in Seq(S), s # <<>>
  PROVE  /\ Head(s) \in S
         /\ Tail(s) \in Seq(S)
         /\ Elems(s) = {Head(s)} \cup Elems(Tail(s))
         /\ Distinct(s) => /\ Distinct(Tail(s))
                              /\ Head(s) \notin Elems(Tail(s))
  <1> DEFINE t == Tail(s)
             h == Head(s)
  <1>1. /\ t \in Seq(S)
        /\ h \in S
        /\ Len(s) \in Nat
        /\ Len(s) > 0
        /\ Len(t) = Len(s) - 1
        /\ h = s[1]
        /\ \A i \in 1..Len(t) : t[i] = s[i + 1]
    OBVIOUS
  <1> HIDE DEF t, h
  <1>2. Elems(s) = {h} \cup Elems(t)
    <2>1. ASSUME NEW i \in 1..Len(s) PROVE s[i] \in {h} \cup Elems(t)
      <3>1. CASE i = 1
        BY <3>1, <1>1
      <3>2. CASE i # 1
        <4>1. i - 1 \in 1..Len(t) /\ t[i - 1] = s[i]
          BY <3>2, <1>1
        <4> QED BY <4>1 DEF Elems
      <3> QED BY <3>1, <3>2
    <2>2. ASSUME NEW i \in 1..Len(t) PROVE t[i] \in Elems(s)
      <3>1. i + 1 \in 1..Len(s) /\ t[i] = s[i + 1]
        BY <1>1
      <3> QED BY <3>1 DEF Elems
    <2>3. h \in Elems(s)
      BY <1>1 DEF Elems
    <2> QED BY <2>1, <2>2, <2>3 DEF Elems
  <1>3. ASSUME Distinct(s) PROVE Distinct(t) /\ h \notin Elems(t)
    <2>1. ASSUME NEW i \in 1..Len(t), NEW j \in 1..Len(t), t[i] = t[j]
          PROVE  i = j
      BY <1>1, <1>3, <2>1 DEF Distinct
    <2>2. ASSUME NEW i \in 1..Len(t), t[i] = h PROVE FALSE
      BY <1>1, <1>3, <2>2 DEF Distinct
    <2> QED BY <2>1, <2>2 DEF Distinct, Elems
  <1> QED
    BY <1>1, <1>2, <1>3 DEF t, h

\* An empty sequence has no elements and no duplicates.
LEMMA ElemsEmpty == Elems(<<>>) = {} /\ Distinct(<<>>)
  BY DEF Elems, Distinct

-----------------------------------------------------------------------------
(* The inductive invariant.                                                *)

LEMMA InitInv == Init => PoolInv
  <1> SUFFICES ASSUME Init PROVE PoolInv
    OBVIOUS
  <1> USE NAssumption, ClientsAssumption, NoTaskAssumption, ProgramAssumption
  <1>1. TypeOK
    BY DEF Init, TypeOK, Workers, Actors, PC
  <1>2. Running = {} /\ InHand = {} /\ Queued = {} /\ Accepted = {}
    BY ElemsEmpty DEF Init, Running, InHand, Queued, Accepted
  <1>3. OnceOnly
    BY <1>2, ElemsEmpty DEF Init, OnceOnly
  <1>4. ASSUME NEW a \in Actors
        PROVE  /\ a \in Clients => todo[a] = Script[a]
               /\ a \notin Clients => todo[a] = <<>>
    BY DEF Init
  <1>5. Fresh
    <2>1. \A a \in Actors : Distinct(todo[a])
      BY <1>4, ElemsEmpty, FreshAssumption
    <2>2. \A a, b \in Actors : a # b => Elems(todo[a]) \cap Elems(todo[b]) = {}
      BY <1>4, ElemsEmpty, FreshAssumption
    <2>3. \A t \in Tasks, a \in Actors : Elems(Spawns[t]) \cap Elems(todo[a]) = {}
      BY <1>4, ElemsEmpty, FreshAssumption
    <2> QED
      BY <1>2, <2>1, <2>2, <2>3 DEF Fresh
  <1>6. Accounted
    BY <1>2, <1>4 DEF Accounted, Actors, Init
  <1>7. Shutdown
    <2>1. \A w \in Workers : todo[w] = <<>>
      BY <1>4 DEF Actors
    <2>2. \A a \in Actors : ~notifyDue[a]
      BY DEF Init
    <2>3. \A w \in Workers : ~stop[w] /\ pc[w] = "head" /\ w \in Actors /\ ~(w < dtor)
      BY DEF Init, Workers, Actors
    <2> QED
      BY <2>1, <2>2, <2>3 DEF Init, Shutdown
  <1> QED
    BY <1>1, <1>3, <1>5, <1>6, <1>7 DEF PoolInv


\* Which worker runs what is settled by pc and cur alone.
LEMMA SameHands ==
  ASSUME UNCHANGED <<pc, cur>>
  PROVE  Running' = Running /\ InHand' = InHand
  BY DEF Running, InHand

\* A worker that moves between places other than "run" takes and leaves nothing.
LEMMA OutsideRun ==
  ASSUME TypeOK, UNCHANGED cur, pc' \in [Workers -> PC],
         \A w \in Workers : pc'[w] = "run" <=> pc[w] = "run"
  PROVE  Running' = Running /\ InHand' = InHand
  <1>1. Running' = Running
    BY DEF Running
  <1> QED
    BY <1>1 DEF InHand

\* A step that only moves workers between places other than "run" keeps what
\* the invariant says about tasks.
LEMMA TaskPartsKept ==
  ASSUME PoolInv, UNCHANGED <<tasks, cur, todo, done>>, pc' \in [Workers -> PC],
         \A w \in Workers : pc'[w] = "run" <=> pc[w] = "run"
  PROVE  OnceOnly' /\ Fresh' /\ Accounted'
  <1>1. Running' = Running /\ InHand' = InHand
    BY OutsideRun DEF PoolInv
  <1>2. Queued' = Queued /\ Accepted' = Accepted
    BY <1>1 DEF Queued, Accepted
  <1>3. OnceOnly'
    BY <1>1, <1>2 DEF PoolInv, OnceOnly
  <1>4. Fresh'
    BY <1>1, <1>2 DEF PoolInv, Fresh
  <1>5. Accounted'
    BY <1>1, <1>2 DEF PoolInv, Accounted
  <1> QED
    BY <1>3, <1>4, <1>5

LEMMA PushInv ==
  ASSUME PoolInv, NEW a \in Actors, Push(a)
  PROVE  PoolInv'
  <1> USE NAssumption, ClientsAssumption, NoTaskAssumption, ProgramAssumption
  <1> DEFINE t == Head(todo[a])
  <1>0. TypeOK /\ OnceOnly /\ Fresh /\ Accounted /\ Shutdown
    BY DEF PoolInv
  <1>1. /\ todo[a] \in Seq(Tasks) /\ todo[a] # <<>>
        /\ tasks' = Append(tasks, t)
        /\ todo' = [todo EXCEPT ![a] = Tail(@)]
        /\ notifyDue' = [notifyDue EXCEPT ![a] = TRUE]
        /\ UNCHANGED <<drain, pc, cur, stop, done, dtor>>
    BY <1>0 DEF Push, TypeOK
  <1>2. /\ t \in Tasks /\ Tail(todo[a]) \in Seq(Tasks)
        /\ Elems(todo[a]) = {t} \cup Elems(Tail(todo[a]))
        /\ Distinct(Tail(todo[a])) /\ t \notin Elems(Tail(todo[a]))
    <2>1. Distinct(todo[a])
      BY <1>0 DEF Fresh
    <2> QED
      BY <1>1, <2>1, ElemsTail
  <1>3. /\ \A b \in Actors : b # a => todo'[b] = todo[b]
        /\ todo'[a] = Tail(todo[a])
        /\ todo' \in [Actors -> Seq(Tasks)]
    BY <1>0, <1>1, <1>2 DEF TypeOK
  <1>4. t \notin Accepted
    BY <1>0, <1>2 DEF Fresh
  <1>5. /\ tasks' \in Seq(Tasks) /\ tasks' # <<>>
        /\ Queued' = Queued \cup {t}
        /\ Distinct(tasks')
    <2>1. tasks \in Seq(Tasks) /\ Distinct(tasks) /\ t \notin Elems(tasks)
      BY <1>0, <1>4 DEF TypeOK, OnceOnly, Accepted, Queued
    <2>2. t \in Tasks
      BY <1>2
    <2> HIDE DEF t
    <2>3. /\ Append(tasks, t) \in Seq(Tasks)
          /\ Append(tasks, t) # <<>>
          /\ Elems(Append(tasks, t)) = Elems(tasks) \cup {t}
          /\ Distinct(Append(tasks, t))
      BY <2>1, <2>2, ElemsAppend
    <2> QED
      BY <2>3, <1>1 DEF Queued
  <1>6. Running' = Running /\ InHand' = InHand
    BY <1>1, SameHands
  <1>7. Accepted' = Accepted \cup {t}
    BY <1>1, <1>5, <1>6 DEF Accepted
  <1> HIDE DEF t
  <1>8. TypeOK'
    BY <1>0, <1>1, <1>3, <1>5 DEF TypeOK
  <1>9. OnceOnly'
    BY <1>0, <1>1, <1>4, <1>5, <1>6 DEF OnceOnly, Accepted
  <1>10. Fresh'
    <2>1. ASSUME NEW b \in Actors
          PROVE  Distinct(todo'[b]) /\ Elems(todo'[b]) \cap Accepted' = {}
      <3>1. CASE b = a
        BY <3>1, <1>0, <1>2, <1>3, <1>7 DEF Fresh
      <3>2. CASE b # a
        BY <3>2, <1>0, <1>2, <1>3, <1>7 DEF Fresh
      <3> QED BY <3>1, <3>2
    <2>2. \A b \in Actors : Elems(todo'[b]) \subseteq Elems(todo[b])
      BY <1>2, <1>3
    <2>3. \A b, c \in Actors : b # c => Elems(todo'[b]) \cap Elems(todo'[c]) = {}
      BY <1>0, <2>2 DEF Fresh
    <2>4. ASSUME NEW u \in Tasks \ (InHand \cup done)
          PROVE  /\ Elems(Spawns[u]) \cap Accepted' = {}
                 /\ \A b \in Actors : Elems(Spawns[u]) \cap Elems(todo'[b]) = {}
      BY <1>0, <1>2, <1>7, <2>2 DEF Fresh
    <2> QED
      BY <2>1, <2>3, <2>4, <1>1, <1>6 DEF Fresh
  <1>11. Accounted'
    <2>1. \A b \in Actors : Elems(todo[b]) \cup Accepted \subseteq Elems(todo'[b]) \cup Accepted'
      BY <1>2, <1>3, <1>7
    <2> QED
      BY <2>1, <1>0, <1>1, <1>6, <1>7 DEF Accounted, Actors, Running
  <1>12. Shutdown'
    <2>1. CASE a \in Clients
      <3>1. dtor = 0 /\ a \notin Workers
        BY <2>1, <1>0, <1>1 DEF Shutdown
      <3>2. \A w \in Workers : pc[w] # "exited"
        BY <3>1, <1>0 DEF Shutdown, Workers, TypeOK
      <3>3. \A w \in Workers : w \in Actors /\ todo'[w] = todo[w] /\ notifyDue'[w] = notifyDue[w]
        BY <3>1, <1>0, <1>1, <1>3 DEF Actors, TypeOK
      <3>4. 1 \in Workers
        BY DEF Workers
      <3> QED
        BY <3>1, <3>2, <3>3, <3>4, <1>0, <1>1 DEF Shutdown
    <2>2. CASE a \in Workers
      <3>1. pc[a] = "run"
        BY <2>2, <1>0, <1>1 DEF Shutdown
      <3>2. \A b \in Actors : b # a => todo'[b] = todo[b] /\ notifyDue'[b] = notifyDue[b]
        BY <1>0, <1>1, <1>3 DEF TypeOK
      <3>3. a \notin Clients
        BY <2>2
      <3> QED
        BY <2>2, <3>1, <3>2, <3>3, <1>0, <1>1 DEF Shutdown, Actors
    <2> QED BY <2>1, <2>2 DEF Actors
  <1> QED
    BY <1>8, <1>9, <1>10, <1>11, <1>12 DEF PoolInv


LEMMA NotifyOneInv ==
  ASSUME PoolInv, NEW a \in Actors, NotifyOne(a)
  PROVE  PoolInv'
  <1> USE NAssumption, ClientsAssumption
  <1>0. TypeOK /\ Shutdown
    BY DEF PoolInv
  <1>1. /\ UNCHANGED <<drain, tasks, cur, stop, todo, done, dtor>>
        /\ notifyDue' \in [Actors -> BOOLEAN]
        /\ pc' \in [Workers -> PC]
        /\ \A b \in Actors : notifyDue'[b] => notifyDue[b]
    BY <1>0 DEF NotifyOne, TypeOK, PC
  <1>2. \A w \in Workers : \/ pc'[w] = pc[w]
                           \/ pc[w] = "waiting" /\ pc'[w] = "lock"
    BY <1>0 DEF NotifyOne, TypeOK
  <1>3. \A w \in Workers : /\ pc'[w] = "run" <=> pc[w] = "run"
                           /\ pc'[w] = "exited" <=> pc[w] = "exited"
    BY <1>2
  <1>4. OnceOnly' /\ Fresh' /\ Accounted'
    BY <1>1, <1>3, TaskPartsKept
  <1>5. TypeOK'
    BY <1>0, <1>1 DEF TypeOK
  <1>6. Shutdown'
    BY <1>0, <1>1, <1>3 DEF Shutdown, Actors
  <1> QED
    BY <1>4, <1>5, <1>6 DEF PoolInv

\* The steps of a worker that neither take nor finish a task.
LEMMA IdleStepInv ==
  ASSUME PoolInv, NEW w \in Workers,
         LoopHead(w) \/ Sleep(w) \/ Exit(w) \/ SpuriousWakeup(w)
  PROVE  PoolInv'
  <1> USE NAssumption, ClientsAssumption
  <1>0. TypeOK /\ Shutdown
    BY DEF PoolInv
  <1>1. UNCHANGED <<drain, tasks, cur, stop, todo, notifyDue, done, dtor>>
    BY DEF LoopHead, Sleep, Exit, SpuriousWakeup
  <1>2. /\ pc' \in [Workers -> PC]
        /\ \A v \in Workers : v # w => pc'[v] = pc[v]
        /\ pc[w] \in {"head", "lock", "waiting"}
        /\ pc'[w] \in {"lock", "waiting", "exited"}
    BY <1>0 DEF LoopHead, Sleep, Exit, SpuriousWakeup, TypeOK, PC
  <1>3. pc'[w] = "exited" => stop[w] /\ (drain => tasks = <<>>)
    BY <1>0 DEF LoopHead, Sleep, Exit, SpuriousWakeup, TypeOK
  <1>4. \A v \in Workers : pc'[v] = "run" <=> pc[v] = "run"
    BY <1>2
  <1>5. OnceOnly' /\ Fresh' /\ Accounted'
    BY <1>1, <1>2, <1>4, TaskPartsKept
  <1>6. TypeOK'
    BY <1>0, <1>1, <1>2 DEF TypeOK
  <1>7. Shutdown'
    <2>1. dtor' # 0 => \A c \in Clients : todo'[c] = <<>> /\ ~notifyDue'[c]
      BY <1>0, <1>1 DEF Shutdown
    <2>2. ASSUME NEW v \in Workers
          PROVE  /\ pc'[v] = "run" => cur'[v] \in Tasks
                 /\ pc'[v] # "run" => todo'[v] = <<>> /\ ~notifyDue'[v]
                 /\ stop'[v] => v <= dtor'
                 /\ pc'[v] = "exited" => stop'[v]
                 /\ v < dtor' => pc'[v] = "exited"
      <3>1. CASE v # w
        BY <3>1, <1>0, <1>1, <1>2 DEF Shutdown
      <3>2. CASE v = w
        BY <3>2, <1>0, <1>1, <1>2, <1>3 DEF Shutdown
      <3> QED BY <3>1, <3>2
    <2>3. drain' /\ (\A v \in Workers : pc'[v] = "exited") => tasks' = <<>>
      BY <1>0, <1>1, <1>2, <1>3 DEF Shutdown
    <2> QED BY <2>1, <2>2, <2>3 DEF Shutdown
  <1> QED
    BY <1>5, <1>6, <1>7 DEF PoolInv

\* The steps of the destructor.
LEMMA OwnerInv ==
  ASSUME PoolInv, Owner
  PROVE  PoolInv'
  <1> USE NAssumption, ClientsAssumption
  <1>0. TypeOK /\ Shutdown
    BY DEF PoolInv
  <1>1. UNCHANGED <<drain, tasks, cur, todo, notifyDue, done>>
    BY DEF Owner, BeginDtor, RequestStop, Join
  <1>2. pc' \in [Workers -> PC]
    <2>1. CASE RequestStop
      <3>1. \A w \in Workers : pc[w] \in PC /\ "lock" \in PC
        BY <1>0 DEF TypeOK, PC
      <3> QED BY <2>1, <3>1 DEF RequestStop
    <2>2. CASE BeginDtor \/ Join
      BY <2>2, <1>0 DEF BeginDtor, Join, TypeOK
    <2> QED BY <2>1, <2>2 DEF Owner
  <1>3. \A w \in Workers : \/ pc'[w] = pc[w]
                           \/ pc[w] = "waiting" /\ pc'[w] = "lock"
    BY <1>0 DEF Owner, BeginDtor, RequestStop, Join, TypeOK
  <1>4. \A w \in Workers : /\ pc'[w] = "run" <=> pc[w] = "run"
                           /\ pc'[w] = "exited" <=> pc[w] = "exited"
    BY <1>3
  <1>5. OnceOnly' /\ Fresh' /\ Accounted'
    BY <1>1, <1>2, <1>4, TaskPartsKept
  <1>6. stop' \in [Workers -> BOOLEAN] /\ dtor' \in 0..(N + 1)
    <2>1. stop' \in [Workers -> BOOLEAN]
      BY <1>0 DEF Owner, BeginDtor, RequestStop, Join, TypeOK
    <2>2. dtor' \in {1, dtor, dtor + 1} /\ (dtor' = dtor + 1 => dtor \in 0..N)
      BY <1>0 DEF Owner, BeginDtor, RequestStop, Join, TypeOK, Workers
    <2> QED BY <2>1, <2>2, <1>0 DEF TypeOK
  <1>7. TypeOK'
    BY <1>0, <1>1, <1>2, <1>6 DEF TypeOK
  <1>8. Shutdown'
    <2>1. CASE BeginDtor
      <3>1. \A w \in Workers : stop'[w] = stop[w] /\ pc'[w] = pc[w] /\ ~(w < 1) /\ dtor = 0 /\ dtor' = 1
        BY <2>1 DEF BeginDtor, Workers
      <3>2. \A c \in Clients : todo'[c] = <<>> /\ ~notifyDue'[c]
        BY <2>1 DEF BeginDtor
      <3>3. \A w \in Workers : ~stop[w]
        BY <3>1, <1>0 DEF Shutdown, Workers
      <3> QED BY <3>1, <3>2, <3>3, <1>0, <1>1, <1>4 DEF Shutdown
    <2>2. CASE RequestStop
      <3>1. /\ dtor' = dtor /\ dtor \in Workers
            /\ \A w \in Workers : stop[w] => stop'[w]
            /\ \A w \in Workers : stop'[w] => stop[w] \/ w = dtor
        BY <2>2, <1>0 DEF RequestStop, TypeOK
      <3>2. \A w \in Workers : stop'[w] => w <= dtor
        BY <3>1, <1>0 DEF Shutdown, Workers
      <3> QED BY <3>1, <3>2, <1>0, <1>1, <1>4 DEF Shutdown
    <2>3. CASE Join
      <3>1. /\ dtor \in Workers /\ dtor' = dtor + 1
            /\ pc[dtor] = "exited"
            /\ \A w \in Workers : stop'[w] = stop[w]
        BY <2>3 DEF Join
      <3>2. \A w \in Workers : /\ w < dtor' => w < dtor \/ w = dtor
                               /\ w <= dtor => w <= dtor'
        BY <3>1 DEF Workers
      <3>3. dtor # 0
        BY <3>1 DEF Workers
      <3> QED BY <3>1, <3>2, <3>3, <1>0, <1>1, <1>4 DEF Shutdown
    <2> QED BY <2>1, <2>2, <2>3 DEF Owner
  <1> QED
    BY <1>5, <1>7, <1>8 DEF PoolInv


\* A worker that takes a task has it in hand, beside what others hold.
LEMMA HandsAfterTake ==
  ASSUME TypeOK, NEW w \in Workers, Take(w)
  PROVE  /\ w \notin Running /\ Running' = Running \cup {w}
         /\ InHand' = InHand \cup {Head(tasks)}
         /\ cur'[w] = Head(tasks) /\ pc'[w] = "run"
         /\ \A v \in Workers : v # w => cur'[v] = cur[v] /\ pc'[v] = pc[v]
  <1> DEFINE t == Head(tasks)
  <1>1. /\ pc[w] = "lock" /\ cur' = [cur EXCEPT ![w] = t]
        /\ pc' = [pc EXCEPT ![w] = "run"]
    BY DEF Take
  <1> HIDE DEF t
  <1>2. /\ cur'[w] = t /\ pc'[w] = "run"
        /\ \A v \in Workers : v # w => cur'[v] = cur[v] /\ pc'[v] = pc[v]
    BY <1>1 DEF TypeOK
  <1>3. w \notin Running /\ Running' = Running \cup {w}
    BY <1>1, <1>2 DEF Running
  <1>4. \A v \in Running : cur'[v] = cur[v]
    BY <1>2, <1>3 DEF Running
  <1>5. InHand' = {cur'[v] : v \in Running \cup {w}}
    BY <1>3 DEF InHand
  <1>6. InHand = {cur'[v] : v \in Running}
    BY <1>4 DEF InHand
  <1>7. cur'[w] = t
    BY <1>2
  <1>8. InHand' = InHand \cup {t}
    BY <1>5, <1>6, <1>7
  <1> QED BY <1>2, <1>3, <1>8 DEF t

\* A worker that finishes its task has nothing in hand, and nobody else had it.
LEMMA HandsAfterFinish ==
  ASSUME TypeOK, OnceOnly, NEW w \in Workers, Finish(w)
  PROVE  /\ w \in Running /\ Running' = Running \ {w}
         /\ cur[w] \in InHand /\ InHand' = InHand \ {cur[w]}
         /\ pc'[w] = "head"
         /\ \A v \in Workers : v # w => cur'[v] = cur[v] /\ pc'[v] = pc[v]
  <1> DEFINE t == cur[w]
  <1>1. /\ pc[w] = "run" /\ cur' = [cur EXCEPT ![w] = NoTask]
        /\ pc' = [pc EXCEPT ![w] = "head"]
    BY DEF Finish
  <1>2. \A v \in Workers : v # w => cur'[v] = cur[v] /\ pc'[v] = pc[v]
    BY <1>1 DEF TypeOK
  <1>3. pc'[w] = "head"
    BY <1>1 DEF TypeOK
  <1>4. w \in Running /\ Running' = Running \ {w}
    BY <1>1, <1>2, <1>3 DEF Running
  <1>5. InHand' = InHand \ {t} /\ t \in InHand
    <2>1. \A v \in Running : v # w => cur[v] # t
      BY <1>4 DEF OnceOnly
    <2> QED BY <2>1, <1>2, <1>4 DEF InHand, Running
  <1> QED BY <1>2, <1>3, <1>4, <1>5

LEMMA TakeInv ==
  ASSUME PoolInv, NEW w \in Workers, Take(w)
  PROVE  PoolInv'
  <1> USE NAssumption, ClientsAssumption, NoTaskAssumption, ProgramAssumption
  <1> DEFINE t == Head(tasks)
  <1>0. TypeOK /\ OnceOnly /\ Fresh /\ Accounted /\ Shutdown
    BY DEF PoolInv
  <1>a. w \in Actors /\ w \notin Clients
    BY DEF Actors
  <1>1. /\ tasks \in Seq(Tasks) /\ tasks # <<>> /\ Distinct(tasks)
        /\ pc[w] = "lock"
        /\ cur' = [cur EXCEPT ![w] = t]
        /\ tasks' = Tail(tasks)
        /\ todo' = [todo EXCEPT ![w] = Spawns[t]]
        /\ pc' = [pc EXCEPT ![w] = "run"]
        /\ UNCHANGED <<drain, stop, notifyDue, done, dtor>>
    BY <1>0 DEF Take, TypeOK, OnceOnly
  <1>2. /\ t \in Tasks /\ Tail(tasks) \in Seq(Tasks)
        /\ Elems(tasks) = {t} \cup Elems(Tail(tasks))
        /\ Distinct(Tail(tasks)) /\ t \notin Elems(Tail(tasks))
    BY <1>1, ElemsTail
  <1>3. /\ Queued = {t} \cup Queued'
        /\ Distinct(tasks') /\ t \notin Queued'
        /\ tasks' \in Seq(Tasks)
    BY <1>1, <1>2 DEF Queued
  <1> HIDE DEF t
  <1>4. /\ cur'[w] = t /\ pc'[w] = "run" /\ todo'[w] = Spawns[t]
        /\ \A v \in Workers : v # w => cur'[v] = cur[v] /\ pc'[v] = pc[v]
        /\ \A b \in Actors : b # w => todo'[b] = todo[b]
    BY <1>0, <1>1, <1>a DEF TypeOK
  <1>5. w \notin Running /\ Running' = Running \cup {w}
    BY <1>0, HandsAfterTake
  <1>6. InHand' = InHand \cup {t}
    BY <1>0, HandsAfterTake DEF t
  <1>7. Accepted' = Accepted
    BY <1>1, <1>3, <1>6 DEF Accepted
  <1>8. t \in Queued /\ t \notin InHand /\ t \notin done
    BY <1>0, <1>3 DEF OnceOnly
  <1>9. TypeOK'
    BY <1>0, <1>1, <1>2, <1>3 DEF TypeOK, PC
  <1>10. OnceOnly'
    <2>1. \A v, u \in Running' : cur'[v] = cur'[u] => v = u
      <3>1. \A v \in Running : v # w /\ cur'[v] = cur[v] /\ cur[v] # t
        BY <1>4, <1>5, <1>8 DEF Running, InHand
      <3>2. cur'[w] = t
        BY <1>4
      <3>3. \A v, u \in Running : cur[v] = cur[u] => v = u
        BY <1>0 DEF OnceOnly
      <3> QED BY <3>1, <3>2, <3>3, <1>5
    <2>2. Queued' \cap InHand' = {} /\ (Queued' \cup InHand') \cap done' = {}
      BY <1>0, <1>1, <1>3, <1>6, <1>8 DEF OnceOnly
    <2> QED BY <2>1, <2>2, <1>3 DEF OnceOnly
  <1>11. Fresh'
    <2>1. /\ Elems(Spawns[t]) \cap Accepted = {}
          /\ \A a \in Actors : Elems(Spawns[t]) \cap Elems(todo[a]) = {}
          /\ Distinct(Spawns[t])
      BY <1>0, <1>2, <1>8, FreshAssumption DEF Fresh
    <2>2. \A a \in Actors : Distinct(todo'[a]) /\ Elems(todo'[a]) \cap Accepted = {}
      BY <2>1, <1>0, <1>4 DEF Fresh
    <2>3. \A a, b \in Actors : a # b => Elems(todo'[a]) \cap Elems(todo'[b]) = {}
      BY <2>1, <1>0, <1>4 DEF Fresh
    <2>4. ASSUME NEW u \in Tasks \ (InHand' \cup done')
          PROVE  /\ Elems(Spawns[u]) \cap Accepted = {}
                 /\ \A a \in Actors : Elems(Spawns[u]) \cap Elems(todo'[a]) = {}
      <3>1. u # t /\ u \in Tasks \ (InHand \cup done)
        BY <1>1, <1>6
      <3>2. Elems(Spawns[u]) \cap Elems(Spawns[t]) = {}
        BY <3>1, <1>2, FreshAssumption
      <3> QED BY <3>1, <3>2, <1>0, <1>4 DEF Fresh
    <2> QED BY <2>2, <2>3, <2>4, <1>7 DEF Fresh
  <1>12. Accounted'
    <2>1. \A c \in Clients : Elems(Script[c]) \subseteq Elems(todo'[c]) \cup Accepted'
      BY <1>0, <1>a, <1>4, <1>7 DEF Accounted, Actors
    <2>2. \A v \in Running' : Elems(Spawns[cur'[v]]) \subseteq Elems(todo'[v]) \cup Accepted'
      <3>1. \A v \in Running : v \in Workers /\ v \in Actors
        BY DEF Running, Actors
      <3> QED BY <3>1, <1>0, <1>4, <1>5, <1>7 DEF Accounted
    <2> QED BY <2>1, <2>2, <1>0, <1>1, <1>7 DEF Accounted
  <1>13. Shutdown'
    <2>1. \A c \in Clients : c \in Actors /\ c # w
      BY <1>a DEF Actors
    <2>2. \A v \in Workers : v \in Actors
      BY DEF Actors
    <2>3. pc[w] # "exited" /\ pc'[w] # "exited" /\ ~(w < dtor)
      BY <1>0, <1>1, <1>4 DEF Shutdown
    <2> QED BY <2>1, <2>2, <2>3, <1>0, <1>1, <1>2, <1>4 DEF Shutdown
  <1> QED
    BY <1>9, <1>10, <1>11, <1>12, <1>13 DEF PoolInv

LEMMA FinishInv ==
  ASSUME PoolInv, NEW w \in Workers, Finish(w)
  PROVE  PoolInv'
  <1> USE NAssumption, ClientsAssumption, NoTaskAssumption, ProgramAssumption
  <1> DEFINE t == cur[w]
  <1>0. TypeOK /\ OnceOnly /\ Fresh /\ Accounted /\ Shutdown
    BY DEF PoolInv
  <1>1. /\ pc[w] = "run" /\ todo[w] = <<>> /\ ~notifyDue[w]
        /\ done' = done \cup {t}
        /\ cur' = [cur EXCEPT ![w] = NoTask]
        /\ pc' = [pc EXCEPT ![w] = "head"]
        /\ UNCHANGED <<drain, tasks, stop, todo, notifyDue, dtor>>
    BY DEF Finish
  <1>2. t \in Tasks
    BY <1>0, <1>1 DEF Shutdown
  <1>3. \A v \in Workers : v # w => cur'[v] = cur[v] /\ pc'[v] = pc[v]
    BY <1>0, HandsAfterFinish
  <1>4. pc'[w] = "head"
    BY <1>0, HandsAfterFinish
  <1>5. w \in Running /\ Running' = Running \ {w}
    BY <1>0, HandsAfterFinish
  <1>6. InHand' = InHand \ {t} /\ t \in InHand
    BY <1>0, HandsAfterFinish
  <1> HIDE DEF t
  <1>7. Queued' = Queued /\ InHand' \cup done' = InHand \cup done /\ Accepted' = Accepted
    BY <1>1, <1>6 DEF Queued, Accepted
  <1>8. TypeOK'
    BY <1>0, <1>1, <1>2 DEF TypeOK, PC
  <1>9. OnceOnly'
    <2>1. \A v, u \in Running' : cur'[v] = cur'[u] => v = u
      BY <1>0, <1>3, <1>5 DEF OnceOnly, Running
    <2>2. Queued' \cap InHand' = {} /\ (Queued' \cup InHand') \cap done' = {}
      BY <1>0, <1>1, <1>6, <1>7 DEF OnceOnly
    <2> QED BY <2>1, <2>2, <1>0, <1>1 DEF OnceOnly
  <1>10. Fresh'
    BY <1>0, <1>1, <1>7 DEF Fresh
  <1>11. Accounted'
    <2>1. Elems(Spawns[t]) \subseteq Accepted
      BY <1>0, <1>1, <1>5, ElemsEmpty DEF Accounted, t
    <2>2. \A v \in Running' : v # w /\ v \in Running /\ v \in Workers
      BY <1>5 DEF Running
    <2> QED BY <2>1, <2>2, <1>0, <1>1, <1>3, <1>7 DEF Accounted
  <1>12. Shutdown'
    <2>1. pc[w] # "exited" /\ ~(w < dtor)
      BY <1>0, <1>1 DEF Shutdown
    <2> QED BY <2>1, <1>0, <1>1, <1>3, <1>4 DEF Shutdown
  <1> QED
    BY <1>8, <1>9, <1>10, <1>11, <1>12 DEF PoolInv

\* Every step of the pool keeps the inductive invariant.
LEMMA NextInv == PoolInv /\ [Next]_vars => PoolInv'
  <1> SUFFICES ASSUME PoolInv, [Next]_vars PROVE PoolInv'
    OBVIOUS
  <1>1. ASSUME NEW a \in Actors, Submission(a) PROVE PoolInv'
    BY <1>1, PushInv, NotifyOneInv DEF Submission
  <1>2. ASSUME NEW w \in Workers, WorkerStep(w) \/ SpuriousWakeup(w) PROVE PoolInv'
    BY <1>2, IdleStepInv, TakeInv, FinishInv DEF WorkerStep
  <1>3. CASE Owner
    BY <1>3, OwnerInv
  <1>4. CASE UNCHANGED vars
    <2>1. pc' \in [Workers -> PC]
      BY <1>4 DEF vars, PoolInv, TypeOK
    <2>2. OnceOnly' /\ Fresh' /\ Accounted'
      BY <1>4, <2>1, TaskPartsKept DEF vars
    <2>3. TypeOK' /\ Shutdown'
      BY <1>4 DEF vars, PoolInv, TypeOK, Shutdown
    <2> QED BY <2>2, <2>3 DEF PoolInv
  <1> QED
    BY <1>1, <1>2, <1>3, <1>4 DEF Next, Terminated

\* The inductive invariant holds in every reachable state.
THEOREM PoolInvariant == Spec => []PoolInv
  <1> QED BY InitInv, NextInv, PTL DEF Spec

\* Type correctness of the pool.
THEOREM TypeCorrect == Spec => []TypeOK
  <1>1. PoolInv => TypeOK
    BY DEF PoolInv
  <1> QED BY <1>1, PoolInvariant, PTL

\* No task that was pushed is lost, duplicated or run by two workers.
THEOREM TasksRunOnce == Spec => []OnceOnly
  <1>1. PoolInv => OnceOnly
    BY DEF PoolInv
  <1> QED BY <1>1, PoolInvariant, PTL

\* The destructor of a pool whose workers loop with while (true) returns only
\* when everything submitted, by clients and by tasks, has run.
THEOREM DestructorDrains == Spec => []Drained
  <1>1. PoolInv => Drained
    <2> SUFFICES ASSUME PoolInv, drain, dtor = N + 1
                 PROVE  /\ \A c \in Clients : Elems(Script[c]) \subseteq done
                        /\ \A t \in done : Elems(Spawns[t]) \subseteq done
                        /\ Accepted = done
      BY DEF Drained
    <2> USE NAssumption
    <2>1. \A w \in Workers : w < dtor
      BY DEF Workers
    <2>2. \A w \in Workers : pc[w] = "exited"
      BY <2>1 DEF PoolInv, Shutdown
    <2>3. tasks = <<>>
      BY <2>2 DEF PoolInv, Shutdown
    <2>4. Running = {} /\ InHand = {} /\ Queued = {}
      BY <2>2, <2>3, ElemsEmpty DEF Running, InHand, Queued
    <2>5. Accepted = done
      BY <2>4 DEF Accepted
    <2>6. \A c \in Clients : Elems(todo[c]) = {}
      BY ElemsEmpty DEF PoolInv, Shutdown
    <2> QED BY <2>5, <2>6 DEF PoolInv, Accounted
  <1> QED BY <1>1, PoolInvariant, PTL

-----------------------------------------------------------------------------
(* No notify_one is lost.                                                  *)

\* Actors are finitely many, so one more or one less counts.
LEMMA CountActors ==
  ASSUME NEW S \in SUBSET Actors
  PROVE  /\ Cardinality(S) \in Nat
         /\ \A a \in Actors \ S : Cardinality(S \cup {a}) = Cardinality(S) + 1
         /\ \A a \in S : Cardinality(S \ {a}) = Cardinality(S) - 1
  <1>1. IsFiniteSet(Actors)
    <2>1. IsFiniteSet(Workers)
      BY NAssumption, FS_Interval DEF Workers
    <2> QED BY <2>1, ClientsAssumption, FS_Union DEF Actors
  <1>2. IsFiniteSet(S)
    BY <1>1, FS_Subset
  <1> QED
    BY <1>2, FS_CardinalityType, FS_AddElement, FS_RemoveElement

\* The sizes in WakeupForEachTask are numbers.
LEMMA WakeupTypes ==
  ASSUME TypeOK
  PROVE  /\ Notifying \in SUBSET Actors /\ Checking \in SUBSET Actors
         /\ Cardinality(Notifying) \in Nat /\ Cardinality(Checking) \in Nat
         /\ Len(tasks) \in Nat
  <1>1. Notifying \in SUBSET Actors /\ Checking \in SUBSET Actors
    BY DEF Notifying, Checking, Actors
  <1> QED
    BY <1>1, CountActors DEF TypeOK

\* A submission adds a task and a notify_one to come, which then wakes a worker.
LEMMA SubmissionWakes ==
  ASSUME TypeOK, TypeOK', WakeupForEachTask, NEW a \in Actors, Submission(a)
  PROVE  WakeupForEachTask'
  <1>1. CASE Push(a)
    <2>1. /\ Notifying' = Notifying \cup {a} /\ a \notin Notifying
          /\ pc' = pc /\ Checking' = Checking
      BY <1>1 DEF Push, Notifying, Checking, TypeOK
    <2>2. Len(tasks') = Len(tasks) + 1
      <3>1. todo[a] \in Seq(Tasks) /\ todo[a] # <<>> /\ tasks \in Seq(Tasks)
        BY <1>1 DEF Push, TypeOK
      <3>2. tasks' = Append(tasks, Head(todo[a]))
        BY <1>1 DEF Push
      <3> QED BY <3>1, <3>2
    <2>3. Cardinality(Notifying') = Cardinality(Notifying) + 1
      BY <2>1, WakeupTypes, CountActors
    <2> QED
      BY <2>1, <2>2, <2>3, WakeupTypes DEF WakeupForEachTask
  <1>2. CASE NotifyOne(a)
    <2>1. /\ Notifying' = Notifying \ {a} /\ a \in Notifying /\ tasks' = tasks
      BY <1>2 DEF NotifyOne, Notifying, TypeOK
    <2>2. Cardinality(Notifying') = Cardinality(Notifying) - 1
      BY <2>1, WakeupTypes, CountActors
    <2>3. ASSUME NEW w \in Workers, pc[w] = "waiting", pc' = [pc EXCEPT ![w] = "lock"]
          PROVE  WakeupForEachTask'
      <3>1. Checking' = Checking \cup {w} /\ w \notin Checking /\ w \in Actors
        BY <2>3 DEF Checking, TypeOK, Actors
      <3>2. Cardinality(Checking') = Cardinality(Checking) + 1
        BY <3>1, WakeupTypes, CountActors
      <3>3. Len(tasks) <= Cardinality(Notifying) + Cardinality(Checking)
        BY <2>3 DEF WakeupForEachTask
      <3> QED
        BY <2>1, <2>2, <3>2, <3>3, WakeupTypes DEF WakeupForEachTask
    <2>4. ASSUME \A w \in Workers : pc[w] # "waiting", pc' = pc
          PROVE  WakeupForEachTask'
      BY <2>4 DEF WakeupForEachTask
    <2> QED
      BY <1>2, <2>3, <2>4 DEF NotifyOne
  <1> QED
    BY <1>1, <1>2 DEF Submission

\* A worker that takes a task was about to check the queue; one falls asleep or
\* leaves from there only when the queue is empty.
LEMMA WorkerWakes ==
  ASSUME TypeOK, TypeOK', WakeupForEachTask, NEW w \in Workers,
         WorkerStep(w) \/ SpuriousWakeup(w)
  PROVE  WakeupForEachTask'
  <1>1. w \in Actors /\ pc \in [Workers -> PC]
    BY DEF TypeOK, Actors
  <1>2. CASE Take(w)
    <2>1. /\ Checking' = Checking \ {w} /\ w \in Checking /\ Notifying' = Notifying
          /\ tasks' = Tail(tasks) /\ tasks # <<>> /\ tasks \in Seq(Tasks)
          /\ \A v \in Workers : pc'[v] = "waiting" => pc[v] = "waiting"
      BY <1>1, <1>2 DEF Take, Checking, Notifying, TypeOK
    <2>2. Cardinality(Checking') = Cardinality(Checking) - 1
      BY <2>1, WakeupTypes, CountActors
    <2>3. Len(tasks') = Len(tasks) - 1
      BY <2>1
    <2> QED
      BY <2>1, <2>2, <2>3, WakeupTypes DEF WakeupForEachTask
  <1>3. CASE Sleep(w) \/ Exit(w)
    <2>1. Len(tasks') = 0
      BY <1>3 DEF Sleep, Exit
    <2>2. Cardinality(Notifying)' \in Nat /\ Cardinality(Checking)' \in Nat
      <3>1. Notifying' \in SUBSET Actors /\ Checking' \in SUBSET Actors
        BY DEF Notifying, Checking, Actors
      <3> QED BY <3>1, CountActors
    <2> QED
      BY <2>1, <2>2 DEF WakeupForEachTask
  <1>4. CASE LoopHead(w) \/ SpuriousWakeup(w)
    <2>1. /\ \A v \in Workers : pc'[v] = "waiting" => pc[v] = "waiting"
          /\ Checking' = Checking \/ (Checking' = Checking \cup {w} /\ w \notin Checking)
          /\ Notifying' = Notifying /\ tasks' = tasks
      BY <1>1, <1>4 DEF LoopHead, SpuriousWakeup, Checking, Notifying
    <2>2. Cardinality(Checking') >= Cardinality(Checking)
      BY <1>1, <2>1, WakeupTypes, CountActors
    <2>3. Cardinality(Checking') \in Nat
      BY <1>1, <2>1, WakeupTypes, CountActors
    <2> QED
      BY <2>1, <2>2, <2>3, WakeupTypes DEF WakeupForEachTask
  <1>5. CASE Finish(w)
    <2>1. /\ \A v \in Workers : pc'[v] = "waiting" => pc[v] = "waiting"
          /\ Checking' = Checking /\ Notifying' = Notifying /\ tasks' = tasks
      BY <1>1, <1>5 DEF Finish, Checking, Notifying
    <2> QED
      BY <2>1 DEF WakeupForEachTask
  <1> QED
    BY <1>2, <1>3, <1>4, <1>5 DEF WorkerStep

\* The notify_all of a request to stop leaves no worker asleep.
LEMMA OwnerWakes ==
  ASSUME TypeOK, WakeupForEachTask, Owner
  PROVE  WakeupForEachTask'
  <1>1. CASE BeginDtor \/ Join
    <2>1. UNCHANGED <<pc, notifyDue, tasks>>
      BY <1>1 DEF BeginDtor, Join
    <2> QED
      BY <2>1 DEF WakeupForEachTask, Checking, Notifying
  <1>2. CASE RequestStop
    <2>1. CASE pc[dtor] = "waiting"
      BY <1>2, <2>1 DEF RequestStop, WakeupForEachTask
    <2>2. CASE pc[dtor] # "waiting"
      <3>1. pc' = pc /\ UNCHANGED <<notifyDue, tasks>>
        BY <1>2, <2>2 DEF RequestStop, TypeOK
      <3> QED
        BY <3>1 DEF WakeupForEachTask, Checking, Notifying
    <2> QED
      BY <2>1, <2>2
  <1> QED
    BY <1>1, <1>2 DEF Owner

\* While a worker sleeps each queued task has a worker about to check the queue
\* or a notify_one to come, for any number of workers and clients, whether the
\* pool drains or not and whatever wakes up spuriously.
THEOREM NoWakeupLost == Spec => []WakeupForEachTask
  <1>1. Init => WakeupForEachTask
    BY DEF Init, WakeupForEachTask
  <1>2. TypeOK /\ TypeOK' /\ WakeupForEachTask /\ [Next]_vars => WakeupForEachTask'
    <2> SUFFICES ASSUME TypeOK, TypeOK', WakeupForEachTask, [Next]_vars
                 PROVE  WakeupForEachTask'
      OBVIOUS
    <2>1. CASE UNCHANGED vars
      BY <2>1 DEF vars, WakeupForEachTask, Checking, Notifying
    <2> QED
      BY <2>1, SubmissionWakes, WorkerWakes, OwnerWakes DEF Next, Terminated
  <1> QED
    BY <1>1, <1>2, TypeCorrect, PTL DEF Spec

-----------------------------------------------------------------------------
(* Refinement: the pool implements TaskExecutor.                           *)

\* A step that moves no task and leaves the destructor where it is is invisible
\* to a user of the pool.
LEMMA InvisibleStep ==
  ASSUME TypeOK, UNCHANGED <<drain, tasks, cur, done>>, pc' \in [Workers -> PC],
         \A w \in Workers : pc'[w] = "run" <=> pc[w] = "run",
         (dtor' = N + 1) = (dtor = N + 1)
  PROVE  UNCHANGED Executor!vars
  <1>1. InHand' = InHand
    BY OutsideRun
  <1> QED BY <1>1 DEF Executor!vars

\* Every step of the pool is a step of the abstract executor or invisible.
LEMMA StepSimulation ==
  ASSUME PoolInv, PoolInv', [Next]_vars
  PROVE  [Executor!Next]_(Executor!vars)
  <1> USE NAssumption, ClientsAssumption, NoTaskAssumption, ProgramAssumption
  <1>0. TypeOK /\ OnceOnly /\ Fresh /\ Accounted /\ Shutdown /\ TypeOK'
    BY DEF PoolInv
  <1>1. ASSUME NEW a \in Actors, Push(a)
        PROVE  \E t \in Tasks : Executor!Submit(t)
    <2> DEFINE t == Head(todo[a])
    <2>1. todo[a] \in Seq(Tasks) /\ todo[a] # <<>>
      BY <1>0, <1>1 DEF Push, TypeOK
    <2>2. t \in Tasks /\ t \in Elems(todo[a])
      BY <2>1, ElemsTail
    <2>3. t \notin Accepted
      BY <1>0, <2>2 DEF Fresh
    <2>4. tasks' = Append(tasks, t) /\ UNCHANGED <<drain, pc, cur, done, dtor>>
      BY <1>1 DEF Push
    <2>5. InHand' = InHand
      BY <2>4, SameHands
    <2>6. dtor # N + 1
      <3>1. CASE a \in Clients
        BY <3>1, <2>1, <1>0 DEF Shutdown
      <3>2. CASE a \in Workers
        <4>1. pc[a] = "run"
          BY <3>2, <2>1, <1>0 DEF Shutdown
        <4>2. ~(a < dtor)
          BY <3>2, <4>1, <1>0 DEF Shutdown
        <4> QED BY <3>2, <4>2 DEF Workers
      <3> QED BY <3>1, <3>2 DEF Actors
    <2>7. Executor!Queued = Queued
      BY DEF Executor!Queued, Queued, Elems
    <2> HIDE DEF t
    <2>8. Executor!Submit(t)
      BY <2>3, <2>4, <2>5, <2>6, <2>7 DEF Executor!Submit, Accepted
    <2> QED BY <2>2, <2>8
  <1>2. ASSUME NEW w \in Workers, Take(w)
        PROVE  Executor!Start
    <2> DEFINE t == Head(tasks)
    <2>1. /\ tasks \in Seq(Tasks) /\ tasks # <<>>
          /\ pc[w] = "lock"
          /\ cur' = [cur EXCEPT ![w] = t]
          /\ tasks' = Tail(tasks)
          /\ pc' = [pc EXCEPT ![w] = "run"]
          /\ UNCHANGED <<drain, done, dtor>>
      BY <1>0, <1>2 DEF Take, TypeOK
    <2>2. t \in Queued
      BY <2>1, ElemsTail DEF Queued
    <2>3. t \notin InHand \cup done
      BY <2>2, <1>0 DEF OnceOnly
    <2> HIDE DEF t
    <2>4. InHand' = InHand \cup {t}
      BY <1>0, <1>2, HandsAfterTake DEF t
    <2> QED BY <2>1, <2>3, <2>4 DEF Executor!Start, t
  <1>3. ASSUME NEW w \in Workers, Finish(w)
        PROVE  \E t \in Tasks : Executor!Finish(t)
    <2> DEFINE t == cur[w]
    <2>1. /\ pc[w] = "run" /\ done' = done \cup {t}
          /\ cur' = [cur EXCEPT ![w] = NoTask]
          /\ pc' = [pc EXCEPT ![w] = "head"]
          /\ UNCHANGED <<drain, tasks, dtor>>
      BY <1>3 DEF Finish
    <2>2. t \in Tasks
      BY <1>0, <2>1 DEF Shutdown
    <2>3. InHand' = InHand \ {t} /\ t \in InHand
      BY <1>0, <1>3, HandsAfterFinish
    <2> HIDE DEF t
    <2>4. Executor!Finish(t)
      BY <2>1, <2>3 DEF Executor!Finish
    <2> QED BY <2>2, <2>4
  <1>4. ASSUME NEW a \in Actors, NotifyOne(a)
        PROVE  UNCHANGED Executor!vars
    <2>1. pc' \in [Workers -> PC] /\ UNCHANGED <<drain, tasks, cur, done, dtor>>
      BY <1>0, <1>4 DEF NotifyOne, TypeOK
    <2>2. \A w \in Workers : pc'[w] = "run" <=> pc[w] = "run"
      BY <1>0, <1>4 DEF NotifyOne, TypeOK
    <2> QED BY <1>0, <2>1, <2>2, InvisibleStep
  <1>5. ASSUME NEW w \in Workers,
               LoopHead(w) \/ Sleep(w) \/ Exit(w) \/ SpuriousWakeup(w)
        PROVE  UNCHANGED Executor!vars
    <2>1. UNCHANGED <<drain, tasks, cur, done, dtor>>
      BY <1>5 DEF LoopHead, Sleep, Exit, SpuriousWakeup
    <2>2. pc' \in [Workers -> PC]
      BY <1>0 DEF TypeOK
    <2>3. \A v \in Workers : pc'[v] = "run" <=> pc[v] = "run"
      BY <1>0, <1>5 DEF LoopHead, Sleep, Exit, SpuriousWakeup, TypeOK
    <2> QED BY <1>0, <2>1, <2>2, <2>3, InvisibleStep
  <1>6. ASSUME BeginDtor \/ RequestStop
        PROVE  UNCHANGED Executor!vars
    <2>1. UNCHANGED <<drain, tasks, cur, done>>
      BY <1>6 DEF BeginDtor, RequestStop
    <2>2. pc' \in [Workers -> PC]
      BY <1>0 DEF TypeOK
    <2>3. \A v \in Workers : pc'[v] = "run" <=> pc[v] = "run"
      BY <1>0, <1>6 DEF BeginDtor, RequestStop, TypeOK
    <2>4. (dtor' = N + 1) = (dtor = N + 1)
      BY <1>6 DEF BeginDtor, RequestStop
    <2> QED BY <1>0, <2>1, <2>2, <2>3, <2>4, InvisibleStep
  <1>7. ASSUME Join
        PROVE  Executor!Close \/ UNCHANGED Executor!vars
    <2>1. /\ UNCHANGED <<drain, tasks, pc, cur, done>>
          /\ dtor \in 1..N /\ dtor' = dtor + 1
      BY <1>7 DEF Join, Workers
    <2>2. InHand' = InHand
      BY <2>1, SameHands
    <2>3. CASE dtor = N /\ drain
      <3>1. \A w \in Workers : w < dtor'
        BY <2>1, <2>3 DEF Workers
      <3>2. \A w \in Workers : pc'[w] = "exited"
        BY <3>1 DEF PoolInv, Shutdown
      <3>3. tasks' = <<>>
        BY <3>2, <2>1, <2>3 DEF PoolInv, Shutdown
      <3>4. Running = {} /\ InHand = {}
        BY <3>2, <2>1 DEF Running, InHand
      <3>5. dtor # N + 1 /\ dtor' = N + 1 /\ drain'
        BY <2>1, <2>3
      <3>6. (drain' /\ dtor' = N + 1) = TRUE
        BY <3>5
      <3> QED BY <2>1, <2>2, <3>3, <3>4, <3>5, <3>6 DEF Executor!Close
    <2>4. CASE dtor # N \/ ~drain
      <3>1. (drain /\ dtor = N + 1) = FALSE
        BY <2>1
      <3>2. (drain' /\ dtor' = N + 1) = FALSE
        BY <2>1, <2>4
      <3> QED BY <2>1, <2>2, <3>1, <3>2 DEF Executor!vars
    <2> QED BY <2>3, <2>4
  <1>8. CASE UNCHANGED vars
    <2>1. InHand' = InHand
      BY <1>8, SameHands DEF vars
    <2> QED BY <1>8, <2>1 DEF vars, Executor!vars
  <1> QED
    BY <1>1, <1>2, <1>3, <1>4, <1>5, <1>6, <1>7, <1>8
       DEF Next, Submission, WorkerStep, Owner, Terminated, Executor!Next

\* The pool implements the abstract executor: users cannot tell it from one that
\* starts tasks in the order of submission and, if it drains, whose destructor
\* waits for the last of them.
THEOREM PoolRefinesExecutor == Spec => ImplementsExecutor
  <1>1. Init => Executor!Init
    BY NAssumption DEF Init, Executor!Init, InHand, Running
  <1>2. PoolInv /\ PoolInv' /\ [Next]_vars => [Executor!Next]_(Executor!vars)
    BY StepSimulation
  <1> QED
    BY <1>1, <1>2, PoolInvariant, PTL DEF Spec, ImplementsExecutor, Executor!Spec
=============================================================================
