----------------------------- MODULE ServerProofs -----------------------------
(***************************************************************************)
(* Theorems about the two servers: HttpServer, for any number of           *)
(* connections and threads, any size of the queue and any limits, and the  *)
(* data provider's DataServer, for any number of io threads and            *)
(* connections, and clients that send any number of requests.  They share  *)
(* no state; the names of the second begin with Data where they need to.   *)
(***************************************************************************)
EXTENDS Integers, HttpServer, DataServer, FiniteSetTheorems, SequenceTheorems, TLAPS

-------------------------------------------------------------------------------
(* Sets of connections and their sizes.                                    *)

\* Counts of connections are natural numbers, and a part counts no more than
\* the whole.
LEMMA CountType ==
    ASSUME NEW S \in SUBSET Connections
    PROVE  IsFiniteSet(S) /\ Cardinality(S) \in Nat
BY ConnectionsAssumption, FS_Subset, FS_CardinalityType

LEMMA CountPart ==
    ASSUME NEW S \in SUBSET Connections, NEW T \in SUBSET S
    PROVE  Cardinality(T) \in Nat /\ Cardinality(T) <= Cardinality(S)
BY CountType, FS_Subset, FS_CardinalityType

\* One connection more.
LEMMA CountAdd ==
    ASSUME NEW S \in SUBSET Connections, NEW c \in Connections, c \notin S
    PROVE  Cardinality(S \cup {c}) = Cardinality(S) + 1
BY CountType, FS_AddElement

\* One connection less.
LEMMA CountRemove ==
    ASSUME NEW S \in SUBSET Connections, NEW c \in S
    PROVE  Cardinality(S \ {c}) = Cardinality(S) - 1 /\ Cardinality(S) > 0
<1>1. IsFiniteSet(S) /\ Cardinality(S) \in Nat
  BY CountType
<1>2. Cardinality(S \ {c}) = Cardinality(S) - 1
  BY <1>1, FS_RemoveElement
<1>3. Cardinality(S \ {c}) \in Nat
  <2>1. S \ {c} \in SUBSET Connections
    OBVIOUS
  <2> QED BY <2>1, CountType
<1> QED BY <1>1, <1>2, <1>3

-------------------------------------------------------------------------------
(* Handlers outlive their tasks.                                           *)

\* The new server has no tasks.
LEMMA HandlerInit == Init => HandlerInv
<1> SUFFICES ASSUME Init PROVE HandlerInv
  OBVIOUS
<1> USE DEF Init
<1>1. TypeOK
  <2>1. conn \in [Connections -> {"gone"}] /\ task \in [Connections -> {"none"}]
    OBVIOUS
  <2>2. queue \in Seq(Connections) /\ Len(queue) <= QueueSize
    BY PoolAssumption
  <2>3. live \in 0..Threads /\ current \in Nat
    BY PoolAssumption
  <2> QED BY <2>1, <2>2, <2>3 DEF TypeOK
<1>2. HandlerOutlivesTask
  BY DEF HandlerOutlivesTask
<1>3. QueuedOnce
  BY DEF QueuedOnce
<1>4. RunningBounded
  <2>1. Running = {}
    BY DEF Running
  <2> QED BY <2>1, FS_EmptySet, PoolAssumption DEF RunningBounded
<1> QED BY <1>1, <1>2, <1>3, <1>4 DEF HandlerInv

\* Steps that leave the tasks and the pool alone keep the pool's part.
LEMMA PoolUnchanged ==
    ASSUME QueuedOnce, RunningBounded, UNCHANGED pool
    PROVE  QueuedOnce' /\ RunningBounded'
BY DEF QueuedOnce, RunningBounded, Running, pool

\* The head of the queue is queued, and the rest of the queue is without it.
LEMMA TakeFacts ==
    ASSUME HandlerInv, NEW c \in Connections, Take(c)
    PROVE  /\ task[c] = "queued"
           /\ queue' \in Seq(Connections) /\ Len(queue') = Len(queue) - 1
           /\ \A i \in 1..Len(queue') : queue'[i] = queue[i + 1] /\ queue'[i] # c
           /\ live - Cardinality(Running) > 0 /\ c \notin Running
<1> USE DEF HandlerInv, TypeOK
<1>1. queue # <<>> /\ c = queue[1] /\ queue' = Tail(queue) /\ 1 \in 1..Len(queue)
  BY DEF Take
<1>2. task[c] = "queued"
  BY <1>1 DEF QueuedOnce
<1>3. queue' \in Seq(Connections) /\ Len(queue') = Len(queue) - 1
      /\ \A i \in 1..Len(queue') : queue'[i] = queue[i + 1]
  BY <1>1
<1>4. \A i \in 1..Len(queue') : queue'[i] # c
  <2> SUFFICES ASSUME NEW i \in 1..Len(queue'), queue'[i] = c PROVE FALSE
    OBVIOUS
  <2>1. queue[i + 1] = queue[1] /\ i + 1 \in 1..Len(queue) /\ i + 1 # 1
    BY <1>1, <1>3
  <2> QED BY <2>1, <1>1 DEF QueuedOnce
<1>5. live - Cardinality(Running) > 0 /\ c \notin Running
  BY <1>2 DEF Take, Idle, Running
<1> QED BY <1>2, <1>3, <1>4, <1>5

\* Taking a task keeps what the queue promises, whatever becomes of the task.
LEMMA TakeQueue ==
    ASSUME HandlerInv, NEW c \in Connections, Take(c), NEW s, Task(c, s)
    PROVE  QueuedOnce'
<1> SUFFICES ASSUME NEW i \in 1..Len(queue')
             PROVE  /\ task'[queue'[i]] = "queued"
                    /\ \A j \in 1..Len(queue') : queue'[i] = queue'[j] => i = j
  BY DEF QueuedOnce
<1>1. /\ queue'[i] = queue[i + 1] /\ queue'[i] # c /\ i + 1 \in 1..Len(queue)
      /\ \A j \in 1..Len(queue') : queue'[j] = queue[j + 1] /\ j + 1 \in 1..Len(queue)
  BY TakeFacts DEF HandlerInv, TypeOK
<1>2. task'[queue'[i]] = task[queue[i + 1]]
  <2>1. queue[i + 1] \in Connections
    BY <1>1 DEF HandlerInv, TypeOK
  <2> QED BY <1>1, <2>1 DEF Task, HandlerInv, TypeOK
<1>3. ASSUME NEW j \in 1..Len(queue'), queue'[i] = queue'[j] PROVE i = j
  <2>1. i + 1 = j + 1
    BY <1>1, <1>3 DEF QueuedOnce, HandlerInv
  <2> QED BY <2>1 DEF HandlerInv, TypeOK
<1> QED BY <1>1, <1>2, <1>3 DEF QueuedOnce, HandlerInv

\* Steps of the event loop and of the stop that do not touch the pool.
LEMMA LoopStep ==
    ASSUME HandlerInv, NEW c \in Connections,
           Client(c) \/ Reject(c) \/ OnEOMFails(c) \/ RequestComplete(c)
    PROVE  HandlerInv'
<1> USE DEF HandlerInv
<1>1. UNCHANGED pool
  BY DEF Client, Accept, CloseIdle, NewRequest, OnError, Reject, OnEOMFails, RequestComplete
<1>2. TypeOK'
  BY DEF TypeOK, pool, Client, Accept, CloseIdle, NewRequest, OnError, Reject, OnEOMFails,
         RequestComplete, Conn, decrement
<1>3. HandlerOutlivesTask'
  <2> SUFFICES ASSUME NEW d \in Connections, task'[d] # "none"
               PROVE  conn'[d] \in {"waiting", "gone"}
    BY DEF HandlerOutlivesTask
  <2>1. conn[d] \in {"waiting", "gone"} /\ task[d] # "none"
    BY <1>1 DEF HandlerOutlivesTask, pool
  <2> QED BY <2>1 DEF TypeOK, Client, Accept, CloseIdle, NewRequest, OnError, Reject,
                      OnEOMFails, RequestComplete, Conn
<1> QED BY <1>1, <1>2, <1>3, PoolUnchanged

LEMMA StopStep ==
    ASSUME HandlerInv, Stop
    PROVE  HandlerInv'
<1> USE DEF HandlerInv
<1>1. CASE StopListening \/ RequestStop \/ StopReturns
  <2>1. UNCHANGED <<pool, conn>>
    BY <1>1 DEF StopListening, RequestStop, StopReturns
  <2>2. TypeOK' /\ HandlerOutlivesTask'
    BY <1>1, <2>1 DEF StopListening, RequestStop, StopReturns, TypeOK, HandlerOutlivesTask, pool
  <2> QED BY <2>1, <2>2, PoolUnchanged
<1>2. CASE IdleThreadEnds
  <2>1. Cardinality(Running) \in Nat /\ live \in 0..Threads /\ live - Cardinality(Running) > 0
    BY <1>2, CountType DEF IdleThreadEnds, Idle, Running, TypeOK
  <2>2. live' = live - 1 /\ UNCHANGED <<io, task, queue, up>>
    BY <1>2 DEF IdleThreadEnds
  <2>3. live' \in 0..Threads /\ Cardinality(Running) <= live'
    BY <2>1, <2>2, PoolAssumption
  <2>4. TypeOK' /\ HandlerOutlivesTask' /\ QueuedOnce'
    BY <2>2, <2>3 DEF TypeOK, HandlerOutlivesTask, QueuedOnce, io
  <2>5. RunningBounded'
    BY <2>2, <2>3 DEF RunningBounded, Running
  <2> QED BY <2>4, <2>5
<1> QED BY <1>1, <1>2 DEF Stop

\* The steps by which a task comes to the queue: onEOM makes it, the queue takes
\* it when there is room.
LEMMA AddStep ==
    ASSUME HandlerInv, NEW c \in Connections, OnEOM(c) \/ Add(c)
    PROVE  HandlerInv'
<1> USE DEF HandlerInv
<1>1. Running' = Running /\ UNCHANGED live
  <2>1. task[c] # "running"
    BY DEF OnEOM, Add, HandlerOutlivesTask, TypeOK
  <2>2. task'[c] # "running" /\ \A d \in Connections \ {c} : task'[d] = task[d]
    BY DEF OnEOM, Add, Task, TypeOK
  <2> QED BY <2>1, <2>2 DEF Running, OnEOM, Add
<1>2. RunningBounded'
  BY <1>1 DEF RunningBounded
<1>3. CASE OnEOM(c)
  <2>1. task[c] = "none"
    BY <1>3 DEF OnEOM, HandlerOutlivesTask, TypeOK
  <2>2. TypeOK' /\ HandlerOutlivesTask'
    BY <1>3 DEF OnEOM, TypeOK, HandlerOutlivesTask, Conn, Task
  <2>3. QueuedOnce'
    BY <1>3, <2>1 DEF OnEOM, TypeOK, QueuedOnce, Task
  <2> QED BY <1>2, <2>2, <2>3
<1>4. CASE Add(c)
  <2>1. /\ queue' = Append(queue, c) /\ Len(queue') = Len(queue) + 1
        /\ queue'[Len(queue) + 1] = c
        /\ \A i \in 1..Len(queue) : queue'[i] = queue[i] /\ queue[i] # c /\ queue[i] \in Connections
    <3>1. task[c] = "adding" /\ \A i \in 1..Len(queue) : task[queue[i]] = "queued"
      BY <1>4 DEF Add, QueuedOnce
    <3> QED BY <1>4, <3>1 DEF Add, TypeOK
  <2>2. task'[c] = "queued" /\ \A d \in Connections \ {c} : task'[d] = task[d]
    BY <1>4 DEF Add, Task, TypeOK
  <2>3. TypeOK'
    <3>1. queue' \in Seq(Connections) /\ Len(queue') <= QueueSize
      BY <1>4, <2>1, PoolAssumption DEF Add, TypeOK
    <3> QED BY <1>4, <3>1 DEF Add, Task, TypeOK
  <2>4. HandlerOutlivesTask'
    BY <1>4, <2>2 DEF Add, HandlerOutlivesTask
  <2>5. QueuedOnce'
    <3> SUFFICES ASSUME NEW i \in 1..Len(queue') PROVE
                 /\ task'[queue'[i]] = "queued"
                 /\ \A j \in 1..Len(queue') : queue'[i] = queue'[j] => i = j
      BY DEF QueuedOnce
    <3>1. Len(queue) \in Nat /\ \A j \in 1..Len(queue') : j \in 1..Len(queue) \/ j = Len(queue) + 1
      BY <2>1 DEF TypeOK
    <3>2. task'[queue'[i]] = "queued"
      BY <2>1, <2>2, <3>1 DEF QueuedOnce
    <3>3. \A j \in 1..Len(queue') : queue'[i] = queue'[j] => i = j
      BY <2>1, <3>1 DEF QueuedOnce
    <3> QED BY <3>2, <3>3
  <2> QED BY <1>2, <2>3, <2>4, <2>5
<1> QED BY <1>3, <1>4

\* sendFunc ends the task and answers the request if the handler still waits.
LEMMA SendStep ==
    ASSUME HandlerInv, NEW c \in Connections, SendFunc(c)
    PROVE  HandlerInv'
<1> USE DEF HandlerInv, SendFunc
<1>1. TypeOK'
  BY DEF TypeOK, Task
<1>2. HandlerOutlivesTask'
  BY DEF HandlerOutlivesTask, Task, TypeOK
<1>3. QueuedOnce'
  BY DEF QueuedOnce, Task, TypeOK
<1>4. RunningBounded'
  <2>1. Running' = Running
    BY DEF Running, Task, TypeOK
  <2> QED BY <2>1 DEF RunningBounded
<1> QED BY <1>1, <1>2, <1>3, <1>4

\* A thread starts a task, ends one, or finds its time is up.
LEMMA PoolStep ==
    ASSUME HandlerInv, NEW c \in Connections, Pool(c)
    PROVE  HandlerInv'
<1> USE DEF HandlerInv
<1>0. /\ Cardinality(Running) \in Nat /\ Running \in SUBSET Connections
      /\ live \in 0..Threads /\ Cardinality(Running) <= live /\ Threads \in Nat
  BY CountType, PoolAssumption DEF Running, TypeOK, RunningBounded
<1>1. CASE Start(c)
  <2>1. Take(c) /\ Task(c, "running") /\ UNCHANGED <<io, live, up>>
    BY <1>1 DEF Start
  <2>2. QueuedOnce'
    BY <2>1, TakeQueue
  <2>3. /\ task[c] = "queued" /\ queue' \in Seq(Connections) /\ Len(queue') = Len(queue) - 1
        /\ live - Cardinality(Running) > 0 /\ c \notin Running
    BY <2>1, TakeFacts
  <2>4. TypeOK'
    BY <2>1, <2>3, PoolAssumption DEF TypeOK, Task, io
  <2>5. HandlerOutlivesTask'
    BY <2>1, <2>3 DEF HandlerOutlivesTask, Task, TypeOK, io
  <2>6. RunningBounded'
    <3>1. Running' = Running \cup {c}
      BY <2>1 DEF Running, Task, TypeOK
    <3>2. Cardinality(Running') = Cardinality(Running) + 1
      BY <1>0, <2>3, <3>1, CountAdd
    <3> QED BY <1>0, <2>1, <2>3, <3>2 DEF RunningBounded
  <2> QED BY <2>2, <2>4, <2>5, <2>6
<1>2. CASE Expire(c)
  <2>1. Take(c) /\ Task(c, "posted") /\ ThreadEndsIfStopping /\ UNCHANGED <<io, up>>
    BY <1>2 DEF Expire
  <2>2. QueuedOnce'
    BY <2>1, TakeQueue
  <2>3. /\ task[c] = "queued" /\ queue' \in Seq(Connections) /\ Len(queue') = Len(queue) - 1
        /\ live - Cardinality(Running) > 0 /\ c \notin Running
    BY <2>1, TakeFacts
  <2>4. live' \in 0..Threads /\ Cardinality(Running) <= live'
    BY <1>0, <2>1, <2>3 DEF ThreadEndsIfStopping
  <2>5. TypeOK'
    BY <2>1, <2>3, <2>4, PoolAssumption DEF TypeOK, Task, io
  <2>6. HandlerOutlivesTask'
    BY <2>1, <2>3 DEF HandlerOutlivesTask, Task, TypeOK, io
  <2>7. RunningBounded'
    <3>1. Running' = Running
      BY <2>1, <2>3 DEF Running, Task, TypeOK
    <3> QED BY <2>4, <3>1 DEF RunningBounded
  <2> QED BY <2>2, <2>5, <2>6, <2>7
<1>3. CASE Finish(c)
  <2>1. task[c] = "running" /\ Task(c, "posted") /\ ThreadEndsIfStopping /\ UNCHANGED <<io, queue, up>>
    BY <1>3 DEF Finish
  <2>2. /\ Running' = Running \ {c} /\ c \in Running
    BY <2>1 DEF Running, Task, TypeOK
  <2>3. Cardinality(Running') = Cardinality(Running) - 1 /\ Cardinality(Running) > 0
    BY <1>0, <2>2, CountRemove
  <2>4. live' \in 0..Threads /\ Cardinality(Running') <= live'
    BY <1>0, <2>1, <2>3 DEF ThreadEndsIfStopping
  <2>5. TypeOK' /\ HandlerOutlivesTask'
    BY <2>1, <2>4 DEF TypeOK, HandlerOutlivesTask, Task, io
  <2>6. QueuedOnce'
    BY <2>1 DEF QueuedOnce, Task, TypeOK
  <2> QED BY <2>4, <2>5, <2>6 DEF RunningBounded
<1>4. CASE UseDeleted(c)
  <2>1. UNCHANGED <<io, pool>> /\ up' = FALSE
    BY <1>4 DEF UseDeleted
  <2>2. TypeOK' /\ HandlerOutlivesTask'
    BY <2>1 DEF TypeOK, HandlerOutlivesTask, io, pool
  <2> QED BY <2>1, <2>2, PoolUnchanged
<1> QED BY <1>1, <1>2, <1>3, <1>4 DEF Pool

\* A request is never completed under its task, whatever connections fail, time
\* limits pass and stops come in between (HandlerOutlivesTask), and the pool has
\* each task once and a thread for each it runs.
THEOREM HandlersOutliveTasks == Spec => []HandlerInv
<1>1. HandlerInv /\ [Next]_vars => HandlerInv'
  <2> SUFFICES ASSUME HandlerInv, [Next]_vars PROVE HandlerInv'
    OBVIOUS
  <2>1. ASSUME NEW c \in Connections, Client(c) \/ Request(c) \/ Pool(c) PROVE HandlerInv'
    BY <2>1, LoopStep, AddStep, SendStep, PoolStep DEF Request
  <2>2. CASE Stop
    BY <2>2, StopStep
  <2>3. CASE UNCHANGED vars
    BY <2>3, PoolUnchanged DEF HandlerInv, TypeOK, HandlerOutlivesTask, vars, io, pool
  <2> QED BY <2>1, <2>2, <2>3 DEF Next
<1> QED BY <1>1, HandlerInit, PTL DEF Spec

-------------------------------------------------------------------------------
(* The limit on requests.                                                  *)

\* The two counts that LoadBounded is about.
LEMMA LoadType ==
    ASSUME TypeOK
    PROVE  /\ Handlers \in SUBSET Connections /\ Waiting \in SUBSET Handlers
           /\ Cardinality(Handlers) \in Nat /\ Cardinality(Waiting) \in Nat
           /\ Cardinality(Waiting) <= Cardinality(Handlers)
<1>1. Handlers \in SUBSET Connections /\ Waiting \in SUBSET Handlers
  BY DEF Handlers, Waiting, HasHandler
<1> QED BY <1>1, CountType, CountPart

\* Steps that make no handler and delete none, and give no task to the pool.
LEMMA LoadUnchanged ==
    ASSUME TypeOK, LoadBounded, Handlers' = Handlers, Waiting' \in SUBSET Waiting,
           UNCHANGED current
    PROVE  LoadBounded'
<1>1. Waiting \in SUBSET Connections
  BY DEF Waiting
<1>2. Cardinality(Waiting') \in Nat /\ Cardinality(Waiting') <= Cardinality(Waiting)
  BY <1>1, CountPart
<1> QED BY <1>2, LoadType, LimitAssumption DEF LoadBounded

\* A handler is made.
LEMMA LoadNew ==
    ASSUME TypeOK, LoadBounded, NEW c \in Connections, NewRequest(c)
    PROVE  LoadBounded'
<1>1. Handlers' = Handlers \cup {c} /\ c \notin Handlers /\ Waiting' = Waiting
  BY DEF TypeOK, NewRequest, Handlers, Waiting, HasHandler, Conn
<1>2. Cardinality(Handlers') = Cardinality(Handlers) + 1
  BY <1>1, LoadType, CountAdd
<1> QED BY <1>1, <1>2 DEF LoadBounded, NewRequest

\* A handler is deleted, by an error or after its answer: the count is not 0, for
\* this handler is in it, so decrement does count down.
LEMMA LoadDeleted ==
    ASSUME TypeOK, LoadBounded, NEW c \in Connections, OnError(c) \/ RequestComplete(c)
    PROVE  LoadBounded'
<1>1. c \in Handlers /\ decrement
  BY DEF OnError, RequestComplete, Handlers, HasHandler
<1>2. Handlers' = Handlers \ {c} /\ Waiting' \in SUBSET Waiting
  BY DEF TypeOK, OnError, RequestComplete, Handlers, Waiting, HasHandler, Conn
<1>3. Cardinality(Handlers') = Cardinality(Handlers) - 1 /\ Cardinality(Handlers) > 0
  BY <1>1, <1>2, LoadType, CountRemove
<1>4. Cardinality(Waiting') \in Nat /\ Cardinality(Waiting') <= Cardinality(Waiting)
  <2>1. Waiting \in SUBSET Connections
    BY DEF Waiting
  <2> QED BY <1>2, <2>1, CountPart
<1> QED BY <1>1, <1>3, <1>4, LoadType, LimitAssumption DEF LoadBounded, decrement

\* A request is given to the pool: with it no more than current are waiting, and
\* onEOM has checked current.
LEMMA LoadAdded ==
    ASSUME TypeOK, LoadBounded, NEW c \in Connections, OnEOM(c)
    PROVE  LoadBounded'
<1>1. Handlers' = Handlers /\ Waiting' \in SUBSET Handlers /\ current' = current
  BY DEF TypeOK, OnEOM, Handlers, Waiting, HasHandler, Conn
<1>2. Cardinality(Waiting') \in Nat /\ Cardinality(Waiting') <= Cardinality(Handlers)
  BY <1>1, LoadType, CountPart
<1>3. current <= MaxRequests
  BY LimitAssumption DEF OnEOM, tooManyRequests, TypeOK
<1> QED BY <1>1, <1>2, <1>3, LoadType, LimitAssumption DEF LoadBounded

\* m_currentRequests is the number of handlers, and no more requests than the limit
\* are with the pool, whatever connections fail while their requests are read,
\* computed or answered (newHandler, onError, requestComplete, onEOM).
THEOREM RequestsAreLimited == Spec => []LoadBounded
<1>1. Init => LoadBounded
  <2> SUFFICES ASSUME Init PROVE LoadBounded
    OBVIOUS
  <2>1. Handlers = {} /\ Waiting = {}
    BY DEF Init, Handlers, Waiting, HasHandler
  <2> QED BY <2>1, FS_EmptySet, LimitAssumption DEF Init, LoadBounded
<1>2. TypeOK /\ LoadBounded /\ [Next]_vars => LoadBounded'
  <2> SUFFICES ASSUME TypeOK, LoadBounded, [Next]_vars PROVE LoadBounded'
    OBVIOUS
  <2>1. CASE \E c \in Connections : NewRequest(c) \/ OnError(c) \/ RequestComplete(c) \/ OnEOM(c)
    BY <2>1, LoadNew, LoadDeleted, LoadAdded
  <2>2. ASSUME NEW c \in Connections,
               Accept(c) \/ CloseIdle(c) \/ Reject(c) \/ OnEOMFails(c) \/ SendFunc(c)
        PROVE  LoadBounded'
    <3>1. Handlers' = Handlers /\ Waiting' \in SUBSET Waiting /\ UNCHANGED current
      BY <2>2 DEF TypeOK, Accept, CloseIdle, Reject, OnEOMFails, SendFunc, Handlers, Waiting,
                  HasHandler, Conn
    <3> QED BY <3>1, LoadUnchanged
  <2>3. CASE \/ \E c \in Connections : Add(c) \/ Pool(c)
             \/ Stop \/ UNCHANGED vars
    <3>1. UNCHANGED <<conn, current>>
      BY <2>3 DEF Add, Pool, Start, Expire, Finish, UseDeleted, Stop, StopListening, RequestStop,
                  IdleThreadEnds, StopReturns, vars, io
    <3>2. Handlers' = Handlers /\ Waiting' = Waiting
      BY <3>1 DEF Handlers, Waiting, HasHandler
    <3> QED BY <3>1, <3>2, LoadUnchanged
  <2> QED BY <2>1, <2>2, <2>3 DEF Next, Client, Request
<1>3. HandlerInv => TypeOK
  BY DEF HandlerInv
<1> QED BY <1>1, <1>2, <1>3, HandlersOutliveTasks, PTL DEF Spec

-------------------------------------------------------------------------------
(* The data provider server.                                               *)

\* Connections that have something going on.
Busy == {made} \cup (accepted \ shut)

\* Each connection of B has one operation of O or one job of J, and the others
\* have none.
Chain(O, J, B) ==
    /\ \A o \in O : o.conn \in B
    /\ \A j \in J : j.conn \in B
    /\ \A o1, o2 \in O : o1.conn = o2.conn => o1 = o2
    /\ \A j1, j2 \in J : j1.conn = j2.conn => j1 = j2
    /\ \A o \in O, j \in J : o.conn # j.conn
    /\ \A c \in B : (\E o \in O : o.conn = c) \/ (\E j \in J : j.conn = c)

\* Two messages of the client are read for each answer: the header of the request
\* that is being served, or its header and its body b.
Served(c) == 2 * Len(answers[c])

HasHeader(c) == /\ received[c] = Served(c) + 1
                /\ header[c] = Stream[c][Served(c) + 1]

Whole(c, b) == /\ received[c] = Served(c) + 2
               /\ b = <<Stream[c][Served(c) + 1], Stream[c][Served(c) + 2]>>
               /\ b[1] \notin EmptyRequests

\* Where the only thing that goes on for a connection is, its buffers are.
OpFits(o) ==
    LET c == o.conn
    IN  /\ o.kind = "accept" => /\ c = made
                                /\ o.state = "ok" <=> made \in accepted
                                /\ o.state # "pending" => made < MaxConns
        /\ o.kind # "accept" => c # made
        /\ o.kind = "header" /\ o.state = "pending" => received[c] = Served(c)
        /\ o.kind = "header" /\ o.state = "ok" => HasHeader(c)
        /\ o.kind = "body" /\ o.state = "pending" =>
              HasHeader(c) /\ header[c] \notin EmptyRequests
        /\ o.kind = "body" /\ o.state = "ok" => Whole(c, <<header[c], body[c]>>)
        /\ o.kind = "posted" => Whole(c, o.buffer)
        /\ o.kind = "write" /\ o.state = "pending" => Whole(c, response[c])
        /\ o.kind = "write" /\ o.state = "ok" => received[c] = Served(c)

JobFits(j) == j.conn # made /\ Whole(j.conn, <<j.header, j.body>>)

\* Contexts are stopped in their order, by the handler of the signal.
Stopping == \E n \in 0..IoThreads : /\ stopped = 0..(n - 1)
                                    /\ signal \in {"none", "raised"} => n = 0
                                    /\ signal = "stopping" => n < IoThreads

ChainInv == Chain(ops, jobs, Busy) /\ made \notin shut

DataInv == /\ \A o \in ops : OpFits(o)
           /\ \A j \in jobs : JobFits(j)
           /\ \A c \in Conns : c >= made => received[c] = 0 /\ answers[c] = <<>>
           /\ AnswersInOrder

ServingInv == DataTypeOK /\ ChainInv /\ DataInv /\ Stopping

\* The fields of an operation.
LEMMA OpFields ==
    ASSUME NEW c, NEW kind, NEW how
    PROVE  /\ Op(c, kind) = [conn |-> c, kind |-> kind, state |-> "pending", buffer |-> <<0, 0>>]
           /\ Done(Op(c, kind), how) =
                [conn |-> c, kind |-> kind, state |-> how, buffer |-> <<0, 0>>]
BY DEF Op, Done, NoBuffer

\* What the next thing that goes on for a connection does to the chain.
LEMMA ChainReplace ==
    ASSUME NEW O, NEW J, NEW B, Chain(O, J, B), NEW o \in O, NEW n, n.conn = o.conn
    PROVE  Chain((O \ {o}) \cup {n}, J, B)
BY DEF Chain

LEMMA ChainDrop ==
    ASSUME NEW O, NEW J, NEW B, Chain(O, J, B), NEW o \in O
    PROVE  Chain(O \ {o}, J, B \ {o.conn})
BY DEF Chain

LEMMA ChainAdd ==
    ASSUME NEW O, NEW J, NEW B, Chain(O, J, B), NEW n, n.conn \notin B
    PROVE  Chain(O \cup {n}, J, B \cup {n.conn})
BY DEF Chain

LEMMA ChainToJob ==
    ASSUME NEW O, NEW J, NEW B, Chain(O, J, B), NEW o \in O, NEW n, n.conn = o.conn
    PROVE  Chain(O \ {o}, J \cup {n}, B)
BY DEF Chain

LEMMA ChainFromJob ==
    ASSUME NEW O, NEW J, NEW B, Chain(O, J, B), NEW j \in J, NEW n, n.conn = j.conn
    PROVE  Chain(O \cup {n}, J \ {j}, B)
BY DEF Chain

\* One thing is pending for each connection of the chain.
LEMMA ChainCounts ==
    ASSUME ChainInv, NEW c
    PROVE  Pending(c) = IF c \in Busy THEN 1 ELSE 0
<1> DEFINE O == {o \in ops : o.conn = c}
           J == {j \in jobs : j.conn = c}
<1>1. CASE c \in Busy /\ \E o \in ops : o.conn = c
  <2>1. PICK o \in ops : O = {o} /\ J = {}
    BY <1>1 DEF ChainInv, Chain
  <2>2. Cardinality(O) = 1 /\ Cardinality(J) = 0
    BY <2>1, FS_EmptySet, FS_Singleton
  <2> QED BY <1>1, <2>2 DEF Pending
<1>2. CASE c \in Busy /\ \E j \in jobs : j.conn = c
  <2>1. PICK j \in jobs : O = {} /\ J = {j}
    BY <1>2 DEF ChainInv, Chain
  <2>2. Cardinality(O) = 0 /\ Cardinality(J) = 1
    BY <2>1, FS_EmptySet, FS_Singleton
  <2> QED BY <1>2, <2>2 DEF Pending
<1>3. CASE c \notin Busy
  <2>1. O = {} /\ J = {}
    BY <1>3 DEF ChainInv, Chain
  <2>2. Cardinality(O) = 0 /\ Cardinality(J) = 0
    BY <2>1, FS_EmptySet
  <2> QED BY <1>3, <2>2 DEF Pending
<1> QED BY <1>1, <1>2, <1>3 DEF ChainInv, Chain

LEMMA ServingImplies == ServingInv => ServerInv /\ AnswersInOrder
<1> SUFFICES ASSUME ServingInv PROVE OneThingAtATime
  BY DEF ServingInv, DataInv, ServerInv
<1>1. \A c \in 1..made : c \in Busy <=> (c = made \/ c \in accepted \ shut)
  BY DEF Busy
<1> QED BY <1>1, ChainCounts DEF ServingInv, OneThingAtATime

\* The operations there can be.
OpSet == [conn : 1..made, kind : Kinds, buffer : Responses,
          state : {"pending", "ok", "error"}]

LEMMA OpTypes ==
    ASSUME NEW c \in 1..made, NEW kind \in Kinds, NEW how \in {"pending", "ok", "error"}
    PROVE  Op(c, kind) \in OpSet /\ Done(Op(c, kind), how) \in OpSet
<1>1. <<0, 0>> \in Responses
  BY DEF Responses
<1> QED BY <1>1, OpFields DEF OpSet

\* What the types say about one connection.
LEMMA ConnTypes ==
    ASSUME DataTypeOK, NEW c \in Conns
    PROVE  /\ Stream[c] \in Seq(Nat \ {0}) /\ Len(Stream[c]) \in Nat
           /\ answers[c] \in Seq(Responses) /\ Len(answers[c]) \in Nat /\ Served(c) \in Nat
           /\ received[c] \in Nat /\ sent[c] \in Nat
           /\ received[c] <= sent[c] /\ sent[c] <= Len(Stream[c])
           /\ \A i \in 1..Len(Stream[c]) : Stream[c][i] \in Requests
           /\ made \in Nat \ {0} /\ MaxConns \in Nat \ {0} /\ made <= MaxConns /\ c \in Nat \ {0}
<1>1. Stream[c] \in Seq(Nat \ {0}) /\ answers[c] \in Seq(Responses)
  BY StreamAssumption DEF DataTypeOK
<1>2. Len(Stream[c]) \in Nat /\ Len(answers[c]) \in Nat
  BY <1>1, LenProperties
<1>3. Served(c) \in Nat
  BY <1>2 DEF Served
<1>4. \A i \in 1..Len(Stream[c]) : Stream[c][i] \in Requests
  BY DEF Requests
<1> QED BY <1>1, <1>2, <1>3, <1>4, ConnsAssumption DEF DataTypeOK, Conns

LEMMA ConnsMade ==
    ASSUME DataTypeOK
    PROVE  /\ 1..made \subseteq Conns /\ made \in 1..made
           /\ \A o \in ops : o.conn \in 1..made /\ o \in OpSet
           /\ \A j \in jobs : j.conn \in 1..made
BY ConnsAssumption DEF DataTypeOK, Conns, OpSet

\* A step of connection c leaves what the others have read, hold and got.
OnlyOf(c) ==
    /\ \A d \in Conns : d # c => /\ received'[d] = received[d] /\ answers'[d] = answers[d]
                                   /\ header'[d] = header[d] /\ body'[d] = body[d]
                                   /\ response'[d] = response[d]
    /\ made' = made /\ (c # made => accepted' = accepted)
    /\ \A o \in ops' : o.conn = c \/ o \in ops
    /\ \A j \in jobs' : j.conn = c \/ j \in jobs

LEMMA OthersFit ==
    ASSUME ServingInv, NEW c, OnlyOf(c),
           \A o \in ops' : o.conn = c => OpFits(o)',
           \A j \in jobs' : j.conn = c => JobFits(j)'
    PROVE  (\A o \in ops : OpFits(o))' /\ (\A j \in jobs : JobFits(j))'
<1>0. DataTypeOK /\ DataInv
  BY DEF ServingInv
<1>1. \A d \in Conns : d # c => /\ Served(d)' = Served(d) /\ (HasHeader(d) => HasHeader(d)')
                                  /\ \A b : Whole(d, b) => Whole(d, b)'
  BY DEF OnlyOf, Served, HasHeader, Whole
<1>2. ASSUME NEW o \in ops', o.conn # c PROVE OpFits(o)'
  <2>1. o \in ops /\ OpFits(o) /\ o.conn \in Conns
    BY <1>0, <1>2, ConnsMade DEF OnlyOf, DataInv
  <2>2. o.kind = "accept" => o.conn = made /\ c # made
    BY <1>2, <2>1 DEF OpFits
  <2> QED BY <1>1, <1>2, <2>1, <2>2 DEF OpFits, OnlyOf
<1>3. ASSUME NEW j \in jobs', j.conn # c PROVE JobFits(j)'
  <2>1. j \in jobs /\ JobFits(j) /\ j.conn \in Conns
    BY <1>0, <1>3, ConnsMade DEF OnlyOf, DataInv
  <2> QED BY <1>1, <1>3, <2>1 DEF JobFits, OnlyOf
<1> QED BY <1>2, <1>3

\* Where a step of a connection may leave the rest of the invariant.
LEMMA ServingStep ==
    ASSUME ServingInv, NEW c \in 1..made, c # made, OnlyOf(c), answers' = answers,
           \A o \in ops' : o.conn = c => OpFits(o)',
           \A j \in jobs' : j.conn = c => JobFits(j)'
    PROVE  DataInv'
<1>0. DataTypeOK /\ DataInv
  BY DEF ServingInv
<1>1. \A d \in Conns : d >= made => received'[d] = 0 /\ answers'[d] = <<>>
  <2>1. ASSUME NEW d \in Conns, d >= made PROVE d # c
    BY <1>0, <2>1, ConnTypes, ConnsMade
  <2> QED BY <1>0, <2>1 DEF OnlyOf, DataInv
<1>2. AnswersInOrder'
  BY <1>0 DEF DataInv, AnswersInOrder
<1> QED BY <1>1, <1>2, OthersFit DEF OnlyOf, DataInv

\* The only operation of a connection, and no job beside it; the other way round
\* for a job.
LEMMA OneOp ==
    ASSUME ServingInv, NEW o \in ops
    PROVE  /\ \A p \in ops : p.conn = o.conn => p = o
           /\ \A j \in jobs : j.conn # o.conn
           /\ o.conn \in Busy
BY DEF ServingInv, ChainInv, Chain

LEMMA OneJob ==
    ASSUME ServingInv, NEW j \in jobs
    PROVE  /\ \A i \in jobs : i.conn = j.conn => i = j
           /\ \A o \in ops : o.conn # j.conn
           /\ j.conn \in Busy
BY DEF ServingInv, ChainInv, Chain

\* Steps that move nothing of the connections.
LEMMA QuietStep ==
    ASSUME ServingInv,
           UNCHANGED <<made, ops, jobs, header, body, response, shut, accepted, received, answers>>
    PROVE  ChainInv' /\ DataInv'
<1>1. ChainInv'
  BY DEF ServingInv, ChainInv, Busy
<1>2. \A c : /\ Served(c)' = Served(c) /\ HasHeader(c)' = HasHeader(c)
             /\ \A b : Whole(c, b)' = Whole(c, b)
  BY DEF Served, HasHeader, Whole
<1>3. (\A o \in ops : OpFits(o))' /\ (\A j \in jobs : JobFits(j))'
  BY <1>2 DEF ServingInv, DataInv, OpFits, JobFits
<1>4. AnswersInOrder'
  BY DEF ServingInv, DataInv, AnswersInOrder
<1> QED BY <1>1, <1>3, <1>4 DEF ServingInv, DataInv

-------------------------------------------------------------------------------

LEMMA ContextFacts ==
           /\ IoThreads \in Nat \ {0} /\ 0 \in Contexts
           /\ \A i \in Contexts : Following(i) \in Contexts
BY ThreadsAssumption DEF Contexts, Following

LEMMA ServingInit ==
    ASSUME DataInit
    PROVE  ServingInv
<1> USE DEF DataInit
<1>1. /\ Following(AcceptContext) \in Contexts
      /\ Following(Following(AcceptContext)) \in Contexts
  BY ContextFacts DEF AcceptContext, SignalContext
<1>2. 1 \in Conns /\ made = 1 /\ 1 \in 1..made
  BY ConnsAssumption DEF Conns
<1>3. DataTypeOK
  <2>1. ops \subseteq OpSet
    BY <1>2, OpTypes DEF Kinds
  <2>2. context \in [1..made -> Contexts]
    BY <1>1, <1>2
  <2>3. \A c \in Conns : Stream[c] \in Seq(Nat \ {0}) /\ Len(Stream[c]) \in Nat
    BY LenProperties, StreamAssumption
  <2>4. response \in [Conns -> Responses]
    BY DEF Responses, NoBuffer
  <2>5. answers \in [Conns -> Seq(Responses)]
    BY EmptySeq
  <2>6. /\ header \in [Conns -> Requests \cup {0}] /\ body \in [Conns -> Requests \cup {0}]
        /\ sent \in [Conns -> Nat] /\ received \in [Conns -> Nat]
        /\ \A c \in Conns : received[c] <= sent[c] /\ sent[c] <= Len(Stream[c])
    BY <2>3
  <2> QED BY <1>1, <1>2, <2>1, <2>2, <2>4, <2>5, <2>6 DEF DataTypeOK, OpSet
<1>4. ChainInv
  BY OpFields DEF ChainInv, Chain, Busy
<1>5. DataInv
  <2>1. \A o \in ops : OpFits(o)
    BY OpFields DEF OpFits
  <2>2. AnswersInOrder
    BY EmptySeq DEF AnswersInOrder
  <2> QED BY <2>1, <2>2 DEF DataInv
<1>6. Stopping
  BY ContextFacts DEF Stopping
<1> QED BY <1>3, <1>4, <1>5, <1>6 DEF ServingInv

\* A connection with an operation other than accept is not the one to be accepted
\* next, and in use.
LEMMA Active ==
    ASSUME ServingInv, NEW o \in ops, o.kind # "accept"
    PROVE  /\ o.conn \in 1..made /\ o.conn # made /\ o.conn \in Conns
           /\ o.conn \in accepted /\ o.conn \notin shut /\ OpFits(o)
BY OneOp, ConnsMade DEF ServingInv, DataInv, OpFits, Busy

\* The chain goes on with another operation of the same connection.
LEMMA NextOp ==
    ASSUME ServingInv, NEW o \in ops, NEW n, n.conn = o.conn, n \in OpSet,
           ops' = (ops \ {o}) \cup {n}, jobs' = jobs,
           made' = made, shut' = shut, accepted' \ {made} = accepted \ {made},
           accepted \subseteq accepted'
    PROVE  /\ ChainInv' /\ \A p \in ops' : p.conn = o.conn => p = n
           /\ \A j \in jobs' : j.conn # o.conn
           /\ ops' \subseteq OpSet
<1>1. Busy' = Busy
  BY DEF Busy
<1>2. Chain(ops', jobs', Busy')
  BY <1>1, ChainReplace DEF ServingInv, ChainInv
<1>3. ChainInv'
  BY <1>2 DEF ServingInv, ChainInv
<1>4. ops' \subseteq OpSet
  BY ConnsMade DEF ServingInv
<1> QED BY <1>3, <1>4, OneOp

\* A connection is shut down.
LEMMA ShutDown ==
    ASSUME ServingInv, NEW o \in ops, o.kind # "accept",
           ops' = ops \ {o}, shut' = shut \cup {o.conn},
           UNCHANGED <<made, jobs, header, body, response, accepted, received, answers>>
    PROVE  ChainInv' /\ DataInv' /\ shut' \subseteq accepted'
<1>1. Busy' = Busy \ {o.conn}
  BY Active DEF Busy
<1>2. ChainInv'
  BY <1>1, Active, ChainDrop DEF ServingInv, ChainInv
<1>3. OnlyOf(o.conn)
  BY DEF OnlyOf
<1>4. DataInv'
  BY <1>3, Active, OneOp, ServingStep
<1> QED BY <1>2, <1>4, Active DEF ServingInv, DataTypeOK

-------------------------------------------------------------------------------
(* The steps.                                                              *)

LEMMA AcceptDoneKeeps ==
    ASSUME ServingInv, AcceptDone
    PROVE  ServingInv'
<1>0. DataTypeOK /\ DataInv /\ made \notin shut /\ made \in 1..made
  BY ConnsMade DEF ServingInv, ChainInv
<1>1. PICK how \in {"ok", "error"} :
          /\ made < MaxConns /\ Op(made, "accept") \in ops
          /\ ops' = (ops \ {Op(made, "accept")}) \cup {Done(Op(made, "accept"), how)}
          /\ accepted' = IF how = "ok" THEN accepted \cup {made} ELSE accepted
          /\ UNCHANGED <<pooled, nextContext, made, context, jobs, header, body, response, shut,
                         sent, received, answers, left, signal, stopped, exited>>
  BY DEF AcceptDone, server, buffers, control
<1>2. PICK o \in ops, n \in OpSet :
          /\ o.conn = made /\ o.kind = "accept" /\ o.state = "pending"
          /\ n.conn = made /\ n.kind = "accept" /\ n.state = how
          /\ ops' = (ops \ {o}) \cup {n}
  <2>1. Done(Op(made, "accept"), how) \in OpSet
    BY <1>0, OpTypes DEF Kinds
  <2> QED BY <1>1, <2>1, OpFields
<1>3. made \notin accepted
  BY <1>0, <1>2 DEF DataInv, OpFits
<1>4. /\ ChainInv' /\ \A p \in ops' : p.conn = made => p = n
      /\ \A j \in jobs' : j.conn # made
      /\ ops' \subseteq OpSet
  BY <1>1, <1>2, NextOp
<1>5. DataTypeOK'
  BY <1>0, <1>1, <1>4 DEF DataTypeOK, OpSet
<1>6. OnlyOf(made)
  BY <1>1, <1>2 DEF OnlyOf
<1>7. OpFits(n)'
  BY <1>1, <1>2, <1>3 DEF OpFits
<1>8. (\A p \in ops : OpFits(p))' /\ (\A j \in jobs : JobFits(j))'
  BY <1>4, <1>6, <1>7, OthersFit
<1>9. DataInv'
  BY <1>0, <1>1, <1>8 DEF DataInv, AnswersInOrder
<1>10. Stopping'
  BY <1>1 DEF ServingInv, Stopping
<1> QED BY <1>4, <1>5, <1>9, <1>10 DEF ServingInv

\* Clients that send or leave, the signal, and the end of the contexts.
LEMMA ClientKeeps ==
    ASSUME ServingInv, NEW c \in 1..made,
           ClientSends(c) \/ ClientLeaves(c)
    PROVE  ServingInv'
<1>1. DataTypeOK /\ Stopping
  BY DEF ServingInv
<1>2. UNCHANGED <<pooled, nextContext, made, context, ops, jobs, header, body, response, shut,
                  accepted, received, answers, signal, stopped, exited>>
  BY DEF ClientSends, ClientLeaves, server, buffers, control
<1>3. c \in Conns
  BY <1>1, ConnsMade
<1>4. left' \subseteq Conns
  BY <1>1, <1>3 DEF ClientSends, ClientLeaves, DataTypeOK
<1>5. /\ sent' \in [Conns -> Nat]
      /\ \A d \in Conns : received'[d] <= sent'[d] /\ sent'[d] <= Len(Stream[d])
  <2>1. CASE ClientSends(c)
    <3>1. sent' = [sent EXCEPT ![c] = sent[c] + 1] /\ sent[c] < Len(Stream[c])
      BY <2>1 DEF ClientSends
    <3>2. /\ sent[c] + 1 \in Nat /\ sent[c] + 1 <= Len(Stream[c]) /\ received[c] <= sent[c] + 1
      BY <1>1, <1>3, <3>1, ConnTypes
    <3>3. sent'[c] = sent[c] + 1 /\ \A d \in Conns : d # c => sent'[d] = sent[d]
      BY <1>1, <1>3, <3>1 DEF DataTypeOK
    <3> QED BY <1>1, <1>2, <1>3, <3>1, <3>2, <3>3 DEF DataTypeOK
  <2>2. CASE ClientLeaves(c)
    BY <1>1, <1>2, <2>2 DEF ClientLeaves, DataTypeOK
  <2> QED BY <2>1, <2>2
<1>6. DataTypeOK'
  BY <1>1, <1>2, <1>4, <1>5 DEF DataTypeOK
<1>7. ChainInv' /\ DataInv'
  BY <1>2, QuietStep
<1> QED BY <1>1, <1>2, <1>6, <1>7 DEF ServingInv, Stopping

LEMMA ControlKeeps ==
    ASSUME ServingInv,
           \/ RaiseSignal \/ HandleSignal \/ StopContext
           \/ \E i \in Contexts : ThreadExits(i)
           \/ UNCHANGED dataVars
    PROVE  ServingInv'
<1>1. DataTypeOK /\ Stopping
  BY DEF ServingInv
<1>2. UNCHANGED <<pooled, nextContext, made, context, ops, jobs, header, body, response, shut,
                  accepted, sent, received, answers, left>>
  BY DEF RaiseSignal, HandleSignal, StopContext, ThreadExits, server, buffers,
         client, control, dataVars
<1>3. PICK n \in 0..IoThreads : /\ stopped = 0..(n - 1)
                                /\ signal \in {"none", "raised"} => n = 0
                                /\ signal = "stopping" => n < IoThreads
  BY <1>1 DEF Stopping
<1>4. IoThreads \in Nat \ {0} /\ n \in Nat
  BY ContextFacts
<1>5. /\ Stopping' /\ signal' \in {"none", "raised", "stopping", "handled"}
      /\ stopped' \subseteq Contexts /\ stopped \subseteq stopped'
  <2>1. CASE RaiseSignal
    BY <1>1, <1>3, <1>4, <2>1 DEF RaiseSignal, Stopping, DataTypeOK
  <2>2. CASE HandleSignal
    <3>1. n = 0 /\ n < IoThreads /\ stopped' = stopped /\ signal' = "stopping"
      BY <1>3, <1>4, <2>2 DEF HandleSignal
    <3> QED BY <1>1, <1>3, <3>1 DEF Stopping, DataTypeOK
  <2>3. CASE StopContext
    <3>1. Cardinality(stopped) = n
      <4>1. Cardinality(0..(n - 1)) = n
        BY <1>4, FS_Interval
      <4> QED BY <1>3, <4>1
    <3>2. /\ signal = "stopping" /\ stopped' = stopped \cup {n}
          /\ signal' = IF n + 1 = IoThreads THEN "handled" ELSE signal
      BY <2>3, <3>1 DEF StopContext
    <3>3. n + 1 \in 0..IoThreads /\ stopped' = 0..((n + 1) - 1)
      BY <1>3, <1>4, <3>2
    <3>4. signal' = "stopping" => n + 1 < IoThreads
      BY <1>3, <1>4, <3>2
    <3>5. signal' \in {"stopping", "handled"}
      BY <3>2
    <3>6. Stopping'
      BY <3>3, <3>4, <3>5 DEF Stopping
    <3> QED BY <1>3, <1>4, <3>2, <3>3, <3>5, <3>6 DEF Contexts
  <2>4. CASE (\E i \in Contexts : ThreadExits(i)) \/ UNCHANGED dataVars
    <3>1. UNCHANGED <<signal, stopped>>
      BY <2>4 DEF ThreadExits, dataVars, control
    <3> QED BY <1>1, <3>1 DEF Stopping, DataTypeOK
  <2> QED BY <2>1, <2>2, <2>3, <2>4
<1>6. exited' \subseteq stopped'
  <2>1. CASE \E i \in Contexts : ThreadExits(i)
    BY <1>1, <2>1 DEF ThreadExits, DataTypeOK
  <2>2. CASE exited' = exited
    BY <1>1, <1>5, <2>2 DEF DataTypeOK
  <2> QED BY <2>1, <2>2 DEF RaiseSignal, HandleSignal, StopContext, dataVars, control
<1>7. DataTypeOK'
  BY <1>1, <1>2, <1>5, <1>6 DEF DataTypeOK
<1>8. ChainInv' /\ DataInv'
  BY <1>2, QuietStep
<1> QED BY <1>5, <1>7, <1>8 DEF ServingInv

\* A step that replaces the operation of a connection by one that fits.
LEMMA StepOfOp ==
    ASSUME ServingInv, NEW o \in ops, o.kind # "accept", NEW n \in OpSet,
           n.conn = o.conn, ops' = (ops \ {o}) \cup {n}, OpFits(n)', OnlyOf(o.conn),
           UNCHANGED <<jobs, made, shut, accepted, answers, signal, stopped>>
    PROVE  ChainInv' /\ DataInv' /\ Stopping' /\ ops' \subseteq OpSet
<1>1. /\ ChainInv' /\ \A p \in ops' : p.conn = o.conn => p = n
      /\ \A j \in jobs' : j.conn # o.conn
      /\ ops' \subseteq OpSet
  BY NextOp
<1>2. DataInv'
  BY <1>1, Active, ServingStep
<1> QED BY <1>1, <1>2 DEF ServingInv, Stopping

LEMMA ReadDoneKeeps ==
    ASSUME ServingInv, NEW c \in 1..made, ReadDone(c)
    PROVE  ServingInv'
<1>0. DataTypeOK /\ DataInv /\ c \in Conns
  BY ConnsMade DEF ServingInv
<1>1. /\ received[c] < sent[c] /\ received' = [received EXCEPT ![c] = received[c] + 1]
      /\ UNCHANGED <<pooled, nextContext, made, context, jobs, response, shut, accepted, sent,
                     answers, left, signal, stopped, exited>>
  BY DEF ReadDone, server, control
<1>2. PICK kind \in {"header", "body"} :
          /\ Op(c, kind) \in ops
          /\ ops' = (ops \ {Op(c, kind)}) \cup {Done(Op(c, kind), "ok")}
          /\ kind = "header" => /\ header' = [header EXCEPT ![c] = Stream[c][received[c] + 1]]
                                /\ body' = body
          /\ kind = "body" => /\ body' = [body EXCEPT ![c] = Stream[c][received[c] + 1]]
                              /\ header' = header
  <2>1. CASE Op(c, "header") \in ops /\ body' = body
    BY <2>1 DEF ReadDone
  <2>2. CASE Op(c, "body") \in ops /\ header' = header
    BY <2>2 DEF ReadDone
  <2> QED BY <2>1, <2>2 DEF ReadDone
<1>3. PICK o \in ops, n \in OpSet :
          /\ o.conn = c /\ o.kind = kind /\ o.state = "pending"
          /\ n.conn = c /\ n.kind = kind /\ n.state = "ok"
          /\ ops' = (ops \ {o}) \cup {n}
  <2>1. Done(Op(c, kind), "ok") \in OpSet
    BY OpTypes DEF Kinds
  <2> QED BY <1>2, <2>1, OpFields
<1>4. /\ received[c] + 1 \in 1..Len(Stream[c]) /\ received[c] \in Nat /\ Served(c) \in Nat
      /\ Stream[c][received[c] + 1] \in Requests
      /\ received[c] + 1 <= sent[c]
  <2>1. received[c] + 1 \in 1..Len(Stream[c])
    BY <1>0, <1>1, ConnTypes
  <2> QED BY <1>0, <1>1, <2>1, ConnTypes
<1>5. /\ received'[c] = received[c] + 1
      /\ \A d \in Conns : d # c => /\ received'[d] = received[d] /\ header'[d] = header[d]
                                    /\ body'[d] = body[d]
      /\ kind = "header" => header'[c] = Stream[c][received[c] + 1]
      /\ kind = "body" => body'[c] = Stream[c][received[c] + 1] /\ header'[c] = header[c]
      /\ Served(c)' = Served(c)
  BY <1>0, <1>1, <1>2 DEF DataTypeOK, Served
<1>6. OpFits(n)'
  <2>1. OpFits(o) /\ c # made
    BY <1>3, Active
  <2>2. CASE kind = "header"
    <3>1. HasHeader(c)'
      BY <1>3, <1>5, <2>1, <2>2 DEF OpFits, HasHeader
    <3> QED BY <1>1, <1>3, <2>1, <2>2, <3>1 DEF OpFits
  <2>3. CASE kind = "body"
    <3>1. HasHeader(c) /\ header[c] \notin EmptyRequests
      BY <1>3, <2>1, <2>3 DEF OpFits
    <3>2. Whole(c, <<header[c], body[c]>>)'
      BY <1>4, <1>5, <2>3, <3>1 DEF HasHeader, Whole
    <3> QED BY <1>1, <1>3, <2>1, <2>3, <3>2 DEF OpFits
  <2> QED BY <2>2, <2>3
<1>7. OnlyOf(c)
  BY <1>1, <1>3, <1>5 DEF OnlyOf
<1>8. ChainInv' /\ DataInv' /\ Stopping' /\ ops' \subseteq OpSet
  BY <1>1, <1>3, <1>6, <1>7, StepOfOp
<1>9. DataTypeOK'
  <2>1. /\ header' \in [Conns -> Requests \cup {0}] /\ body' \in [Conns -> Requests \cup {0}]
        /\ received' \in [Conns -> Nat]
    <3>1. PICK v \in Requests \cup {0} : v = Stream[c][received[c] + 1]
      BY <1>4
    <3>2. header' = header \/ header' = [header EXCEPT ![c] = v]
      BY <1>2, <3>1
    <3>3. body' = body \/ body' = [body EXCEPT ![c] = v]
      BY <1>2, <3>1
    <3>4. header' \in [Conns -> Requests \cup {0}]
      BY <1>0, <3>2 DEF DataTypeOK
    <3>5. body' \in [Conns -> Requests \cup {0}]
      BY <1>0, <3>3 DEF DataTypeOK
    <3>6. received' \in [Conns -> Nat]
      BY <1>0, <1>1, <1>4 DEF DataTypeOK
    <3> QED BY <3>4, <3>5, <3>6
  <2>2. \A d \in Conns : received'[d] <= sent'[d] /\ sent'[d] <= Len(Stream[d])
    BY <1>0, <1>1, <1>4, <1>5 DEF DataTypeOK
  <2> QED BY <1>0, <1>1, <1>8, <2>1, <2>2 DEF DataTypeOK, OpSet
<1> QED BY <1>8, <1>9 DEF ServingInv

LEMMA WriteDoneKeeps ==
    ASSUME ServingInv, NEW c \in 1..made, WriteDone(c)
    PROVE  ServingInv'
<1>0. DataTypeOK /\ DataInv /\ c \in Conns
  BY ConnsMade DEF ServingInv
<1>1. /\ Op(c, "write") \in ops
      /\ ops' = (ops \ {Op(c, "write")}) \cup {Done(Op(c, "write"), "ok")}
      /\ answers' = [answers EXCEPT ![c] = Append(answers[c], response[c])]
      /\ UNCHANGED <<pooled, nextContext, made, context, jobs, header, body, response, shut,
                     accepted, sent, received, left, signal, stopped, exited>>
  BY DEF WriteDone, server, buffers, control
<1>2. PICK o \in ops, n \in OpSet :
          /\ o.conn = c /\ o.kind = "write" /\ o.state = "pending"
          /\ n.conn = c /\ n.kind = "write" /\ n.state = "ok"
          /\ ops' = (ops \ {o}) \cup {n}
  <2>1. Done(Op(c, "write"), "ok") \in OpSet
    BY OpTypes DEF Kinds
  <2> QED BY <1>1, <2>1, OpFields
<1>3. Whole(c, response[c]) /\ c # made
  BY <1>2, Active DEF OpFits
<1>4. /\ answers'[c] = Append(answers[c], response[c])
      /\ \A d \in Conns : d # c => answers'[d] = answers[d]
  BY <1>0, <1>1 DEF DataTypeOK
<1>5. /\ answers[c] \in Seq(Responses) /\ response[c] \in Responses /\ Len(answers[c]) \in Nat
      /\ answers'[c] \in Seq(Responses) /\ Len(answers'[c]) = Len(answers[c]) + 1
      /\ \A i \in 1..Len(answers[c]) : answers'[c][i] = answers[c][i]
      /\ answers'[c][Len(answers[c]) + 1] = response[c]
  <2>1. answers[c] \in Seq(Responses) /\ response[c] \in Responses /\ Len(answers[c]) \in Nat
    BY <1>0, ConnTypes DEF DataTypeOK
  <2> QED BY <1>4, <2>1, AppendProperties
<1>6. OpFits(n)' /\ OnlyOf(c)
  <2>1. received'[c] = Served(c)'
    BY <1>1, <1>3, <1>5 DEF Served, Whole
  <2> QED BY <1>1, <1>2, <1>3, <1>4, <2>1 DEF OpFits, OnlyOf
<1>7. /\ ChainInv' /\ \A p \in ops' : p.conn = c => p = n
      /\ \A j \in jobs' : j.conn # c
      /\ ops' \subseteq OpSet
  BY <1>1, <1>2, NextOp
<1>8. (\A p \in ops : OpFits(p))' /\ (\A j \in jobs : JobFits(j))'
  BY <1>6, <1>7, OthersFit
\* The new answer is made from the two messages behind those answered before.
<1>9. AnswersInOrder'
  <2> SUFFICES ASSUME NEW d \in Conns, NEW i \in 1..Len(answers'[d])
               PROVE  /\ answers'[d][i][1] = answers'[d][i][2]
                      /\ answers'[d][i][1] = Stream[d][2 * i - 1]
    BY DEF AnswersInOrder
  <2>1. CASE d # c \/ i \in 1..Len(answers[c])
    <3>1. i \in 1..Len(answers[d]) /\ answers'[d][i] = answers[d][i]
      BY <1>4, <1>5, <2>1
    <3> QED BY <1>0, <3>1 DEF DataInv, AnswersInOrder
  <2>2. CASE d = c /\ i \notin 1..Len(answers[c])
    <3>1. i = Len(answers[c]) + 1 /\ answers'[c][i] = response[c]
      BY <1>5, <2>2
    <3>2. Served(c) + 1 = 2 * i - 1 /\ Served(c) + 2 = 2 * Len(answers[c]) + 2
      BY <1>5, <3>1 DEF Served
    <3>3. response[c][1] = Stream[c][Served(c) + 1] /\ response[c][2] = Stream[c][Served(c) + 2]
          /\ response[c][1] \notin EmptyRequests
      BY <1>3 DEF Whole
    <3>4. /\ 2 * Len(answers[c]) + 2 <= Len(Stream[c])
          /\ Len(answers[c]) \in 0..Len(Stream[c])
      <4>1. /\ received[c] <= Len(Stream[c]) /\ received[c] \in Nat /\ Len(Stream[c]) \in Nat
            /\ received[c] = 2 * Len(answers[c]) + 2
        <5>1. received[c] = Served(c) + 2
          BY <1>3 DEF Whole
        <5>2. received[c] <= Len(Stream[c])
          BY <1>0, ConnTypes
        <5> QED BY <1>0, <5>1, <5>2, ConnTypes DEF Served
      <4> QED BY <1>5, <4>1
    <3>5. Stream[c][Served(c) + 2] = Stream[c][Served(c) + 1]
      BY <1>0, <3>3, <3>4, PairsAssumption DEF Served
    <3> QED BY <2>2, <3>1, <3>2, <3>3, <3>5
  <2> QED BY <2>1, <2>2
<1>10. \A d \in Conns : d >= made => received'[d] = 0 /\ answers'[d] = <<>>
  <2>1. ASSUME NEW d \in Conns, d >= made PROVE d # c
    BY <1>0, <1>3, <2>1, ConnTypes, ConnsMade
  <2> QED BY <1>0, <1>1, <1>4, <2>1 DEF DataInv
<1>11. DataTypeOK'
  <2>1. answers' \in [Conns -> Seq(Responses)]
    BY <1>0, <1>1, <1>5 DEF DataTypeOK
  <2> QED BY <1>0, <1>1, <1>7, <2>1 DEF DataTypeOK, OpSet
<1> QED BY <1>1, <1>7, <1>8, <1>9, <1>10, <1>11 DEF ServingInv, DataInv, Stopping

LEMMA TransferFailsKeeps ==
    ASSUME ServingInv, NEW c \in 1..made, TransferFails(c)
    PROVE  ServingInv'
<1>0. DataTypeOK /\ DataInv /\ c \in Conns
  BY ConnsMade DEF ServingInv
<1>1. PICK kind \in {"header", "body", "write"} :
          /\ Op(c, kind) \in ops
          /\ ops' = (ops \ {Op(c, kind)}) \cup {Done(Op(c, kind), "error")}
          /\ UNCHANGED <<pooled, nextContext, made, context, jobs, header, body, response, shut,
                         accepted, sent, received, answers, left, signal, stopped, exited>>
  BY DEF TransferFails, server, buffers, client, control
<1>2. PICK o \in ops, n \in OpSet :
          /\ o.conn = c /\ o.kind = kind
          /\ n.conn = c /\ n.kind = kind /\ n.state = "error"
          /\ ops' = (ops \ {o}) \cup {n}
  <2>1. Done(Op(c, kind), "error") \in OpSet
    BY OpTypes DEF Kinds
  <2> QED BY <1>1, <2>1, OpFields
<1>3. OpFits(n)' /\ OnlyOf(c)
  BY <1>1, <1>2, Active DEF OpFits, OnlyOf
<1>4. ChainInv' /\ DataInv' /\ Stopping' /\ ops' \subseteq OpSet
  BY <1>1, <1>2, <1>3, StepOfOp
<1>5. DataTypeOK'
  BY <1>0, <1>1, <1>4 DEF DataTypeOK, OpSet
<1> QED BY <1>4, <1>5 DEF ServingInv

\* The connection that was made is in use, or was left out, and another is made.
LEMMA HandleAcceptKeeps ==
    ASSUME ServingInv, HandleAccept
    PROVE  ServingInv'
<1>0. DataTypeOK /\ DataInv /\ made \in 1..made /\ made \notin shut /\ made \in Conns
  BY ConnsMade DEF ServingInv, ChainInv
<1>1. PICK how \in {"ok", "error"} :
          /\ Done(Op(made, "accept"), how) \in ops
          /\ ops' = (ops \ {Done(Op(made, "accept"), how)}) \cup {Op(made + 1, "accept")}
                      \cup (IF how = "ok" THEN {Op(made, "header")} ELSE {})
          /\ made' = made + 1
          /\ context' = Append(context, nextContext)
          /\ nextContext' = Following(nextContext)
          /\ UNCHANGED <<pooled, jobs, header, body, response, shut,
                         accepted, sent, received, answers, left, signal, stopped, exited>>
  BY DEF HandleAccept, buffers, client, control
<1>2. PICK o \in ops, n \in {Op(made + 1, "accept")}, h \in {Op(made, "header")} :
          /\ o.conn = made /\ o.kind = "accept" /\ o.state = how
          /\ n.conn = made + 1 /\ n.kind = "accept" /\ n.state = "pending"
          /\ h.conn = made /\ h.kind = "header" /\ h.state = "pending"
          /\ ops' = ((ops \ {o}) \cup {n}) \cup (IF how = "ok" THEN {h} ELSE {})
  <2> DEFINE o == Done(Op(made, "accept"), how)
             n == Op(made + 1, "accept")
             h == Op(made, "header")
  <2>1. o.conn = made /\ o.kind = "accept" /\ o.state = how
    BY OpFields
  <2>2. n.conn = made + 1 /\ n.kind = "accept" /\ n.state = "pending"
    BY OpFields
  <2>3. h.conn = made /\ h.kind = "header" /\ h.state = "pending"
    BY OpFields
  <2>4. o \in ops /\ ops' = ((ops \ {o}) \cup {n}) \cup (IF how = "ok" THEN {h} ELSE {})
    BY <1>1
  <2> HIDE DEF o, n, h
  <2>5. n \in {n} /\ h \in {h}
    OBVIOUS
  <2> QED BY <2>1, <2>2, <2>3, <2>4, <2>5 DEF n, h
<1>3. /\ how = "ok" <=> made \in accepted
      /\ made < MaxConns /\ made \in Nat \ {0} /\ MaxConns \in Nat
  <2>1. OpFits(o) /\ made \in Nat \ {0} /\ MaxConns \in Nat
    BY <1>0, ConnTypes DEF DataInv
  <2> QED BY <1>2, <2>1 DEF OpFits
<1>4. /\ made' \in Conns /\ made' \in 1..made' /\ made \in 1..made' /\ 1..made \subseteq 1..made'
      /\ made' # made /\ made' \notin 1..made
  BY <1>1, <1>3 DEF Conns
<1>5. made' \notin accepted /\ made' \notin shut /\ made' \notin Busy
  BY <1>0, <1>4 DEF DataTypeOK, Busy
<1>6. ChainInv'
  <2>1. CASE how = "ok"
    <3>1. Busy' = Busy \cup {n.conn}
      BY <1>0, <1>1, <1>2, <1>3, <2>1 DEF Busy
    <3>2. Chain((ops \ {o}) \cup {h}, jobs, Busy)
      BY <1>2, ChainReplace DEF ServingInv, ChainInv
    <3>3. Chain(((ops \ {o}) \cup {h}) \cup {n}, jobs, Busy \cup {n.conn})
      BY <1>1, <1>2, <1>5, <3>2, ChainAdd
    <3>4. ops' = ((ops \ {o}) \cup {h}) \cup {n}
      BY <1>2, <2>1
    <3> QED BY <1>1, <1>5, <3>1, <3>3, <3>4 DEF ChainInv
  <2>2. CASE how = "error"
    <3>1. Busy' = (Busy \ {o.conn}) \cup {n.conn}
      BY <1>0, <1>1, <1>2, <1>3, <2>2 DEF Busy
    <3>2. Chain(ops \ {o}, jobs, Busy \ {o.conn})
      BY <1>2, ChainDrop DEF ServingInv, ChainInv
    <3>3. Chain((ops \ {o}) \cup {n}, jobs, (Busy \ {o.conn}) \cup {n.conn})
      BY <1>1, <1>2, <1>5, <3>2, ChainAdd
    <3>4. ops' = (ops \ {o}) \cup {n}
      BY <1>2, <2>2
    <3> QED BY <1>1, <1>5, <3>1, <3>3, <3>4 DEF ChainInv
  <2> QED BY <2>1, <2>2
<1>7. DataTypeOK'
  <2>1. context' \in [1..made' -> Contexts] /\ nextContext' \in Contexts
    <3>1. context \in [1..made -> Contexts] /\ nextContext \in Contexts
      BY <1>0 DEF DataTypeOK
    <3>2. context \in Seq(Contexts) /\ Len(context) = made
      <4>1. context \in Seq(Contexts) /\ DOMAIN context = 1..made
        BY <1>3, <3>1, SeqDef
      <4>2. Len(context) \in Nat /\ 1..Len(context) = 1..made
        BY <4>1, LenProperties
      <4> QED BY <1>3, <4>1, <4>2
    <3>3. context' \in Seq(Contexts) /\ Len(context') = made'
      BY <1>1, <3>1, <3>2, AppendProperties
    <3>4. context' \in [1..made' -> Contexts]
      BY <3>3, LenProperties
    <3> QED BY <1>1, <3>1, <3>4, ContextFacts
  <2>2. ops' \subseteq OpSet'
    <3>1. \A p \in OpSet : p \in OpSet'
      BY <1>4 DEF OpSet
    <3>2. n \in OpSet' /\ h \in OpSet'
      <4>1. <<0, 0>> \in Responses
        BY DEF Responses
      <4>2. /\ n = [conn |-> made', kind |-> "accept", state |-> "pending", buffer |-> <<0, 0>>]
            /\ h = [conn |-> made, kind |-> "header", state |-> "pending", buffer |-> <<0, 0>>]
        BY <1>1, <1>2, OpFields
      <4> QED BY <1>4, <4>1, <4>2 DEF OpSet, Kinds
    <3> QED BY <1>0, <1>2, <3>1, <3>2, ConnsMade
  <2>3. jobs' \subseteq [conn : 1..made', header : Requests, body : Requests]
    BY <1>0, <1>1, <1>4 DEF DataTypeOK
  <2>4. accepted' \subseteq 1..made'
    BY <1>0, <1>1, <1>4 DEF DataTypeOK
  <2> QED BY <1>0, <1>1, <1>4, <2>1, <2>2, <2>3, <2>4 DEF DataTypeOK, OpSet
<1>8. \A d : /\ Served(d)' = Served(d) /\ HasHeader(d)' = HasHeader(d)
             /\ \A b : Whole(d, b)' = Whole(d, b)
  BY <1>1 DEF Served, HasHeader, Whole
<1>9. ASSUME NEW p \in ops' PROVE OpFits(p)'
  <2>1. CASE p = n
    BY <1>1, <1>2, <1>5, <2>1 DEF OpFits
  <2>2. CASE p = h
    <3>1. received[made] = 0 /\ answers[made] = <<>>
      BY <1>0, <1>3 DEF DataInv
    <3>2. received'[h.conn] = Served(h.conn)'
      BY <1>1, <1>2, <3>1, EmptySeq DEF Served
    <3> QED BY <1>2, <1>4, <2>2, <3>2 DEF OpFits
  <2>3. CASE p \in ops /\ p # o
    <3>1. OpFits(p) /\ p.conn \in 1..made /\ p.conn # made
      BY <1>0, <1>2, <2>3, ConnsMade, OneOp DEF DataInv
    <3>2. p.kind # "accept"
      BY <3>1 DEF OpFits
    <3> QED BY <1>1, <1>4, <1>8, <3>1, <3>2 DEF OpFits
  <2> QED BY <1>2, <2>1, <2>2, <2>3
<1>10. ASSUME NEW j \in jobs' PROVE JobFits(j)'
  <2>1. JobFits(j) /\ j.conn \in 1..made
    BY <1>0, <1>1, ConnsMade DEF DataInv
  <2> QED BY <1>4, <1>8, <2>1 DEF JobFits
<1>11. DataInv'
  <2>1. \A c \in Conns : c >= made' => received'[c] = 0 /\ answers'[c] = <<>>
    <3>1. \A c \in Conns : c >= made' => c >= made
      BY <1>1, <1>3 DEF Conns
    <3> QED BY <1>0, <1>1, <3>1 DEF DataInv
  <2>2. AnswersInOrder'
    BY <1>0, <1>1 DEF DataInv, AnswersInOrder
  <2> QED BY <1>9, <1>10, <2>1, <2>2 DEF DataInv
<1>12. Stopping'
  BY <1>1 DEF ServingInv, Stopping
<1> QED BY <1>6, <1>7, <1>11, <1>12 DEF ServingInv

\* A handler that shuts the connection down.
LEMMA ShutDownKeeps ==
    ASSUME ServingInv, NEW o \in ops, o.kind # "accept",
           ops' = ops \ {o}, shut' = shut \cup {o.conn},
           UNCHANGED <<pooled, nextContext, made, context, jobs, header, body, response, accepted,
                       sent, received, answers, left, signal, stopped, exited>>
    PROVE  ServingInv'
<1>1. ChainInv' /\ DataInv' /\ shut' \subseteq accepted'
  BY ShutDown
<1>2. DataTypeOK'
  BY <1>1 DEF ServingInv, DataTypeOK
<1> QED BY <1>1, <1>2 DEF ServingInv, Stopping

LEMMA HandleErrorKeeps ==
    ASSUME ServingInv, NEW c \in 1..made, HandleError(c)
    PROVE  ServingInv'
<1>1. PICK kind \in {"header", "body", "write"} :
          /\ Done(Op(c, kind), "error") \in ops
          /\ ops' = ops \ {Done(Op(c, kind), "error")}
          /\ shut' = shut \cup {c}
          /\ UNCHANGED <<pooled, nextContext, made, context, jobs, header, body, response, accepted,
                         sent, received, answers, left, signal, stopped, exited>>
  BY DEF HandleError, server, client, control
<1>2. PICK o \in ops : o.conn = c /\ o.kind = kind /\ ops' = ops \ {o}
  BY <1>1, OpFields
<1> QED BY <1>1, <1>2, ShutDownKeeps

LEMMA HandleReadHeaderKeeps ==
    ASSUME ServingInv, NEW c \in 1..made, HandleReadHeader(c)
    PROVE  ServingInv'
<1>0. DataTypeOK
  BY DEF ServingInv
<1>1. /\ Done(Op(c, "header"), "ok") \in ops
      /\ IF header[c] \in EmptyRequests
         THEN ops' = ops \ {Done(Op(c, "header"), "ok")} /\ shut' = shut \cup {c}
         ELSE /\ ops' = (ops \ {Done(Op(c, "header"), "ok")}) \cup {Op(c, "body")}
              /\ shut' = shut
      /\ UNCHANGED <<pooled, nextContext, made, context, jobs, header, body, response, accepted,
                     sent, received, answers, left, signal, stopped, exited>>
  BY DEF HandleReadHeader, server, client, control
<1>2. PICK o \in ops, n \in OpSet :
          /\ o.conn = c /\ o.kind = "header" /\ o.state = "ok"
          /\ n.conn = c /\ n.kind = "body" /\ n.state = "pending"
          /\ IF header[c] \in EmptyRequests
             THEN ops' = ops \ {o} /\ shut' = shut \cup {c}
             ELSE ops' = (ops \ {o}) \cup {n} /\ shut' = shut
  <2>1. Op(c, "body") \in OpSet
    BY OpTypes DEF Kinds
  <2> QED BY <1>1, <2>1, OpFields
<1>3. CASE header[c] \in EmptyRequests
  BY <1>1, <1>2, <1>3, ShutDownKeeps
<1>4. CASE header[c] \notin EmptyRequests
  <2>1. HasHeader(c) /\ c # made
    BY <1>2, Active DEF OpFits
  <2>2. HasHeader(c)'
    BY <1>1, <2>1 DEF HasHeader, Served
  <2>3. OpFits(n)' /\ OnlyOf(c)
    BY <1>1, <1>2, <1>4, <2>1, <2>2 DEF OpFits, OnlyOf
  <2>4. ChainInv' /\ DataInv' /\ Stopping' /\ ops' \subseteq OpSet
    BY <1>1, <1>2, <1>4, <2>3, StepOfOp
  <2>5. DataTypeOK'
    BY <1>0, <1>1, <1>2, <1>4, <2>4 DEF DataTypeOK, OpSet
  <2> QED BY <2>4, <2>5 DEF ServingInv
<1> QED BY <1>3, <1>4

\* The request goes to the pool, or is answered in place; either way with the
\* header and the body that were read.
LEMMA HandleReadBodyKeeps ==
    ASSUME ServingInv, NEW c \in 1..made, HandleReadBody(c)
    PROVE  ServingInv'
<1>0. DataTypeOK /\ c \in Conns
  BY ConnsMade DEF ServingInv
<1>1. /\ Done(Op(c, "body"), "ok") \in ops
      /\ \/ /\ jobs' = jobs \cup {[conn |-> c, header |-> header[c], body |-> body[c]]}
            /\ ops' = ops \ {Done(Op(c, "body"), "ok")}
            /\ response' = response
         \/ /\ response' = [response EXCEPT ![c] = <<header[c], body[c]>>]
            /\ ops' = (ops \ {Done(Op(c, "body"), "ok")}) \cup {Op(c, "write")}
            /\ jobs' = jobs
      /\ header' = [header EXCEPT ![c] = 0] /\ body' = [body EXCEPT ![c] = 0]
      /\ UNCHANGED <<pooled, nextContext, made, context, shut, accepted,
                     sent, received, answers, left, signal, stopped, exited>>
  BY DEF HandleReadBody, server, client, control
<1>2. PICK o \in ops, n \in OpSet :
          /\ o.conn = c /\ o.kind = "body" /\ o.state = "ok"
          /\ n.conn = c /\ n.kind = "write" /\ n.state = "pending"
          /\ o = Done(Op(c, "body"), "ok") /\ n = Op(c, "write")
  <2>1. Op(c, "write") \in OpSet
    BY OpTypes DEF Kinds
  <2> QED BY <1>1, <2>1, OpFields
<1>3. Whole(c, <<header[c], body[c]>>) /\ c # made /\ c \in Busy
  BY <1>2, Active, OneOp DEF OpFits
<1>4. /\ header[c] \in Requests /\ body[c] \in Requests
      /\ <<header[c], body[c]>> \in Responses
  <2>1. /\ received[c] = Served(c) + 2 /\ header[c] = Stream[c][Served(c) + 1]
        /\ body[c] = Stream[c][Served(c) + 2]
    BY <1>3 DEF Whole
  <2>2. received[c] <= Len(Stream[c])
    BY <1>0, ConnTypes
  <2>3. Served(c) + 1 \in 1..Len(Stream[c]) /\ Served(c) + 2 \in 1..Len(Stream[c])
    BY <1>0, <2>1, <2>2, ConnTypes
  <2> QED BY <1>0, <2>1, <2>3, ConnTypes DEF Responses
<1>5. /\ header' \in [Conns -> Requests \cup {0}] /\ body' \in [Conns -> Requests \cup {0}]
      /\ \A d \in Conns : d # c => header'[d] = header[d] /\ body'[d] = body[d]
  BY <1>0, <1>1 DEF DataTypeOK
<1>6. \A b : Whole(c, b) => Whole(c, b)'
  BY <1>1 DEF Whole, Served
<1>7. Stopping'
  BY <1>1 DEF ServingInv, Stopping
<1>8. CASE /\ jobs' = jobs \cup {[conn |-> c, header |-> header[c], body |-> body[c]]}
           /\ ops' = ops \ {Done(Op(c, "body"), "ok")}
           /\ response' = response
  <2>1. PICK j \in [conn : 1..made, header : Requests, body : Requests] :
            /\ j.conn = c /\ j.header = header[c] /\ j.body = body[c]
            /\ jobs' = jobs \cup {j} /\ ops' = ops \ {o}
    BY <1>2, <1>4, <1>8
  <2>2. ChainInv'
    <3>1. Busy' = Busy
      BY <1>1 DEF Busy
    <3> QED BY <1>1, <1>2, <2>1, <3>1, ChainToJob DEF ServingInv, ChainInv
  <2>3. JobFits(j)'
    BY <1>1, <1>3, <1>6, <2>1 DEF JobFits
  <2>4. /\ \A p \in ops' : p.conn # c
        /\ \A i \in jobs' : i.conn = c => i = j
    BY <1>2, <2>1, OneOp
  <2>5. OnlyOf(c)
    BY <1>1, <1>5, <1>8, <2>1 DEF OnlyOf
  <2>6. DataInv'
    BY <1>1, <1>3, <2>3, <2>4, <2>5, ServingStep
  <2>7. DataTypeOK'
    BY <1>0, <1>1, <1>5, <1>8, <2>1 DEF DataTypeOK
  <2> QED BY <1>7, <2>2, <2>6, <2>7 DEF ServingInv
<1>9. CASE /\ response' = [response EXCEPT ![c] = <<header[c], body[c]>>]
           /\ ops' = (ops \ {Done(Op(c, "body"), "ok")}) \cup {Op(c, "write")}
           /\ jobs' = jobs
  <2>1. /\ response'[c] = <<header[c], body[c]>> /\ response' \in [Conns -> Responses]
        /\ \A d \in Conns : d # c => response'[d] = response[d]
    BY <1>0, <1>4, <1>9 DEF DataTypeOK
  <2>2. Whole(c, response[c])'
    BY <1>1, <1>3, <2>1 DEF Whole, Served
  <2>3. OpFits(n)' /\ OnlyOf(c)
    BY <1>1, <1>2, <1>3, <1>5, <1>9, <2>1, <2>2 DEF OpFits, OnlyOf
  <2>4. ChainInv' /\ DataInv' /\ Stopping' /\ ops' \subseteq OpSet
    BY <1>1, <1>2, <1>9, <2>3, StepOfOp
  <2>5. DataTypeOK'
    BY <1>0, <1>1, <1>5, <1>9, <2>1, <2>4 DEF DataTypeOK, OpSet
  <2> QED BY <2>4, <2>5 DEF ServingInv
<1> QED BY <1>1, <1>8, <1>9

\* A job becomes the callback that is posted.
LEMMA PoolHandlesKeeps ==
    ASSUME ServingInv, NEW c \in 1..made, PoolHandles(c)
    PROVE  ServingInv'
<1>0. DataTypeOK /\ DataInv /\ c \in Conns
  BY ConnsMade DEF ServingInv
<1>1. PICK j \in jobs :
          /\ j.conn = c /\ jobs' = jobs \ {j}
          /\ ops' = ops \cup {[conn |-> c, kind |-> "posted", state |-> "ok",
                               buffer |-> <<j.header, j.body>>]}
          /\ UNCHANGED <<pooled, nextContext, made, context, header, body, response, shut, accepted,
                         sent, received, answers, left, signal, stopped, exited>>
  BY DEF PoolHandles, server, buffers, client, control
<1>2. PICK n \in OpSet : /\ n.conn = c /\ n.kind = "posted" /\ n.buffer = <<j.header, j.body>>
                         /\ ops' = ops \cup {n}
  <2>1. <<j.header, j.body>> \in Responses
    BY <1>0 DEF DataTypeOK, Responses
  <2> QED BY <1>1, <2>1 DEF OpSet, Kinds
<1>3. ChainInv'
  <2>1. Busy' = Busy
    BY <1>1 DEF Busy
  <2> QED BY <1>1, <1>2, <2>1, ChainFromJob DEF ServingInv, ChainInv
<1>4. Whole(c, <<j.header, j.body>>) /\ c # made
  BY <1>0, <1>1 DEF DataInv, JobFits
<1>5. Whole(c, <<j.header, j.body>>)'
  BY <1>1, <1>4 DEF Whole, Served
<1>6. OpFits(n)' /\ OnlyOf(c)
  BY <1>1, <1>2, <1>4, <1>5 DEF OpFits, OnlyOf
<1>7. /\ \A p \in ops' : p.conn = c => p = n
      /\ \A i \in jobs' : i.conn # c
  BY <1>1, <1>2, OneJob
<1>8. DataInv'
  BY <1>1, <1>4, <1>6, <1>7, ServingStep
<1>9. DataTypeOK'
  BY <1>0, <1>1, <1>2 DEF DataTypeOK, OpSet
<1> QED BY <1>1, <1>3, <1>8, <1>9 DEF ServingInv, Stopping

LEMMA OnRequestHandledKeeps ==
    ASSUME ServingInv, NEW c \in 1..made, OnRequestHandled(c)
    PROVE  ServingInv'
<1>0. DataTypeOK /\ c \in Conns
  BY ConnsMade DEF ServingInv
<1>1. PICK o \in ops :
          /\ o.conn = c /\ o.kind = "posted"
          /\ response' = [response EXCEPT ![c] = o.buffer]
          /\ ops' = (ops \ {o}) \cup {Op(c, "write")}
          /\ UNCHANGED <<pooled, nextContext, made, context, jobs, header, body, shut, accepted,
                         sent, received, answers, left, signal, stopped, exited>>
  BY DEF OnRequestHandled, server, client, control
<1>2. PICK n \in OpSet : /\ n.conn = c /\ n.kind = "write" /\ n.state = "pending"
                         /\ ops' = (ops \ {o}) \cup {n}
  <2>1. Op(c, "write") \in OpSet
    BY OpTypes DEF Kinds
  <2> QED BY <1>1, <2>1, OpFields
<1>3. Whole(c, o.buffer) /\ c # made
  BY <1>1, Active DEF OpFits
<1>4. /\ response'[c] = o.buffer /\ response' \in [Conns -> Responses]
      /\ \A d \in Conns : d # c => response'[d] = response[d]
  BY <1>0, <1>1 DEF DataTypeOK
<1>5. Whole(c, response[c])'
  BY <1>1, <1>3, <1>4 DEF Whole, Served
<1>6. OpFits(n)' /\ OnlyOf(c)
  BY <1>1, <1>2, <1>3, <1>4, <1>5 DEF OpFits, OnlyOf
<1>7. ChainInv' /\ DataInv' /\ Stopping' /\ ops' \subseteq OpSet
  BY <1>1, <1>2, <1>6, StepOfOp
<1>8. DataTypeOK'
  BY <1>0, <1>1, <1>4, <1>7 DEF DataTypeOK, OpSet
<1> QED BY <1>7, <1>8 DEF ServingInv

LEMMA HandleWriteKeeps ==
    ASSUME ServingInv, NEW c \in 1..made, HandleWrite(c)
    PROVE  ServingInv'
<1>0. DataTypeOK /\ c \in Conns
  BY ConnsMade DEF ServingInv
<1>1. /\ Done(Op(c, "write"), "ok") \in ops
      /\ header' = [header EXCEPT ![c] = 0]
      /\ ops' = (ops \ {Done(Op(c, "write"), "ok")}) \cup {Op(c, "header")}
      /\ UNCHANGED <<pooled, nextContext, made, context, jobs, body, response, shut, accepted,
                     sent, received, answers, left, signal, stopped, exited>>
  BY DEF HandleWrite, server, client, control
<1>2. PICK o \in ops, n \in OpSet :
          /\ o.conn = c /\ o.kind = "write" /\ o.state = "ok"
          /\ n.conn = c /\ n.kind = "header" /\ n.state = "pending"
          /\ ops' = (ops \ {o}) \cup {n}
  <2>1. Op(c, "header") \in OpSet
    BY OpTypes DEF Kinds
  <2> QED BY <1>1, <2>1, OpFields
<1>3. received[c] = Served(c) /\ c # made
  BY <1>2, Active DEF OpFits
<1>4. /\ header' \in [Conns -> Requests \cup {0}]
      /\ \A d \in Conns : d # c => header'[d] = header[d]
  BY <1>0, <1>1 DEF DataTypeOK
<1>5. received'[c] = Served(c)'
  BY <1>1, <1>3 DEF Served
<1>6. OpFits(n)' /\ OnlyOf(c)
  BY <1>1, <1>2, <1>3, <1>4, <1>5 DEF OpFits, OnlyOf
<1>7. ChainInv' /\ DataInv' /\ Stopping' /\ ops' \subseteq OpSet
  BY <1>1, <1>2, <1>6, StepOfOp
<1>8. DataTypeOK'
  BY <1>0, <1>1, <1>4, <1>7 DEF DataTypeOK, OpSet
<1> QED BY <1>7, <1>8 DEF ServingInv

-------------------------------------------------------------------------------

LEMMA ServingNext ==
    ASSUME ServingInv, [DataNext]_(dataVars)
    PROVE  ServingInv'
<1>1. ASSUME NEW c \in 1..made,
             \/ ClientSends(c) \/ ClientLeaves(c)
             \/ Network(c) \/ Handler(c) \/ PoolHandles(c)
      PROVE  ServingInv'
  BY <1>1, ClientKeeps, ReadDoneKeeps, WriteDoneKeeps, TransferFailsKeeps, HandleReadHeaderKeeps,
     HandleReadBodyKeeps, OnRequestHandledKeeps, HandleWriteKeeps, HandleErrorKeeps,
     PoolHandlesKeeps DEF Network, Handler
<1>2. CASE AcceptDone
  BY <1>2, AcceptDoneKeeps
<1>3. CASE HandleAccept
  BY <1>3, HandleAcceptKeeps
<1>4. CASE \/ RaiseSignal \/ HandleSignal \/ StopContext
           \/ \E i \in Contexts : ThreadExits(i)
           \/ UNCHANGED dataVars
  BY <1>4, ControlKeeps
<1> QED BY <1>1, <1>2, <1>3, <1>4 DEF DataNext

LEMMA ServingAlways == DataSpec => []ServingInv
<1>1. DataInit => ServingInv
  BY ServingInit
<1>2. ServingInv /\ [DataNext]_(dataVars) => ServingInv'
  BY ServingNext
<1> QED BY <1>1, <1>2, PTL DEF DataSpec

\* The chain of callbacks that handles a connection neither breaks nor forks
\* (readHeader, handleReadHeader, readBody, handleReadBody, onRequestHandled,
\* handleWrite and stop of Connection), for any number of io threads, connections
\* and requests: no two callbacks share the buffers of a connection.
THEOREM OneCallbackPerConnection == DataSpec => []ServerInv
<1>1. DataSpec => []ServingInv
  BY ServingAlways
<1>2. ServingInv => ServerInv
  BY ServingImplies
<1> QED BY <1>1, <1>2, PTL

\* Responses go out in the order of the requests, each made from the header and
\* the body of its request, whether handled in place or by the handler pool.
THEOREM AnswersFollowRequests == DataSpec => []AnswersInOrder
<1>1. DataSpec => []ServingInv
  BY ServingAlways
<1>2. ServingInv => AnswersInOrder
  BY ServingImplies
<1> QED BY <1>1, <1>2, PTL
================================================================================
