# Verification of the concurrent parts of Cpp-play

Cpp-play is a collection of C++ programs. Most of its files show a language
feature and keep no state. The ones that carry logic of their own are
concurrent: thread pools, locks and lock-free queues under `src/multiThread`, a
request server on boost::asio under `src/diff2/data_provider`, and a few
adapters. This project models the concurrent core in TLA+, checks it with TLC and
proves its main theorems with TLAPS. Paths below are relative to the repository.

## 1. Inventory

### Modelled

| part | source | state | operations | hard behaviours | correct when |
|---|---|---|---|---|---|
| jthread pool | `multiThread/ThreadPool.h` (also `ThreadPoo2.h`, `ThreadPool_stop_token2.cpp`; older forms `ThreadPool_.h`, `ThreadPool4.cpp`, `ThreadPool_stop_token.cpp`) | `_tasks`, the workers, a stop state per jthread | constructor, `submit`, `submitAndGetFuture`, worker loop, member-wise destructor | notify after unlock, spurious wakeups, stop racing the wait, tasks that submit or wait for futures, one-by-one destruction of jthreads | each task runs once; no wakeup is lost; the destructor returns and leaves nothing behind |
| semaphore pool | `multiThread/Semaphore Thread Pool.cpp` (and `...Pool2.cpp`) | tokens, `tasks_`, `stopping_`, stop states | `submit`, `submit_detach`, worker loop, destructor, destruction of members | two critical sections per task, two kinds of tokens in one counter, declaration order of members | tokens match tasks; accepted tasks are settled; the destructor returns; no member is used after its destruction |
| ticket locks | `multiThread/spin_ticket_mutex.cpp`, `wait_ticket_mutex.cpp` | two counters | `lock`, `try_lock`, `unlock` | every atomic operation may interleave; sleep on a value; counters wrap | exclusion, first come first served, no starvation |
| one-producer one-consumer ring | `multiThread/OneReaderOneWriterQueue3.cpp`, `OneReaderOneWriterQueue_folly.cpp`, partly `OneReaderOneWriterQueue.cpp` | ring, two indices, `_stopped` | `write`, `read`, `frontPtr`, `popFront`, `isEmpty`, `isFull`, `sizeGuess`, `stop`, destructor | no lock at all; stale queries; unsigned arithmetic; object lifetimes by hand | no slot is shared; items arrive once, in order; queries err to one side |
| multi-producer queue | `multiThread/OneReaderMWriter2.cpp` (same class in `OneReaderOneWriterQueue2.cpp`) | one bounded queue per producer, a buffer with an offset, `_stop`, a count of finished producers | `produce`, `consume`, `stop`, the loop of `main` | `_stop` is read three times in one call; full queues | items are conserved and in order; everybody ends after `stop` |
| hierarchical mutex | `multiThread/hierarchical_mutex.cpp` | owner and saved level per mutex, level per thread | `lock`, `try_lock`, `unlock` | threads holding several mutexes; unlock order | layers are respected, no deadlock |
| data provider server | `diff2/data_provider/server/{connection,io_context_pool,thrd_per_cntxt_server}.cpp` | connections with buffers, operations under way, handler pool, io_contexts | accept, read header, read body, handle, write, signal, stop | handlers in several threads, hand-over to a pool and back, failing accepts and transfers, a signal at any time | one callback chain per connection, answers in order, accept loop goes on, `run` returns |
| FIX adapter | `diff/cpp_play/FixAdapter` (`connector`, `ts_impl`, `appl`, `common/include/fix_tsI.h`) | socket and `m_connect_mutex`, two pools of buffers, two queues, the writer's batch, the reader's buffer | `manage`, `threadFunction` of writer and reader, `connect`, `send_to_ts`, `receive_from_ts`, `manageEspdMsg`, `start`, `stop` | two threads share a connection; retry of a batch; retry loop under the mutex; exceptions that leave a buffer behind | buffers are accounted for; nobody waits for room; no request is sent twice or late, no response is mixed |
| HTTP server wrapper | `proxygen_ih` (`RequestHandlerImpl`, `ProxygenRequestHandlerBase`, `ResponseHandle`, `ServerCounters`, and its overrides of `HTTPServer`, `HTTPServerAcceptor`, `RequestHandlerAdaptor`) | connections, handlers, tasks, the CPU pool and its queue, counters, stop flags | accept, `newHandler`, `onEOM`, the functor, `sendFunc`, `onAppTimeout`, `onError`, `requestComplete`, `stop` | handlers die while tasks refer to them; a full queue blocks the event loop; time limits; stop on the event loop | a task's handler is not completed under it; limits hold; accepted requests are answered, started ones also during a stop |

The pools, the ring and the ticket locks have *abstract specifications*:
`TaskExecutor`, `BoundedFifo` and `FifoLock`. The parts do not call each other in the repository, except that
`FutureOnPoolChain.cpp` chains futures on a pool; that program shape is in the
`ThreadPool` model (tasks that wait for futures).

### Not modelled (yet)

* *Pools over ring queues and boost queues* (`ThreadPoollockfree*.cpp`,
  `ThreadPool.cpp`, `ThreadPool2.cpp`, `ThreadPool3.cpp`), *ordered executors*
  (`serial_executor_cond_var.cpp`, `OrderedThreadPool.cpp`), *blocking queues and
  monitors* (`condition*.cpp`, `Button.cpp`, `StopCV.cpp`), *actors and timers*
  (`actor*.cpp`, `ThreadTimer.h`, `WatermarkMessageQueue.cpp`) and the *data
  provider client*: planned, see section 7.
* Of the modelled parts: the destructor of `ThrdPerCntxtServer`; several trading
  systems (they share nothing) and the FIX session layer of quickfix; several
  acceptors of the HTTP server (they share nothing), and its limit on the ratio of
  timed out requests, which never acts (section 6).
* The rest of `templates`, `diff` and `diff2`: metaprogramming, containers,
  strings, allocators. Single-threaded, no state between calls.
* Vendored libraries, generated protobuf code, build files.

`PROJECT.json` lists all components, the hazards with their lines, and the source
lines behind each definition.

## 2. Modules

| module | models | notes |
|---|---|---|
| `TaskExecutor` | what a draining pool promises | tasks start in submission order, closing waits for all; implemented by both pools |
| `ThreadPool` | `ThreadPool.h` | `drain` (chosen in `Init`, never changed) tells the pool that drains from the older ones that test the stop flag first |
| `SemaphoreThreadPool` | the semaphore pool | `ended` records `std::terminate` and undefined behaviour |
| `FifoLock` | what a fair lock promises | whoever asks waits for those that asked before, and for nobody else |
| `TicketMutex` | both ticket locks | `blocking` tells the classes apart, `modulus` is the width of the counters |
| `BoundedFifo` | what the ring promises | |
| `ProducerConsumerQueue` | both ring classes | `folly` tells them apart |
| `MpscQueue` | `mpsc_queue` and its `main` | the inner `spsc_queue` is external: a bounded queue |
| `HierarchicalMutex` | `hierarchical_mutex` | `LIFO`: whether unlocks are nested |
| `DataServer` | the request server | asio, network and clients are external |
| `FixAdapter` | one trading system: sessions, writer, reader, manager, and `SessionManager` | quickfix, asio and the trading system are external; a buffer is the request in it, or whether its header and body are of one connection |
| `HttpServer` | one acceptor, i.e. one event loop with its connections, and the CPU pool | proxygen, folly, wangle and `makeResponse` are external |
| `MC...` | the instances for TLC | only constants |
| `...Proofs` | theorems of the module named | extend the module and `TLAPS`; `ServerProofs` extends both `HttpServer` and `DataServer`, hence `DataInit`, `DataNext`, `DataSpec` in the second |

How state and steps correspond to the code:

* **A critical section is one step; everything between two is not.** In
  `ThreadPool`, `Push` is the locked part of a submission and `NotifyOne` the
  notification after it; `LoopHead`, `Take`, `Sleep`, `Exit` are the parts of the
  worker loop; `RequestStop` and `Join` are what `~jthread` does, worker by worker
  in the order of the vector. A stop wakes the thread whose token it is.
* **In lock-free code each atomic access is one step.** `ProducerConsumerQueue`
  also makes the construction, the read and the destruction of a record steps of
  their own, so that a data race would be a reachable state. Loads with acquire
  pair with stores with release in this code, and the models are sequentially
  consistent on these accesses; weaker reorderings are not modelled.
* **In asio code a handler is one step**, run by the thread of its io_context. An
  operation is pending until the network completes it. `StopContext` stops one
  context at a time, while other threads go on. In `HttpServer` a callback of the
  event loop is one step too, unless it blocks: `OnEOM` and `Add`, `RequestStop`
  and `StopReturns` are the two halves of callbacks that wait for the pool.
* **In `FixAdapter` a call of the socket is one step.** `connect` takes the mutex
  (`ConnectResolve`) and tries until it succeeds (`ConnectFails`, `ConnectOk`).
  `send_to_ts` and `receive_from_ts` call themselves after an error; `depth` counts
  these calls, for an exception unwinds all of them.
* **Data**: a task is a name with the tasks it submits and the futures it waits
  for; an item of a queue is its number; a request is the number its header and
  body carry, and a response is the pair it was made from, so mixed-up buffers
  would show.
* **Undefined behaviour**: a worker of the semaphore pool that calls `front()` on
  the destroyed queue goes to `ended = "ub"`; a destructor applied where no
  object lives sets `twice` in the ring. A task of the HTTP server that uses a deleted handler has
  no effect or ends the process (`UseDeleted`); what else the memory may do is
  not modelled.
* **Type invariants** are the first conjunct of one named invariant per module
  (`PoolInv`, `SemInv`, `TicketInv`, `RingInv`, `QueueInv`, `ServerInv`, `RouterInv`,
  `HandlerInv`, `StackInv`), whose other conjuncts say how the parts of the state
  relate.
* Definitions named `Mutant` in a comment are wrong versions of the definition
  after them. They are not part of any specification; they show that a property
  notices such a bug.

## 3. Runs

| run | instance | states | shows |
|---|---|---|---|
| `thread_pool` | 2 workers, 2 clients, 5 tasks: one waits for two futures, one submits to its pool; draining and not | 10 000 | no task twice, no lost wakeup, an ordered shutdown that drains, destructor returns, refinement of `TaskExecutor` |
| `semaphore_pool` | 2 workers, 1 client, 5 tasks, one detached, two that submit | 3 200 | a token per task until the stop; accepted tasks are settled; refinement of `TaskExecutor`, which a stop may leave unfinished but never out of order |
| `semaphore_stop` | same | | **violated**: the destructor may hang (finding 1) |
| `ticket` | 3 threads, one calls `try_lock`; spinning and blocking; 6 tickets without wrap, or unlimited tickets wrapping at 4 | 317 000 | exclusion, no starvation and refinement of `FifoLock`, across the wrap too |
| `ring` | 3 slots, 5 items, queries at any point, both classes | 1 700 | no race on a slot, order, delivery, query bounds, lifetimes with raw storage, refinement of `BoundedFifo` |
| `mpsc` | 2 producers, capacity 2, batches of 3, 4 items each | 33 000 | conservation and order per producer, consumer ends last, producers end |
| `mpsc_stop` | same | | **violated**: `consume` may never end (finding 2) |
| `hierarchy` | 3 threads, 3 mutexes on 2 levels, nested | 14 000 | layers, no circle of waiting threads, saved levels mirror the stack |
| `data_server` | 2 io threads, with and without handler pool, 2 clients; one sends two requests and an empty one | 122 000 | one callback per connection, ordered answers, requests answered, `run` returns after a signal |
| `fix_adapter` | 2 sessions, 2 buffers per direction, 3 requests, a connection that fails at any point | 822 000 | buffers accounted for, no waiting for room, no request twice or late and no mixed response while nobody disconnects, queued requests are sent |
| `fix_connect` | same | | **violated**: `connect` returns without a connection (finding 3) |
| `http_server` | 4 connections, 2 threads, a queue of 1, limits of 2, a stop at any point | 52 000 | handlers and tasks, the limit on requests, answers, also during a stop |

Why the bounds are enough. *Pools*: two workers are the least at which one takes
another's task or wakeup, and the task programs contain each shape the code
distinguishes (future, detached, submitting, waiting). *Ticket*: three threads give
two waiters behind a holder, so that waking the wrong one shows; four ticket
values is the smallest width above the number of threads. `try_lock` is left out
of the wrapping case: the counters would have to go all the way round between
its two instructions. *Ring*: three slots and five items fill it, empty it
and wrap both indices. *Mpsc*: the batch is larger than the queue, so pushes are
partial. *Hierarchy*: two mutexes on the lower level allow chains and crossing waits
of three threads. *Server*: connections interact only through the io_contexts and
the accept loop; two of them share or do not share a context with the acceptor,
and the third is the one that is being accepted into. Each client sends headers and the
bodies they announce (`PairsAssumption`), which TLC evaluates on the instance.
*FIX*: three requests for two buffers exhaust the pool, two sessions give requests
whose order matters and others, a batch of two can fail in its middle, and both
threads compete for the connector. `MaxDepth = 1` folds deeper
recursion into the first level: a deeper call does the same as the first, and
unwinding only repeats the disconnect. *HTTP*: with limits of two, a queue of one and
two threads, four connections reach the rejected connection, the rejected request
and the full queue that blocks the event loop.

Deadlock is not checked where the program may rest (`ticket`, `mpsc`,
`semaphore_pool`, `data_server`, `fix_adapter`, `http_server`); there liveness properties take its place.

## 4. Fairness

Weak fairness of the steps of threads that are scheduled; every blocking step has
a guard, so fairness never forces one through a wait.

* Pools: a worker, a submission that began and a destructor that began go on; the
  bodies of tasks return. Nobody is obliged to destroy the pool. `notify_one`
  chooses any sleeper, and the semaphore gives its token to any waiter.
* Ticket locks: a thread inside `lock` or `unlock` goes on and critical sections
  end; nobody is obliged to ask for the lock or to call `try_lock`.
* Ring: both threads call again after a failure, as `while(!q.write(el))` and
  `while(!q.read(el))` of the test programs do; `stop`, queries and the
  destructor are not obliged to happen.
* Mpsc: all threads run and `main` calls `stop` after its sleep.
* Server: io_contexts serve their handlers in order, `handleRequest` returns, and
  transfers complete when the data is there. Clients, new connections and
  signals promise nothing.
* FIX adapter: a thread that can run does, `main` starts the threads, and
  attempts to connect end. What the trading system sends, whether it can be reached,
  and whether anybody stops the adapter is left open.
* HTTP server: pool threads run, `makeResponse` returns, and the event loop runs what
  was posted to it in every round. That is strong fairness of `SendFunc`: other
  callbacks may block the loop again and again, so it is not enabled all the time.
  Clients and the signal to stop promise nothing.

## 5. Proofs

All theorems hold for every value of the constants that satisfies the named
assumptions of the module; hypotheses beyond these are part of the theorem.

* **`ThreadPoolProofs`**: `PoolInv` is inductive for any number of workers,
  clients and tasks. `OnceOnly` alone is not: that a pushed task is new needs
  `Fresh` (what actors still have to submit, and what untaken tasks will submit,
  is disjoint from what was accepted), and `Drained` needs `Accounted` (whatever
  a program says is pushed or to be pushed) and `Shutdown` (workers leave in
  order, the last one leaves an empty queue; clients have finished when the
  destructor begins). From it: `TasksRunOnce`, `DestructorDrains`, and
  `PoolRefinesExecutor`, where `Push`, `Take`, `Finish` and the last `Join` are
  the abstract steps and all others stutter. `NoWakeupLost`: a push adds a task and a
  `notify_one` to come, which turns a sleeper into a worker about to check the queue,
  and only such a worker takes a task. Workers at the head of the loop may not be
  counted: in a pool that does not drain they leave with tasks queued.
* **`TicketMutexProofs`**: `TicketInv`: outstanding tickets are distinct and
  lie between the counters, the holder has the one served, and what `try_lock` has
  loaded is not above the served ticket. The last part is what makes its
  compare_exchange sound: it succeeds only when no ticket is outstanding. For
  counters that wrap, `CircularInv` puts the outstanding tickets on a circle,
  `Turn(t)` after the one served, and counts them: a new one goes where no thread is.
  From both, `LockExcludes` and `LockIsFifo`, with the hypothesis `WideEnough`:
  counters that wrap have at least as many values as there are threads. In the
  refinement a thread waits for those of a lower turn. `fetch_add` in `lock` is where
  it asks, since its turn is then the last (`DrawTurn`); `unlock` brings all others one
  nearer (`UnlockTurn`), so nobody's order changes; and whoever sees its ticket has
  turn 0, with nobody ahead.
* **`ProducerConsumerQueueProofs`**: `RingInv`: the records between the indices are
  the items after the last one read, for every size of the ring. From it
  `SlotsNotShared`, `ReadInOrder`, `RingRefinesFifo`; and `QueriesBound`, with the
  hypothesis `Size <= Half`: `sizeGuess` subtracts unsigned indices and converts
  to `int`, which is right for sizes up to half the range of the index
  (2^31 for 32 bits) and not above. `LifetimesKept`, for raw storage: objects live in
  the slots between the indices, in the one constructed before `writeIndex_` is stored
  and no longer in the one destroyed before `readIndex_` is (`LifeInv`).
* **`HierarchicalMutexProofs`**: under nested unlocking (`LIFO`), `StackInv`: a
  thread's level and the saved levels mirror the stack of mutexes it holds.
  From it `LayersAreRespected` and `HierarchyPreventsDeadlock`: in a non-empty set of
  threads that wait for each other one has the lowest level, which its own
  wait contradicts.

* **`SemaphoreThreadPoolProofs`**: `TokensMatchTasks`. Its core is that a worker with a
  token sees a task (`HolderSeesTask`): both are counted in `TokenPerTask`, so no worker
  leaves or gives a token away before the destructor adds tokens of its own.
  After that the equation is gone, which is where finding 1 begins. `TasksRunOnce`
  rests on `Fresh`: what is still to be submitted, by an actor or by a task that has not
  started, was not seen before. It needs no tokens, so it holds until the end.
  `PoolRefinesExecutor` needs that the last worker to leave finds the queue empty, although
  the tokens say nothing by then: `LeaveInv` says that nothing is pushed to a stopping
  pool, so a worker that leaves on an empty queue leaves it empty for good. The
  executor's step of closing is that of the destructor returning; a destructor that hangs
  (finding 1) is a stutter, so the theorem does not promise that it returns, and neither
  does it speak of what follows undefined behaviour, where the model ends.
* **`MpscQueueProofs`**: `ConsumerIsLast`: the count of finished producers is that of
  the producers that have counted themselves out, each once (`CountInv`), so it
  reaches the number of queues only when all have stopped. `ItemsKeepOrder`: the offset
  is always the end of the buffer (`ItemsInv`), so a sweep appends what it finds. The
  consumer holds the first `Gone(p)` items of each producer `p` in their order
  (`InTurn`), and `p`'s queue holds the next ones, so to append the whole queue keeps
  this (`ChunkInTurn`), whatever the other queues brought in between.
* **`FixAdapterProofs`**: `BuffersAreAccounted`, for any number of sessions and
  buffers: each action moves a buffer from one place of the equation to another, or
  counts it as lost. `ThreadsKnown` (a reader at a body has its header, an exception
  unwinds a call) is needed to know who holds one. That pushes find room follows
  from the equation, since the queue is as long as the pool is large.
  `ResponsesAreWhole` and `RequestsSentOnce`, which hold until the stop: a thread past
  its connect finds the socket open for ever, since nobody closes it before
  `disconnect`, so nobody connects a second time
  (`ConnectedOnce`) and a header in hand is of the only connection (`HeaderFresh`).
  For the order, a session's requests are in line, from the rest of the writer's
  batch through the queue to the one the session is filling (`RequestsOrdered`), and
  while the connection is up the rest of the batch was not sent (`BatchUnsent`).
* **`ServerProofs`**: of the HTTP server, `HandlersOutliveTasks` and `RequestsAreLimited`,
  for any number of connections, threads and limits. `HandlerOutlivesTask` alone is not
  inductive: the pool might start a task twice (`QueuedOnce`) or beyond its threads
  (`RunningBounded`). Of the data provider server, `OneCallbackPerConnection` and
  `AnswersFollowRequests`, for any number of io threads, connections and requests. The
  invariant is `ServingInv`. `Chain`: each connection that is accepted and not
  shut down, and the one that the acceptor waits for, has exactly one operation or job,
  and no other has any. Each handler replaces one link by another (`ChainReplace`,
  `ChainToJob`, `ChainFromJob`), ends the chain (`ChainDrop`) or starts the next
  connection's (`ChainAdd`). That alone gives the first theorem. For the second,
  `OpFits` and `JobFits` say what has been read, and what the buffers hold, from where
  that one thing is: two messages are read per answer, and a body is in its buffer only
  after the header it belongs to. Since nothing else of the connection goes on, no buffer
  changes under it. That an answer's header and body are of one request needs
  `PairsAssumption`: the client sends a header and then the body it announces, which is how
  `sync_client.cpp` writes a request, both in one buffer.

Only model-checked: the liveness properties, since fairness is out of the prover's
reach. All invariants and action properties of the runs that pass, and the four
refinements, are theorems. The violated properties of section 6 are TLC's too.

## 6. Findings

Checked by a run that TLC finds violated:

1. `Semaphore Thread Pool.cpp:118` (`semaphore_stop`): a worker that acquired the
   token of a task before the stop, and finds that task taken by a worker with one of
   the destructor's tokens, gives its token up. One is then missing, a worker sleeps
   in `acquire` for ever and its join does not return, against "wake all
   threads" (line 36).
2. `OneReaderMWriter2.cpp:21` (`mpsc_stop`): `produce` reads `_stop` separately for
   counting itself out and for its result; a `stop` between the two leaves the
   count short, and `consume`, which `main` waits for, loops for ever.
3. `ts_connector.cpp:12` (`fix_connect`): `connect` returns at once if the socket is
   open, which it still is after the peer has closed the connection. Reader and
   writer then call themselves without end, and the connection is never made again,
   against "Will not return until OK" (`ts_connector.h:31`).

Other observations. Those on the semaphore pool, the ring and the hierarchical mutex
can be repeated with the definition that is named, as an invariant of the module:

* `Semaphore Thread Pool.cpp:152`: `workers_` is the first member, so the others are
  destroyed before the threads are joined; a worker that drains reads a destroyed
  queue (`NoUseAfterDestruction` in `SemaphoreThreadPool`). `ThreadPool.h:78`
  states the rule this breaks.
* `OneReaderOneWriterQueue3.cpp:193`: `unique_ptr<T[]>` destroys all elements again
  after `read`, `popFront` and the destructor have ended their lifetimes
  (`LifetimesMatch` in `ProducerConsumerQueue`). The class with raw storage is right.
* `hierarchical_mutex.cpp:45`: `unlock` restores the level saved by the mutex that is
  released; out of order, a thread that holds a low mutex may lock a high one
  (`LayersRespected` with `LIFO = FALSE`).
* `FixAdapter`: `SentOnceInOrder` and `WholeFrames` hold because a lost connection is
  never made again. Correcting `connected` alone (the definition `connectedUp`) breaks both: a
  batch is written again from its start, and a header may be followed by the
  body of another connection. The two calls of `stop` reach the same states, since they
  close the socket while both threads go on; hence the hypothesis `~Stopping`.
* `proxygen_ih`: `m_timeoutedRequests` is never incremented, so the limit on the ratio
  of timed out requests never acts; the limit on connections is compared before the new
  one is counted and lets one more in; requests still in the queue when the server
  stops get no answer, not even the 503 of those that come later;
  and `onError` deletes the handler while a task holds a pointer to it.
* `sync_client.cpp:83` and `:94` test `!ec` where `connect` and `write` test `ec`: the
  client shuts its socket down after the header of the response was read, so
  whether it gets the body depends on what has arrived by then.
* Hazards known but not modelled: a task given to `submit` that throws ends the process
  (`ThreadPool.h:42`); `try_lock` of the ticket locks when the counters go all the
  way round between its two accesses; items pushed after the last sweep of
  `consume` stay in their queue (`OneReaderMWriter2.cpp:38`); the retry loop of the
  FIX connector holds `m_connect_mutex` while it sleeps, which `stop` waits for.
* `diff/time_event_generator.cpp` uses `stopped`, which is not declared.

## 7. Plan

Done: the modules above, in the order of section 2.

Next, extending the model:

1. `DataServer`: the destructor of the server with requests still in the
   handler pool, and `SyncClient` in place of the free client.
2. A module for bounded blocking queues on one condition variable
   (`condition7.cpp`, `condition8.cpp`, `condition_notify_all*.cpp`): which of
   `notify_one` and `notify_all` they need.
3. Pools over ring and boost queues: `ThreadPoollockfree*.cpp` gives
   several workers a ring made for one consumer; compose with
   `ProducerConsumerQueue`'s steps.
4. Ordered executors, with an abstract specification (effects in sequence order)
   that both implement.
5. `WatermarkMessageQueue.cpp`, `ThreadTimer.h`, the actors.

Next, proving:

1. An abstract specification of the multi-producer queue (a sequence of items per
   producer) that `MpscQueue` implements.
2. The components above, as they are modelled.

## 8. Running it

    tlc -config ThreadPool.cfg MCThreadPool      # likewise for the other runs
    tlapm ThreadPoolProofs.tla                   # likewise for the other proofs

Each run's module and configuration are listed in `PROJECT.json`.
