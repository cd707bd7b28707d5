------------------------------ MODULE HttpServer ------------------------------
(***************************************************************************)
(* The HTTP server wrapper (proxygen_ih): one HTTPServerAcceptor, that is  *)
(* one IO event loop with its connections and request handlers, and the    *)
(* CPU thread pool that computes the responses.                            *)
(*                                                                         *)
(* A connection has at most one request at a time, so a request, its       *)
(* handler and its task go by the name of the connection.  Proxygen,       *)
(* folly's event base, wangle's pool and the application (makeResponse)    *)
(* are not in the repository.  The limit on the ratio of timed out         *)
(* requests is left out: m_timeoutedRequests is never incremented, so the  *)
(* ratio stays 0.                                                          *)
(***************************************************************************)
EXTENDS Naturals, Sequences, FiniteSets

CONSTANTS
    Connections,     \* connections that can exist at a time, a bound
    Threads,         \* HTTP_SERVER_CPU_THREADS_PER_IO_THREAD
    QueueSize,       \* kDefaultMaxQueueSize
    MaxConnections,  \* HTTP_SERVER_MAX_CONNECTIONS_PER_IO_THREAD
    MaxRequests      \* HTTP_SERVER_MAX_REQUESTS_PER_IO_THREAD

ASSUME ConnectionsAssumption == IsFiniteSet(Connections)
ASSUME PoolAssumption == Threads \in Nat \ {0} /\ QueueSize \in Nat \ {0}
ASSUME LimitAssumption == MaxConnections \in Nat \ {0} /\ MaxRequests \in Nat \ {0}

VARIABLES
    conn,           \* "gone" if there is no connection, "idle" between requests,
                    \* then its request is "reading", "waiting" for its task
                    \* or "answered"
    task,           \* ThreadFanctor: "none", about to be given to the pool
                    \* ("adding"), "queued", "running", or its response
                    \* "posted" to the event loop
    queue,          \* the pool's queue
    live,           \* threads of the pool that have not ended
    current,        \* m_currentRequests
    loop,           \* the event loop is "free", or blocked in executor->add
                    \* ("adding") or executor_->stop ("stopping")
    listening,
    stopRequested,  \* stopRequested_
    up              \* FALSE when the process is no more

io == <<conn, current, loop, listening, stopRequested>>
pool == <<task, queue, live>>
vars == <<io, pool, up>>

TypeOK ==
    /\ conn \in [Connections -> {"gone", "idle", "reading", "waiting", "answered"}]
    /\ task \in [Connections -> {"none", "adding", "queued", "running", "posted"}]
    /\ queue \in Seq(Connections) /\ Len(queue) <= QueueSize
    /\ live \in 0..Threads /\ current \in Nat
    /\ loop \in {"free", "adding", "stopping"}
    /\ listening \in BOOLEAN /\ stopRequested \in BOOLEAN /\ up \in BOOLEAN

Init ==
    /\ conn = [c \in Connections |-> "gone"]
    /\ task = [c \in Connections |-> "none"]
    /\ queue = <<>> /\ live = Threads
    /\ current = 0 /\ loop = "free"
    /\ listening = TRUE /\ stopRequested = FALSE /\ up = TRUE

HasHandler(c) == conn[c] \in {"reading", "waiting", "answered"}

Conn(c, s) == conn' = [conn EXCEPT ![c] = s]
Task(c, s) == task' = [task EXCEPT ![c] = s]

\* What the counters do: m_currentRequests is checked after the request itself
\* has been counted, m_currentConnects before.
decrement == current' = IF current > 0 THEN current - 1 ELSE 0
tooManyRequests == current > MaxRequests
tooManyConnections == Cardinality({c \in Connections : conn[c] # "gone"}) > MaxConnections

-------------------------------------------------------------------------------
(* The event loop: callbacks run one at a time while nothing blocks it.    *)

Callback == up /\ loop = "free"

\* canAccept
Accept(c) ==
    /\ Callback /\ listening /\ conn[c] = "gone" /\ task[c] = "none" /\ ~tooManyConnections
    /\ Conn(c, "idle")
    /\ UNCHANGED <<pool, current, loop, listening, stopRequested, up>>

\* External: an idle connection is closed, by the client or by the time limit.
CloseIdle(c) ==
    /\ Callback /\ conn[c] = "idle" /\ Conn(c, "gone")
    /\ UNCHANGED <<pool, current, loop, listening, stopRequested, up>>

\* newHandler makes a handler and counts it...
NewRequest(c) ==
    /\ Callback /\ conn[c] = "idle"
    /\ Conn(c, "reading") /\ current' = current + 1
    /\ UNCHANGED <<pool, loop, listening, stopRequested, up>>

\* Mutant: a handler that is deleted on an error is taken off the count twice.
OnErrorTwice(c) ==
    /\ Callback /\ HasHandler(c) /\ Conn(c, "gone")
    /\ current' = IF current > 1 THEN current - 2 ELSE 0
    /\ UNCHANGED <<pool, loop, listening, stopRequested, up>>

\* ... and any error of the connection deletes it, whatever its task is doing:
\* a time limit, a broken connection, an expectation that cannot be met.
OnError(c) ==
    /\ Callback /\ HasHandler(c) /\ Conn(c, "gone") /\ decrement
    /\ UNCHANGED <<pool, loop, listening, stopRequested, up>>

\* Mutant: onEOM goes on to the pool after it has turned the request down.
RejectAndAdd(c) ==
    /\ Callback /\ conn[c] = "reading" /\ (stopRequested \/ tooManyRequests)
    /\ Conn(c, "answered") /\ Task(c, "adding") /\ loop' = "adding"
    /\ UNCHANGED <<current, queue, live, listening, stopRequested, up>>

\* The request is complete: onEOM answers it at once if the server stops or has
\* too many requests...
Reject(c) ==
    /\ Callback /\ conn[c] = "reading" /\ (stopRequested \/ tooManyRequests)
    /\ Conn(c, "answered")
    /\ UNCHANGED <<pool, current, loop, listening, stopRequested, up>>

\* ... and hands it to the pool otherwise, which blocks the loop while the
\* queue is full.
OnEOM(c) ==
    /\ Callback /\ conn[c] = "reading" /\ ~stopRequested /\ ~tooManyRequests
    /\ Conn(c, "waiting") /\ Task(c, "adding") /\ loop' = "adding"
    /\ UNCHANGED <<current, queue, live, listening, stopRequested, up>>

\* The application's getTimeOut throws: the default error is the answer.
OnEOMFails(c) ==
    /\ Callback /\ conn[c] = "reading" /\ ~stopRequested /\ ~tooManyRequests
    /\ Conn(c, "answered")
    /\ UNCHANGED <<pool, current, loop, listening, stopRequested, up>>

Add(c) ==
    /\ up /\ task[c] = "adding" /\ Len(queue) < QueueSize
    /\ queue' = Append(queue, c) /\ Task(c, "queued") /\ loop' = "free"
    /\ UNCHANGED <<conn, live, current, listening, stopRequested, up>>

\* sendFunc, posted by the pool.  send does nothing the second time.
SendFunc(c) ==
    /\ Callback /\ task[c] = "posted"
    /\ Task(c, "none") /\ conn' = [conn EXCEPT ![c] = IF @ = "waiting" THEN "answered" ELSE @]
    /\ UNCHANGED <<queue, live, current, loop, listening, stopRequested, up>>

\* detachTransaction after an answer: requestComplete deletes the handler, and
\* the connection is kept or closed.
RequestComplete(c) ==
    /\ Callback /\ conn[c] = "answered" /\ decrement
    /\ \E s \in {"idle", "gone"} : Conn(c, s)
    /\ UNCHANGED <<pool, loop, listening, stopRequested, up>>

-------------------------------------------------------------------------------
(* The CPU pool.                                                           *)

Idle == live - Cardinality({c \in Connections : task[c] = "running"})

Take(c) ==
    /\ up /\ Idle > 0 /\ queue # <<>> /\ c = Head(queue)
    /\ queue' = Tail(queue)

\* A thread ends after a task when the pool is being stopped.
ThreadEndsIfStopping == live' = IF stopRequested THEN live - 1 ELSE live

\* A thread takes a task in time and runs it...
Start(c) ==
    /\ Take(c) /\ Task(c, "running")
    /\ UNCHANGED <<io, live, up>>

\* Mutant: nothing is sent for a request whose time is up.
ExpireSilently(c) ==
    /\ Take(c) /\ Task(c, "none") /\ ThreadEndsIfStopping
    /\ UNCHANGED <<io, up>>

\* ... or its time is up, and onAppTimeout sends the answer instead.
Expire(c) ==
    /\ Take(c) /\ Task(c, "posted") /\ ThreadEndsIfStopping
    /\ UNCHANGED <<io, up>>

\* Mutant: an exception of makeResponse leaves the functor before it has sent.
FinishOrThrow(c) ==
    /\ up /\ task[c] = "running"
    /\ \E s \in {"posted", "none"} : Task(c, s)
    /\ ThreadEndsIfStopping
    /\ UNCHANGED <<io, queue, up>>

\* makeResponse returns or throws; its response or the default one is posted.
Finish(c) ==
    /\ up /\ task[c] = "running" /\ Task(c, "posted") /\ ThreadEndsIfStopping
    /\ UNCHANGED <<io, queue, up>>

\* The functor or sendFunc uses a handler that has been deleted.  Besides having
\* no effect, as in the actions above, that can end the process.
UseDeleted(c) ==
    /\ up /\ task[c] \in {"running", "posted"} /\ ~HasHandler(c)
    /\ up' = FALSE
    /\ UNCHANGED <<io, pool>>

-------------------------------------------------------------------------------
(* HTTPServer::stop, called on a signal.                                   *)

StopListening ==
    /\ up /\ listening /\ listening' = FALSE
    /\ UNCHANGED <<conn, current, loop, stopRequested, pool, up>>

\* requestStop runs on the event loop and waits for the threads of the pool.
RequestStop ==
    /\ Callback /\ ~listening /\ ~stopRequested
    /\ stopRequested' = TRUE /\ loop' = "stopping"
    /\ UNCHANGED <<conn, current, listening, pool, up>>

\* A thread that finds no task finds the order to end.
IdleThreadEnds ==
    /\ up /\ stopRequested /\ Idle > 0 /\ queue = <<>>
    /\ live' = live - 1
    /\ UNCHANGED <<io, task, queue, up>>

\* What is still in the queue when the last thread has ended is never run.
StopReturns ==
    /\ up /\ loop = "stopping" /\ live = 0 /\ loop' = "free"
    /\ UNCHANGED <<conn, current, listening, stopRequested, pool, up>>

Client(c) == Accept(c) \/ CloseIdle(c) \/ NewRequest(c) \/ OnError(c)
Request(c) == Reject(c) \/ OnEOM(c) \/ OnEOMFails(c) \/ Add(c) \/ SendFunc(c)
              \/ RequestComplete(c)
Pool(c) == Start(c) \/ Expire(c) \/ Finish(c) \/ UseDeleted(c)
Stop == StopListening \/ RequestStop \/ IdleThreadEnds \/ StopReturns

Next == (\E c \in Connections : Client(c) \/ Request(c) \/ Pool(c)) \/ Stop

Spec == Init /\ [][Next]_vars

\* Threads run, makeResponse returns, the event loop runs what was posted to it
\* in every round.  Clients and the signal to stop are left open.
FairSpec ==
    /\ Spec
    /\ WF_vars(\E c \in Connections : Start(c) \/ Expire(c))
    /\ WF_vars(IdleThreadEnds) /\ WF_vars(StopReturns)
    /\ \A c \in Connections : WF_vars(Finish(c)) /\ WF_vars(Add(c)) /\ SF_vars(SendFunc(c))

-------------------------------------------------------------------------------
(* Properties.                                                             *)

\* A request is never completed under its task: as long as a task refers to a
\* handler (m_requestHandler), the handler is there and has not answered, unless
\* the connection has failed.
HandlerOutlivesTask ==
    \A c \in Connections : task[c] # "none" => conn[c] \in {"waiting", "gone"}

\* What is in the queue is queued, and once.
QueuedOnce ==
    \A i \in 1..Len(queue) :
        /\ task[queue[i]] = "queued"
        /\ \A j \in 1..Len(queue) : queue[i] = queue[j] => i = j

\* A task that runs has a thread of its own that has not ended.
Running == {c \in Connections : task[c] = "running"}
RunningBounded == Cardinality(Running) <= live

\* The types, handlers that outlive their tasks, and the pool's part of it:
\* without them a task might be started that no request waits for.
HandlerInv == TypeOK /\ HandlerOutlivesTask /\ QueuedOnce /\ RunningBounded

Handlers == {c \in Connections : HasHandler(c)}
Waiting == {c \in Connections : conn[c] = "waiting"}

\* m_currentRequests counts the handlers there are, and no more of them than
\* HTTP_SERVER_MAX_REQUESTS_PER_IO_THREAD have their task with the pool, whatever
\* connections fail in between.
LoadBounded ==
    /\ current = Cardinality(Handlers)
    /\ Cardinality(Waiting) <= MaxRequests

\* A request that was accepted is answered unless its connection fails or the
\* server is stopped, even if its time is up or the queue was full.
Answered ==
    \A c \in Connections :
        conn[c] = "waiting" ~> (conn[c] # "waiting" \/ stopRequested \/ ~up)

\* "will wait for running requests to finish" (HTTPServer.h, stop): a request
\* that a thread has started with is answered, also when the server is stopped,
\* unless its connection fails.
RunningAnswered ==
    \A c \in Connections :
        task[c] = "running" ~> (task[c] = "none" /\ conn[c] # "waiting") \/ ~up
===============================================================================
