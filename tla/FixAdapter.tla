------------------------------ MODULE FixAdapter ------------------------------
(***************************************************************************)
(* The FIX adapter (diff/cpp_play/FixAdapter): FIX sessions hand requests  *)
(* to a writer thread, a reader thread hands responses to a manager        *)
(* thread, and both threads share one TsConnector, the TCP connection to   *)
(* the trading system.  Each direction has a router: a pool of buffers and *)
(* a queue (common/include/fix_tsI.h).                                     *)
(*                                                                         *)
(* One trading system, hence one connector, one writer, one reader and one *)
(* manager.  A buffer is known by the request in it, or by whether both    *)
(* parts of the response in it came from one connection; buffers that hold *)
(* nothing are counted.  The pool, the queues, the thread wrapper,         *)
(* quickfix, asio and the trading system are not in the repository.        *)
(***************************************************************************)
EXTENDS Naturals, Sequences, FiniteSets, SequencesExt

CONSTANTS
    Sessions,      \* FIX sessions, each served by a thread of quickfix
    InitSize, Mlp, \* init_size and mlp of FixTsRouter
    MaxRequests,   \* bound: requests that arrive, of all sessions together
    MaxDepth       \* bound: recursion depth of send_to_ts and receive_from_ts
                   \* that is told apart from deeper ones

ASSUME SessionsAssumption == IsFiniteSet(Sessions)
ASSUME RouterAssumption == InitSize \in Nat \ {0} /\ Mlp \in Nat \ {0}
ASSUME BoundAssumption == MaxRequests \in Nat /\ MaxDepth \in Nat \ {0}

VARIABLES
    socket,     \* m_socket: "closed", "open" but of no use, or "up"
    lock,       \* owner of m_connect_mutex, or "free"
    pc,         \* where each thread is
    depth,      \* calls of send_to_ts or receive_from_ts the thread is in
    received,   \* requests that have arrived; numbers them
    held,       \* the request a session has a buffer for, 0 if none
    reqPool,    \* free buffers of the FIX to trading system router
    reqQueue,   \* its queue of <<session, request>>
    batch,      \* m_buffers of the writer
    done,       \* how many of the batch the current write has sent
    respPool,   \* free buffers of the other router
    header,     \* the header the reader has: "none", or whether the connection
                \* it came from is still the same, "fresh" or "stale"
    respQueue,  \* queue of responses, each with what its header was at the end
    handling,   \* what the response manager works on, "none" if nothing
    lost,       \* buffers nobody refers to any more
    sent        \* history: the last request of each session that was written

connector == <<socket, lock>>
requests == <<received, held, reqPool, reqQueue>>
writing == <<batch, done, sent>>
responses == <<respPool, header, respQueue, handling>>
vars == <<connector, pc, depth, requests, writing, responses, lost>>

IOThreads == {"writer", "reader"}
Threads == IOThreads \cup {"main"}

Requests == Sessions \X (1..MaxRequests)
Headers == {"none", "fresh", "stale"}

getMaxSize == InitSize * Mlp

\* Mutant: the queue gets the initial size of the pool.
QueueSizeInitial == InitSize

QueueSize == InitSize * Mlp

Labels == {"new", "connect", "attempt", "unwind", "exited",
           "consume", "wait", "send", "allocate", "header", "body",
           "accepting", "writers", "readers", "running",
           "stopWriters", "stopReaders", "stopped"}

TypeOK ==
    /\ socket \in {"closed", "open", "up"} /\ lock \in IOThreads \cup {"free"}
    /\ pc \in [Threads -> Labels]
    /\ depth \in [IOThreads -> 0..MaxDepth]
    /\ received \in 0..MaxRequests /\ held \in [Sessions -> 0..MaxRequests]
    /\ reqPool \in 0..getMaxSize /\ reqQueue \in Seq(Requests)
    /\ batch \in Seq(Requests) /\ done \in 0..Len(batch)
    /\ respPool \in 0..getMaxSize /\ header \in Headers
    /\ respQueue \in Seq(Headers \ {"none"}) /\ handling \in Headers
    /\ lost \in [req : Nat, resp : Nat] /\ sent \in [Sessions -> 0..MaxRequests]

Init ==
    /\ socket = "closed" /\ lock = "free"
    /\ pc = [t \in Threads |-> "new"]
    /\ depth = [t \in IOThreads |-> 0]
    /\ received = 0 /\ held = [s \in Sessions |-> 0]
    /\ reqPool = getMaxSize /\ reqQueue = <<>> /\ batch = <<>> /\ done = 0
    /\ respPool = getMaxSize /\ header = "none" /\ respQueue = <<>> /\ handling = "none"
    /\ lost = [req |-> 0, resp |-> 0] /\ sent = [s \in Sessions |-> 0]

Go(t, label) == pc' = [pc EXCEPT ![t] = label]

-------------------------------------------------------------------------------
(* TsConnector.  connect() and disconnect() run under m_connect_mutex; the *)
(* reads and writes of the socket do not.                                  *)

\* What a thread goes on with when connect() returns: its threadFunction, or the
\* read or write that had failed.
After(t) ==
    CASE t = "writer" -> IF depth[t] = 0 THEN "consume" ELSE "send"
      [] t = "reader" -> IF depth[t] = 0 THEN "allocate" ELSE IF header = "none" THEN "header" ELSE "body"

\* Mutant: a connection that has failed does not count as connected.
connectedUp == socket = "up"

connected == socket # "closed"

\* connect() takes the mutex and returns at once if the socket is open.
ConnectNothing(t) ==
    /\ pc[t] = "connect" /\ lock = "free" /\ connected
    /\ Go(t, After(t))
    /\ UNCHANGED <<connector, depth, requests, writing, responses, lost>>

\* It resolves the address otherwise, and starts to connect.
ConnectResolve(t) ==
    /\ pc[t] = "connect" /\ lock = "free" /\ ~connected
    /\ lock' = t /\ Go(t, "attempt")
    /\ UNCHANGED <<socket, depth, requests, writing, responses, lost>>

\* The resolver throws.  At the start of a thread that ends the thread; inside
\* send_to_ts or receive_from_ts every call on the stack disconnects first.
ResolveThrows(t) ==
    /\ pc[t] = "connect" /\ lock = "free" /\ ~connected
    /\ Go(t, IF depth[t] = 0 THEN "exited" ELSE "unwind")
    /\ UNCHANGED <<connector, depth, requests, writing, responses, lost>>

\* Mutant: the mutex is not released when the connection has been made.
ConnectOkLocked(t) ==
    /\ pc[t] = "attempt"
    /\ socket' = "up"
    /\ header' = IF header = "fresh" THEN "stale" ELSE header
    /\ Go(t, After(t))
    /\ UNCHANGED <<lock, depth, requests, writing, respPool, respQueue, handling, lost>>

ConnectOk(t) ==
    /\ pc[t] = "attempt"
    /\ socket' = "up" /\ lock' = "free"
    /\ header' = IF header = "fresh" THEN "stale" ELSE header
    /\ Go(t, After(t))
    /\ UNCHANGED <<depth, requests, writing, respPool, respQueue, handling, lost>>

\* No endpoint answers: the socket stays open, unconnected, while the thread
\* sleeps with the mutex and tries again.
ConnectFails(t) ==
    /\ pc[t] = "attempt"
    /\ socket' = "open"
    /\ UNCHANGED <<lock, pc, depth, requests, writing, responses, lost>>

\* disconnect(): shut down and close.
disconnect == lock = "free" /\ socket' = "closed" /\ UNCHANGED lock

\* One catch block of the stack; the last one lets the thread end, and a reader
\* that ends drops the buffer it was reading into.
Unwind(t) ==
    /\ pc[t] = "unwind" /\ disconnect
    /\ depth' = [depth EXCEPT ![t] = @ - 1]
    /\ Go(t, IF depth[t] = 1 THEN "exited" ELSE "unwind")
    /\ lost' = IF depth[t] = 1 /\ t = "reader"
               THEN [lost EXCEPT !.resp = @ + 1] ELSE lost
    /\ UNCHANGED <<requests, writing, responses>>

\* A read or write fails: one call deeper, after connect().
Deeper(t) == depth' = [depth EXCEPT ![t] = IF @ < MaxDepth THEN @ + 1 ELSE @]

\* It succeeds: all the calls return.
Return(t) == depth' = [depth EXCEPT ![t] = 0]

\* External: the trading system or the network ends the connection.
PeerCloses ==
    /\ socket = "up" /\ socket' = "open"
    /\ UNCHANGED <<lock, pc, depth, requests, writing, responses, lost>>

-------------------------------------------------------------------------------
(* Requests: quickfix calls the application on the session's thread.       *)

Accepting == pc["main"] \notin {"new", "stopWriters", "stopReaders", "stopped"}

\* A request arrives and TSRequestManager::manage takes a buffer for it.
Allocate(s) ==
    /\ Accepting /\ held[s] = 0 /\ received < MaxRequests /\ reqPool > 0
    /\ received' = received + 1
    /\ held' = [held EXCEPT ![s] = received + 1]
    /\ reqPool' = reqPool - 1
    /\ UNCHANGED <<connector, pc, depth, reqQueue, writing, responses, lost>>

\* The pool is empty: the request is logged and dropped.
AllocateFails(s) ==
    /\ Accepting /\ held[s] = 0 /\ received < MaxRequests /\ reqPool = 0
    /\ received' = received + 1
    /\ UNCHANGED <<connector, pc, depth, held, reqPool, reqQueue, writing, responses, lost>>

\* convert succeeds and sendEspdMsg pushes, waiting for room in the queue.
Produce(s) ==
    /\ held[s] # 0 /\ Len(reqQueue) < QueueSize
    /\ reqQueue' = Append(reqQueue, <<s, held[s]>>)
    /\ held' = [held EXCEPT ![s] = 0]
    /\ UNCHANGED <<connector, pc, depth, received, reqPool, writing, responses, lost>>

\* convert throws; fixMsgToTS logs the exception and nobody frees the buffer.
ConvertThrows(s) ==
    /\ held[s] # 0
    /\ held' = [held EXCEPT ![s] = 0]
    /\ lost' = [lost EXCEPT !.req = @ + 1]
    /\ UNCHANGED <<connector, pc, depth, received, reqPool, reqQueue, writing, responses>>

-------------------------------------------------------------------------------
(* The writer's threadFunction.                                            *)

\* consumeNonBloking takes one buffer after the other...
TryPop ==
    /\ pc["writer"] = "consume" /\ reqQueue # <<>>
    /\ batch' = Append(batch, Head(reqQueue)) /\ reqQueue' = Tail(reqQueue)
    /\ UNCHANGED <<connector, pc, depth, received, held, reqPool, done, sent, responses, lost>>

\* ... until the queue is empty; with nothing to send consumeBloking waits.
TryPopFails ==
    /\ pc["writer"] = "consume" /\ reqQueue = <<>>
    /\ Go("writer", IF batch = <<>> THEN "wait" ELSE "send")
    /\ UNCHANGED <<connector, depth, requests, writing, responses, lost>>

PopBlocking ==
    /\ pc["writer"] = "wait" /\ reqQueue # <<>>
    /\ batch' = <<Head(reqQueue)>> /\ reqQueue' = Tail(reqQueue)
    /\ Go("writer", "send")
    /\ UNCHANGED <<connector, depth, received, held, reqPool, done, sent, responses, lost>>

\* asio::write sends the buffers of the batch in order...
Write ==
    /\ pc["writer"] = "send" /\ done < Len(batch) /\ socket = "up"
    /\ LET s == batch[done + 1][1] IN sent' = [sent EXCEPT ![s] = batch[done + 1][2]]
    /\ done' = done + 1
    /\ UNCHANGED <<connector, pc, depth, requests, batch, responses, lost>>

\* ... and if it fails send_to_ts connects and sends all of them again.
WriteFails ==
    /\ pc["writer"] = "send" /\ done < Len(batch) /\ socket # "up"
    /\ done' = 0 /\ Go("writer", "connect") /\ Deeper("writer")
    /\ UNCHANGED <<connector, requests, batch, sent, responses, lost>>

\* delocate: the buffers go back to the pool.
Delocate ==
    /\ pc["writer"] = "send" /\ done = Len(batch)
    /\ reqPool' = reqPool + Len(batch) /\ batch' = <<>> /\ done' = 0
    /\ Return("writer") /\ Go("writer", "consume")
    /\ UNCHANGED <<connector, received, held, reqQueue, sent, responses, lost>>

-------------------------------------------------------------------------------
(* The reader's threadFunction and the response manager.                   *)

AllocateResponse ==
    /\ pc["reader"] = "allocate" /\ respPool > 0
    /\ respPool' = respPool - 1 /\ Go("reader", "header")
    /\ UNCHANGED <<connector, depth, requests, writing, header, respQueue, handling, lost>>

\* loadMsg reads the header...
ReadHeader ==
    /\ pc["reader"] = "header" /\ socket = "up"
    /\ header' = "fresh" /\ Return("reader") /\ Go("reader", "body")
    /\ UNCHANGED <<connector, requests, writing, respPool, respQueue, handling, lost>>

\* ... and as many bytes as it says; then the buffer is pushed.
ReadBody ==
    /\ pc["reader"] = "body" /\ socket = "up" /\ Len(respQueue) < QueueSize
    /\ respQueue' = Append(respQueue, header) /\ header' = "none"
    /\ Return("reader") /\ Go("reader", "allocate")
    /\ UNCHANGED <<connector, requests, writing, respPool, handling, lost>>

\* receive_from_ts connects and reads the same part again.
ReadFails ==
    /\ pc["reader"] \in {"header", "body"} /\ socket # "up"
    /\ Go("reader", "connect") /\ Deeper("reader")
    /\ UNCHANGED <<connector, requests, writing, responses, lost>>

\* TSResponseManager::manageEspdMsg pops a response...
Consume ==
    /\ handling = "none" /\ respQueue # <<>> /\ pc["main"] \notin {"new", "accepting", "writers", "readers"}
    /\ handling' = Head(respQueue) /\ respQueue' = Tail(respQueue)
    /\ UNCHANGED <<connector, pc, depth, requests, writing, respPool, header, lost>>

\* ... converts it and frees the buffer before the FIX message is sent...
Manage ==
    /\ handling # "none" /\ handling' = "none" /\ respPool' = respPool + 1
    /\ UNCHANGED <<connector, pc, depth, requests, writing, header, respQueue, lost>>

\* ... or the conversion throws and the buffer is never freed.
ManageThrows ==
    /\ handling # "none" /\ handling' = "none"
    /\ lost' = [lost EXCEPT !.resp = @ + 1]
    /\ UNCHANGED <<connector, pc, depth, requests, writing, respPool, header, respQueue>>

-------------------------------------------------------------------------------
(* SessionManager::start and stop, on the main thread.                     *)

Advance(from, to) == pc["main"] = from /\ Go("main", to)

StartAcceptor ==
    /\ Advance("new", "accepting")
    /\ UNCHANGED <<connector, depth, requests, writing, responses, lost>>

\* TsRW::start: the new thread begins with connect().
StartIO(t, from, to) ==
    /\ pc["main"] = from /\ pc' = [pc EXCEPT !["main"] = to, ![t] = "connect"]
    /\ UNCHANGED <<connector, depth, requests, writing, responses, lost>>

StartManager ==
    /\ Advance("readers", "running")
    /\ UNCHANGED <<connector, depth, requests, writing, responses, lost>>

\* Acceptor::stop waits for the threads of the sessions.
StopAcceptor ==
    /\ Advance("running", "stopWriters") /\ \A s \in Sessions : held[s] = 0
    /\ UNCHANGED <<connector, depth, requests, writing, responses, lost>>

\* TsRW::stop does not stop the thread; it disconnects the shared connector.
StopIO(from, to) ==
    /\ Advance(from, to) /\ disconnect
    /\ UNCHANGED <<depth, requests, writing, responses, lost>>

Connect(t) == ConnectNothing(t) \/ ConnectResolve(t) \/ ResolveThrows(t) \/ ConnectOk(t)
              \/ ConnectFails(t) \/ Unwind(t)
Session(s) == Allocate(s) \/ AllocateFails(s) \/ Produce(s) \/ ConvertThrows(s)
Writer == TryPop \/ TryPopFails \/ PopBlocking \/ Write \/ WriteFails \/ Delocate
Reader == AllocateResponse \/ ReadHeader \/ ReadBody \/ ReadFails
Manager == Consume \/ Manage \/ ManageThrows
Start == \/ StartAcceptor
         \/ StartIO("writer", "accepting", "writers")
         \/ StartIO("reader", "writers", "readers")
         \/ StartManager
Stop == \/ StopAcceptor
        \/ StopIO("stopWriters", "stopReaders")
        \/ StopIO("stopReaders", "stopped")

Next == \/ \E t \in IOThreads : Connect(t)
        \/ \E s \in Sessions : Session(s)
        \/ Writer \/ Reader \/ Manager \/ Start \/ Stop \/ PeerCloses

Spec == Init /\ [][Next]_vars

\* A thread that can run does; what the trading system sends, whether it can be
\* reached and whether anyone stops the adapter is left open.
FairSpec ==
    /\ Spec
    /\ WF_vars(Writer) /\ WF_vars(Start) /\ WF_vars(Manager)
    /\ \A t \in IOThreads :
          WF_vars(ConnectNothing(t) \/ ConnectResolve(t) \/ ConnectOk(t) \/ ConnectFails(t) \/ Unwind(t))
    /\ \A s \in Sessions : WF_vars(Produce(s) \/ ConvertThrows(s))

-------------------------------------------------------------------------------
(* Properties.                                                             *)

ReaderHolds ==
    \/ pc["reader"] \in {"header", "body"}
    \/ /\ pc["reader"] \in {"connect", "attempt", "unwind"}
       /\ depth["reader"] > 0

\* Where the threads of a connector can be: a reader at a body has its header, an
\* exception unwinds at least one call, the reader is started once, and a writer
\* that waits has nothing to send.
ThreadsKnown ==
    /\ pc["reader"] = "body" => header # "none"
    /\ \A t \in IOThreads : pc[t] = "unwind" => depth[t] > 0
    /\ pc["main"] \in {"new", "accepting", "writers"} => pc["reader"] = "new"
    /\ pc["reader"] = "new" => depth["reader"] = 0
    /\ pc["writer"] = "wait" => batch = <<>>

Holding == {s \in Sessions : held[s] # 0}

RequestBuffers ==
    reqPool + Cardinality(Holding) + Len(reqQueue) + Len(batch) + lost.req = getMaxSize

ResponseBuffers ==
    respPool + (IF ReaderHolds THEN 1 ELSE 0) + Len(respQueue)
        + (IF handling # "none" THEN 1 ELSE 0) + lost.resp = getMaxSize

\* Every buffer of both routers is in the pool, with a thread, in the queue or
\* lost by one of the three exceptions (fix_tsI.h allocate and delocate): no
\* path that returns normally leaks or frees twice.
BuffersAccounted == RequestBuffers /\ ResponseBuffers

\* A thread with a buffer to push finds room in the queue, so neither a FIX
\* session nor the reader is ever held up by the other side of its router
\* (FixTsRouter gives the queue the size of the pool).
ProduceNeverBlocks ==
    /\ Holding # {} => Len(reqQueue) < QueueSize
    /\ ReaderHolds => Len(respQueue) < QueueSize

\* The types, and the three above.
RouterInv == TypeOK /\ ThreadsKnown /\ BuffersAccounted /\ ProduceNeverBlocks

Stopping == pc["main"] \in {"stopReaders", "stopped"}

\* As long as nobody disconnects, the requests of a session reach the trading
\* system at most once and in the order the session sent them, although
\* send_to_ts writes the whole batch again after an error.
SentOnceInOrder ==
    [][~Stopping /\ done' > done =>
          batch[done'][2] > sent[batch[done'][1]]]_vars

\* As long as nobody disconnects, a response is put together from a header and
\* a body of one connection (loadMsg reads them with two calls).
WholeFrames ==
    ~Stopping => "stale" \notin Range(respQueue) \cup {handling}

\* A request in the queue is sent, unless the connection or the writer is lost:
\* the writer's switch from trying to waiting misses none, and the mutex is not
\* kept from it.
QueuedIsSent ==
    \A n \in 1..MaxRequests :
        (\E s \in Sessions : <<s, n>> \in Range(reqQueue)) ~>
            ((\E s \in Sessions : sent[s] = n) \/ socket # "up" \/ pc["writer"] = "exited")

\* "Will try to connect every connectionInterval. Will not return until OK."
\* (ts_connector.h): a call of connect that returns leaves a connection behind.
ConnectReturnsOk ==
    [][\A t \in IOThreads :
          pc[t] \in {"connect", "attempt"} /\ pc'[t] = After(t) => socket' = "up"]_vars
===============================================================================
