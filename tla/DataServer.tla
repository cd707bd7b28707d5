----------------------------- MODULE DataServer -----------------------------
(***************************************************************************)
(* The server of src/diff2/data_provider/server: a pool of io_contexts     *)
(* with one thread each (io_context_pool.cpp), an acceptor and a signal    *)
(* set that live in the first of them (thrd_per_cntxt_server.cpp), and     *)
(* connections that read a header and a body, have the request handled, in *)
(* place or by a pool of handler threads, write the response and read the  *)
(* next header (connection.cpp).                                           *)
(*                                                                         *)
(* An asynchronous operation is a record in ops.  It is pending until the  *)
(* network completes it, with success or with an error; then the thread of *)
(* its io_context runs its handler, a whole handler at a time.  A callback *)
(* that is posted is an operation that is complete from the start.  The    *)
(* sizes that the handlers compare again are what async_read and           *)
(* async_write guarantee when they report no error.                        *)
(***************************************************************************)
EXTENDS Integers, Sequences, FiniteSets

CONSTANTS
    IoThreads,      \* net.server.io_threads
    MaxConns,       \* bound: Connection objects made
    Stream,         \* what the client of each connection sends: the request
                    \* each header and each body belongs to
    EmptyRequests   \* requests whose header announces a body of size 0

ASSUME ThreadsAssumption == IoThreads \in Nat \ {0}   \* IOContextPool throws on 0
ASSUME ConnsAssumption == MaxConns \in Nat \ {0}
Contexts == 0..(IoThreads - 1)

Conns == 1..MaxConns

ASSUME StreamAssumption == Stream \in [Conns -> Seq(Nat \ {0})]

\* A client sends a header and then the body it announces.
ASSUME PairsAssumption ==
    \A c \in Conns : \A n \in 0..Len(Stream[c]) :
        2 * n + 2 <= Len(Stream[c]) =>
            \/ Stream[c][2 * n + 2] = Stream[c][2 * n + 1]
            \/ Stream[c][2 * n + 1] \in EmptyRequests

Requests == UNION {{Stream[c][i] : i \in 1..Len(Stream[c])} : c \in Conns}

VARIABLES
    pooled,      \* net.server.cpu_threads > 0: there is a _handlerThreadPool
    nextContext, \* _nextIOContext
    made,        \* Connection objects made; the last one is _newConnection
    context,     \* the io_context of each connection's _socket
    ops,         \* asynchronous operations and posted callbacks
    jobs,        \* RequestHandlerCallbacks in the handler pool
    header,      \* _requestHeaderBufferPtr: the request, 0 for none
    body,        \* _requestBodyBufferPtr
    response,    \* _responseBufferPtr: the header and the body it was made from
    shut,        \* connections whose socket was shut down by stop
    accepted,    \* connections that have a client
    sent,        \* how much of Stream the client of a connection has sent
    received,    \* and how much of it the server has read
    answers,     \* the responses the client got
    left,        \* connections whose client has closed its end
    signal,      \* where the signal and its handler are
    stopped,     \* io_contexts that are stopped
    exited       \* io_contexts whose thread has returned from run

server == <<pooled, nextContext, made, context>>
buffers == <<header, body, response, shut>>
client == <<accepted, sent, received, answers, left>>
control == <<signal, stopped, exited>>
dataVars == <<server, ops, jobs, buffers, client, control>>

NoBuffer == <<0, 0>>

Kinds == {"accept", "header", "body", "posted", "write"}

Op(c, kind) == [conn |-> c, kind |-> kind, state |-> "pending", buffer |-> NoBuffer]

Done(o, how) == [o EXCEPT !.state = how]

Responses == (Requests \cup {0}) \X (Requests \cup {0})

DataTypeOK ==
    /\ pooled \in BOOLEAN
    /\ nextContext \in Contexts
    /\ made \in Conns
    /\ context \in [1..made -> Contexts]
    /\ ops \subseteq [conn : 1..made, kind : Kinds, buffer : Responses,
                      state : {"pending", "ok", "error"}]
    /\ jobs \subseteq [conn : 1..made, header : Requests, body : Requests]
    /\ header \in [Conns -> Requests \cup {0}]
    /\ body \in [Conns -> Requests \cup {0}]
    /\ response \in [Conns -> Responses]
    /\ shut \subseteq accepted
    /\ accepted \subseteq 1..made
    /\ sent \in [Conns -> Nat]
    /\ \A c \in Conns : received[c] <= sent[c] /\ sent[c] <= Len(Stream[c])
    /\ received \in [Conns -> Nat]
    /\ answers \in [Conns -> Seq(Responses)]
    /\ left \subseteq Conns
    /\ signal \in {"none", "raised", "stopping", "handled"}
    /\ stopped \subseteq Contexts
    /\ exited \subseteq stopped

\* getIOContext() advances _nextIOContext.
Following(i) == IF i + 1 = IoThreads THEN 0 ELSE i + 1

\* The constructor asks for the contexts of the signal set, of the acceptor and
\* of the first connection, in this order.
SignalContext == 0
AcceptContext == Following(SignalContext)

DataInit == /\ pooled \in BOOLEAN
            /\ made = 1
            /\ context = <<Following(AcceptContext)>>
            /\ nextContext = Following(Following(AcceptContext))
            /\ ops = {Op(1, "accept")}
            /\ jobs = {}
            /\ header = [c \in Conns |-> 0]
            /\ body = [c \in Conns |-> 0]
            /\ response = [c \in Conns |-> NoBuffer]
            /\ shut = {}
            /\ accepted = {}
            /\ sent = [c \in Conns |-> 0]
            /\ received = [c \in Conns |-> 0]
            /\ answers = [c \in Conns |-> <<>>]
            /\ left = {}
            /\ signal = "none"
            /\ stopped = {}
            /\ exited = {}

\* The thread of context i takes the next handler: its context is not stopped,
\* and it is not in handleSignal.
Runs(i) == i \notin stopped /\ (i = SignalContext => signal # "stopping")

-----------------------------------------------------------------------------
(* The network and the clients.                                            *)

\* A client connects, or accept reports an error.
AcceptDone ==
    /\ made < MaxConns
    /\ Op(made, "accept") \in ops
    /\ \E how \in {"ok", "error"} :
         /\ ops' = (ops \ {Op(made, "accept")}) \cup {Done(Op(made, "accept"), how)}
         /\ accepted' = IF how = "ok" THEN accepted \cup {made} ELSE accepted
    /\ UNCHANGED <<server, jobs, buffers, sent, received, answers, left, control>>

ClientSends(c) == /\ c \in accepted \ left
                  /\ sent[c] < Len(Stream[c])
                  /\ sent' = [sent EXCEPT ![c] = @ + 1]
                  /\ UNCHANGED <<server, ops, jobs, buffers, accepted, received,
                                 answers, left, control>>

ClientLeaves(c) == /\ c \in accepted \ left
                   /\ left' = left \cup {c}
                   /\ UNCHANGED <<server, ops, jobs, buffers, accepted, sent,
                                  received, answers, control>>

\* async_read completes: the buffer is full.
ReadDone(c) ==
    /\ received[c] < sent[c]
    /\ \/ /\ Op(c, "header") \in ops
          /\ header' = [header EXCEPT ![c] = Stream[c][received[c] + 1]]
          /\ ops' = (ops \ {Op(c, "header")}) \cup {Done(Op(c, "header"), "ok")}
          /\ UNCHANGED body
       \/ /\ Op(c, "body") \in ops
          /\ body' = [body EXCEPT ![c] = Stream[c][received[c] + 1]]
          /\ ops' = (ops \ {Op(c, "body")}) \cup {Done(Op(c, "body"), "ok")}
          /\ UNCHANGED header
    /\ received' = [received EXCEPT ![c] = @ + 1]
    /\ UNCHANGED <<server, jobs, response, shut, accepted, sent, answers, left,
                   control>>

\* async_write completes: all of the response is on its way.
WriteDone(c) ==
    /\ Op(c, "write") \in ops
    /\ ops' = (ops \ {Op(c, "write")}) \cup {Done(Op(c, "write"), "ok")}
    /\ answers' = [answers EXCEPT ![c] = Append(@, response[c])]
    /\ UNCHANGED <<server, jobs, buffers, accepted, sent, received, left, control>>

\* End of file, or a connection that is reset.
TransferFails(c) ==
    /\ c \in left
    /\ \E kind \in {"header", "body", "write"} :
         /\ Op(c, kind) \in ops
         /\ ops' = (ops \ {Op(c, kind)}) \cup {Done(Op(c, kind), "error")}
    /\ UNCHANGED <<server, jobs, buffers, client, control>>

-----------------------------------------------------------------------------
(* Handlers.                                                               *)

\* handleAccept: the connection starts to read, unless there was an error, and
\* in any case the next one is made and accepted into.
HandleAccept ==
    \E how \in {"ok", "error"} :
        LET o == Done(Op(made, "accept"), how)
        IN  /\ o \in ops
            /\ Runs(AcceptContext)
            /\ ops' = (ops \ {o}) \cup {Op(made + 1, "accept")}
                        \cup (IF how = "ok" THEN {Op(made, "header")} ELSE {})
            /\ made' = made + 1
            /\ context' = Append(context, nextContext)
            /\ nextContext' = Following(nextContext)
            /\ UNCHANGED <<pooled, jobs, buffers, client, control>>

\* Mutant: a body of size 0 is ignored and the connection stays as it is.
HandleReadHeaderIgnores(c) ==
    LET o == Done(Op(c, "header"), "ok")
    IN  /\ o \in ops
        /\ Runs(context[c])
        /\ IF header[c] \in EmptyRequests
           THEN ops' = ops \ {o}
           ELSE ops' = (ops \ {o}) \cup {Op(c, "body")}
        /\ UNCHANGED <<server, jobs, buffers, client, control>>

\* handleReadHeader and readBody.
HandleReadHeader(c) ==
    LET o == Done(Op(c, "header"), "ok")
    IN  /\ o \in ops
        /\ Runs(context[c])
        /\ IF header[c] \in EmptyRequests
           THEN ops' = ops \ {o} /\ shut' = shut \cup {c}
           ELSE ops' = (ops \ {o}) \cup {Op(c, "body")} /\ UNCHANGED shut
        /\ UNCHANGED <<server, jobs, header, body, response, client, control>>

\* Mutant: the next header is read while the request is in the pool.
HandleReadBodyAhead(c) ==
    LET o == Done(Op(c, "body"), "ok")
    IN  /\ o \in ops
        /\ Runs(context[c])
        /\ \/ /\ pooled
              /\ jobs' = jobs \cup {[conn |-> c, header |-> header[c], body |-> body[c]]}
              /\ ops' = (ops \ {o}) \cup {Op(c, "header")}
              /\ UNCHANGED response
           \/ /\ ~pooled
              /\ response' = [response EXCEPT ![c] = <<header[c], body[c]>>]
              /\ ops' = (ops \ {o}) \cup {Op(c, "write")}
              /\ UNCHANGED jobs
        /\ UNCHANGED <<server, header, body, shut, client, control>>

\* handleReadBody: the buffers are moved to the handler, which answers at once,
\* or to a callback in the pool.  The answer is made from both buffers.
HandleReadBody(c) ==
    LET o == Done(Op(c, "body"), "ok")
    IN  /\ o \in ops
        /\ Runs(context[c])
        /\ \/ /\ pooled
              /\ jobs' = jobs \cup {[conn |-> c, header |-> header[c], body |-> body[c]]}
              /\ ops' = ops \ {o}
              /\ UNCHANGED response
           \/ /\ ~pooled
              /\ response' = [response EXCEPT ![c] = <<header[c], body[c]>>]
              /\ ops' = (ops \ {o}) \cup {Op(c, "write")}
              /\ UNCHANGED jobs
        /\ header' = [header EXCEPT ![c] = 0]
        /\ body' = [body EXCEPT ![c] = 0]
        /\ UNCHANGED <<server, shut, client, control>>

\* RequestHandlerCallback::operator(), by a thread of the pool: the answer is
\* posted to the connection's io_context, whether that is stopped or not.
PoolHandles(c) ==
    \E j \in jobs :
        /\ j.conn = c
        /\ jobs' = jobs \ {j}
        /\ ops' = ops \cup {[conn |-> c, kind |-> "posted", state |-> "ok",
                             buffer |-> <<j.header, j.body>>]}
        /\ UNCHANGED <<server, buffers, client, control>>

\* The posted callback and onRequestHandled.
OnRequestHandled(c) ==
    \E o \in ops :
        /\ o.conn = c /\ o.kind = "posted"
        /\ Runs(context[c])
        /\ response' = [response EXCEPT ![c] = o.buffer]
        /\ ops' = (ops \ {o}) \cup {Op(c, "write")}
        /\ UNCHANGED <<server, jobs, header, body, shut, client, control>>

\* Mutant: the next request is not read.
HandleWriteEnds(c) ==
    LET o == Done(Op(c, "write"), "ok")
    IN  /\ o \in ops
        /\ Runs(context[c])
        /\ header' = [header EXCEPT ![c] = 0]
        /\ ops' = ops \ {o}
        /\ UNCHANGED <<server, jobs, body, response, shut, client, control>>

\* handleWrite: on to the next request.
HandleWrite(c) ==
    LET o == Done(Op(c, "write"), "ok")
    IN  /\ o \in ops
        /\ Runs(context[c])
        /\ header' = [header EXCEPT ![c] = 0]
        /\ ops' = (ops \ {o}) \cup {Op(c, "header")}
        /\ UNCHANGED <<server, jobs, body, response, shut, client, control>>

\* Any of the three transfers ends with an error: Connection::stop.
HandleError(c) ==
    \E kind \in {"header", "body", "write"} :
        LET o == Done(Op(c, kind), "error")
        IN  /\ o \in ops
            /\ Runs(context[c])
            /\ ops' = ops \ {o}
            /\ shut' = shut \cup {c}
            /\ UNCHANGED <<server, jobs, header, body, response, client, control>>

-----------------------------------------------------------------------------
(* Shutdown.                                                               *)

RaiseSignal == /\ signal = "none"
               /\ signal' = "raised"
               /\ UNCHANGED <<server, ops, jobs, buffers, client, stopped, exited>>

HandleSignal == /\ signal = "raised"
                /\ Runs(SignalContext)
                /\ signal' = "stopping"
                /\ UNCHANGED <<server, ops, jobs, buffers, client, stopped, exited>>

\* Mutant: the loop leaves out the last context.
StopContextShort == /\ signal = "stopping"
                    /\ LET i == Cardinality(stopped)
                       IN  /\ stopped' = stopped \cup {i}
                           /\ signal' = IF i + 2 >= IoThreads THEN "handled" ELSE signal
                    /\ UNCHANGED <<server, ops, jobs, buffers, client, exited>>

\* IOContextPool::stop, one context after the other.
StopContext == /\ signal = "stopping"
               /\ LET i == Cardinality(stopped)
                  IN  /\ stopped' = stopped \cup {i}
                      /\ signal' = IF i + 1 = IoThreads THEN "handled" ELSE signal
               /\ UNCHANGED <<server, ops, jobs, buffers, client, exited>>

\* run returns in the thread of a stopped context.
ThreadExits(i) == /\ i \in stopped \ exited
                  /\ i = SignalContext => signal = "handled"
                  /\ exited' = exited \cup {i}
                  /\ UNCHANGED <<server, ops, jobs, buffers, client, signal, stopped>>

Network(c) == ReadDone(c) \/ WriteDone(c) \/ TransferFails(c)

Handler(c) == \/ HandleReadHeader(c) \/ HandleReadBody(c) \/ OnRequestHandled(c)
              \/ HandleWrite(c) \/ HandleError(c)

DataNext == \/ \E c \in 1..made : \/ ClientSends(c) \/ ClientLeaves(c)
                                  \/ Network(c) \/ Handler(c) \/ PoolHandles(c)
            \/ AcceptDone \/ HandleAccept
            \/ RaiseSignal \/ HandleSignal \/ StopContext
            \/ \E i \in Contexts : ThreadExits(i)

DataSpec == DataInit /\ [][DataNext]_dataVars

\* An io_context runs its handlers first come first served, handleRequest
\* returns, transfers that can complete do, and threads are scheduled.  Clients
\* and signals promise nothing.
Fairness == /\ \A c \in Conns : /\ WF_dataVars(c <= made /\ Network(c))
                                /\ WF_dataVars(c <= made /\ Handler(c))
                                /\ WF_dataVars(c <= made /\ PoolHandles(c))
            /\ WF_dataVars(HandleAccept)
            /\ WF_dataVars(HandleSignal \/ StopContext)
            /\ \A i \in Contexts : WF_dataVars(ThreadExits(i))

DataFairSpec == DataSpec /\ Fairness

-----------------------------------------------------------------------------
(* Properties.                                                             *)

\* What goes on for a connection: its operations, posted callbacks and jobs.
Pending(c) == Cardinality({o \in ops : o.conn = c}) + Cardinality({j \in jobs : j.conn = c})

\* The chain of callbacks that keeps a connection alive neither breaks nor
\* forks: an accepted connection has one thing going on until it is shut down
\* and has none; one that could not be accepted has none; the one to be accepted
\* next has its accept.  Two of them would share the connection's buffers
\* without a lock.
OneThingAtATime ==
    \A c \in 1..made :
        Pending(c) = IF c = made \/ c \in accepted \ shut THEN 1 ELSE 0

\* The types, and one chain of callbacks per connection.
ServerInv == DataTypeOK /\ OneThingAtATime

\* A client gets one response to each request, in the order of the requests, made
\* from the header and the body of that request.
AnswersInOrder ==
    \A c \in Conns : \A i \in 1..Len(answers[c]) :
        /\ answers[c][i][1] = answers[c][i][2]
        /\ answers[c][i][1] = Stream[c][2 * i - 1]

\* A request that was sent is answered, unless the connection is shut down, the
\* client leaves or the server is told to stop.
RequestsAnswered ==
    \A c \in Conns : \A n \in 1..(Len(Stream[c]) \div 2) :
        (sent[c] >= 2 * n) ~>
            (Len(answers[c]) >= n \/ c \in shut \/ c \in left \/ signal # "none")

\* After a signal run() returns: every io thread ends.
SignalEndsRun == (signal = "raised") ~> (exited = Contexts)
=============================================================================
