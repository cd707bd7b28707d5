----------------------------- MODULE ThreadPool -----------------------------
(***************************************************************************)
(* The jthread pool of src/multiThread/ThreadPool.h (the same class is in  *)
(* ThreadPoo2.h and ThreadPool_stop_token2.cpp; ThreadPool_.h,             *)
(* ThreadPool4.cpp and ThreadPool_stop_token.cpp are its older forms).     *)
(*                                                                         *)
(* Worker threads sleep on the condition variable _cv until _tasks is not  *)
(* empty or their own stop_token is set.  A submission is two steps: push  *)
(* under _mutex, then notify_one outside it.  The destructor of _workers   *)
(* destroys the jthreads one after the other, and each ~jthread requests   *)
(* the stop of that one thread and joins it before the next is touched.    *)
(* A critical section of _mutex is one step: whatever it reads can only be *)
(* changed by another critical section, except the stop flag, which only   *)
(* ever rises.                                                             *)
(***************************************************************************)
EXTENDS Integers, Sequences, FiniteSets

CONSTANTS
    N,            \* num_threads of the constructor
    Clients,      \* threads outside the pool that submit tasks
    Tasks,        \* the callables; every submission makes a callable of its own
    NoTask,       \* an empty std::function
    Script,       \* Script[c]: what client c submits, in order
    Spawns,       \* Spawns[t]: what the body of t submits to the same pool
    Deps          \* Deps[t]: tasks whose futures the body of t waits for

Workers == 1..N

Actors == Clients \cup Workers

Elems(s) == {s[i] : i \in 1..Len(s)}

Distinct(s) == \A i, j \in 1..Len(s) : s[i] = s[j] => i = j

ASSUME NAssumption == N \in Nat \ {0}
ASSUME ClientsAssumption == IsFiniteSet(Clients) /\ Clients \cap Workers = {}
ASSUME NoTaskAssumption == NoTask \notin Tasks
ASSUME ProgramAssumption == /\ Script \in [Clients -> Seq(Tasks)]
                            /\ Spawns \in [Tasks -> Seq(Tasks)]
                            /\ Deps \in [Tasks -> SUBSET Tasks]
\* A name stands for one submission: no task is submitted twice.
ASSUME FreshAssumption ==
    /\ \A c \in Clients : Distinct(Script[c])
    /\ \A t \in Tasks : Distinct(Spawns[t])
    /\ \A c, d \in Clients : c # d => Elems(Script[c]) \cap Elems(Script[d]) = {}
    /\ \A t, u \in Tasks : t # u => Elems(Spawns[t]) \cap Elems(Spawns[u]) = {}
    /\ \A c \in Clients, t \in Tasks : Elems(Script[c]) \cap Elems(Spawns[t]) = {}

VARIABLES
    drain,      \* the loop of the pool's workers: while (true), or, where the
                \* pool is not to drain, while (!st.stop_requested())
    tasks,      \* _tasks, the queue
    pc,         \* where each worker is
    cur,        \* the task a worker that runs has moved out of the queue
    stop,       \* the stop state of each jthread
    todo,       \* what an actor has still to submit
    notifyDue,  \* an actor has pushed and not yet called notify_one
    done,       \* tasks that have run to their end (their futures are ready)
    dtor        \* 0: pool in use; w in 1..N: in ~jthread of w; N+1: destroyed

vars == <<drain, tasks, pc, cur, stop, todo, notifyDue, done, dtor>>

Queued == Elems(tasks)

Running == {w \in Workers : pc[w] = "run"}

InHand == {cur[w] : w \in Running}

\* Every task that has been pushed.
Accepted == Queued \cup InHand \cup done

\* "head": at the top of the loop; "lock": in or before cv.wait with a check of
\* the predicate ahead; "waiting": asleep in cv.wait; "run": in task().
PC == {"head", "lock", "waiting", "run", "exited"}

TypeOK == /\ drain \in BOOLEAN
          /\ tasks \in Seq(Tasks)
          /\ pc \in [Workers -> PC]
          /\ cur \in [Workers -> Tasks \cup {NoTask}]
          /\ stop \in [Workers -> BOOLEAN]
          /\ todo \in [Actors -> Seq(Tasks)]
          /\ notifyDue \in [Actors -> BOOLEAN]
          /\ done \in SUBSET Tasks
          /\ dtor \in 0..(N + 1)

Init == /\ drain \in BOOLEAN
        /\ tasks = <<>>
        /\ pc = [w \in Workers |-> "head"]
        /\ cur = [w \in Workers |-> NoTask]
        /\ stop = [w \in Workers |-> FALSE]
        /\ todo = [a \in Actors |-> IF a \in Clients THEN Script[a] ELSE <<>>]
        /\ notifyDue = [a \in Actors |-> FALSE]
        /\ done = {}
        /\ dtor = 0

-----------------------------------------------------------------------------
(* Submission, by a client or by the body of a running task.               *)

\* Mutant: submit forgets the notify_one.
PushSilently(a) == /\ todo[a] # <<>>
                   /\ tasks' = Append(tasks, Head(todo[a]))
                   /\ todo' = [todo EXCEPT ![a] = Tail(@)]
                   /\ UNCHANGED <<drain, pc, cur, stop, notifyDue, done, dtor>>

\* The critical section of submit and submitAndGetFuture.
Push(a) == /\ todo[a] # <<>>
           /\ ~notifyDue[a]
           /\ tasks' = Append(tasks, Head(todo[a]))
           /\ todo' = [todo EXCEPT ![a] = Tail(@)]
           /\ notifyDue' = [notifyDue EXCEPT ![a] = TRUE]
           /\ UNCHANGED <<drain, pc, cur, stop, done, dtor>>

\* _cv.notify_one(): one of the sleeping workers is woken, if there is one.
NotifyOne(a) == /\ notifyDue[a]
                /\ notifyDue' = [notifyDue EXCEPT ![a] = FALSE]
                /\ \/ \E w \in Workers : /\ pc[w] = "waiting"
                                         /\ pc' = [pc EXCEPT ![w] = "lock"]
                   \/ /\ \A w \in Workers : pc[w] # "waiting"
                      /\ UNCHANGED pc
                /\ UNCHANGED <<drain, tasks, cur, stop, todo, done, dtor>>

-----------------------------------------------------------------------------
(* The loop of a worker.                                                   *)

\* Mutant: the loop tests the stop token in any case.
LoopHeadTestsStop(w) == /\ pc[w] = "head"
                        /\ pc' = [pc EXCEPT ![w] = IF stop[w] THEN "exited" ELSE "lock"]
                        /\ UNCHANGED <<drain, tasks, cur, stop, todo,
                                       notifyDue, done, dtor>>

\* The condition of the while statement.
LoopHead(w) == /\ pc[w] = "head"
               /\ pc' = [pc EXCEPT ![w] = IF ~drain /\ stop[w]
                                          THEN "exited" ELSE "lock"]
               /\ UNCHANGED <<drain, tasks, cur, stop, todo, notifyDue, done,
                              dtor>>

\* Mutant: the pop is missing.
TakeWithoutPop(w) == /\ pc[w] = "lock"
                     /\ tasks # <<>>
                     /\ cur' = [cur EXCEPT ![w] = Head(tasks)]
                     /\ todo' = [todo EXCEPT ![w] = Spawns[Head(tasks)]]
                     /\ pc' = [pc EXCEPT ![w] = "run"]
                     /\ UNCHANGED <<drain, tasks, stop, notifyDue, done, dtor>>

\* Mutant: the container is used as a stack.
TakeBack(w) == /\ pc[w] = "lock"
               /\ tasks # <<>>
               /\ LET t == tasks[Len(tasks)]
                  IN  /\ cur' = [cur EXCEPT ![w] = t]
                      /\ todo' = [todo EXCEPT ![w] = Spawns[t]]
               /\ tasks' = SubSeq(tasks, 1, Len(tasks) - 1)
               /\ pc' = [pc EXCEPT ![w] = "run"]
               /\ UNCHANGED <<drain, stop, notifyDue, done, dtor>>

\* The predicate holds: the front task is moved out, popped and called.
Take(w) == /\ pc[w] = "lock"
           /\ tasks # <<>>
           /\ cur' = [cur EXCEPT ![w] = Head(tasks)]
           /\ tasks' = Tail(tasks)
           /\ todo' = [todo EXCEPT ![w] = Spawns[Head(tasks)]]
           /\ pc' = [pc EXCEPT ![w] = "run"]
           /\ UNCHANGED <<drain, stop, notifyDue, done, dtor>>

\* The predicate does not hold and no stop is requested: cv.wait sleeps.
Sleep(w) == /\ pc[w] = "lock"
            /\ tasks = <<>>
            /\ ~stop[w]
            /\ pc' = [pc EXCEPT ![w] = "waiting"]
            /\ UNCHANGED <<drain, tasks, cur, stop, todo, notifyDue, done,
                           dtor>>

\* waitAndStop returns true: stop requested and nothing queued.
Exit(w) == /\ pc[w] = "lock"
           /\ tasks = <<>>
           /\ stop[w]
           /\ pc' = [pc EXCEPT ![w] = "exited"]
           /\ UNCHANGED <<drain, tasks, cur, stop, todo, notifyDue, done,
                          dtor>>

\* A spurious wakeup; also the notify_all of a stop callback that was
\* registered by a thread inside cv.wait that was not asleep.
SpuriousWakeup(w) == /\ pc[w] = "waiting"
                     /\ pc' = [pc EXCEPT ![w] = "lock"]
                     /\ UNCHANGED <<drain, tasks, cur, stop, todo, notifyDue,
                                    done, dtor>>

\* task() returns: its submissions are made and the futures it waits for are
\* ready.
Finish(w) == /\ pc[w] = "run"
             /\ todo[w] = <<>>
             /\ ~notifyDue[w]
             /\ Deps[cur[w]] \subseteq done
             /\ done' = done \cup {cur[w]}
             /\ cur' = [cur EXCEPT ![w] = NoTask]
             /\ pc' = [pc EXCEPT ![w] = "head"]
             /\ UNCHANGED <<drain, tasks, stop, todo, notifyDue, dtor>>

-----------------------------------------------------------------------------
(* Destruction, by the owner, once every client is through with the pool.  *)

\* Mutant: the pool is destroyed while clients still use it.
BeginDtorEarly == /\ dtor = 0
                  /\ dtor' = 1
                  /\ UNCHANGED <<drain, tasks, pc, cur, stop, todo, notifyDue,
                                 done>>

BeginDtor == /\ dtor = 0
             /\ \A c \in Clients : todo[c] = <<>> /\ ~notifyDue[c]
             /\ dtor' = 1
             /\ UNCHANGED <<drain, tasks, pc, cur, stop, todo, notifyDue,
                            done>>

\* Mutant: a wait that does not observe the stop token.
RequestStopSilently == /\ dtor \in Workers
                       /\ ~stop[dtor]
                       /\ stop' = [stop EXCEPT ![dtor] = TRUE]
                       /\ UNCHANGED <<drain, tasks, pc, cur, todo, notifyDue,
                                      done, dtor>>

\* request_stop of ~jthread; the stop callback of a sleeping thread calls
\* notify_all on _cv, which every worker shares.
RequestStop == /\ dtor \in Workers
               /\ ~stop[dtor]
               /\ stop' = [stop EXCEPT ![dtor] = TRUE]
               /\ pc' = [w \in Workers |->
                           IF pc[dtor] = "waiting" /\ pc[w] = "waiting"
                           THEN "lock" ELSE pc[w]]
               /\ UNCHANGED <<drain, tasks, cur, todo, notifyDue, done, dtor>>

\* join of ~jthread.
Join == /\ dtor \in Workers
        /\ stop[dtor]
        /\ pc[dtor] = "exited"
        /\ dtor' = dtor + 1
        /\ UNCHANGED <<drain, tasks, pc, cur, stop, todo, notifyDue, done>>

Submission(a) == Push(a) \/ NotifyOne(a)

WorkerStep(w) == LoopHead(w) \/ Take(w) \/ Sleep(w) \/ Exit(w) \/ Finish(w)

Owner == BeginDtor \/ RequestStop \/ Join

\* The process goes on after the pool is gone.
Terminated == dtor = N + 1 /\ UNCHANGED vars

Next == \/ \E a \in Actors : Submission(a)
        \/ \E w \in Workers : WorkerStep(w) \/ SpuriousWakeup(w)
        \/ Owner
        \/ Terminated

\* Threads that can run are scheduled and task bodies return; nothing obliges
\* the owner to destroy the pool, but a destructor that began goes on.
Fairness == /\ \A a \in Actors : WF_vars(Submission(a))
            /\ \A w \in Workers : WF_vars(WorkerStep(w))
            /\ WF_vars(RequestStop \/ Join)

Spec == Init /\ [][Next]_vars

FairSpec == Spec /\ Fairness

-----------------------------------------------------------------------------
(* Properties.                                                             *)

\* No task is lost or run twice (Take moves the front out and pops it in one
\* critical section): a task is queued once, in the hands of one worker, or
\* finished, never two of these at a time.
OnceOnly ==
    /\ Distinct(tasks)
    /\ \A v, w \in Running : cur[v] = cur[w] => v = w
    /\ Queued \cap InHand = {}
    /\ (Queued \cup InHand) \cap done = {}

\* The comment in the worker loop, would "drain" the task queue: when the
\* destructor has joined the last worker, everything the clients submitted and
\* everything those tasks submitted in turn has run.
Drained ==
    drain /\ dtor = N + 1 =>
        /\ \A c \in Clients : Elems(Script[c]) \subseteq done
        /\ \A t \in done : Elems(Spawns[t]) \subseteq done
        /\ Accepted = done

\* Actors that have pushed and not notified, and workers about to check the queue.
Notifying == {a \in Actors : notifyDue[a]}
Checking == {w \in Workers : pc[w] = "lock"}

\* notify_one after the unlock loses no wakeup: while a worker sleeps, each
\* queued task has a worker that is about to check the queue, or a notify_one
\* that is still to come.  A worker at the head of the loop does not count: in a
\* pool that does not drain it may leave.
WakeupForEachTask ==
    \/ \A w \in Workers : pc[w] # "waiting"
    \/ Len(tasks) <= Cardinality(Notifying) + Cardinality(Checking)

\* Why OnceOnly and Drained hold.  What an actor has still to submit, and what
\* a task that no worker has taken will submit, is new to the pool.
Fresh ==
    /\ \A a \in Actors : Distinct(todo[a]) /\ Elems(todo[a]) \cap Accepted = {}
    /\ \A a, b \in Actors : a # b => Elems(todo[a]) \cap Elems(todo[b]) = {}
    /\ \A t \in Tasks \ (InHand \cup done) :
        /\ Elems(Spawns[t]) \cap Accepted = {}
        /\ \A a \in Actors : Elems(Spawns[t]) \cap Elems(todo[a]) = {}

\* What an actor's program says is pushed or still to be pushed.
Accounted ==
    /\ \A c \in Clients : Elems(Script[c]) \subseteq Elems(todo[c]) \cup Accepted
    /\ \A w \in Running : Elems(Spawns[cur[w]]) \subseteq Elems(todo[w]) \cup Accepted
    /\ \A t \in done : Elems(Spawns[t]) \subseteq Accepted

\* The workers leave in the order of destruction, and the last one that could
\* still serve the queue leaves it empty.
Shutdown ==
    /\ dtor # 0 => \A c \in Clients : todo[c] = <<>> /\ ~notifyDue[c]
    /\ \A w \in Workers : /\ pc[w] = "run" => cur[w] \in Tasks
                          /\ pc[w] # "run" => todo[w] = <<>> /\ ~notifyDue[w]
                          /\ stop[w] => w <= dtor
                          /\ pc[w] = "exited" => stop[w]
                          /\ w < dtor => pc[w] = "exited"
    /\ drain /\ (\A w \in Workers : pc[w] = "exited") => tasks = <<>>

\* The inductive invariant.
PoolInv == TypeOK /\ OnceOnly /\ Fresh /\ Accounted /\ Shutdown

\* In a pool that drains a queued task is run to its end, also when it waits for
\* the futures of tasks submitted before it (FutureOnPoolChain.cpp).
EveryTaskRuns == \A t \in Tasks : (drain /\ t \in Queued) ~> (t \in done)

\* The destructor returns, whether the pool drains or not: no worker sleeps
\* through the request to stop, and none is left waiting for a future.
DtorReturns == (dtor = 1) ~> (dtor = N + 1)

\* The pool implements the abstract executor: tasks start in the order of their
\* submission and the destructor of a pool that drains waits for all of them.
Executor == INSTANCE TaskExecutor WITH queue <- tasks, running <- InHand,
                                       closed <- (drain /\ dtor = N + 1)

ImplementsExecutor == Executor!Spec
=============================================================================
