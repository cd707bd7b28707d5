------------------------ MODULE SemaphoreThreadPool ------------------------
(***************************************************************************)
(* The pool of "src/multiThread/Semaphore Thread Pool.cpp" (and, with      *)
(* another Task type, "Semaphore Thread Pool2.cpp").  A counting semaphore *)
(* takes the place of the condition variable: submit pushes under mtx_ and *)
(* then releases one token, a worker acquires a token before it looks at   *)
(* the queue, and the destructor releases one token per worker.            *)
(*                                                                         *)
(* A worker looks at the queue in two critical sections: the first one     *)
(* decides whether to leave, the second one pops.  workers_ is declared    *)
(* before the other members, so tasks_ is destroyed before the threads are *)
(* joined.  ~counting_semaphore and ~mutex do nothing in this build, and a *)
(* destroyed std::queue still answers empty() from its old iterators, but  *)
(* front() then reads freed memory: that is the step to "ub" below.        *)
(***************************************************************************)
EXTENDS Integers, Sequences, FiniteSets

CONSTANTS
    N,         \* workers
    Clients,   \* threads outside the pool
    Tasks,
    NoTask,    \* an empty std::function
    Script,    \* Script[c]: what client c submits, in order
    Spawns,    \* Spawns[t]: what the body of t submits to the same pool
    Detached   \* tasks handed over with submit_detach, which has no future

Workers == 1..N

Actors == Clients \cup Workers

ASSUME NAssumption == N \in Nat \ {0}
ASSUME ClientsAssumption == IsFiniteSet(Clients) /\ Clients \cap Workers = {}
ASSUME ProgramAssumption == /\ Script \in [Clients -> Seq(Tasks)]
                            /\ Spawns \in [Tasks -> Seq(Tasks)]
                            /\ Detached \subseteq Tasks
                            /\ NoTask \notin Tasks

\* What a sequence of tasks holds, and that it holds nothing twice.
Elems(s) == {s[i] : i \in 1..Len(s)}
Distinct(s) == \A i, j \in 1..Len(s) : s[i] = s[j] => i = j

\* A task is one call of submit: it stands in one program, once.
ASSUME FreshAssumption ==
    /\ \A c \in Clients : Distinct(Script[c])
    /\ \A t \in Tasks : Distinct(Spawns[t])
    /\ \A c, d \in Clients : c # d => Elems(Script[c]) \cap Elems(Script[d]) = {}
    /\ \A t, u \in Tasks : t # u => Elems(Spawns[t]) \cap Elems(Spawns[u]) = {}
    /\ \A c \in Clients, t \in Tasks : Elems(Script[c]) \cap Elems(Spawns[t]) = {}

VARIABLES
    sem,        \* tokens in sem_
    tasks,      \* tasks_
    stopping,   \* stopping_
    stop,       \* the stop state of each jthread
    pc,         \* where each worker is
    cur,        \* the task a worker runs
    todo,       \* what an actor has still to submit
    releaseDue, \* an actor has pushed and not yet released its token
    result,     \* what became of each task
    owner,      \* where the thread that owns the pool is
    idx,        \* its loop variable
    ended       \* how the process ended, if it did

vars == <<sem, tasks, stopping, stop, pc, cur, todo, releaseDue, result, owner,
          idx, ended>>

Queued == Elems(tasks)

\* Workers that have a token, and actors that have one still to release.
Holding == {w \in Workers : pc[w] \in {"check", "pop"}}
Releasing == {a \in Actors : releaseDue[a]}

TypeOK == /\ sem \in Nat
          /\ tasks \in Seq(Tasks)
          /\ stopping \in BOOLEAN
          /\ stop \in [Workers -> BOOLEAN]
          /\ pc \in [Workers -> {"acquire", "check", "pop", "run", "exited"}]
          /\ cur \in [Workers -> Tasks \cup {NoTask}]
          /\ todo \in [Actors -> Seq(Tasks)]
          /\ releaseDue \in [Actors -> BOOLEAN]
          /\ result \in [Tasks -> {"none", "value", "exception", "rejected"}]
          /\ owner \in {"use", "request", "release", "members", "join", "gone"}
          /\ idx \in 1..(N + 1)
          /\ ended \in {"no", "terminate", "ub"}

Init == /\ sem = 0
        /\ tasks = <<>>
        /\ stopping = FALSE
        /\ stop = [w \in Workers |-> FALSE]
        /\ pc = [w \in Workers |-> "acquire"]
        /\ cur = [w \in Workers |-> NoTask]
        /\ todo = [a \in Actors |-> IF a \in Clients THEN Script[a] ELSE <<>>]
        /\ releaseDue = [a \in Actors |-> FALSE]
        /\ result = [t \in Tasks |-> "none"]
        /\ owner = "use"
        /\ idx = 1
        /\ ended = "no"

Alive == ended = "no"

-----------------------------------------------------------------------------
(* submit and submit_detach, by a client or by the body of a task.         *)

\* Mutant: the token is released with the push and once more after it.
PushTwoTokens(a) == /\ Alive /\ todo[a] # <<>> /\ ~releaseDue[a] /\ ~stopping
                    /\ tasks' = Append(tasks, Head(todo[a]))
                    /\ todo' = [todo EXCEPT ![a] = Tail(@)]
                    /\ releaseDue' = [releaseDue EXCEPT ![a] = TRUE]
                    /\ sem' = sem + 1
                    /\ UNCHANGED <<stopping, stop, pc, cur, result, owner, idx, ended>>

\* Mutant: submit forgets sem_.release().
PushWithoutToken(a) == /\ Alive /\ todo[a] # <<>> /\ ~releaseDue[a] /\ ~stopping
                       /\ tasks' = Append(tasks, Head(todo[a]))
                       /\ todo' = [todo EXCEPT ![a] = Tail(@)]
                       /\ UNCHANGED <<sem, stopping, stop, pc, cur, releaseDue,
                                      result, owner, idx, ended>>

Push(a) == /\ Alive
           /\ todo[a] # <<>>
           /\ ~releaseDue[a]
           /\ ~stopping
           /\ tasks' = Append(tasks, Head(todo[a]))
           /\ todo' = [todo EXCEPT ![a] = Tail(@)]
           /\ releaseDue' = [releaseDue EXCEPT ![a] = TRUE]
           /\ UNCHANGED <<sem, stopping, stop, pc, cur, result, owner, idx, ended>>

Release(a) == /\ Alive
              /\ releaseDue[a]
              /\ releaseDue' = [releaseDue EXCEPT ![a] = FALSE]
              /\ sem' = sem + 1
              /\ UNCHANGED <<tasks, stopping, stop, pc, cur, todo, result, owner, idx, ended>>

\* submit throws on a stopping pool.  Only the body of a task can meet this.
\* The exception ends the body: a packaged_task keeps it for the future, out of
\* a detached task it leaves the thread function.
Reject(w) == /\ Alive
             /\ pc[w] = "run"
             /\ todo[w] # <<>>
             /\ ~releaseDue[w]
             /\ stopping
             /\ result' = [result EXCEPT ![cur[w]] = "exception",
                                         ![Head(todo[w])] = "rejected"]
             /\ todo' = [todo EXCEPT ![w] = <<>>]
             /\ cur' = [cur EXCEPT ![w] = NoTask]
             /\ pc' = [pc EXCEPT ![w] = "acquire"]
             /\ ended' = IF cur[w] \in Detached THEN "terminate" ELSE ended
             /\ UNCHANGED <<sem, tasks, stopping, stop, releaseDue, owner, idx>>

-----------------------------------------------------------------------------
(* worker_loop.                                                            *)

\* sem_.acquire()
Acquire(w) == /\ Alive
              /\ pc[w] = "acquire"
              /\ sem > 0
              /\ sem' = sem - 1
              /\ pc' = [pc EXCEPT ![w] = "check"]
              /\ UNCHANGED <<tasks, stopping, stop, cur, todo, releaseDue,
                             result, owner, idx, ended>>

\* Mutant: a worker that was told to stop leaves whatever is queued.
CheckStopOnly(w) == /\ Alive /\ pc[w] = "check"
                    /\ pc' = [pc EXCEPT ![w] = IF stop[w] THEN "exited" ELSE "pop"]
                    /\ UNCHANGED <<sem, tasks, stopping, stop, cur, todo, releaseDue,
                                   result, owner, idx, ended>>

\* The first critical section, entered only when a stop is requested.
CheckStop(w) == /\ Alive
                /\ pc[w] = "check"
                /\ pc' = [pc EXCEPT ![w] = IF stop[w] /\ tasks = <<>>
                                           THEN "exited" ELSE "pop"]
                /\ UNCHANGED <<sem, tasks, stopping, stop, cur, todo, releaseDue,
                               result, owner, idx, ended>>

\* The second critical section finds nothing: continue, and the token is gone.
PopNothing(w) == /\ Alive
                 /\ pc[w] = "pop"
                 /\ tasks = <<>>
                 /\ pc' = [pc EXCEPT ![w] = "acquire"]
                 /\ UNCHANGED <<sem, tasks, stopping, stop, cur, todo,
                                releaseDue, result, owner, idx, ended>>

\* Mutant: pop is missing.
PopKeeps(w) == /\ Alive /\ pc[w] = "pop" /\ tasks # <<>>
               /\ owner \notin {"join", "gone"}
               /\ cur' = [cur EXCEPT ![w] = Head(tasks)]
               /\ todo' = [todo EXCEPT ![w] = Spawns[Head(tasks)]]
               /\ pc' = [pc EXCEPT ![w] = "run"]
               /\ UNCHANGED <<sem, tasks, stopping, stop, releaseDue, result,
                              owner, idx, ended>>

\* The second critical section takes the front task.
Pop(w) == /\ Alive
          /\ pc[w] = "pop"
          /\ tasks # <<>>
          /\ owner \notin {"join", "gone"}
          /\ cur' = [cur EXCEPT ![w] = Head(tasks)]
          /\ tasks' = Tail(tasks)
          /\ todo' = [todo EXCEPT ![w] = Spawns[Head(tasks)]]
          /\ pc' = [pc EXCEPT ![w] = "run"]
          /\ UNCHANGED <<sem, stopping, stop, releaseDue, result, owner, idx, ended>>

\* tasks_ is already destroyed: front() refers to freed memory.
PopDestroyed(w) == /\ Alive
                   /\ pc[w] = "pop"
                   /\ tasks # <<>>
                   /\ owner \in {"join", "gone"}
                   /\ ended' = "ub"
                   /\ UNCHANGED <<sem, tasks, stopping, stop, pc, cur, todo,
                                  releaseDue, result, owner, idx>>

\* task(st) returns.
Finish(w) == /\ Alive
             /\ pc[w] = "run"
             /\ todo[w] = <<>>
             /\ ~releaseDue[w]
             /\ result' = [result EXCEPT ![cur[w]] = "value"]
             /\ cur' = [cur EXCEPT ![w] = NoTask]
             /\ pc' = [pc EXCEPT ![w] = "acquire"]
             /\ UNCHANGED <<sem, tasks, stopping, stop, todo, releaseDue, owner,
                            idx, ended>>

-----------------------------------------------------------------------------
(* ~ThreadPool, by the owner once no client uses the pool any more.        *)

SetStopping == /\ Alive
               /\ owner = "use"
               /\ \A c \in Clients : todo[c] = <<>> /\ ~releaseDue[c]
               /\ stopping' = TRUE
               /\ owner' = "request"
               /\ UNCHANGED <<sem, tasks, stop, pc, cur, todo, releaseDue,
                              result, idx, ended>>

\* for (auto& t : workers_) t.request_stop();
RequestStop == /\ Alive
               /\ owner = "request"
               /\ stop' = [stop EXCEPT ![idx] = TRUE]
               /\ idx' = IF idx = N THEN 1 ELSE idx + 1
               /\ owner' = IF idx = N THEN "release" ELSE "request"
               /\ UNCHANGED <<sem, tasks, stopping, pc, cur, todo, releaseDue,
                              result, ended>>

\* sem_.release(workers_.size())
ReleaseAll == /\ Alive
              /\ owner = "release"
              /\ sem' = sem + N
              /\ owner' = "members"
              /\ UNCHANGED <<tasks, stopping, stop, pc, cur, todo, releaseDue,
                             result, idx, ended>>

\* stopping_, sem_, mtx_ and tasks_ are destroyed, in this order.
DestroyMembers == /\ Alive
                  /\ owner = "members"
                  /\ owner' = "join"
                  /\ UNCHANGED <<sem, tasks, stopping, stop, pc, cur, todo,
                                 releaseDue, result, idx, ended>>

\* workers_ is destroyed last: each ~jthread joins its thread.
JoinWorker == /\ Alive
              /\ owner = "join"
              /\ pc[idx] = "exited"
              /\ idx' = idx + 1
              /\ owner' = IF idx = N THEN "gone" ELSE "join"
              /\ UNCHANGED <<sem, tasks, stopping, stop, pc, cur, todo,
                             releaseDue, result, ended>>

Submission(a) == Push(a) \/ Release(a)

WorkerStep(w) == \/ Acquire(w) \/ CheckStop(w) \/ PopNothing(w) \/ Pop(w)
                 \/ PopDestroyed(w) \/ Reject(w) \/ Finish(w)

Dtor == RequestStop \/ ReleaseAll \/ DestroyMembers \/ JoinWorker

\* The pool is gone, or the process is.
Terminated == (owner = "gone" \/ ~Alive) /\ UNCHANGED vars

Next == \/ \E a \in Actors : Submission(a)
        \/ \E w \in Workers : WorkerStep(w)
        \/ SetStopping
        \/ Dtor
        \/ Terminated

\* Threads that can run are scheduled and task bodies return; a destructor that
\* began goes on.  The semaphore promises nothing about who gets a token.
Fairness == /\ \A a \in Actors : WF_vars(Submission(a))
            /\ \A w \in Workers : WF_vars(WorkerStep(w))
            /\ WF_vars(Dtor)

Spec == Init /\ [][Next]_vars

FairSpec == Spec /\ Fairness

-----------------------------------------------------------------------------
(* Properties.                                                             *)

\* Until the destructor adds its own tokens there is one token for each queued
\* task, in the semaphore, with a worker or about to be released; so no worker
\* that acquired one finds the queue empty.
TokenPerTask ==
    owner \in {"use", "request", "release"} =>
        Len(tasks) = sem + Cardinality(Holding)
                         + Cardinality(Releasing)

\* The types, and tokens that match tasks: what the other properties rest on.
SemInv == TypeOK /\ TokenPerTask

\* A task is in one place at a time: queued once, with one worker, or settled.
OnceOnly ==
    /\ Distinct(tasks)
    /\ \A v, w \in Workers : cur[v] # NoTask /\ cur[v] = cur[w] => v = w
    /\ \A w \in Workers : cur[w] \notin Queued
    /\ \A t \in Tasks : result[t] # "none" =>
                          t \notin Queued /\ \A w \in Workers : cur[w] # t

\* Why: a worker has a task exactly when it runs one, and what is still to be
\* submitted, now or by a task that has not started, was not seen before.
Unseen(t) == t \notin Queued /\ result[t] = "none" /\ \A w \in Workers : cur[w] # t

Pending == {t \in Tasks : result[t] = "none" /\ \A w \in Workers : cur[w] # t}

Fresh ==
    /\ \A w \in Workers : cur[w] = NoTask <=> pc[w] # "run"
    /\ \A a \in Actors : Distinct(todo[a]) /\ \A t \in Elems(todo[a]) : Unseen(t)
    /\ \A a, b \in Actors : a # b => Elems(todo[a]) \cap Elems(todo[b]) = {}
    /\ \A t \in Pending : \A u \in Elems(Spawns[t]) :
          Unseen(u) /\ \A a \in Actors : u \notin Elems(todo[a])

\* What the workers have in hand, and what was run to its end or to an exception.
InHand == {cur[w] : w \in Workers} \ {NoTask}
Ran == {t \in Tasks : result[t] \in {"value", "exception"}}

\* The pool implements the abstract executor as long as the process lives: tasks
\* start in the order of their submission, and where the destructor returns, all
\* that was ever accepted has run.
Executor == INSTANCE TaskExecutor WITH queue <- tasks, running <- InHand,
                                       done <- Ran, closed <- (owner = "gone")

ImplementsExecutor == Executor!Spec

\* An accepted task is settled, unless the process dies first: the tokens
\* that workers lose at the end are never the ones that queued tasks need.
AcceptedIsSettled ==
    \A t \in Tasks : (t \in Queued) ~> (result[t] # "none" \/ ~Alive)

\* The comment on the release in ~ThreadPool, "wake all threads": a destructor
\* that began returns, unless the process dies first.
StopWakesAll == (owner = "request") ~> (owner = "gone" \/ ~Alive)

\* The comment at the end of ~ThreadPool, "jthread auto-joins": leaving the
\* join to the destructor of workers_ is safe, no worker touches a member that
\* is already destroyed.
NoUseAfterDestruction == ended # "ub"
=============================================================================
