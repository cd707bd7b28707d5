---------------------------- MODULE TaskExecutor ----------------------------
(***************************************************************************)
(* What a draining thread pool promises its users, with no threads in it:  *)
(* tasks are started in the order in which they were submitted, each one   *)
(* once, and the pool's destructor returns only when every task that was   *)
(* ever submitted has run to its end.                                      *)
(***************************************************************************)
EXTENDS Integers, Sequences

CONSTANT Tasks   \* the callables users submit, each submitted at most once

VARIABLES queue,   \* submitted and not yet started, in submission order
          running, \* started and not yet finished
          done,    \* finished
          closed   \* the destructor has returned

vars == <<queue, running, done, closed>>

Queued == {queue[i] : i \in 1..Len(queue)}

Init == /\ queue = <<>>
        /\ running = {}
        /\ done = {}
        /\ closed = FALSE

\* A user hands over a task that is new to the pool.
Submit(t) == /\ ~closed
             /\ t \notin Queued \cup running \cup done
             /\ queue' = Append(queue, t)
             /\ UNCHANGED <<running, done, closed>>

\* The oldest task is started.
Start == /\ queue # <<>>
         /\ Head(queue) \notin running \cup done
         /\ queue' = Tail(queue)
         /\ running' = running \cup {Head(queue)}
         /\ UNCHANGED <<done, closed>>

Finish(t) == /\ t \in running
             /\ running' = running \ {t}
             /\ done' = done \cup {t}
             /\ UNCHANGED <<queue, closed>>

\* The destructor returns, with nothing queued and nothing running.
Close == /\ ~closed
         /\ queue = <<>>
         /\ running = {}
         /\ closed' = TRUE
         /\ UNCHANGED <<queue, running, done>>

Next == \/ \E t \in Tasks : Submit(t) \/ Finish(t)
        \/ Start
        \/ Close

Spec == Init /\ [][Next]_vars
=============================================================================
