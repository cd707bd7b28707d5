---------------------------- MODULE TicketMutex ----------------------------
(***************************************************************************)
(* The ticket locks of src/multiThread: spin_ticket_mutex.cpp, whose lock  *)
(* spins, and wait_ticket_mutex.cpp, whose lock sleeps in atomic::wait     *)
(* (its try_lock spells the members in_ and out_; they are in and out).    *)
(*                                                                         *)
(* A thread draws a ticket with fetch_add on the first counter and enters  *)
(* when the second counter shows its ticket; unlock advances the second    *)
(* counter.  Every atomic operation is a step of its own.  atomic::wait    *)
(* goes to sleep only if the counter still has the value it is given, and  *)
(* looks again when it is notified.                                        *)
(*                                                                         *)
(* The counters have a width: they wrap at modulus, which is one of Moduli *)
(* and never changes.  Modulus 0 stands for counters too wide to wrap      *)
(* (uint64_t), and then MaxTickets bounds how many tickets are drawn.      *)
(***************************************************************************)
EXTENDS Integers

CONSTANTS
    Threads,     \* the users of the lock
    TryLockers,  \* those among them that also call try_lock
    Moduli,      \* where the counters may wrap, 0 for never
    MaxTickets   \* bound on the tickets drawn when counters do not wrap

ASSUME ThreadsAssumption == TryLockers \subseteq Threads
ASSUME WidthAssumption == Moduli \subseteq Nat /\ MaxTickets \in Nat

VARIABLES
    blocking, \* which class the lock is: wait_ticket_mutex, or spin_ticket_mutex
    modulus,  \* where its counters wrap
    next,     \* next_ticket_, in
    serving,  \* serving_, out
    pc,       \* where each thread is
    my,       \* the ticket a thread drew last
    now       \* the value of serving a thread loaded last

lock == <<blocking, modulus>>
vars == <<lock, next, serving, pc, my, now>>

Succ(n) == IF n + 1 = modulus THEN 0 ELSE n + 1

\* "check": about to load serving; "wait": about to call atomic::wait;
\* "asleep": in it; "cs": holds the lock; "notify": has released the lock and
\* not yet notified; "try": between the load and the compare_exchange.
PC == {"idle", "check", "wait", "asleep", "cs", "notify", "try"}

TypeOK == /\ blocking \in BOOLEAN
          /\ modulus \in Moduli
          /\ next \in Nat
          /\ serving \in Nat
          /\ pc \in [Threads -> PC]
          /\ my \in [Threads -> Nat]
          /\ now \in [Threads -> Nat]

Init == /\ blocking \in BOOLEAN
        /\ modulus \in Moduli
        /\ next = 0
        /\ serving = 0
        /\ pc = [t \in Threads |-> "idle"]
        /\ my = [t \in Threads |-> 0]
        /\ now = [t \in Threads |-> 0]

Goto(t, place) == pc' = [pc EXCEPT ![t] = place]

MayDraw == modulus # 0 \/ next < MaxTickets

-----------------------------------------------------------------------------
\* Mutant: load, then store, in place of fetch_add: two threads draw the same
\* ticket when both load before either stores.
DrawTicketUnatomic(t) == /\ pc[t] = "idle"
                         /\ MayDraw
                         /\ my' = [my EXCEPT ![t] = next]
                         /\ next' \in {next, Succ(next)}
                         /\ Goto(t, "check")
                         /\ UNCHANGED <<lock, serving, now>>

\* lock(): my_ticket = next_ticket_.fetch_add(1)
DrawTicket(t) == /\ pc[t] = "idle"
                 /\ MayDraw
                 /\ my' = [my EXCEPT ![t] = next]
                 /\ next' = Succ(next)
                 /\ Goto(t, "check")
                 /\ UNCHANGED <<lock, serving, now>>

\* Mutant: any ticket up to the one served will do.
EnterLate(t) == /\ pc[t] = "check"
                /\ my[t] <= serving + 1
                /\ Goto(t, "cs")
                /\ UNCHANGED <<lock, next, serving, my, now>>

\* The loop of lock() ends: serving shows the ticket.
Enter(t) == /\ pc[t] = "check"
            /\ serving = my[t]
            /\ Goto(t, "cs")
            /\ UNCHANGED <<lock, next, serving, my, now>>

\* spin_ticket_mutex: yield and load again.
Spin(t) == /\ ~blocking
           /\ pc[t] = "check"
           /\ serving # my[t]
           /\ UNCHANGED vars

\* wait_ticket_mutex: the value loaded is passed to wait.
LoadOther(t) == /\ blocking
                /\ pc[t] = "check"
                /\ serving # my[t]
                /\ now' = [now EXCEPT ![t] = serving]
                /\ Goto(t, "wait")
                /\ UNCHANGED <<lock, next, serving, my>>

\* Mutant: a wait that does not compare the value before it sleeps.
WaitUnchecked(t) == /\ pc[t] = "wait"
                    /\ Goto(t, "asleep")
                    /\ UNCHANGED <<lock, next, serving, my, now>>

\* out.wait(now): sleep while the value is the one that was loaded.
Wait(t) == /\ pc[t] = "wait"
           /\ Goto(t, IF serving = now[t] THEN "asleep" ELSE "check")
           /\ UNCHANGED <<lock, next, serving, my, now>>

\* unlock(): fetch_add on serving.
Unlock(t) == /\ pc[t] = "cs"
             /\ serving' = Succ(serving)
             /\ Goto(t, IF blocking THEN "notify" ELSE "idle")
             /\ UNCHANGED <<lock, next, my, now>>

\* Mutant: unlock() of slinlock_fair.cpp, which wakes one sleeper, and not
\* necessarily the one whose turn it is.
NotifyOne(t) == /\ pc[t] = "notify"
                /\ \/ \E u \in Threads :
                        /\ pc[u] = "asleep"
                        /\ pc' = [pc EXCEPT ![t] = "idle", ![u] = "wait"]
                   \/ /\ \A u \in Threads : pc[u] # "asleep"
                      /\ Goto(t, "idle")
                /\ UNCHANGED <<lock, next, serving, my, now>>

\* out.notify_all(): every sleeper compares the value again.
NotifyAll(t) == /\ pc[t] = "notify"
                /\ pc' = [u \in Threads |-> IF u = t THEN "idle"
                                            ELSE IF pc[u] = "asleep" THEN "wait"
                                            ELSE pc[u]]
                /\ UNCHANGED <<lock, next, serving, my, now>>

\* try_lock(): current = serving_.load().  Counters that go all the way round
\* between this step and the next are out of bounds: with narrow counters nobody
\* calls try_lock.
TryLoad(t) == /\ t \in TryLockers /\ modulus = 0
              /\ pc[t] = "idle"
              /\ now' = [now EXCEPT ![t] = serving]
              /\ Goto(t, "try")
              /\ UNCHANGED <<lock, next, serving, my>>

\* Mutant: the lock is taken without a ticket when it looks free.
TryCasBlind(t) == /\ pc[t] = "try"
                  /\ MayDraw
                  /\ IF serving = now[t]
                     THEN /\ next' = Succ(now[t])
                          /\ my' = [my EXCEPT ![t] = now[t]]
                          /\ Goto(t, "cs")
                     ELSE Goto(t, "idle") /\ UNCHANGED <<next, my>>
                  /\ UNCHANGED <<lock, serving, now>>

\* next_ticket_.compare_exchange_strong(expected, current + 1): nobody has drawn
\* the ticket that was being served.
TryCas(t) == /\ pc[t] = "try"
             /\ MayDraw
             /\ IF next = now[t]
                THEN /\ next' = Succ(now[t])
                     /\ my' = [my EXCEPT ![t] = now[t]]
                     /\ Goto(t, "cs")
                ELSE Goto(t, "idle") /\ UNCHANGED <<next, my>>
             /\ UNCHANGED <<lock, serving, now>>

LockStep(t) == Enter(t) \/ LoadOther(t) \/ Wait(t) \/ Spin(t)

UnlockStep(t) == Unlock(t) \/ NotifyAll(t)

Next == \E t \in Threads : \/ DrawTicket(t)
                           \/ LockStep(t)
                           \/ UnlockStep(t)
                           \/ TryLoad(t) \/ TryCas(t)

Spec == Init /\ [][Next]_vars

\* A thread in lock() or unlock() is scheduled and critical sections end;
\* nobody is obliged to ask for the lock.
Fairness == \A t \in Threads : /\ WF_vars(LockStep(t))
                               /\ WF_vars(UnlockStep(t))

FairSpec == Spec /\ Fairness

-----------------------------------------------------------------------------
(* Properties.                                                             *)

\* Threads that are inside lock() and have their ticket.
Waiting == {t \in Threads : pc[t] \in {"check", "wait", "asleep"}}

Holders == {t \in Threads : pc[t] = "cs"}

Outstanding == Waiting \cup Holders

\* At most one thread holds the lock, however lock, try_lock and unlock of
\* the others interleave.
MutualExclusion == \A t, u \in Holders : t = u

\* Every thread that calls lock() gets the lock: no wakeup is lost between the
\* load of the counter, the wait and the notification.
NoStarvation == \A t \in Threads : (t \in Waiting) ~> (pc[t] = "cs")

\* Why mutual exclusion holds when the counters do not wrap: tickets that were
\* drawn and not yet returned lie between the two counters, no two threads have
\* the same one, and whoever holds the lock has the one that is being served.
Ordered ==
    /\ serving <= next
    /\ \A t \in Outstanding : serving <= my[t] /\ my[t] < next
    /\ \A t, u \in Outstanding : my[t] = my[u] => t = u
    /\ \A t \in Holders : my[t] = serving
    /\ \A t \in Threads : pc[t] = "try" => now[t] <= serving

TicketInv == TypeOK /\ (modulus = 0 => Ordered)

\* How many tickets are served before that of t, which may lie beyond the wrap.
Turn(t) == IF my[t] >= serving THEN my[t] - serving ELSE my[t] - serving + modulus

Ahead == [t \in Threads |-> IF t \in Outstanding
                            THEN {u \in Outstanding : Turn(u) < Turn(t)}
                            ELSE {}]

\* First come, first served, whether the counters wrap or not: lock() returns to
\* the threads in the order in which they drew their tickets, each time when the
\* one before has called unlock(), and a successful try_lock overtakes nobody.
Fifo == INSTANCE FifoLock WITH asking <- Waiting, inside <- Holders, ahead <- Ahead

ImplementsFifoLock == Fifo!Spec
=============================================================================
