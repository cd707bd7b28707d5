------------------------- MODULE HierarchicalMutex -------------------------
(***************************************************************************)
(* src/multiThread/hierarchical_mutex.cpp: a mutex with a level.  A        *)
(* thread-local variable holds the level of the mutex the thread locked    *)
(* last; lock() refuses a mutex that is not below it, saves the variable   *)
(* in the mutex and overwrites it; unlock() restores it.                   *)
(*                                                                         *)
(* The threads lock and unlock as they like.  LIFO says whether they       *)
(* unlock in the reverse of the order they locked in, as nested lock_guard *)
(* objects do; std::unique_lock allows any order.                          *)
(***************************************************************************)
EXTENDS Integers, Sequences

CONSTANTS
    Threads,
    Mutexes,
    Level,  \* hierarchy_value of each mutex
    Top,    \* ULONG_MAX, the initial this_thread_hierarchy_value
    LIFO,
    None    \* no thread, no mutex

ASSUME LevelAssumption == /\ Level \in [Mutexes -> Nat]
                          /\ Top \in Nat
                          /\ \A m \in Mutexes : Level[m] <= Top
ASSUME LIFOAssumption == LIFO \in BOOLEAN
ASSUME NoneAssumption == None \notin Threads /\ None \notin Mutexes

VARIABLES
    owner,  \* who holds internal_mutex of each mutex
    prev,   \* previous_hierarchy_value of each mutex
    this,   \* this_thread_hierarchy_value of each thread
    pc,     \* where each thread is
    want,   \* the mutex it is locking or unlocking
    held    \* the mutexes it has locked, in this order

vars == <<owner, prev, this, pc, want, held>>

TypeOK == /\ owner \in [Mutexes -> Threads \cup {None}]
          /\ prev \in [Mutexes -> Nat]
          /\ this \in [Threads -> Nat]
          /\ pc \in [Threads -> {"run", "lock", "update", "unlock"}]
          /\ want \in [Threads -> Mutexes \cup {None}]
          /\ held \in [Threads -> Seq(Mutexes)]

Init == /\ owner = [m \in Mutexes |-> None]
        /\ prev = [m \in Mutexes |-> 0]
        /\ this = [t \in Threads |-> Top]
        /\ pc = [t \in Threads |-> "run"]
        /\ want = [t \in Threads |-> None]
        /\ held = [t \in Threads |-> <<>>]

Held(t) == {held[t][i] : i \in 1..Len(held[t])}

\* check_for_hierarchy_violation(); when it throws nothing has changed.
Permitted(t, m) == this[t] > Level[m]

-----------------------------------------------------------------------------

\* Mutant: lock() without the check.
BeginLockUnchecked(t, m) == /\ pc[t] = "run"
                            /\ m \in Mutexes
                            /\ pc' = [pc EXCEPT ![t] = "lock"]
                            /\ want' = [want EXCEPT ![t] = m]
                            /\ UNCHANGED <<owner, prev, this, held>>

\* lock(): the check passes and internal_mutex.lock() begins.
BeginLock(t, m) == /\ pc[t] = "run"
                   /\ Permitted(t, m)
                   /\ pc' = [pc EXCEPT ![t] = "lock"]
                   /\ want' = [want EXCEPT ![t] = m]
                   /\ UNCHANGED <<owner, prev, this, held>>

\* internal_mutex.lock() returns.
Acquire(t) == /\ pc[t] = "lock"
              /\ owner[want[t]] = None
              /\ owner' = [owner EXCEPT ![want[t]] = t]
              /\ pc' = [pc EXCEPT ![t] = "update"]
              /\ UNCHANGED <<prev, this, want, held>>

\* try_lock(): the check passes and internal_mutex.try_lock() succeeds.  When it
\* does not, spuriously or because of an owner, nothing has changed.
TryLock(t, m) == /\ pc[t] = "run"
                 /\ Permitted(t, m)
                 /\ owner[m] = None
                 /\ owner' = [owner EXCEPT ![m] = t]
                 /\ pc' = [pc EXCEPT ![t] = "update"]
                 /\ want' = [want EXCEPT ![t] = m]
                 /\ UNCHANGED <<prev, this, held>>

\* Mutant: lock() does not lower the thread's level.
UpdateNothing(t) == /\ pc[t] = "update"
                    /\ prev' = [prev EXCEPT ![want[t]] = this[t]]
                    /\ held' = [held EXCEPT ![t] = Append(@, want[t])]
                    /\ pc' = [pc EXCEPT ![t] = "run"]
                    /\ want' = [want EXCEPT ![t] = None]
                    /\ UNCHANGED <<owner, this>>

\* update_hierarchy_value()
Update(t) == /\ pc[t] = "update"
             /\ prev' = [prev EXCEPT ![want[t]] = this[t]]
             /\ this' = [this EXCEPT ![t] = Level[want[t]]]
             /\ held' = [held EXCEPT ![t] = Append(@, want[t])]
             /\ pc' = [pc EXCEPT ![t] = "run"]
             /\ want' = [want EXCEPT ![t] = None]
             /\ UNCHANGED owner

Without(s, i) == [j \in 1..(Len(s) - 1) |-> IF j < i THEN s[j] ELSE s[j + 1]]

\* Mutant: unlock() resets the level instead of restoring the one before.
RestoreTop(t) == /\ pc[t] = "run"
                 /\ \E i \in 1..Len(held[t]) :
                      /\ LIFO => i = Len(held[t])
                      /\ this' = [this EXCEPT ![t] = Top]
                      /\ want' = [want EXCEPT ![t] = held[t][i]]
                      /\ held' = [held EXCEPT ![t] = Without(@, i)]
                 /\ pc' = [pc EXCEPT ![t] = "unlock"]
                 /\ UNCHANGED <<owner, prev>>

\* unlock(): this_thread_hierarchy_value = previous_hierarchy_value
Restore(t) == /\ pc[t] = "run"
              /\ \E i \in 1..Len(held[t]) :
                   /\ LIFO => i = Len(held[t])
                   /\ this' = [this EXCEPT ![t] = prev[held[t][i]]]
                   /\ want' = [want EXCEPT ![t] = held[t][i]]
                   /\ held' = [held EXCEPT ![t] = Without(@, i)]
              /\ pc' = [pc EXCEPT ![t] = "unlock"]
              /\ UNCHANGED <<owner, prev>>

\* internal_mutex.unlock()
Unlock(t) == /\ pc[t] = "unlock"
             /\ owner' = [owner EXCEPT ![want[t]] = None]
             /\ pc' = [pc EXCEPT ![t] = "run"]
             /\ want' = [want EXCEPT ![t] = None]
             /\ UNCHANGED <<prev, this, held>>

Step(t) == \/ \E m \in Mutexes : BeginLock(t, m) \/ TryLock(t, m)
           \/ Acquire(t) \/ Update(t) \/ Restore(t) \/ Unlock(t)

Next == \E t \in Threads : Step(t)

Spec == Init /\ [][Next]_vars

-----------------------------------------------------------------------------
(* Properties.                                                             *)

\* What the file's comment asks for: a thread "isn't permitted to lock that
\* mutex if it already holds a lock from a lower layer", nor one of the same.
LayersRespected ==
    \A t \in Threads : pc[t] \in {"lock", "update"} =>
        \A m \in Held(t) : Level[want[t]] < Level[m]

\* t waits for a mutex that u has or is about to give back.
WaitsFor(t, u) == pc[t] = "lock" /\ owner[want[t]] = u

\* Along a chain of waiting threads the levels go down.
WaitsDescend ==
    \A t, u \in Threads : WaitsFor(t, u) /\ pc[u] = "lock" =>
        Level[want[u]] < Level[want[t]]

\* No set of threads waits for itself: the deadlock the hierarchy is there to
\* prevent, between any number of threads.
NoDeadlock ==
    \A S \in SUBSET Threads :
        (\A t \in S : \E u \in S : WaitsFor(t, u)) => S = {}

\* Why: a thread's level is that of the mutex it locked last, and each mutex it
\* holds remembers the level of the one before.
Below(t, n) == IF n = 0 THEN Top ELSE Level[held[t][n]]

\* this_thread_hierarchy_value is the level of the top of the stack.
TopOfStack == \A t \in Threads : this[t] = Below(t, Len(held[t]))

\* previous_hierarchy_value is the level below.
SavedLevels == \A t \in Threads : \A i \in 1..Len(held[t]) :
                  prev[held[t][i]] = Below(t, i - 1) /\ owner[held[t][i]] = t

StackDescends == \A t \in Threads : \A i, j \in 1..Len(held[t]) :
                    i < j => Level[held[t][j]] < Level[held[t][i]]

InProgress ==
    \A t \in Threads :
        /\ pc[t] # "run" => want[t] \in Mutexes
        /\ pc[t] \in {"lock", "update"} => Level[want[t]] < this[t]
        /\ pc[t] \in {"update", "unlock"} => owner[want[t]] = t
        /\ pc[t] = "unlock" => want[t] \notin Held(t)

\* t is taking or returning m.
Handles(t, m) == pc[t] \in {"update", "unlock"} /\ want[t] = m

OwnersKnown == \A m \in Mutexes, t \in Threads :
                  owner[m] = t => (m \in Held(t) \/ Handles(t, m))

StackInv == /\ TypeOK
            /\ TopOfStack
            /\ SavedLevels
            /\ StackDescends
            /\ InProgress
            /\ OwnersKnown
=============================================================================
