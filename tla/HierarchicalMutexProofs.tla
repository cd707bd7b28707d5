---------------------- MODULE HierarchicalMutexProofs ----------------------
(***************************************************************************)
(* Theorems about HierarchicalMutex for any threads, mutexes and levels,   *)
(* when each thread unlocks in the reverse of the order it locked in.      *)
(***************************************************************************)
EXTENDS HierarchicalMutex, SequenceTheorems, WellFoundedInduction, TLAPS

USE LevelAssumption, NoneAssumption DEF StackInv

LEMMA StackInit == Init => StackInv
  <1> SUFFICES ASSUME Init PROVE StackInv
    OBVIOUS
  <1>1. TypeOK
    BY DEF Init, TypeOK
  <1>2. \A t \in Threads : held[t] = <<>> /\ Len(held[t]) = 0 /\ this[t] = Top /\ pc[t] = "run"
    BY DEF Init
  <1>3. \A m \in Mutexes : owner[m] = None
    BY DEF Init
  <1>4. TopOfStack /\ SavedLevels /\ StackDescends
    BY <1>2 DEF TopOfStack, SavedLevels, StackDescends, Below
  <1>5. InProgress /\ OwnersKnown
    BY <1>2, <1>3 DEF InProgress, OwnersKnown
  <1> QED
    BY <1>1, <1>4, <1>5

\* A step that moves no stack and no level, and takes no mutex from its owner,
\* keeps what StackInv says of the stacks.
LEMMA KeepStacks ==
  ASSUME StackInv, UNCHANGED <<prev, this, held>>,
         \A t \in Threads : \A i \in 1..Len(held[t]) : owner'[held[t][i]] = t
  PROVE  /\ TopOfStack' /\ SavedLevels' /\ StackDescends'
         /\ \A t \in Threads : Held(t)' = Held(t)
  BY DEF TopOfStack, SavedLevels, StackDescends, Below, Held

LEMMA HeldLevel ==
  ASSUME StackInv, NEW t \in Threads, NEW m \in Held(t)
  PROVE  /\ m \in Mutexes /\ owner[m] = t /\ Level[m] >= this[t]
         /\ Level[m] \in Nat
  <1>1. PICK i \in 1..Len(held[t]) : m = held[t][i]
    BY DEF Held
  <1>2. held[t] \in Seq(Mutexes) /\ Len(held[t]) \in Nat /\ Len(held[t]) \in 1..Len(held[t])
    BY <1>1 DEF TypeOK
  <1>3. m \in Mutexes /\ owner[m] = t /\ Level[m] \in Nat
    BY <1>1, <1>2 DEF SavedLevels
  <1>4. this[t] = Level[held[t][Len(held[t])]]
    BY <1>2 DEF TopOfStack, Below
  <1>5. i = Len(held[t]) \/ Level[held[t][Len(held[t])]] < Level[m]
    BY <1>1, <1>2 DEF StackDescends
  <1>6. held[t][Len(held[t])] \in Mutexes
    BY <1>2
  <1> QED
    BY <1>1, <1>3, <1>4, <1>5, <1>6

LEMMA StackElement ==
  ASSUME StackInv, NEW t \in Threads, NEW i \in 1..Len(held[t])
  PROVE  /\ held[t][i] \in Held(t) /\ held[t][i] \in Mutexes /\ owner[held[t][i]] = t
         /\ Level[held[t][i]] >= this[t] /\ Level[held[t][i]] \in Nat
  <1>1. held[t][i] \in Held(t)
    BY DEF Held
  <1> QED
    BY <1>1, HeldLevel

LEMMA StackBeginLock ==
  ASSUME StackInv, NEW t \in Threads, NEW m \in Mutexes, BeginLock(t, m)
  PROVE  StackInv'
  <1>1. TypeOK' /\ UNCHANGED <<owner, prev, this, held>>
    BY DEF BeginLock, TypeOK
  <1>2. \A u \in Threads \ {t} : pc'[u] = pc[u] /\ want'[u] = want[u]
    BY DEF BeginLock, TypeOK
  <1>3. pc[t] = "run" /\ pc'[t] = "lock" /\ want'[t] = m /\ Level[m] < this[t]
    BY DEF BeginLock, Permitted, TypeOK
  <1>4. /\ TopOfStack' /\ SavedLevels' /\ StackDescends'
        /\ \A u \in Threads : Held(u)' = Held(u)
    BY <1>1, KeepStacks, StackElement
  <1>5. InProgress'
    BY <1>1, <1>2, <1>3, <1>4 DEF InProgress
  <1>6. OwnersKnown'
    BY <1>1, <1>2, <1>3, <1>4 DEF OwnersKnown, Handles
  <1> QED
    BY <1>1, <1>4, <1>5, <1>6

\* lock and try_lock get the internal mutex in the same state.
LEMMA StackAcquire ==
  ASSUME StackInv, NEW t \in Threads, NEW m \in Mutexes,
         owner[m] = None, Level[m] < this[t], pc[t] \in {"run", "lock"},
         owner' = [owner EXCEPT ![m] = t], pc' = [pc EXCEPT ![t] = "update"],
         want' = [want EXCEPT ![t] = m], UNCHANGED <<prev, this, held>>
  PROVE  StackInv'
  <1>1. TypeOK'
    BY DEF TypeOK
  <1>2. \A u \in Threads \ {t} : pc'[u] = pc[u] /\ want'[u] = want[u]
    BY DEF TypeOK
  <1>3. pc'[t] = "update" /\ want'[t] = m /\ owner'[m] = t
    BY DEF TypeOK
  <1>4. \A x \in Mutexes : x # m => owner'[x] = owner[x]
    BY DEF TypeOK
  <1>5. \A u \in Threads : \A i \in 1..Len(held[u]) : owner'[held[u][i]] = u
    BY <1>4, StackElement
  <1>6. /\ TopOfStack' /\ SavedLevels' /\ StackDescends'
        /\ \A u \in Threads : Held(u)' = Held(u)
    BY <1>5, KeepStacks
  <1>7. InProgress'
    BY <1>2, <1>3, <1>4, <1>6 DEF InProgress
  <1>8. OwnersKnown'
    <2> SUFFICES ASSUME NEW x \in Mutexes, NEW u \in Threads, owner'[x] = u
                 PROVE  x \in Held(u)' \/ Handles(u, x)'
      BY DEF OwnersKnown
    <2>1. CASE x = m
      BY <1>3, <2>1 DEF Handles
    <2>2. CASE x # m
      <3>1. x \in Held(u) \/ Handles(u, x)
        BY <1>4, <2>2 DEF OwnersKnown
      <3> QED
        BY <1>2, <1>6, <3>1 DEF Handles
    <2> QED
      BY <2>1, <2>2
  <1> QED
    BY <1>1, <1>6, <1>7, <1>8

\* Pushing onto one's own stack: the new mutex is below all the others, and no
\* stack holds it yet, so its saved level is nobody else's.
LEMMA StackUpdate ==
  ASSUME StackInv, NEW t \in Threads, NEW m, m = want[t], NEW n, n = Len(held[t]),
         Update(t)
  PROVE  StackInv'
  <1>1. /\ m \in Mutexes /\ owner[m] = t /\ Level[m] < this[t]
        /\ held[t] \in Seq(Mutexes) /\ n \in Nat /\ pc[t] = "update"
        /\ this[t] \in Nat /\ Level[m] \in Nat
    BY DEF Update, InProgress, TypeOK
  <1>2. TypeOK'
    <2>1. held' \in [Threads -> Seq(Mutexes)]
      BY <1>1 DEF Update, TypeOK
    <2>2. this' \in [Threads -> Nat] /\ prev' \in [Mutexes -> Nat]
      BY <1>1 DEF Update, TypeOK
    <2> QED
      BY <1>1, <2>1, <2>2 DEF Update, TypeOK
  <1>3. /\ held'[t] = Append(held[t], m) /\ Len(held'[t]) = n + 1
        /\ held'[t][n + 1] = m /\ \A i \in 1..n : held'[t][i] = held[t][i]
    BY <1>1 DEF Update, TypeOK
  <1>4. \A u \in Threads \ {t} : /\ held'[u] = held[u] /\ this'[u] = this[u]
                                 /\ pc'[u] = pc[u] /\ want'[u] = want[u]
    BY DEF Update, TypeOK
  <1>5. this'[t] = Level[m] /\ prev'[m] = this[t] /\ pc'[t] = "run" /\ owner' = owner
    BY <1>1 DEF Update, TypeOK
  <1>6. \A x \in Mutexes : x # m => prev'[x] = prev[x]
    BY DEF Update, TypeOK
  <1>7. \A i \in 1..n : held[t][i] # m /\ Level[m] < Level[held[t][i]]
    BY <1>1, StackElement
  <1>8. \A u \in Threads \ {t} : \A i \in 1..Len(held[u]) : held[u][i] # m /\ held[u][i] \in Mutexes
    BY <1>1, StackElement
  <1>9. \A i \in 1..n : held[t][i] \in Mutexes
    BY <1>1
  <1>10. TopOfStack'
    <2> SUFFICES ASSUME NEW u \in Threads PROVE this'[u] = Below(u, Len(held[u]))'
      BY DEF TopOfStack
    <2>1. CASE u # t
      BY <1>4, <2>1 DEF TopOfStack, Below
    <2>2. CASE u = t
      BY <1>1, <1>3, <1>5, <2>2 DEF Below
    <2> QED
      BY <2>1, <2>2
  <1>11. SavedLevels'
    <2> SUFFICES ASSUME NEW u \in Threads, NEW i \in 1..Len(held'[u])
                 PROVE  prev'[held'[u][i]] = Below(u, i - 1)' /\ owner'[held'[u][i]] = u
      BY DEF SavedLevels
    <2>1. CASE u # t
      <3>1. prev[held[u][i]] = Below(u, i - 1) /\ owner[held[u][i]] = u
        BY <1>4, <2>1 DEF SavedLevels
      <3>2. Below(u, i - 1)' = Below(u, i - 1)
        BY <1>4, <2>1 DEF Below
      <3> QED
        BY <1>4, <1>5, <1>6, <1>8, <2>1, <3>1, <3>2
    <2>2. CASE u = t /\ i \in 1..n
      <3>1. prev[held[t][i]] = Below(t, i - 1) /\ owner[held[t][i]] = t
        BY <2>2 DEF SavedLevels
      <3>2. Below(t, i - 1)' = Below(t, i - 1)
        BY <1>1, <1>3, <2>2 DEF Below
      <3> QED
        BY <1>3, <1>5, <1>6, <1>7, <1>9, <2>2, <3>1, <3>2
    <2>3. CASE u = t /\ i = n + 1
      <3>1. Below(t, i - 1)' = Below(t, n)
        BY <1>1, <1>3, <2>3 DEF Below
      <3>2. this[t] = Below(t, n)
        BY DEF TopOfStack
      <3> QED
        BY <1>1, <1>3, <1>5, <2>3, <3>1, <3>2
    <2> QED
      BY <1>1, <1>3, <2>1, <2>2, <2>3
  <1>12. StackDescends'
    <2> SUFFICES ASSUME NEW u \in Threads, NEW i \in 1..Len(held'[u]),
                        NEW j \in 1..Len(held'[u]), i < j
                 PROVE  Level[held'[u][j]] < Level[held'[u][i]]
      BY DEF StackDescends
    <2>1. CASE u # t
      BY <1>4, <2>1 DEF StackDescends
    <2>2. CASE u = t /\ j = n + 1
      BY <1>1, <1>3, <1>7, <2>2
    <2>3. CASE u = t /\ j # n + 1
      <3>1. i \in 1..n /\ j \in 1..n
        BY <1>1, <1>3, <2>3
      <3> QED
        BY <1>3, <2>3, <3>1 DEF StackDescends
    <2> QED
      BY <2>1, <2>2, <2>3
  <1>13. \A u \in Threads \ {t} : Held(u)' = Held(u)
    BY <1>4 DEF Held
  <1>14. m \in Held(t)' /\ \A x \in Held(t) : x \in Held(t)'
    <2>1. Held(t)' = {held'[t][i] : i \in 1..(n + 1)}
      BY <1>3 DEF Held
    <2>2. \A i \in 1..n : held[t][i] \in Held(t)'
      BY <1>1, <1>3, <2>1
    <2>3. m \in Held(t)'
      BY <1>1, <1>3, <2>1
    <2> QED
      BY <2>2, <2>3 DEF Held
  <1>15. InProgress'
    BY <1>4, <1>5, <1>13 DEF InProgress
  <1>16. OwnersKnown'
    <2> SUFFICES ASSUME NEW x \in Mutexes, NEW u \in Threads, owner[x] = u
                 PROVE  x \in Held(u)' \/ Handles(u, x)'
      BY <1>5 DEF OwnersKnown
    <2>1. x \in Held(u) \/ Handles(u, x)
      BY DEF OwnersKnown
    <2> QED
      BY <1>4, <1>13, <1>14, <2>1 DEF Handles
  <1> QED
    BY <1>2, <1>10, <1>11, <1>12, <1>15, <1>16

LEMMA Predecessor ==
  ASSUME NEW k \in Nat, k > 0
  PROVE  k - 1 = 0 \/ k - 1 \in 1..(k - 1)
  OBVIOUS

\* Popping the top of one's own stack restores what the mutex below it left.
LEMMA StackRestore ==
  ASSUME LIFO, StackInv, NEW t \in Threads, NEW n, n = Len(held[t]),
         NEW m, m = held[t][n], Restore(t)
  PROVE  StackInv'
  <1>1. /\ held[t] \in Seq(Mutexes) /\ n \in Nat /\ n > 0 /\ n \in 1..n /\ pc[t] = "run"
    BY DEF Restore, TypeOK
  <1>2. /\ this' = [this EXCEPT ![t] = prev[m]] /\ want' = [want EXCEPT ![t] = m]
        /\ held' = [held EXCEPT ![t] = Without(@, n)]
        /\ pc' = [pc EXCEPT ![t] = "unlock"] /\ UNCHANGED <<owner, prev>>
    BY DEF Restore
  <1>3. m \in Mutexes /\ m \in Held(t) /\ owner[m] = t /\ Level[m] \in Nat
    BY <1>1, StackElement
  <1>4. /\ Without(held[t], n) \in Seq(Mutexes)
        /\ Len(Without(held[t], n)) = n - 1
        /\ \A i \in 1..(n - 1) : Without(held[t], n)[i] = held[t][i]
    BY <1>1 DEF Without
  <1>5. TypeOK'
    BY <1>2, <1>3, <1>4 DEF TypeOK
  <1>6. Len(held'[t]) = n - 1 /\ \A i \in 1..(n - 1) : held'[t][i] = held[t][i]
    BY <1>2, <1>4 DEF TypeOK
  <1>7. \A u \in Threads \ {t} : /\ held'[u] = held[u] /\ this'[u] = this[u]
                                 /\ pc'[u] = pc[u] /\ want'[u] = want[u]
    BY <1>2 DEF TypeOK
  <1>8. this'[t] = prev[m] /\ pc'[t] = "unlock" /\ want'[t] = m
    BY <1>2 DEF TypeOK
  <1>9. prev[m] = Below(t, n - 1)
    BY <1>1 DEF SavedLevels
  <1>10. TopOfStack'
    <2> SUFFICES ASSUME NEW u \in Threads PROVE this'[u] = Below(u, Len(held[u]))'
      BY DEF TopOfStack
    <2>1. CASE u # t
      BY <1>7, <2>1 DEF TopOfStack, Below
    <2>2. CASE u = t
      <3>1. n - 1 = 0 \/ n - 1 \in 1..(n - 1)
        BY <1>1, Predecessor
      <3>2. Below(t, Len(held[t]))' = IF n - 1 = 0 THEN Top ELSE Level[held'[t][n - 1]]
        BY <1>6 DEF Below
      <3>3. Below(t, n - 1) = IF n - 1 = 0 THEN Top ELSE Level[held[t][n - 1]]
        BY DEF Below
      <3> QED
        BY <1>6, <1>8, <1>9, <2>2, <3>1, <3>2, <3>3
    <2> QED
      BY <2>1, <2>2
  <1>11. SavedLevels'
    <2> SUFFICES ASSUME NEW u \in Threads, NEW i \in 1..Len(held'[u])
                 PROVE  prev'[held'[u][i]] = Below(u, i - 1)' /\ owner'[held'[u][i]] = u
      BY DEF SavedLevels
    <2>1. CASE u # t
      <3>1. prev[held[u][i]] = Below(u, i - 1) /\ owner[held[u][i]] = u
        BY <1>7, <2>1 DEF SavedLevels
      <3>2. Below(u, i - 1)' = Below(u, i - 1)
        BY <1>7, <2>1 DEF Below
      <3> QED
        BY <1>2, <1>7, <2>1, <3>1, <3>2
    <2>2. CASE u = t
      <3>1. i \in 1..(n - 1) /\ i \in 1..n
        BY <1>1, <1>6, <2>2
      <3>2. prev[held[t][i]] = Below(t, i - 1) /\ owner[held[t][i]] = t
        BY <3>1 DEF SavedLevels
      <3>3. Below(t, i - 1)' = Below(t, i - 1)
        BY <1>1, <1>6, <3>1 DEF Below
      <3> QED
        BY <1>2, <1>6, <2>2, <3>1, <3>2, <3>3
    <2> QED
      BY <2>1, <2>2
  <1>12. StackDescends'
    <2> SUFFICES ASSUME NEW u \in Threads, NEW i \in 1..Len(held'[u]),
                        NEW j \in 1..Len(held'[u]), i < j
                 PROVE  Level[held'[u][j]] < Level[held'[u][i]]
      BY DEF StackDescends
    <2>1. CASE u # t
      BY <1>7, <2>1 DEF StackDescends
    <2>2. CASE u = t
      <3>1. i \in 1..n /\ j \in 1..n /\ held'[t][i] = held[t][i] /\ held'[t][j] = held[t][j]
        BY <1>1, <1>6, <2>2
      <3> QED
        BY <2>2, <3>1 DEF StackDescends
    <2> QED
      BY <2>1, <2>2
  <1>13. \A u \in Threads \ {t} : Held(u)' = Held(u)
    BY <1>7 DEF Held
  <1>14. Held(t)' = {held[t][i] : i \in 1..(n - 1)}
    BY <1>6 DEF Held
  <1>15. m \notin Held(t)'
    <2> SUFFICES ASSUME NEW i \in 1..(n - 1), held[t][i] = m PROVE FALSE
      BY <1>14
    <2>1. i \in 1..n /\ i < n
      BY <1>1
    <2>2. Level[m] < Level[held[t][i]]
      BY <1>1, <2>1 DEF StackDescends
    <2> QED
      BY <1>3, <2>2
  <1>16. \A x \in Held(t) : x = m \/ x \in Held(t)'
    <2> SUFFICES ASSUME NEW i \in 1..n PROVE held[t][i] = m \/ held[t][i] \in Held(t)'
      BY DEF Held
    <2>1. i = n \/ i \in 1..(n - 1)
      BY <1>1
    <2> QED
      BY <1>14, <2>1
  <1>17. InProgress'
    BY <1>2, <1>3, <1>7, <1>8, <1>13, <1>15 DEF InProgress
  <1>18. OwnersKnown'
    <2> SUFFICES ASSUME NEW x \in Mutexes, NEW u \in Threads, owner[x] = u
                 PROVE  x \in Held(u)' \/ Handles(u, x)'
      BY <1>2 DEF OwnersKnown
    <2>1. x \in Held(u) \/ Handles(u, x)
      BY DEF OwnersKnown
    <2>2. CASE u # t
      BY <1>7, <1>13, <2>1, <2>2 DEF Handles
    <2>3. CASE u = t
      BY <1>1, <1>8, <1>16, <2>1, <2>3 DEF Handles
    <2> QED
      BY <2>2, <2>3
  <1> QED
    BY <1>5, <1>10, <1>11, <1>12, <1>17, <1>18

LEMMA StackUnlock ==
  ASSUME StackInv, NEW t \in Threads, NEW m, m = want[t], Unlock(t)
  PROVE  StackInv'
  <1>1. TypeOK' /\ UNCHANGED <<prev, this, held>> /\ pc[t] = "unlock" /\ m \in Mutexes
    BY DEF Unlock, InProgress, TypeOK
  <1>2. \A u \in Threads \ {t} : pc'[u] = pc[u] /\ want'[u] = want[u]
    BY DEF Unlock, TypeOK
  <1>3. pc'[t] = "run" /\ owner'[m] = None /\ owner[m] = t /\ m \notin Held(t)
    BY <1>1 DEF Unlock, InProgress, TypeOK
  <1>4. \A x \in Mutexes : x # m => owner'[x] = owner[x]
    BY DEF Unlock, TypeOK
  <1>5. \A u \in Threads : \A i \in 1..Len(held[u]) : owner'[held[u][i]] = u
    BY <1>3, <1>4, StackElement
  <1>6. /\ TopOfStack' /\ SavedLevels' /\ StackDescends'
        /\ \A u \in Threads : Held(u)' = Held(u)
    BY <1>1, <1>5, KeepStacks
  <1>7. InProgress'
    BY <1>1, <1>2, <1>3, <1>4, <1>6 DEF InProgress
  <1>8. OwnersKnown'
    <2> SUFFICES ASSUME NEW x \in Mutexes, NEW u \in Threads, owner'[x] = u
                 PROVE  x \in Held(u)' \/ Handles(u, x)'
      BY DEF OwnersKnown
    <2>1. x # m /\ owner[x] = u
      BY <1>3, <1>4
    <2>2. x \in Held(u) \/ Handles(u, x)
      BY <2>1 DEF OwnersKnown
    <2> QED
      BY <1>2, <1>6, <2>1, <2>2 DEF Handles
  <1> QED
    BY <1>1, <1>6, <1>7, <1>8

LEMMA StackStep == LIFO /\ StackInv /\ [Next]_vars => StackInv'
  <1> SUFFICES ASSUME LIFO, StackInv, [Next]_vars PROVE StackInv'
    OBVIOUS
  <1>1. ASSUME NEW t \in Threads, Step(t) PROVE StackInv'
    <2>1. ASSUME NEW m \in Mutexes, BeginLock(t, m) PROVE StackInv'
      BY <2>1, StackBeginLock
    <2>2. ASSUME NEW m \in Mutexes, TryLock(t, m) PROVE StackInv'
      <3>1. Level[m] < this[t]
        BY <2>2 DEF TryLock, Permitted, TypeOK
      <3> QED
        BY <2>2, <3>1, StackAcquire DEF TryLock
    <2>3. CASE Acquire(t)
      <3>1. want[t] \in Mutexes /\ Level[want[t]] < this[t] /\ pc[t] = "lock"
        BY <2>3 DEF Acquire, InProgress
      <3>2. want' = [want EXCEPT ![t] = want[t]]
        BY <2>3 DEF Acquire, TypeOK
      <3> QED
        BY <2>3, <3>1, <3>2, StackAcquire DEF Acquire
    <2> QED
      BY <1>1, <2>1, <2>2, <2>3, StackUpdate, StackRestore, StackUnlock DEF Step
  <1>2. CASE UNCHANGED vars
    <2>1. UNCHANGED <<owner, prev, this, pc, want, held>>
      BY <1>2 DEF vars
    <2>2. /\ TopOfStack' /\ SavedLevels' /\ StackDescends'
          /\ \A u \in Threads : Held(u)' = Held(u)
      BY <2>1, KeepStacks, StackElement
    <2> QED
      BY <2>1, <2>2 DEF TypeOK, InProgress, OwnersKnown, Handles
  <1> QED
    BY <1>1, <1>2 DEF Next

\* In LIFO use the thread's level and the saved levels mirror its stack of locks.
THEOREM StackInvariant == LIFO => (Spec => []StackInv)
<1> SUFFICES ASSUME LIFO PROVE Spec => []StackInv
  OBVIOUS
<1>1. StackInv /\ [Next]_vars => StackInv'
  BY StackStep
<1> HIDE DEF StackInv
<1> QED
  BY StackInit, <1>1, PTL DEF Spec

\* The rule of the file's comment, for any levels: no thread locks a mutex while
\* it holds one of the same or a lower layer.
THEOREM LayersAreRespected == LIFO => (Spec => []LayersRespected)
<1> SUFFICES ASSUME LIFO PROVE Spec => []LayersRespected
  OBVIOUS
<1>1. StackInv => LayersRespected
  <2> SUFFICES ASSUME StackInv, NEW t \in Threads, pc[t] \in {"lock", "update"},
                      NEW m \in Held(t)
               PROVE  Level[want[t]] < Level[m]
    BY DEF LayersRespected
  <2>1. want[t] \in Mutexes /\ Level[want[t]] < this[t] /\ this[t] \in Nat
    BY DEF InProgress, TypeOK
  <2> QED
    BY <2>1, HeldLevel
<1> HIDE DEF StackInv
<1> QED
  BY StackInvariant, <1>1, PTL

LEMMA InvDescends == StackInv => WaitsDescend
  <1> SUFFICES ASSUME StackInv, NEW t \in Threads, NEW u \in Threads,
                      WaitsFor(t, u), pc[u] = "lock"
               PROVE  Level[want[u]] < Level[want[t]]
    BY DEF WaitsDescend
  <1>1. want[t] \in Mutexes /\ owner[want[t]] = u
    BY DEF WaitsFor, InProgress
  <1>2. want[t] \in Held(u)
    BY <1>1 DEF OwnersKnown, Handles
  <1>3. want[u] \in Mutexes /\ Level[want[u]] < this[u] /\ this[u] \in Nat
    BY DEF InProgress, TypeOK
  <1> QED
    BY <1>2, <1>3, HeldLevel

\* Nobody waits in a cycle, however many threads take part: of the threads in
\* one, the one that wants the lowest mutex would have to wait for a thread that
\* wants a lower one.
THEOREM HierarchyPreventsDeadlock == LIFO => (Spec => []NoDeadlock)
<1> SUFFICES ASSUME LIFO PROVE Spec => []NoDeadlock
  OBVIOUS
<1>1. StackInv => NoDeadlock
  <2> SUFFICES ASSUME StackInv, NEW S \in SUBSET Threads,
                      \A t \in S : \E u \in S : WaitsFor(t, u), S # {}
               PROVE  FALSE
    BY DEF NoDeadlock
  <2> DEFINE Wanted == {Level[want[t]] : t \in S}
  <2>1. \A t \in S : pc[t] = "lock" /\ want[t] \in Mutexes /\ Level[want[t]] \in Nat
    BY DEF WaitsFor, InProgress
  <2>2. Wanted \subseteq Nat /\ Wanted # {}
    BY <2>1
  <2>3. PICK low \in Wanted : \A n \in Wanted : ~(<<n, low>> \in OpToRel(<, Nat))
    <3> HIDE DEF Wanted
    <3> QED
      BY <2>2, WFMin, NatLessThanWellFounded
  <2>4. PICK t \in S : low = Level[want[t]]
    OBVIOUS
  <2>5. PICK u \in S : WaitsFor(t, u)
    OBVIOUS
  <2>6. Level[want[u]] < Level[want[t]] /\ Level[want[u]] \in Wanted
    BY <2>1, <2>5, InvDescends DEF WaitsDescend
  <2>7. <<Level[want[u]], low>> \in OpToRel(<, Nat)
    BY <2>1, <2>4, <2>6 DEF OpToRel
  <2> QED
    BY <2>3, <2>6, <2>7
<1> HIDE DEF StackInv
<1> QED
  BY StackInvariant, <1>1, PTL
=============================================================================
