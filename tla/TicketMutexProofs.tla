------------------------- MODULE TicketMutexProofs -------------------------
(***************************************************************************)
(* Theorems about TicketMutex for any set of threads, any number of        *)
(* tickets and both classes.  TicketInv is the inductive invariant; what   *)
(* it says beyond types is about counters that do not wrap, and mutual     *)
(* exclusion and the order of entry follow from it for these.  CircularInv *)
(* gives mutual exclusion for counters that wrap.                          *)
(***************************************************************************)
EXTENDS TicketMutex, FiniteSetTheorems, TLAPS

LEMMA SuccWide == ASSUME modulus = 0, NEW n \in Nat
                  PROVE  Succ(n) = n + 1
  BY DEF Succ

LEMMA InitTicketInv == Init => TicketInv
  BY DEF Init, TicketInv, Ordered, TypeOK, PC, Outstanding, Waiting, Holders

\* A thread that draws a ticket gets one that nobody has: the others are below
\* next.
LEMMA DrawPreserves ==
  ASSUME modulus = 0, TicketInv, NEW t \in Threads, DrawTicket(t)
  PROVE  TicketInv'
  <1> USE DEF TicketInv, Ordered, TypeOK, lock
  <1>1. next' = next + 1
    BY SuccWide DEF DrawTicket
  <1>2. TypeOK'
    BY <1>1 DEF DrawTicket, Goto, PC
  <1>3. /\ Outstanding' = Outstanding \cup {t}
        /\ Holders' = Holders
        /\ t \notin Outstanding
    BY DEF DrawTicket, Goto, Outstanding, Waiting, Holders, PC
  <1>4. my'[t] = next /\ \A u \in Threads \ {t} : my'[u] = my[u]
    BY DEF DrawTicket
  <1>5. serving' = serving /\ now' = now
    BY DEF DrawTicket
  <1>6. \A u \in Outstanding' : serving' <= my'[u] /\ my'[u] < next'
    BY <1>1, <1>3, <1>4, <1>5 DEF Outstanding, Waiting, Holders
  <1>7. \A u, v \in Outstanding' : my'[u] = my'[v] => u = v
    BY <1>3, <1>4 DEF Outstanding, Waiting, Holders
  <1>8. \A u \in Holders' : my'[u] = serving'
    BY <1>3, <1>4, <1>5 DEF Outstanding, Waiting, Holders
  <1>9. \A u \in Threads : pc'[u] = "try" => now'[u] <= serving'
    BY <1>5 DEF DrawTicket, Goto
  <1> QED
    BY <1>1, <1>2, <1>5, <1>6, <1>7, <1>8, <1>9

\* Going from the loop into the critical section, or around the loop.
LEMMA LockStepPreserves ==
  ASSUME modulus = 0, TicketInv, NEW t \in Threads, LockStep(t)
  PROVE  TicketInv'
  <1> USE DEF TicketInv, Ordered, TypeOK, lock
  <1>1. CASE Enter(t)
    <2>1. TypeOK'
      BY <1>1 DEF Enter, Goto, PC
    <2>2. Outstanding' = Outstanding /\ Holders' = Holders \cup {t}
      BY <1>1 DEF Enter, Goto, Outstanding, Waiting, Holders, PC
    <2>3. UNCHANGED <<next, serving, my, now>> /\ my[t] = serving
      BY <1>1 DEF Enter
    <2>4. \A u \in Threads : pc'[u] = "try" => now'[u] <= serving'
      BY <1>1 DEF Enter, Goto
    <2> QED
      BY <2>1, <2>2, <2>3, <2>4
  <1>2. CASE LoadOther(t) \/ Wait(t)
    <2>1. TypeOK'
      BY <1>2 DEF LoadOther, Wait, Goto, PC
    <2>2. Outstanding' = Outstanding /\ Holders' = Holders
      BY <1>2 DEF LoadOther, Wait, Goto, Outstanding, Waiting, Holders, PC
    <2>3. UNCHANGED <<next, serving, my>>
      BY <1>2 DEF LoadOther, Wait
    <2>4. \A u \in Threads : pc'[u] = "try" => now'[u] <= serving'
      BY <1>2 DEF LoadOther, Wait, Goto
    <2> QED
      BY <2>1, <2>2, <2>3, <2>4
  <1>3. CASE Spin(t)
    BY <1>3 DEF Spin, vars, Outstanding, Waiting, Holders
  <1> QED
    BY <1>1, <1>2, <1>3 DEF LockStep

\* The holder has the ticket that is served; the other tickets lie above it, so
\* they still do when the counter advances.
LEMMA UnlockPreserves ==
  ASSUME modulus = 0, TicketInv, NEW t \in Threads, UnlockStep(t)
  PROVE  TicketInv'
  <1> USE DEF TicketInv, Ordered, TypeOK, lock
  <1>1. CASE Unlock(t)
    <2>1. serving' = serving + 1 /\ UNCHANGED <<next, my, now>>
      BY <1>1, SuccWide DEF Unlock
    <2>2. TypeOK'
      BY <1>1, <2>1 DEF Unlock, Goto, PC
    <2>3. t \in Holders /\ Outstanding' = Outstanding \ {t} /\ Holders' = Holders \ {t}
      BY <1>1 DEF Unlock, Goto, Outstanding, Waiting, Holders, PC
    <2>4. my[t] = serving /\ serving < next
      BY <2>3 DEF Outstanding
    <2>5. \A u \in Outstanding' : serving' <= my'[u] /\ my'[u] < next'
      <3> TAKE u \in Outstanding'
      <3>1. u \in Outstanding /\ u # t /\ t \in Outstanding
        BY <2>3 DEF Outstanding
      <3>2. my[u] # my[t] /\ serving <= my[u] /\ my[u] < next /\ my[u] \in Nat
        BY <3>1 DEF Outstanding, Waiting, Holders
      <3> QED
        BY <2>1, <2>4, <3>2
    <2>6. \A u, v \in Outstanding' : my'[u] = my'[v] => u = v
      BY <2>1, <2>3
    <2>7. Holders' = {}
      <3> SUFFICES ASSUME NEW u \in Holders, u # t PROVE FALSE
        BY <2>3
      <3> QED
        BY <2>3, <2>4 DEF Outstanding
    <2>8. \A u \in Threads : pc'[u] = "try" => now'[u] <= serving'
      BY <1>1, <2>1 DEF Unlock, Goto
    <2> QED
      BY <2>1, <2>2, <2>4, <2>5, <2>6, <2>7, <2>8
  <1>2. CASE NotifyAll(t)
    <2>1. UNCHANGED <<next, serving, my, now>>
      BY <1>2 DEF NotifyAll
    <2>2. TypeOK'
      BY <1>2 DEF NotifyAll, PC
    <2>3. Outstanding' = Outstanding /\ Holders' = Holders
      BY <1>2 DEF NotifyAll, Outstanding, Waiting, Holders, PC
    <2>4. \A u \in Threads : pc'[u] = "try" => now'[u] <= serving'
      BY <1>2 DEF NotifyAll
    <2> QED
      BY <2>1, <2>2, <2>3, <2>4
  <1> QED
    BY <1>1, <1>2 DEF UnlockStep

\* A compare_exchange that succeeds finds next where serving was when it was
\* loaded.  Serving is not below that and not above next, so the two counters
\* are equal and no ticket is outstanding.
LEMMA TryEntersFree ==
  ASSUME modulus = 0, TicketInv, NEW t \in Threads, pc[t] = "try", next = now[t]
  PROVE  serving = next /\ Outstanding = {}
  <1>1. now[t] <= serving /\ serving <= next /\ serving \in Nat /\ next \in Nat
    BY DEF TicketInv, Ordered, TypeOK
  <1>2. serving = next
    BY <1>1
  <1> SUFFICES ASSUME NEW u \in Outstanding PROVE FALSE
    BY <1>2
  <1>3. serving <= my[u] /\ my[u] < next /\ my[u] \in Nat
    BY DEF TicketInv, Ordered, TypeOK, Outstanding, Waiting, Holders
  <1> QED
    BY <1>1, <1>2, <1>3

LEMMA TryPreserves ==
  ASSUME modulus = 0, TicketInv, NEW t \in Threads, TryLoad(t) \/ TryCas(t)
  PROVE  TicketInv'
  <1> USE DEF TicketInv, Ordered, TypeOK, lock
  <1>1. CASE TryLoad(t)
    <2>1. TypeOK'
      BY <1>1 DEF TryLoad, Goto, PC
    <2>2. Outstanding' = Outstanding /\ Holders' = Holders
      BY <1>1 DEF TryLoad, Goto, Outstanding, Waiting, Holders, PC
    <2>3. UNCHANGED <<next, serving, my>>
      BY <1>1 DEF TryLoad
    <2>4. \A u \in Threads : pc'[u] = "try" => now'[u] <= serving'
      BY <1>1 DEF TryLoad, Goto
    <2> QED
      BY <2>1, <2>2, <2>3, <2>4
  <1>2. CASE TryCas(t) /\ next = now[t]
    <2>1. next' = next + 1 /\ UNCHANGED <<serving, now>>
      BY <1>2, SuccWide DEF TryCas
    <2>2. TypeOK'
      BY <1>2, <2>1 DEF TryCas, Goto, PC
    <2>3. serving = next /\ Outstanding = {}
      BY <1>2, TryEntersFree DEF TryCas
    <2>4. Outstanding' = {t} /\ Holders' = {t}
      BY <1>2, <2>3 DEF TryCas, Goto, Outstanding, Waiting, Holders, PC
    <2>5. my'[t] = serving'
      BY <1>2, <2>3 DEF TryCas
    <2>6. \A u \in Threads : pc'[u] = "try" => now'[u] <= serving'
      BY <1>2, <2>1 DEF TryCas, Goto
    <2> QED
      BY <2>1, <2>2, <2>3, <2>4, <2>5, <2>6
  <1>3. CASE TryCas(t) /\ next # now[t]
    <2>1. UNCHANGED <<next, serving, my, now>>
      BY <1>3 DEF TryCas
    <2>2. TypeOK'
      BY <1>3 DEF TryCas, Goto, PC
    <2>3. Outstanding' = Outstanding /\ Holders' = Holders
      BY <1>3 DEF TryCas, Goto, Outstanding, Waiting, Holders, PC
    <2>4. \A u \in Threads : pc'[u] = "try" => now'[u] <= serving'
      BY <1>3 DEF TryCas, Goto
    <2> QED
      BY <2>1, <2>2, <2>3, <2>4
  <1> QED
    BY <1>1, <1>2, <1>3

\* Whatever the width of the counters, they stay numbers.
LEMMA TypePreserved ==
  ASSUME TypeOK, [Next]_vars
  PROVE  TypeOK' /\ modulus' = modulus
  <1> USE DEF TypeOK, lock
  <1>1. \A n \in Nat : Succ(n) \in Nat
    BY DEF Succ
  <1>2. CASE UNCHANGED vars
    BY <1>2 DEF vars
  <1>3. ASSUME NEW t \in Threads, DrawTicket(t) \/ UnlockStep(t)
        PROVE  TypeOK' /\ modulus' = modulus
    BY <1>1, <1>3 DEF DrawTicket, UnlockStep, Unlock, NotifyAll, Goto, PC
  <1>4. ASSUME NEW t \in Threads, LockStep(t)
        PROVE  TypeOK' /\ modulus' = modulus
    BY <1>4 DEF LockStep, Enter, LoadOther, Wait, Spin, Goto, PC, vars
  <1>5. ASSUME NEW t \in Threads, TryLoad(t) \/ TryCas(t)
        PROVE  TypeOK' /\ modulus' = modulus
    BY <1>1, <1>5 DEF TryLoad, TryCas, Goto, PC
  <1> QED
    BY <1>2, <1>3, <1>4, <1>5 DEF Next

\* TicketInv holds in every reachable state: with counters that do not wrap,
\* outstanding tickets are distinct, lie between serving_ and next_ticket_, and
\* the holder has the one served.
THEOREM TicketsOrdered == Spec => []TicketInv
<1>1. TicketInv /\ [Next]_vars => TicketInv'
  <2> SUFFICES ASSUME TicketInv, [Next]_vars PROVE TicketInv'
    OBVIOUS
  <2>1. CASE modulus = 0 /\ Next
    BY <2>1, DrawPreserves, LockStepPreserves, UnlockPreserves, TryPreserves DEF Next
  <2>2. CASE modulus # 0
    BY <2>2, TypePreserved DEF TicketInv
  <2>3. CASE UNCHANGED vars
    BY <2>3 DEF vars, lock, TicketInv, Ordered, TypeOK, Outstanding, Waiting, Holders
  <2> QED
    BY <2>1, <2>2, <2>3
<1> QED
  BY InitTicketInv, <1>1, PTL DEF Spec

-----------------------------------------------------------------------------
(* Counters that wrap.  With no more threads than ticket values the tickets *)
(* drawn and not yet returned are the ones from the one served on, round    *)
(* the circle, so no two threads have the same.                             *)

\* Counters that wrap have at least as many values as there are threads.
WideEnough == \A m \in Moduli : \/ m = 0
                                \/ IsFiniteSet(Threads) /\ Cardinality(Threads) <= m

\* The ticket k after the one that is served.
Following(k) == IF serving + k >= modulus THEN serving + k - modulus ELSE serving + k

Circular ==
    /\ serving < modulus /\ next < modulus
    /\ next = Following(Cardinality(Outstanding))
    /\ \A t \in Outstanding : my[t] < modulus /\ Turn(t) < Cardinality(Outstanding)
    /\ \A t, u \in Outstanding : my[t] = my[u] => t = u
    /\ \A t \in Holders : my[t] = serving
    /\ \A t \in Threads : pc[t] # "try"

CircularInv == TypeOK /\ (modulus # 0 => Circular)

\* Sizes of sets of threads.
LEMMA ThreadSets ==
  ASSUME WideEnough, modulus \in Moduli, modulus # 0, NEW S \in SUBSET Threads
  PROVE  /\ Cardinality(S) \in Nat /\ Cardinality(S) <= modulus
         /\ \A t \in Threads \ S : /\ Cardinality(S \cup {t}) = Cardinality(S) + 1
                                   /\ Cardinality(S) < modulus
         /\ \A t \in S : Cardinality(S \ {t}) = Cardinality(S) - 1
  <1> USE WidthAssumption
  <1>1. /\ IsFiniteSet(Threads) /\ Cardinality(Threads) <= modulus /\ modulus \in Nat
        /\ Cardinality(Threads) \in Nat
    BY FS_CardinalityType DEF WideEnough
  <1>2. \A T \in SUBSET Threads : /\ IsFiniteSet(T) /\ Cardinality(T) \in Nat
                                  /\ Cardinality(T) <= Cardinality(Threads)
    BY <1>1, FS_Subset, FS_CardinalityType
  <1>3. \A t \in Threads \ S : Cardinality(S \cup {t}) = Cardinality(S) + 1
    BY <1>2, FS_AddElement
  <1>4. \A t \in Threads \ S : Cardinality(S) < modulus
    <2> TAKE t \in Threads \ S
    <2>1. S \cup {t} \in SUBSET Threads
      OBVIOUS
    <2>2. Cardinality(S \cup {t}) <= Cardinality(Threads)
      BY <1>2, <2>1
    <2>3. Cardinality(S) + 1 <= Cardinality(Threads)
      BY <1>3, <2>2
    <2> QED BY <1>1, <1>2, <2>3
  <1>5. \A t \in S : Cardinality(S \ {t}) = Cardinality(S) - 1
    BY <1>2, FS_RemoveElement
  <1>6. Cardinality(S) \in Nat /\ Cardinality(S) <= modulus
    BY <1>1, <1>2
  <1> QED
    BY <1>3, <1>4, <1>5, <1>6

LEMMA OutstandingThreads == Outstanding \in SUBSET Threads /\ Holders \subseteq Outstanding
  BY DEF Outstanding, Waiting, Holders

\* A new ticket is the one after all that are outstanding.
LEMMA DrawKeepsCircle ==
  ASSUME WideEnough, CircularInv, modulus # 0, NEW t \in Threads, DrawTicket(t)
  PROVE  Circular'
  <1> DEFINE c == Cardinality(Outstanding)
  <1>0. /\ TypeOK /\ Circular /\ modulus \in Nat /\ modulus > 0 /\ serving \in Nat
        /\ \A u \in Threads : my[u] \in Nat
    BY WidthAssumption DEF CircularInv, TypeOK
  <1>1. /\ next' = Succ(next) /\ my' = [my EXCEPT ![t] = next] /\ pc' = [pc EXCEPT ![t] = "check"]
        /\ pc[t] = "idle" /\ UNCHANGED <<modulus, serving>>
    BY DEF DrawTicket, Goto, lock
  <1>2. Outstanding' = Outstanding \cup {t} /\ t \notin Outstanding /\ Holders' = Holders
    BY <1>0, <1>1 DEF Outstanding, Waiting, Holders, TypeOK
  <1>3. Cardinality(Outstanding') = c + 1 /\ c \in Nat /\ c < modulus
    BY <1>0, <1>2, OutstandingThreads, ThreadSets DEF TypeOK
  <1> HIDE DEF c
  <1>4. next = Following(c) /\ serving < modulus
    BY <1>0 DEF Circular, c
  <1>5. next' < modulus /\ next' = Following(Cardinality(Outstanding))'
    BY <1>0, <1>1, <1>3, <1>4 DEF Following, Succ
  <1>6. my'[t] = next /\ next < modulus /\ Turn(t)' = c
    <2>1. my'[t] = next
      BY <1>0, <1>1 DEF TypeOK
    <2> QED BY <1>0, <1>1, <1>3, <1>4, <2>1 DEF Turn, Following
  <1>7. \A u \in Outstanding : /\ my'[u] = my[u] /\ Turn(u)' = Turn(u) /\ my[u] \in Nat
                               /\ my[u] < modulus /\ Turn(u) < c
    BY <1>0, <1>1, <1>2, OutstandingThreads DEF Turn, Circular, c, TypeOK
  <1>8. \A u \in Outstanding' : my'[u] < modulus /\ Turn(u)' < c + 1
    <2> SUFFICES ASSUME NEW u \in Outstanding' PROVE my'[u] < modulus /\ Turn(u)' < c + 1
      OBVIOUS
    <2>1. CASE u = t
      BY <1>3, <1>6, <2>1
    <2>2. CASE u \in Outstanding
      <3>1. Turn(u) \in Int
        BY <1>0, <1>7, <2>2 DEF Turn
      <3> QED BY <1>3, <1>7, <2>2, <3>1
    <2> QED BY <1>2, <2>1, <2>2
  <1>9. \A u \in Outstanding : my[u] # next
    <2> SUFFICES ASSUME NEW u \in Outstanding, my[u] = next PROVE FALSE
      OBVIOUS
    <2>1. Turn(u) = c
      BY <1>0, <1>3, <1>4 DEF Turn, Following
    <2> QED BY <1>3, <1>7, <2>1
  <1>10. \A u, v \in Outstanding' : my'[u] = my'[v] => u = v
    BY <1>0, <1>2, <1>6, <1>7, <1>9 DEF Circular
  <1>11. \A u \in Holders' : my'[u] = serving'
    BY <1>0, <1>1, <1>2, <1>7, OutstandingThreads DEF Circular
  <1>12. \A u \in Threads : pc'[u] # "try"
    BY <1>0, <1>1 DEF Circular, TypeOK
  <1> QED
    BY <1>0, <1>1, <1>3, <1>5, <1>8, <1>10, <1>11, <1>12 DEF Circular

\* The holder's ticket is the first on the circle: when the served one advances,
\* all others come one nearer.
LEMMA UnlockKeepsCircle ==
  ASSUME WideEnough, CircularInv, modulus # 0, NEW t \in Threads, Unlock(t)
  PROVE  Circular'
  <1> DEFINE c == Cardinality(Outstanding)
  <1>0. /\ TypeOK /\ Circular /\ modulus \in Nat /\ modulus > 0 /\ serving \in Nat
        /\ \A u \in Threads : my[u] \in Nat
    BY WidthAssumption DEF CircularInv, TypeOK
  <1>1. /\ serving' = Succ(serving) /\ pc[t] = "cs" /\ UNCHANGED <<modulus, next, my>>
        /\ pc' = [pc EXCEPT ![t] = IF blocking THEN "notify" ELSE "idle"]
    BY DEF Unlock, Goto, lock
  <1>2. Outstanding' = Outstanding \ {t} /\ t \in Outstanding /\ Holders' = Holders \ {t} /\ t \in Holders
    BY <1>0, <1>1 DEF Outstanding, Waiting, Holders, TypeOK
  <1>3. Cardinality(Outstanding') = c - 1 /\ c \in Nat /\ c <= modulus /\ c - 1 \in Nat
    <2>1. Outstanding' \in SUBSET Threads
      BY <1>2, OutstandingThreads
    <2>2. Cardinality(Outstanding') \in Nat
      BY <1>0, <2>1, ThreadSets DEF TypeOK
    <2> QED BY <1>0, <1>2, <2>2, OutstandingThreads, ThreadSets DEF TypeOK
  <1> HIDE DEF c
  <1>4. next = Following(c) /\ serving < modulus /\ next < modulus
    BY <1>0 DEF Circular, c
  <1>5. serving' < modulus /\ next' = Following(Cardinality(Outstanding))' /\ serving' \in Nat
    BY <1>0, <1>1, <1>3, <1>4 DEF Following, Succ
  <1>6. \A u \in Outstanding' : my[u] < modulus /\ my[u] # serving /\ Turn(u) < c /\ my[u] \in Nat
    <2> SUFFICES ASSUME NEW u \in Outstanding' 
                 PROVE  my[u] < modulus /\ my[u] # serving /\ Turn(u) < c /\ my[u] \in Nat
      OBVIOUS
    <2>1. u \in Outstanding /\ u # t /\ u \in Threads
      BY <1>2, OutstandingThreads
    <2>2. my[t] = serving /\ my[u] # my[t]
      BY <1>0, <1>2, <2>1 DEF Circular
    <2> QED BY <1>0, <2>1, <2>2 DEF Circular, c
  <1>7. \A u \in Outstanding' : my'[u] < modulus /\ Turn(u)' < c - 1
    <2> SUFFICES ASSUME NEW u \in Outstanding' PROVE my'[u] < modulus /\ Turn(u)' < c - 1
      OBVIOUS
    <2>1. my'[u] = my[u] /\ my[u] < modulus /\ my[u] # serving /\ Turn(u) < c /\ my[u] \in Nat
      BY <1>1, <1>6
    <2>2. Turn(u)' = Turn(u) - 1
      BY <1>0, <1>1, <1>4, <2>1 DEF Turn, Succ
    <2>3. Turn(u) \in Int
      BY <1>0, <2>1 DEF Turn
    <2> QED BY <1>3, <2>1, <2>2, <2>3
  <1>8. \A u, v \in Outstanding' : my'[u] = my'[v] => u = v
    BY <1>0, <1>1, <1>2 DEF Circular
  <1>9. Holders' = {}
    BY <1>0, <1>2, OutstandingThreads DEF Circular
  <1>10. \A u \in Threads : pc'[u] # "try"
    BY <1>0, <1>1 DEF Circular, TypeOK
  <1> QED
    BY <1>0, <1>1, <1>3, <1>4, <1>5, <1>7, <1>8, <1>9, <1>10 DEF Circular

\* The other steps move no ticket and no counter.
LEMMA OthersKeepCircle ==
  ASSUME CircularInv, modulus # 0, NEW t \in Threads,
         LockStep(t) \/ NotifyAll(t) \/ TryLoad(t) \/ TryCas(t)
  PROVE  Circular'
  <1>0. TypeOK /\ Circular /\ pc \in [Threads -> PC]
    BY DEF CircularInv, TypeOK
  <1>1. ~TryLoad(t) /\ ~TryCas(t)
    BY <1>0 DEF TryLoad, TryCas, Circular
  <1>2. UNCHANGED <<modulus, next, serving, my>>
    BY <1>1 DEF LockStep, Enter, LoadOther, Wait, Spin, NotifyAll, lock, vars
  <1>3. /\ Outstanding' = Outstanding
        /\ \A u \in Holders' : my[u] = serving
        /\ \A u \in Threads : pc'[u] # "try"
    <2>1. CASE NotifyAll(t)
      <3>1. Outstanding' = Outstanding /\ Holders' = Holders
        BY <1>0, <2>1 DEF NotifyAll, Outstanding, Waiting, Holders, PC
      <3> QED BY <1>0, <2>1, <3>1 DEF NotifyAll, Circular
    <2>2. CASE Enter(t)
      <3>1. Outstanding' = Outstanding /\ Holders' = Holders \cup {t} /\ my[t] = serving
        BY <1>0, <2>2 DEF Enter, Goto, Outstanding, Waiting, Holders, PC
      <3> QED BY <1>0, <2>2, <3>1 DEF Enter, Goto, Circular
    <2>3. CASE LoadOther(t) \/ Wait(t)
      <3>1. Outstanding' = Outstanding /\ Holders' = Holders
        BY <1>0, <2>3 DEF LoadOther, Wait, Goto, Outstanding, Waiting, Holders, PC
      <3> QED BY <1>0, <2>3, <3>1 DEF LoadOther, Wait, Goto, Circular
    <2>4. CASE Spin(t)
      BY <1>0, <2>4 DEF Spin, vars, Outstanding, Waiting, Holders, Circular
    <2> QED BY <1>1, <2>1, <2>2, <2>3, <2>4 DEF LockStep
  <1> QED
    BY <1>0, <1>2, <1>3 DEF Circular, Following, Turn

LEMMA CircularAlways == WideEnough => (Spec => []CircularInv)
<1> SUFFICES ASSUME WideEnough PROVE Spec => []CircularInv
  OBVIOUS
<1>1. Init => CircularInv
  <2> SUFFICES ASSUME Init, modulus # 0 PROVE Circular
    BY InitTicketInv DEF TicketInv, CircularInv
  <2>1. Outstanding = {} /\ Holders = {} /\ modulus \in Nat
    BY WidthAssumption DEF Init, Outstanding, Waiting, Holders
  <2>2. Cardinality(Outstanding) = 0
    BY <2>1, FS_EmptySet
  <2> QED
    BY <2>1, <2>2 DEF Init, Circular, Following
<1>2. CircularInv /\ [Next]_vars => CircularInv'
  <2> SUFFICES ASSUME CircularInv, [Next]_vars PROVE CircularInv'
    OBVIOUS
  <2>1. TypeOK' /\ modulus' = modulus
    BY TypePreserved DEF CircularInv
  <2> SUFFICES ASSUME modulus # 0 PROVE Circular'
    BY <2>1 DEF CircularInv
  <2>2. CASE UNCHANGED vars
    BY <2>2 DEF vars, lock, CircularInv, Circular, Following, Turn, Outstanding, Waiting, Holders
  <2> QED
    BY <2>2, DrawKeepsCircle, UnlockKeepsCircle, OthersKeepCircle DEF Next, UnlockStep
<1> QED
  BY <1>1, <1>2, PTL DEF Spec

\* At most one thread is between a return of lock or a successful try_lock and
\* unlock.  Counters that wrap need a value for each thread, and with them
\* try_lock, which loads a counter and compares it later, is not called.
THEOREM LockExcludes == WideEnough => (Spec => []MutualExclusion)
<1>1. TicketInv /\ CircularInv => MutualExclusion
  BY OutstandingThreads DEF TicketInv, Ordered, CircularInv, Circular, MutualExclusion
<1> QED
  BY TicketsOrdered, CircularAlways, <1>1, PTL
-----------------------------------------------------------------------------
(* Both locks, with counters of any width, are first in, first out.  The   *)
(* tickets map to turns, which steps of other threads move together.       *)

FairInv == TicketInv /\ CircularInv

\* Turns are numbers, the holder's is the first, and no two threads share one.
LEMMA TurnFacts ==
  ASSUME FairInv
  PROVE  /\ \A t \in Outstanding : t \in Threads /\ Turn(t) \in Nat
         /\ \A t \in Outstanding : my[t] = serving => Turn(t) = 0
         /\ \A t \in Holders : Turn(t) = 0
         /\ \A t, u \in Outstanding : Turn(t) = Turn(u) => t = u
  <1>0. /\ TypeOK /\ modulus \in Nat /\ serving \in Nat /\ \A t \in Threads : my[t] \in Nat
        /\ Holders \subseteq Outstanding /\ Outstanding \subseteq Threads
    BY WidthAssumption, OutstandingThreads DEF FairInv, TicketInv, TypeOK
  <1>1. \A t \in Outstanding : /\ modulus = 0 => serving <= my[t]
                               /\ modulus # 0 => my[t] < modulus /\ serving < modulus
    BY <1>0 DEF FairInv, TicketInv, Ordered, CircularInv, Circular
  <1>2. /\ \A t, u \in Outstanding : my[t] = my[u] => t = u
        /\ \A t \in Holders : my[t] = serving
    BY <1>0 DEF FairInv, TicketInv, Ordered, CircularInv, Circular
  <1>3. \A t \in Outstanding : Turn(t) \in Nat /\ (my[t] = serving <=> Turn(t) = 0)
    <2> SUFFICES ASSUME NEW t \in Outstanding
                 PROVE  Turn(t) \in Nat /\ (my[t] = serving <=> Turn(t) = 0)
      OBVIOUS
    <2>1. my[t] \in Nat
      BY <1>0
    <2> QED BY <1>0, <1>1, <2>1 DEF Turn
  <1>4. \A t, u \in Outstanding : Turn(t) = Turn(u) => my[t] = my[u]
    BY <1>0, <1>1 DEF Turn
  <1> QED
    BY <1>0, <1>2, <1>3, <1>4

\* A new ticket's turn is after all others.
LEMMA DrawTurn ==
  ASSUME WideEnough, FairInv, NEW t \in Threads, DrawTicket(t)
  PROVE  /\ Waiting' = Waiting \cup {t} /\ Holders' = Holders /\ t \notin Outstanding
         /\ Outstanding' = Outstanding \cup {t}
         /\ \A u \in Outstanding : Turn(u)' = Turn(u) /\ Turn(u) < Turn(t)'
  <1>0. /\ TypeOK /\ modulus \in Nat /\ serving \in Nat /\ next \in Nat
        /\ \A u \in Threads : my[u] \in Nat
    BY WidthAssumption DEF FairInv, TicketInv, TypeOK
  <1>1. /\ my' = [my EXCEPT ![t] = next] /\ pc' = [pc EXCEPT ![t] = "check"]
        /\ pc[t] = "idle" /\ UNCHANGED <<modulus, serving>>
    BY DEF DrawTicket, Goto, lock
  <1>2. /\ Waiting' = Waiting \cup {t} /\ Holders' = Holders /\ t \notin Outstanding
        /\ Outstanding' = Outstanding \cup {t}
    BY <1>0, <1>1 DEF Outstanding, Waiting, Holders, TypeOK
  <1>3. \A u \in Outstanding : my'[u] = my[u] /\ Turn(u)' = Turn(u) /\ Turn(u) \in Nat
    <2>1. \A u \in Outstanding : u \in Threads /\ u # t /\ Turn(u) \in Nat
      BY <1>2, TurnFacts
    <2>2. \A u \in Outstanding : my'[u] = my[u]
      BY <1>0, <1>1, <2>1 DEF TypeOK
    <2> QED BY <1>1, <2>1, <2>2 DEF Turn
  <1>4. my'[t] = next
    BY <1>0, <1>1 DEF TypeOK
  <1>5. CASE modulus = 0
    <2>1. \A u \in Outstanding : serving <= my[u] /\ my[u] < next /\ my[u] \in Nat
      BY <1>0, <1>5, OutstandingThreads DEF FairInv, TicketInv, Ordered
    <2>2. \A u \in Outstanding : Turn(u) < Turn(t)'
      BY <1>0, <1>1, <1>4, <2>1 DEF Turn
    <2> QED BY <1>2, <1>3, <2>2
  <1>6. CASE modulus # 0
    <2> DEFINE c == Cardinality(Outstanding)
    <2>1. c \in Nat /\ c < modulus
      BY <1>0, <1>2, <1>6, OutstandingThreads, ThreadSets DEF TypeOK
    <2>2. next = Following(c) /\ serving < modulus /\ \A u \in Outstanding : Turn(u) < c
      BY <1>6 DEF FairInv, CircularInv, Circular
    <2> HIDE DEF c
    <2>3. Turn(t)' = c
      BY <1>0, <1>1, <1>4, <2>1, <2>2 DEF Turn, Following
    <2> QED BY <1>2, <1>3, <2>2, <2>3
  <1> QED BY <1>5, <1>6

\* When the holder leaves, every other turn comes one nearer.
LEMMA UnlockTurn ==
  ASSUME FairInv, NEW t \in Threads, Unlock(t)
  PROVE  /\ t \in Holders /\ Holders' = Holders \ {t} /\ Waiting' = Waiting
         /\ Outstanding' = Outstanding \ {t}
         /\ \A u \in Outstanding \ {t} : Turn(u)' = Turn(u) - 1
  <1>0. /\ TypeOK /\ modulus \in Nat /\ serving \in Nat /\ \A u \in Threads : my[u] \in Nat
    BY WidthAssumption DEF FairInv, TicketInv, TypeOK
  <1>1. /\ serving' = Succ(serving) /\ pc[t] = "cs" /\ UNCHANGED <<modulus, my>>
        /\ pc' = [pc EXCEPT ![t] = IF blocking THEN "notify" ELSE "idle"]
    BY DEF Unlock, Goto, lock
  <1>2. /\ t \in Holders /\ Holders' = Holders \ {t} /\ Waiting' = Waiting
        /\ Outstanding' = Outstanding \ {t} /\ t \in Outstanding
    BY <1>0, <1>1 DEF Outstanding, Waiting, Holders, TypeOK
  <1>3. \A u \in Outstanding \ {t} : /\ my[u] \in Nat /\ my[u] # serving
                                     /\ modulus = 0 => serving <= my[u]
                                     /\ modulus # 0 => my[u] < modulus /\ serving < modulus
    <2> SUFFICES ASSUME NEW u \in Outstanding \ {t}
                 PROVE  /\ my[u] \in Nat /\ my[u] # serving
                        /\ modulus = 0 => serving <= my[u]
                        /\ modulus # 0 => my[u] < modulus /\ serving < modulus
      OBVIOUS
    <2>1. my[u] \in Nat
      BY <1>0, OutstandingThreads
    <2>2. my[u] # serving
      <3>1. Turn(t) = 0 /\ Turn(u) # Turn(t) /\ u \in Outstanding
        BY <1>2, TurnFacts
      <3> QED BY <3>1, TurnFacts
    <2> QED BY <1>0, <2>1, <2>2 DEF FairInv, TicketInv, Ordered, CircularInv, Circular
  <1>4. \A u \in Outstanding \ {t} : Turn(u)' = Turn(u) - 1
    BY <1>0, <1>1, <1>3 DEF Turn, Succ
  <1> QED BY <1>2, <1>4

\* Who is ahead of whom: nothing changes while turns keep their order.
LEMMA AheadKept ==
  ASSUME Outstanding' = Outstanding,
         \A u \in Outstanding : Turn(u)' = Turn(u)
  PROVE  Ahead' = Ahead
  <1>1. \A u \in Outstanding : {v \in Outstanding : Turn(v) < Turn(u)}'
                               = {v \in Outstanding : Turn(v) < Turn(u)}
    OBVIOUS
  <1> QED BY <1>1 DEF Ahead

\* fetch_add is where a thread asks.
LEMMA DrawAsks ==
  ASSUME WideEnough, FairInv, NEW t \in Threads, DrawTicket(t)
  PROVE  Fifo!Ask(t)
  <1>1. /\ Waiting' = Waiting \cup {t} /\ Holders' = Holders /\ t \notin Outstanding
        /\ Outstanding' = Outstanding \cup {t}
        /\ \A u \in Outstanding : Turn(u)' = Turn(u) /\ Turn(u) < Turn(t)'
    BY DrawTurn
  <1>2. \A u \in Outstanding : Turn(u) \in Nat /\ u \in Threads
    BY TurnFacts
  <1>3. Turn(t)' \in Int
    BY WidthAssumption DEF FairInv, TicketInv, TypeOK, DrawTicket, lock, Turn
  <1>4. Ahead'[t] = Outstanding
    BY <1>1, <1>2, <1>3 DEF Ahead
  <1>5. \A u \in Threads \ {t} : Ahead'[u] = Ahead[u]
    BY <1>1, <1>2, <1>3 DEF Ahead
  <1>6. Ahead' = [Ahead EXCEPT ![t] = Waiting \cup Holders]
    BY <1>4, <1>5 DEF Ahead, Outstanding
  <1> QED BY <1>1, <1>6 DEF Fifo!Ask, Outstanding

\* The loop of lock() ends for the one whose turn is the first.
LEMMA EnterInTurn ==
  ASSUME FairInv, NEW t \in Threads, Enter(t)
  PROVE  Fifo!Enter(t)
  <1>1. /\ t \in Waiting /\ Waiting' = Waiting \ {t} /\ Holders' = Holders \cup {t}
        /\ Outstanding' = Outstanding /\ my[t] = serving
    BY DEF Enter, Goto, Outstanding, Waiting, Holders, FairInv, TicketInv, TypeOK
  <1>2. \A u \in Outstanding : Turn(u)' = Turn(u)
    BY DEF Enter, lock, Turn
  <1>3. Ahead' = Ahead
    BY <1>1, <1>2, AheadKept
  <1>4. t \in Outstanding /\ Turn(t) = 0
    BY <1>1, TurnFacts DEF Outstanding
  <1>5. \A u \in Outstanding : Turn(u) \in Nat
    BY TurnFacts
  <1>6. Ahead[t] = {}
    BY <1>4, <1>5 DEF Ahead
  <1> QED BY <1>1, <1>3, <1>6 DEF Fifo!Enter

LEMMA UnlockLeaves ==
  ASSUME FairInv, NEW t \in Threads, Unlock(t)
  PROVE  Fifo!Leave(t)
  <1>1. /\ t \in Holders /\ Holders' = Holders \ {t} /\ Waiting' = Waiting
        /\ Outstanding' = Outstanding \ {t}
        /\ \A u \in Outstanding \ {t} : Turn(u)' = Turn(u) - 1
    BY UnlockTurn
  <1>2. \A u \in Outstanding : Turn(u) \in Nat
    BY TurnFacts
  <1>3. t \in Outstanding /\ Turn(t) = 0
    BY <1>1, TurnFacts DEF Outstanding
  <1>4. ASSUME NEW u \in Threads PROVE Ahead'[u] = Ahead[u] \ {t}
    <2>1. CASE u \in Outstanding \ {t}
      <3>1. \A v \in Outstanding \ {t} : Turn(v)' < Turn(u)' <=> Turn(v) < Turn(u)
        BY <1>1, <1>2, <2>1
      <3>2. {v \in Outstanding : Turn(v) < Turn(u)}' = {v \in Outstanding : Turn(v) < Turn(u)} \ {t}
        BY <1>1, <3>1
      <3> QED BY <1>1, <2>1, <3>2 DEF Ahead
    <2>2. CASE u = t
      <3>1. Ahead[t] = {}
        BY <1>2, <1>3 DEF Ahead
      <3> QED BY <1>1, <2>2, <3>1 DEF Ahead
    <2>3. CASE u \notin Outstanding
      BY <1>1, <2>3 DEF Ahead
    <2> QED BY <2>1, <2>2, <2>3
  <1>5. Ahead' = [u \in Threads |-> Ahead[u] \ {t}]
    BY <1>4 DEF Ahead
  <1> QED BY <1>1, <1>5 DEF Fifo!Leave

\* A compare_exchange that succeeds finds nobody with a ticket.
LEMMA TryTakesFree ==
  ASSUME FairInv, NEW t \in Threads, TryCas(t), next = now[t]
  PROVE  Fifo!TryEnter(t)
  <1>1. modulus = 0 /\ pc[t] = "try"
    BY DEF FairInv, CircularInv, Circular, TryCas
  <1>2. Outstanding = {}
    BY <1>1, TryEntersFree DEF FairInv
  <1>3. pc' = [pc EXCEPT ![t] = "cs"] /\ pc \in [Threads -> PC]
    BY DEF TryCas, Goto, FairInv, TicketInv, TypeOK
  <1>4. Waiting' = {} /\ Holders' = {t} /\ Outstanding' = {t}
    BY <1>2, <1>3 DEF Outstanding, Waiting, Holders
  <1>5. Turn(t)' \in Int
    BY WidthAssumption DEF FairInv, TicketInv, TypeOK, TryCas, lock, Turn
  <1>6. Ahead' = Ahead
    BY <1>2, <1>4, <1>5 DEF Ahead
  <1> QED BY <1>2, <1>4, <1>6 DEF Fifo!TryEnter, Outstanding

\* The other steps are no steps of the abstract lock.
LEMMA OthersStutter ==
  ASSUME FairInv, NEW t \in Threads,
         \/ LoadOther(t) \/ Wait(t) \/ Spin(t) \/ NotifyAll(t) \/ TryLoad(t)
         \/ TryCas(t) /\ next # now[t]
  PROVE  UNCHANGED Fifo!vars
  <1>1. UNCHANGED <<modulus, serving, my>> /\ pc \in [Threads -> PC]
    BY DEF LoadOther, Wait, Spin, NotifyAll, TryLoad, TryCas, lock, vars, FairInv, TicketInv, TypeOK
  <1>2. Waiting' = Waiting /\ Holders' = Holders
    BY <1>1 DEF LoadOther, Wait, Spin, NotifyAll, TryLoad, TryCas, Goto, vars, PC, Waiting, Holders
  <1>3. Outstanding' = Outstanding /\ \A u \in Outstanding : Turn(u)' = Turn(u)
    BY <1>1, <1>2 DEF Outstanding, Turn
  <1> QED BY <1>2, <1>3, AheadKept DEF Fifo!vars

\* Both ticket locks are first come, first served locks, whether their counters
\* wrap or not: lock() returns in the order of the tickets, and a successful
\* try_lock overtakes nobody.  Counters that wrap need a value for each thread.
THEOREM LockIsFifo == WideEnough => (Spec => ImplementsFifoLock)
<1> SUFFICES ASSUME WideEnough PROVE Spec => ImplementsFifoLock
  OBVIOUS
<1>1. Init => Fifo!Init
  BY DEF Init, Fifo!Init, Waiting, Holders, Outstanding, Ahead
<1>2. FairInv /\ [Next]_vars => [Fifo!Next]_(Fifo!vars)
  <2> SUFFICES ASSUME FairInv, [Next]_vars, ~UNCHANGED Fifo!vars PROVE Fifo!Next
    OBVIOUS
  <2>1. CASE UNCHANGED vars
    BY <2>1 DEF vars, lock, Fifo!vars, Waiting, Holders, Outstanding, Ahead, Turn
  <2>2. CASE Next
    <3>1. PICK t \in Threads : \/ DrawTicket(t) \/ LockStep(t) \/ UnlockStep(t)
                               \/ TryLoad(t) \/ TryCas(t)
      BY <2>2 DEF Next
    <3>2. Fifo!Ask(t) \/ Fifo!Enter(t) \/ Fifo!Leave(t) \/ Fifo!TryEnter(t)
      BY <3>1, DrawAsks, EnterInTurn, UnlockLeaves, TryTakesFree, OthersStutter
         DEF LockStep, UnlockStep
    <3> QED BY <3>2 DEF Fifo!Next
  <2> QED BY <2>1, <2>2
<1> QED
  BY <1>1, <1>2, TicketsOrdered, CircularAlways, PTL
     DEF Spec, ImplementsFifoLock, Fifo!Spec, FairInv
=============================================================================
