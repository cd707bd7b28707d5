----------------------- MODULE SemaphoreThreadPoolProofs -----------------------
(***************************************************************************)
(* Theorems about SemaphoreThreadPool, for any number of workers and       *)
(* clients and any program of tasks.                                       *)
(***************************************************************************)
EXTENDS SemaphoreThreadPool, FiniteSetTheorems, TLAPS

\* Sets of actors are finite.
LEMMA ActorSets ==
    ASSUME NEW S \in SUBSET Actors
    PROVE  IsFiniteSet(S) /\ Cardinality(S) \in Nat
<1>1. IsFiniteSet(Workers)
  BY NAssumption, FS_Interval DEF Workers
<1>2. IsFiniteSet(Actors)
  BY <1>1, ClientsAssumption, FS_Union DEF Actors
<1> QED BY <1>2, FS_Subset, FS_CardinalityType

\* One actor more, or one less.
LEMMA ActorAdd ==
    ASSUME NEW S \in SUBSET Actors, NEW a \in Actors, a \notin S
    PROVE  Cardinality(S \cup {a}) = Cardinality(S) + 1
BY ActorSets, FS_AddElement

LEMMA ActorRemove ==
    ASSUME NEW S \in SUBSET Actors, NEW a \in S
    PROVE  Cardinality(S \ {a}) = Cardinality(S) - 1 /\ Cardinality(S) > 0
<1>1. Cardinality(S \ {a}) = Cardinality(S) - 1
  BY ActorSets, FS_RemoveElement
<1>2. Cardinality(S \ {a}) \in Nat
  <2>1. S \ {a} \in SUBSET Actors
    OBVIOUS
  <2> QED BY <2>1, ActorSets
<1> QED BY <1>1, <1>2, ActorSets

\* With the loop variable of the destructor in its range the invariant is
\* inductive.
CoreInv == TypeOK /\ TokenPerTask /\ (owner # "gone" => idx <= N)

LEMMA CoreInit == Init => CoreInv
<1> SUFFICES ASSUME Init PROVE CoreInv
  OBVIOUS
<1> USE DEF Init
<1>1. TypeOK
  <2>1. todo \in [Actors -> Seq(Tasks)]
    BY ProgramAssumption
  <2>2. idx \in 1..(N + 1)
    BY NAssumption
  <2>3. stop \in [Workers -> BOOLEAN] /\ releaseDue \in [Actors -> BOOLEAN]
    OBVIOUS
  <2>4. /\ pc \in [Workers -> {"acquire", "check", "pop", "run", "exited"}]
        /\ cur \in [Workers -> Tasks \cup {NoTask}]
    OBVIOUS
  <2>5. result \in [Tasks -> {"none", "value", "exception", "rejected"}]
    OBVIOUS
  <2>6. sem \in Nat /\ tasks = <<>> /\ stopping \in BOOLEAN
    OBVIOUS
  <2>9. \A S : <<>> \in Seq(S)
    OBVIOUS
  <2>10. tasks \in Seq(Tasks)
    BY <2>6, <2>9
  <2>7. owner \in {"use", "request", "release", "members", "join", "gone"}
    OBVIOUS
  <2>8. ended \in {"no", "terminate", "ub"}
    OBVIOUS
  <2> QED BY <2>1, <2>2, <2>3, <2>4, <2>5, <2>6, <2>7, <2>8, <2>10 DEF TypeOK
<1>2. TokenPerTask
  <2>1. Holding = {} /\ Releasing = {}
    BY DEF Holding, Releasing
  <2> QED BY <2>1, FS_EmptySet DEF TokenPerTask
<1> QED BY <1>1, <1>2, NAssumption DEF CoreInv

\* Sizes in TokenPerTask are numbers.
LEMMA TokenTypes ==
    ASSUME TypeOK
    PROVE  /\ Holding \in SUBSET Actors /\ Releasing \in SUBSET Actors
           /\ Cardinality(Holding) \in Nat /\ Cardinality(Releasing) \in Nat
           /\ Len(tasks) \in Nat /\ sem \in Nat
<1>1. Holding \in SUBSET Actors /\ Releasing \in SUBSET Actors
  BY DEF Holding, Releasing, Actors
<1> QED BY <1>1, ActorSets DEF TypeOK

\* Submissions: a task and a token that is still to be released, then the token.
LEMMA SubmissionStep ==
    ASSUME CoreInv, NEW a \in Actors, Submission(a)
    PROVE  CoreInv'
<1> USE DEF CoreInv
<1>1. CASE Push(a)
  <2>1. /\ todo[a] \in Seq(Tasks) /\ todo[a] # <<>> /\ ~releaseDue[a]
        /\ tasks' = Append(tasks, Head(todo[a])) /\ todo' = [todo EXCEPT ![a] = Tail(todo[a])]
        /\ releaseDue' = [releaseDue EXCEPT ![a] = TRUE]
        /\ UNCHANGED <<sem, stopping, stop, pc, cur, result, owner, idx, ended>>
    BY <1>1 DEF Push, TypeOK
  <2>2. /\ Head(todo[a]) \in Tasks /\ Tail(todo[a]) \in Seq(Tasks)
        /\ tasks' \in Seq(Tasks) /\ Len(tasks') = Len(tasks) + 1
    BY <2>1 DEF TypeOK
  <2>3. TypeOK'
    BY <2>1, <2>2 DEF TypeOK
  <2>4. Releasing' = Releasing \cup {a} /\ a \notin Releasing /\ Holding' = Holding
    BY <2>1 DEF Releasing, Holding, TypeOK
  <2>5. Cardinality(Releasing') = Cardinality(Releasing) + 1
    BY <2>4, TokenTypes, ActorAdd
  <2>6. TokenPerTask'
    BY <2>1, <2>2, <2>4, <2>5, TokenTypes DEF TokenPerTask
  <2> QED BY <2>1, <2>3, <2>6
<1>2. CASE Release(a)
  <2>1. /\ releaseDue[a] /\ releaseDue' = [releaseDue EXCEPT ![a] = FALSE] /\ sem' = sem + 1
        /\ UNCHANGED <<tasks, stopping, stop, pc, cur, todo, result, owner, idx, ended>>
    BY <1>2 DEF Release
  <2>2. TypeOK'
    BY <2>1 DEF TypeOK
  <2>3. Releasing' = Releasing \ {a} /\ a \in Releasing /\ Holding' = Holding
    BY <2>1 DEF Releasing, Holding, TypeOK
  <2>4. Cardinality(Releasing') = Cardinality(Releasing) - 1
    BY <2>3, TokenTypes, ActorRemove
  <2>5. TokenPerTask'
    BY <2>1, <2>3, <2>4, TokenTypes DEF TokenPerTask
  <2> QED BY <2>1, <2>2, <2>5
<1> QED BY <1>1, <1>2 DEF Submission

\* A worker that holds a token proves the queue non-empty, while tokens match.
LEMMA HolderSeesTask ==
    ASSUME CoreInv, NEW w \in Holding, owner \in {"use", "request", "release"}
    PROVE  tasks # <<>>
<1>1. Cardinality(Holding) > 0
  BY TokenTypes, ActorRemove DEF CoreInv
<1>2. Len(tasks) > 0
  BY <1>1, TokenTypes DEF CoreInv, TokenPerTask
<1> QED BY <1>2

\* The steps that move a token: from the semaphore to a worker, and from the
\* worker away, together with the task it stands for.
LEMMA AcquireStep ==
    ASSUME CoreInv, NEW w \in Workers, Acquire(w)
    PROVE  CoreInv'
<1> USE DEF CoreInv
<1>1. /\ pc[w] = "acquire" /\ sem > 0 /\ sem' = sem - 1
      /\ pc' = [pc EXCEPT ![w] = "check"]
      /\ UNCHANGED <<tasks, stopping, stop, cur, todo, releaseDue, result, owner, idx, ended>>
  BY DEF Acquire
<1>2. TypeOK'
  BY <1>1 DEF TypeOK
<1>3. Holding' = Holding \cup {w} /\ w \notin Holding /\ Releasing' = Releasing
  BY <1>1 DEF Releasing, Holding, TypeOK
<1>4. Cardinality(Holding') = Cardinality(Holding) + 1
  BY <1>3, TokenTypes, ActorAdd DEF Actors
<1>5. TokenPerTask'
  BY <1>1, <1>3, <1>4, TokenTypes DEF TokenPerTask
<1> QED BY <1>1, <1>2, <1>5

LEMMA CheckStopStep ==
    ASSUME CoreInv, NEW w \in Workers, CheckStop(w)
    PROVE  CoreInv'
<1> USE DEF CoreInv
<1>1. /\ pc[w] = "check"
      /\ pc' = [pc EXCEPT ![w] = IF stop[w] /\ tasks = <<>> THEN "exited" ELSE "pop"]
      /\ UNCHANGED <<sem, tasks, stopping, stop, cur, todo, releaseDue, result, owner, idx, ended>>
  BY DEF CheckStop
<1>2. TypeOK'
  BY <1>1 DEF TypeOK
<1>3. TokenPerTask'
  <2> SUFFICES ASSUME owner \in {"use", "request", "release"}
               PROVE  Len(tasks) = sem + Cardinality(Holding') + Cardinality(Releasing')
    BY <1>1 DEF TokenPerTask
  <2>1. tasks # <<>>
    BY <1>1, HolderSeesTask DEF Holding
  <2>2. Holding' = Holding /\ Releasing' = Releasing
    BY <2>1, <1>1 DEF Releasing, Holding, TypeOK
  <2> QED BY <2>2 DEF TokenPerTask
<1> QED BY <1>1, <1>2, <1>3

LEMMA PopNothingStep ==
    ASSUME CoreInv, NEW w \in Workers, PopNothing(w)
    PROVE  CoreInv'
<1> USE DEF CoreInv
<1>1. /\ pc[w] = "pop" /\ tasks = <<>> /\ pc' = [pc EXCEPT ![w] = "acquire"]
      /\ UNCHANGED <<sem, tasks, stopping, stop, cur, todo, releaseDue, result, owner, idx, ended>>
  BY DEF PopNothing
<1>2. TypeOK'
  BY <1>1 DEF TypeOK
<1>3. TokenPerTask'
  BY <1>1, HolderSeesTask DEF TokenPerTask, Holding
<1> QED BY <1>1, <1>2, <1>3

LEMMA PopStep ==
    ASSUME CoreInv, NEW w \in Workers, Pop(w)
    PROVE  CoreInv'
<1> USE DEF CoreInv
<1>1. /\ pc[w] = "pop" /\ tasks # <<>> /\ pc' = [pc EXCEPT ![w] = "run"]
      /\ cur' = [cur EXCEPT ![w] = Head(tasks)] /\ tasks' = Tail(tasks)
      /\ todo' = [todo EXCEPT ![w] = Spawns[Head(tasks)]]
      /\ UNCHANGED <<sem, stopping, stop, releaseDue, result, owner, idx, ended>>
  BY DEF Pop
<1>2. /\ Head(tasks) \in Tasks /\ Tail(tasks) \in Seq(Tasks)
      /\ Len(Tail(tasks)) = Len(tasks) - 1
  BY <1>1 DEF TypeOK
<1>3. Spawns[Head(tasks)] \in Seq(Tasks)
  BY <1>2, ProgramAssumption
<1>4. TypeOK'
  BY <1>1, <1>2, <1>3 DEF TypeOK
<1>5. Holding' = Holding \ {w} /\ w \in Holding /\ Releasing' = Releasing
  BY <1>1 DEF Releasing, Holding, TypeOK
<1>6. Cardinality(Holding') = Cardinality(Holding) - 1
  BY <1>5, TokenTypes, ActorRemove
<1>7. TokenPerTask'
  <2> SUFFICES ASSUME owner \in {"use", "request", "release"}
               PROVE  Len(tasks') = sem + Cardinality(Holding') + Cardinality(Releasing')
    BY <1>1 DEF TokenPerTask
  <2>1. Len(tasks) = sem + Cardinality(Holding) + Cardinality(Releasing)
    BY DEF TokenPerTask
  <2>2. Len(tasks') = Len(tasks) - 1
    BY <1>1, <1>2
  <2>3. Cardinality(Releasing') = Cardinality(Releasing)
    BY <1>5
  <2> HIDE DEF CoreInv
  <2> QED BY <2>1, <2>2, <2>3, <1>6, TokenTypes DEF CoreInv
<1> QED BY <1>1, <1>4, <1>7

\* The end of a task, by return or by exception, moves no token.
LEMMA EndOfTask ==
    ASSUME CoreInv, NEW w \in Workers, Reject(w) \/ Finish(w)
    PROVE  CoreInv'
<1> USE DEF CoreInv
<1>1. /\ pc[w] = "run" /\ pc' = [pc EXCEPT ![w] = "acquire"]
      /\ cur' = [cur EXCEPT ![w] = NoTask]
      /\ UNCHANGED <<sem, tasks, stopping, stop, releaseDue, owner, idx>>
  BY DEF Reject, Finish
<1>2. todo' \in [Actors -> Seq(Tasks)]
  <2>1. \/ todo' = todo \/ todo' = [todo EXCEPT ![w] = <<>>]
    BY DEF Reject, Finish
  <2>2. \A S : <<>> \in Seq(S)
    OBVIOUS
  <2>3. <<>> \in Seq(Tasks) /\ todo \in [Actors -> Seq(Tasks)]
    BY <2>2 DEF TypeOK
  <2> HIDE DEF CoreInv
  <2> QED BY <2>1, <2>3
<1>3. result' \in [Tasks -> {"none", "value", "exception", "rejected"}]
  <2>1. CASE Finish(w)
    BY <2>1 DEF Finish, TypeOK
  <2>2. CASE Reject(w)
    BY <2>2 DEF Reject, TypeOK
  <2> QED BY <2>1, <2>2
<1>4. ended' \in {"no", "terminate", "ub"}
  BY DEF Reject, Finish, TypeOK
<1>5. TypeOK'
  BY <1>1, <1>2, <1>3, <1>4 DEF TypeOK
<1>6. Holding' = Holding /\ Releasing' = Releasing
  BY <1>1 DEF Releasing, Holding, TypeOK
<1>7. TokenPerTask'
  BY <1>1, <1>6 DEF TokenPerTask
<1> QED BY <1>1, <1>5, <1>7

\* The destructor changes no token before ReleaseAll, and ReleaseAll ends the
\* time in which tokens match tasks.
LEMMA OwnerStep ==
    ASSUME CoreInv, SetStopping \/ Dtor
    PROVE  CoreInv'
<1> USE DEF CoreInv
<1>1. UNCHANGED <<tasks, pc, cur, todo, releaseDue, result, ended>>
  BY DEF SetStopping, Dtor, RequestStop, ReleaseAll, DestroyMembers, JoinWorker
<1>2. Holding' = Holding /\ Releasing' = Releasing
  BY <1>1 DEF Releasing, Holding
<1>3. CASE SetStopping
  <2>1. TypeOK' /\ owner = "use" /\ UNCHANGED <<sem, idx>>
    BY <1>1, <1>3 DEF SetStopping, TypeOK
  <2> QED BY <1>1, <1>2, <2>1 DEF TokenPerTask
<1>4. CASE RequestStop
  <2>1. /\ owner = "request" /\ sem' = sem /\ stopping' = stopping
        /\ stop' = [stop EXCEPT ![idx] = TRUE]
        /\ idx' = IF idx = N THEN 1 ELSE idx + 1
        /\ owner' = IF idx = N THEN "release" ELSE "request"
    BY <1>4 DEF RequestStop
  <2>2. idx' \in 1..N
    BY <2>1, NAssumption DEF TypeOK
  <2>3. TypeOK'
    <3>1. stop' \in [Workers -> BOOLEAN]
      BY <2>1 DEF TypeOK
    <3>2. idx' \in 1..(N + 1)
      BY <2>2, NAssumption
    <3>3. owner' \in {"use", "request", "release", "members", "join", "gone"}
      BY <2>1
    <3> QED BY <1>1, <2>1, <3>1, <3>2, <3>3 DEF TypeOK
  <2>4. TokenPerTask'
    BY <1>1, <1>2, <2>1 DEF TokenPerTask
  <2>5. idx' <= N
    BY <2>2, NAssumption
  <2> QED BY <2>3, <2>4, <2>5
<1>5. CASE ReleaseAll
  <2>1. /\ owner = "release" /\ owner' = "members" /\ sem' = sem + N
        /\ UNCHANGED <<stopping, stop, idx>>
    BY <1>5 DEF ReleaseAll
  <2>2. TypeOK'
    BY <1>1, <2>1, NAssumption DEF TypeOK
  <2> QED BY <2>1, <2>2 DEF TokenPerTask
<1>6. CASE DestroyMembers
  <2>1. TypeOK' /\ owner = "members" /\ owner' = "join" /\ idx' = idx
    BY <1>1, <1>6 DEF DestroyMembers, TypeOK
  <2> QED BY <2>1 DEF TokenPerTask
<1>7. CASE JoinWorker
  <2>1. /\ owner = "join" /\ idx' = idx + 1
        /\ owner' = IF idx = N THEN "gone" ELSE "join"
        /\ UNCHANGED <<sem, stopping, stop>>
    BY <1>7 DEF JoinWorker
  <2>2. idx' \in 1..(N + 1) /\ (owner' # "gone" => idx' <= N)
    BY <2>1, NAssumption DEF TypeOK
  <2>3. TypeOK'
    BY <1>1, <2>1, <2>2 DEF TypeOK
  <2> QED BY <2>1, <2>2, <2>3 DEF TokenPerTask
<1> QED BY <1>3, <1>4, <1>5, <1>6, <1>7 DEF Dtor

\* A step that changes nothing, or only how the process ended.
LEMMA IdleStep ==
    ASSUME CoreInv, ended' \in {"no", "terminate", "ub"},
           UNCHANGED <<sem, tasks, stopping, stop, pc, cur, todo, releaseDue,
                       result, owner, idx>>
    PROVE  CoreInv'
<1> USE DEF CoreInv
<1>1. TypeOK'
  BY DEF TypeOK
<1>2. Holding' = Holding /\ Releasing' = Releasing
  BY DEF Holding, Releasing
<1> QED BY <1>1, <1>2 DEF TokenPerTask

LEMMA CoreStep == CoreInv /\ [Next]_vars => CoreInv'
<1> SUFFICES ASSUME CoreInv, [Next]_vars PROVE CoreInv'
  OBVIOUS
<1>1. CASE \E a \in Actors : Submission(a)
  BY <1>1, SubmissionStep
<1>2. ASSUME NEW w \in Workers, WorkerStep(w)
      PROVE  CoreInv'
  <2>1. CASE PopDestroyed(w)
    BY <2>1, IdleStep DEF PopDestroyed
  <2> QED BY <1>2, <2>1, AcquireStep, CheckStopStep, PopNothingStep, PopStep, EndOfTask
          DEF WorkerStep
<1>3. CASE SetStopping \/ Dtor
  BY <1>3, OwnerStep
<1>4. CASE Terminated \/ UNCHANGED vars
  <2>1. ended' = ended /\ ended \in {"no", "terminate", "ub"}
    BY <1>4 DEF Terminated, vars, CoreInv, TypeOK
  <2> QED BY <1>4, <2>1, IdleStep DEF Terminated, vars
<1> QED BY <1>1, <1>2, <1>3, <1>4 DEF Next

\* Tokens match tasks, for any number of workers and clients: submit's order
\* (push under mtx_, then release) never leaves a worker with a token and no
\* task before the destructor adds its own tokens.
THEOREM TokensMatchTasks == Spec => []SemInv
<1>1. Init => CoreInv
  BY CoreInit
<1>2. CoreInv /\ [Next]_vars => CoreInv'
  BY CoreStep
<1>3. CoreInv => SemInv
  BY DEF CoreInv, SemInv
<1> QED BY <1>1, <1>2, <1>3, PTL DEF Spec
-------------------------------------------------------------------------------
(* A task is in one place at a time.                                       *)

\* A queue that grows at its end by a new task, and one that loses its front.
LEMMA ElemsAppend ==
    ASSUME NEW s \in Seq(Tasks), NEW e \in Tasks
    PROVE  /\ Elems(Append(s, e)) = Elems(s) \cup {e}
           /\ Distinct(s) /\ e \notin Elems(s) => Distinct(Append(s, e))
<1> DEFINE t == Append(s, e)
<1>1. /\ Len(t) = Len(s) + 1 /\ Len(s) \in Nat /\ t[Len(s) + 1] = e
      /\ \A i \in 1..Len(s) : t[i] = s[i]
  OBVIOUS
<1> HIDE DEF t
<1>2. Elems(t) = Elems(s) \cup {e}
  BY <1>1 DEF Elems
<1>3. Distinct(s) /\ e \notin Elems(s) => Distinct(t)
  BY <1>1 DEF Elems, Distinct
<1> QED BY <1>2, <1>3 DEF t

LEMMA ElemsTail ==
    ASSUME NEW s \in Seq(Tasks), s # <<>>
    PROVE  /\ Head(s) \in Tasks /\ Tail(s) \in Seq(Tasks)
           /\ Head(s) \in Elems(s) /\ Elems(Tail(s)) \subseteq Elems(s)
           /\ Elems(s) \subseteq Elems(Tail(s)) \cup {Head(s)}
           /\ Distinct(s) => Distinct(Tail(s)) /\ Head(s) \notin Elems(Tail(s))
<1> DEFINE t == Tail(s)
           h == Head(s)
<1>1. /\ t \in Seq(Tasks) /\ h \in Tasks /\ Len(s) \in Nat /\ Len(s) > 0
      /\ Len(t) = Len(s) - 1 /\ h = s[1] /\ \A i \in 1..Len(t) : t[i] = s[i + 1]
  OBVIOUS
<1> HIDE DEF t, h
<1>2. h \in Elems(s)
  BY <1>1 DEF Elems
<1>3. ASSUME NEW i \in 1..Len(t) PROVE i + 1 \in 1..Len(s) /\ t[i] = s[i + 1]
  BY <1>1
<1>4. Elems(t) \subseteq Elems(s)
  BY <1>3 DEF Elems
<1>5. ASSUME NEW i \in 1..Len(s), i # 1 PROVE i - 1 \in 1..Len(t) /\ s[i] = t[i - 1]
  BY <1>1, <1>5
<1>6. Elems(s) \subseteq Elems(t) \cup {h}
  BY <1>1, <1>5 DEF Elems
<1>7. ASSUME Distinct(s) PROVE Distinct(t) /\ h \notin Elems(t)
  <2>1. \A i, j \in 1..Len(t) : t[i] = t[j] => i = j
    BY <1>1, <1>3, <1>7 DEF Distinct
  <2>2. \A i \in 1..Len(t) : t[i] # h
    BY <1>1, <1>3, <1>7 DEF Distinct
  <2> QED BY <2>1, <2>2 DEF Distinct, Elems
<1> QED BY <1>1, <1>2, <1>4, <1>6, <1>7 DEF t, h

LEMMA ElemsEmpty == Elems(<<>>) = {} /\ Distinct(<<>>)
BY DEF Elems, Distinct

\* What submit pushes was not seen before, and is seen from then on.
LEMMA PushOnce ==
    ASSUME CoreInv, OnceOnly, Fresh, NEW a \in Actors, Push(a)
    PROVE  OnceOnly' /\ Fresh'
<1> DEFINE e == Head(todo[a])
<1>1. /\ todo[a] \in Seq(Tasks) /\ todo[a] # <<>> /\ tasks' = Append(tasks, e)
      /\ todo' = [todo EXCEPT ![a] = Tail(todo[a])] /\ tasks \in Seq(Tasks)
      /\ todo \in [Actors -> Seq(Tasks)] /\ UNCHANGED <<pc, cur, result>>
  BY DEF Push, CoreInv, TypeOK
<1>2. /\ e \in Tasks /\ e \in Elems(todo[a]) /\ Elems(Tail(todo[a])) \subseteq Elems(todo[a])
      /\ Distinct(Tail(todo[a])) /\ e \notin Elems(Tail(todo[a]))
  BY <1>1, ElemsTail DEF Fresh
<1> HIDE DEF e
<1>3. Queued' = Queued \cup {e} /\ (e \notin Queued /\ Distinct(tasks) => Distinct(tasks'))
  BY <1>1, <1>2, ElemsAppend DEF Queued
<1>4. Unseen(e) /\ \A t : Unseen(t) /\ t # e => Unseen(t)'
  BY <1>1, <1>2, <1>3 DEF Fresh, Unseen
<1>5. OnceOnly'
  <2>1. Distinct(tasks')
    BY <1>3, <1>4 DEF OnceOnly, Unseen
  <2>2. \A w \in Workers : cur[w] \notin Queued'
    BY <1>3, <1>4 DEF OnceOnly, Unseen
  <2>3. \A t \in Tasks : result[t] # "none" => t \notin Queued'
    BY <1>3, <1>4 DEF OnceOnly, Unseen
  <2> QED BY <1>1, <2>1, <2>2, <2>3 DEF OnceOnly
<1>6. Fresh'
  <2>1. \A b \in Actors : /\ Elems(todo'[b]) \subseteq Elems(todo[b]) /\ e \notin Elems(todo'[b])
                          /\ Distinct(todo'[b])
    <3> SUFFICES ASSUME NEW b \in Actors
                 PROVE  /\ Elems(todo'[b]) \subseteq Elems(todo[b]) /\ e \notin Elems(todo'[b])
                        /\ Distinct(todo'[b])
      OBVIOUS
    <3>1. CASE b = a
      BY <1>1, <1>2, <3>1
    <3>2. CASE b # a
      BY <1>1, <1>2, <3>2 DEF Fresh
    <3> QED BY <3>1, <3>2
  <2>2. Pending' = Pending
    BY <1>1 DEF Pending
  <2>3. \A t \in Pending : e \notin Elems(Spawns[t])
    BY <1>2 DEF Fresh
  <2>4. \A w \in Workers : (cur[w] = NoTask <=> pc[w] # "run")'
    BY <1>1 DEF Fresh
  <2>5. \A b \in Actors : Distinct(todo'[b]) /\ \A t \in Elems(todo'[b]) : Unseen(t)'
    BY <1>4, <2>1 DEF Fresh
  <2>6. \A b, c \in Actors : b # c => Elems(todo'[b]) \cap Elems(todo'[c]) = {}
    BY <2>1 DEF Fresh
  <2>7. \A t \in Pending' : \A u \in Elems(Spawns[t]) :
            Unseen(u)' /\ \A b \in Actors : u \notin Elems(todo'[b])
    BY <1>4, <2>1, <2>2, <2>3 DEF Fresh
  <2> QED BY <2>4, <2>5, <2>6, <2>7 DEF Fresh
<1> QED BY <1>5, <1>6

\* A worker that pops takes the task out of the queue, and its program with it.
LEMMA PopOnce ==
    ASSUME CoreInv, OnceOnly, Fresh, NEW w \in Workers, Pop(w)
    PROVE  OnceOnly' /\ Fresh'
<1> DEFINE e == Head(tasks)
<1>1. /\ tasks \in Seq(Tasks) /\ tasks # <<>> /\ tasks' = Tail(tasks) /\ pc[w] = "pop"
      /\ todo' = [todo EXCEPT ![w] = Spawns[e]] /\ cur' = [cur EXCEPT ![w] = e]
      /\ pc' = [pc EXCEPT ![w] = "run"] /\ result' = result
      /\ todo \in [Actors -> Seq(Tasks)] /\ w \in Actors /\ cur \in [Workers -> Tasks \cup {NoTask}]
      /\ pc \in [Workers -> {"acquire", "check", "pop", "run", "exited"}]
  BY DEF Pop, CoreInv, TypeOK, Actors
<1>2. /\ e \in Tasks /\ e \in Queued /\ Queued' \subseteq Queued
      /\ Distinct(tasks') /\ e \notin Queued'
  BY <1>1, ElemsTail DEF OnceOnly, Queued
<1> HIDE DEF e
<1>3. cur[w] = NoTask /\ e # NoTask /\ NoTask \notin Tasks
  BY <1>1, <1>2, ProgramAssumption DEF Fresh
<1>4. e \in Pending
  BY <1>2 DEF OnceOnly, Pending
<1>5. OnceOnly'
  <2>1. \A v \in Workers : cur'[v] \notin Queued'
    BY <1>1, <1>2 DEF OnceOnly
  <2>2. \A v, x \in Workers : cur'[v] # NoTask /\ cur'[v] = cur'[x] => v = x
    BY <1>1, <1>2 DEF OnceOnly
  <2>3. \A t \in Tasks : result[t] # "none" => t \notin Queued' /\ \A v \in Workers : cur'[v] # t
    BY <1>1, <1>2 DEF OnceOnly
  <2> QED BY <1>1, <1>2, <2>1, <2>2, <2>3 DEF OnceOnly
<1>6. \A t : Unseen(t) => Unseen(t)'
  BY <1>1, <1>2 DEF Unseen
<1>7. Pending' \subseteq Pending /\ e \notin Pending'
  BY <1>1, <1>3 DEF Pending
<1>8. Fresh'
  <2>1. todo'[w] = Spawns[e] /\ \A b \in Actors : b # w => todo'[b] = todo[b]
    BY <1>1
  <2>2. Distinct(Spawns[e]) /\ \A u \in Elems(Spawns[e]) : Unseen(u)
    BY <1>2, <1>4, FreshAssumption DEF Fresh
  <2>3. \A v \in Workers : (cur[v] = NoTask <=> pc[v] # "run")'
    BY <1>1, <1>3 DEF Fresh
  <2>4. \A b \in Actors : Distinct(todo'[b]) /\ \A t \in Elems(todo'[b]) : Unseen(t)'
    <3> SUFFICES ASSUME NEW b \in Actors
                 PROVE  Distinct(todo'[b]) /\ \A t \in Elems(todo'[b]) : Unseen(t)'
      OBVIOUS
    <3>1. CASE b = w
      BY <1>6, <2>1, <2>2, <3>1
    <3>2. CASE b # w
      <4>1. todo'[b] = todo[b]
        BY <2>1, <3>2
      <4> QED BY <1>6, <4>1 DEF Fresh
    <3> QED BY <3>1, <3>2
  <2>5. \A b \in Actors : b # w => Elems(Spawns[e]) \cap Elems(todo[b]) = {}
    BY <1>4 DEF Fresh
  <2>6. \A b, c \in Actors : b # c => Elems(todo'[b]) \cap Elems(todo'[c]) = {}
    <3> SUFFICES ASSUME NEW b \in Actors, NEW c \in Actors, b # c
                 PROVE  Elems(todo'[b]) \cap Elems(todo'[c]) = {}
      OBVIOUS
    <3>1. CASE b = w
      BY <2>1, <2>5, <3>1
    <3>2. CASE c = w
      BY <2>1, <2>5, <3>2
    <3>3. CASE b # w /\ c # w
      BY <2>1, <3>3 DEF Fresh
    <3> QED BY <3>1, <3>2, <3>3
  <2>7. ASSUME NEW t \in Pending', NEW u \in Elems(Spawns[t])
        PROVE  Unseen(u)' /\ \A b \in Actors : u \notin Elems(todo'[b])
    <3>1. t \in Pending /\ t # e /\ t \in Tasks
      BY <1>7 DEF Pending
    <3>2. Unseen(u) /\ \A b \in Actors : u \notin Elems(todo[b])
      BY <3>1 DEF Fresh
    <3>3. u \notin Elems(Spawns[e])
      BY <1>2, <3>1, FreshAssumption
    <3>4. \A b \in Actors : todo'[b] = Spawns[e] \/ todo'[b] = todo[b]
      BY <2>1
    <3> QED BY <1>6, <3>2, <3>3, <3>4
  <2> QED BY <2>3, <2>4, <2>6, <2>7 DEF Fresh
<1> QED BY <1>5, <1>8

\* A task that returns or is left by an exception is settled, and so is the one
\* that was rejected.
LEMMA EndOnce ==
    ASSUME CoreInv, OnceOnly, Fresh, NEW w \in Workers, Reject(w) \/ Finish(w)
    PROVE  OnceOnly' /\ Fresh'
<1>1. /\ pc[w] = "run" /\ pc' = [pc EXCEPT ![w] = "acquire"] /\ cur' = [cur EXCEPT ![w] = NoTask]
      /\ tasks' = tasks /\ Queued' = Queued
      /\ todo \in [Actors -> Seq(Tasks)] /\ w \in Actors /\ cur \in [Workers -> Tasks \cup {NoTask}]
      /\ pc \in [Workers -> {"acquire", "check", "pop", "run", "exited"}]
      /\ result \in [Tasks -> {"none", "value", "exception", "rejected"}]
  BY DEF Reject, Finish, CoreInv, TypeOK, Actors, Queued
<1>2. cur[w] \in Tasks /\ NoTask \notin Tasks
  BY <1>1, ProgramAssumption DEF Fresh
<1>3. \A b \in Actors : \/ todo'[b] = todo[b]
                        \/ todo'[b] = <<>>
  BY <1>1 DEF Reject, Finish
<1>4. PICK h \in Tasks :
        /\ h = cur[w] \/ (h \in Elems(todo[w]) /\ todo'[w] = <<>>)
        /\ result'[cur[w]] # "none" /\ result'[h] # "none"
        /\ \A t \in Tasks : t # cur[w] /\ t # h => result'[t] = result[t]
  <2>1. CASE Finish(w)
    BY <1>1, <1>2, <2>1 DEF Finish
  <2>2. CASE Reject(w)
    <3>1. Head(todo[w]) \in Elems(todo[w]) /\ Head(todo[w]) \in Tasks
      BY <1>1, <2>2, ElemsTail DEF Reject
    <3>2. todo'[w] = <<>>
      BY <1>1, <2>2 DEF Reject
    <3>3. /\ result' = [result EXCEPT ![cur[w]] = "exception", ![Head(todo[w])] = "rejected"]
      BY <2>2 DEF Reject
    <3>4. /\ result'[cur[w]] # "none" /\ result'[Head(todo[w])] # "none"
          /\ \A t \in Tasks : t # cur[w] /\ t # Head(todo[w]) => result'[t] = result[t]
      BY <1>1, <1>2, <3>1, <3>3
    <3> QED BY <3>1, <3>2, <3>4
  <2> QED BY <2>1, <2>2
<1>5. h # cur[w] => Unseen(h) /\ \A b \in Actors : b # w => h \notin Elems(todo[b])
  BY <1>1, <1>4 DEF Fresh
<1>6. h \notin Queued /\ cur[w] \notin Queued /\ \A v \in Workers \ {w} : cur[v] # h /\ cur[v] # cur[w]
  BY <1>2, <1>5 DEF OnceOnly, Unseen
<1>7. OnceOnly'
  <2>1. \A v \in Workers : cur'[v] = IF v = w THEN NoTask ELSE cur[v]
    BY <1>1
  <2>2. tasks \in Seq(Tasks)
    BY DEF CoreInv, TypeOK
  <2>3. NoTask \notin Queued
    BY <1>2, <2>2 DEF Queued, Elems
  <2>4. \A v \in Workers : cur'[v] \notin Queued
    BY <2>1, <2>3 DEF OnceOnly
  <2>5. \A v, x \in Workers : cur'[v] # NoTask /\ cur'[v] = cur'[x] => v = x
    BY <2>1 DEF OnceOnly
  <2>6. \A t \in Tasks : result'[t] # "none" => t \notin Queued /\ \A v \in Workers : cur'[v] # t
    <3> SUFFICES ASSUME NEW t \in Tasks, result'[t] # "none"
                 PROVE  t \notin Queued /\ \A v \in Workers : cur'[v] # t
      OBVIOUS
    <3>1. CASE t = h \/ t = cur[w]
      BY <1>2, <1>4, <1>6, <2>1, <3>1
    <3>2. CASE t # h /\ t # cur[w]
      BY <1>2, <1>4, <2>1, <3>2 DEF OnceOnly
    <3> QED BY <3>1, <3>2
  <2> QED BY <1>1, <2>4, <2>5, <2>6 DEF OnceOnly
<1>8. ASSUME NEW t, Unseen(t), t \in Tasks, t # h PROVE Unseen(t)'
  <2>1. t # cur[w] /\ t # NoTask
    BY <1>2, <1>8 DEF Unseen
  <2>2. result'[t] = result[t]
    BY <1>4, <1>8, <2>1
  <2>3. \A v \in Workers : cur'[v] # t
    BY <1>1, <1>8, <2>1 DEF Unseen
  <2> QED BY <1>1, <1>8, <2>2, <2>3 DEF Unseen
<1>9. Pending' \subseteq Pending
  <2> SUFFICES ASSUME NEW t \in Pending' PROVE t \in Pending
    OBVIOUS
  <2>1. t \in Tasks /\ result'[t] = "none" /\ \A v \in Workers : cur'[v] # t
    BY DEF Pending
  <2>2. t # cur[w] /\ t # h
    BY <1>4, <2>1
  <2>3. result[t] = "none" /\ \A v \in Workers : cur[v] # t
    BY <1>1, <1>4, <2>1, <2>2
  <2> QED BY <2>1, <2>3 DEF Pending
<1>10. \A b \in Actors : Elems(todo'[b]) \subseteq Elems(todo[b]) /\ h \notin Elems(todo'[b])
  <2> SUFFICES ASSUME NEW b \in Actors
               PROVE  Elems(todo'[b]) \subseteq Elems(todo[b]) /\ h \notin Elems(todo'[b])
    OBVIOUS
  <2>1. CASE todo'[b] = <<>>
    BY <2>1, ElemsEmpty
  <2>2. CASE todo'[b] # <<>>
    <3>1. todo'[b] = todo[b]
      BY <1>3, <2>2
    <3>2. h = cur[w] => h \notin Elems(todo[b])
      BY DEF Fresh, Unseen
    <3>3. h # cur[w] => b # w
      BY <1>4, <2>2
    <3> QED BY <1>5, <3>1, <3>2, <3>3
  <2> QED BY <2>1, <2>2
<1>11. Fresh'
  <2>1. \A v \in Workers : (cur[v] = NoTask <=> pc[v] # "run")'
    BY <1>1 DEF Fresh
  <2>2. \A b \in Actors : Elems(todo[b]) \subseteq Tasks
    BY <1>1 DEF Elems
  <2>3. ASSUME NEW b \in Actors PROVE Distinct(todo'[b]) /\ \A t \in Elems(todo'[b]) : Unseen(t)'
    <3>1. Distinct(todo'[b])
      BY <1>3, ElemsEmpty DEF Fresh
    <3>2. \A t \in Elems(todo'[b]) : t \in Tasks /\ t # h /\ Unseen(t)
      BY <1>10, <2>2 DEF Fresh
    <3> QED BY <1>8, <3>1, <3>2
  <2>4. \A b, c \in Actors : b # c => Elems(todo'[b]) \cap Elems(todo'[c]) = {}
    BY <1>10 DEF Fresh
  <2>5. ASSUME NEW t \in Pending', NEW u \in Elems(Spawns[t])
        PROVE  Unseen(u)' /\ \A b \in Actors : u \notin Elems(todo'[b])
    <3>1. t \in Pending /\ t \in Tasks
      BY <1>9 DEF Pending
    <3>2. Unseen(u) /\ \A b \in Actors : u \notin Elems(todo[b])
      BY <3>1 DEF Fresh
    <3>3. u \in Tasks
      BY <3>1, ProgramAssumption DEF Elems
    <3>4. u # h
      BY <1>1, <1>4, <3>2 DEF Unseen
    <3> QED BY <1>8, <1>10, <3>2, <3>3, <3>4
  <2> QED BY <2>1, <2>3, <2>4, <2>5 DEF Fresh
<1> QED BY <1>7, <1>11

LEMMA OnceStep == CoreInv /\ OnceOnly /\ Fresh /\ [Next]_vars => OnceOnly' /\ Fresh'
<1> SUFFICES ASSUME CoreInv, OnceOnly, Fresh, [Next]_vars PROVE OnceOnly' /\ Fresh'
  OBVIOUS
<1>1. ASSUME UNCHANGED <<tasks, cur, todo, result>>, pc' \in [Workers -> {"acquire", "check", "pop", "run", "exited"}],
             \A w \in Workers : pc'[w] = "run" <=> pc[w] = "run"
      PROVE  OnceOnly' /\ Fresh'
  <2>1. Queued' = Queued /\ Pending' = Pending /\ \A t : Unseen(t)' <=> Unseen(t)
    BY <1>1 DEF Queued, Pending, Unseen
  <2> QED BY <1>1, <2>1 DEF OnceOnly, Fresh
<1>2. pc \in [Workers -> {"acquire", "check", "pop", "run", "exited"}]
  BY DEF CoreInv, TypeOK
<1>3. ASSUME NEW a \in Actors, Submission(a) PROVE OnceOnly' /\ Fresh'
  <2>1. CASE Release(a)
    BY <1>1, <1>2, <2>1 DEF Release
  <2> QED BY <1>3, <2>1, PushOnce DEF Submission
<1>4. ASSUME NEW w \in Workers, WorkerStep(w) PROVE OnceOnly' /\ Fresh'
  <2>1. CASE Acquire(w) \/ CheckStop(w) \/ PopNothing(w) \/ PopDestroyed(w)
    BY <1>1, <1>2, <2>1 DEF Acquire, CheckStop, PopNothing, PopDestroyed
  <2> QED BY <1>4, <2>1, PopOnce, EndOnce DEF WorkerStep
<1>5. CASE SetStopping \/ Dtor \/ Terminated \/ UNCHANGED vars
  BY <1>1, <1>2, <1>5 DEF SetStopping, Dtor, RequestStop, ReleaseAll, DestroyMembers, JoinWorker,
                          Terminated, vars
<1> QED BY <1>3, <1>4, <1>5 DEF Next

LEMMA OnceInit == Init => OnceOnly /\ Fresh
<1> SUFFICES ASSUME Init PROVE OnceOnly /\ Fresh
  OBVIOUS
<1>1. /\ \A a \in Actors : todo[a] = IF a \in Clients THEN Script[a] ELSE <<>>
      /\ Queued = {} /\ Distinct(tasks)
      /\ \A w \in Workers : cur[w] = NoTask /\ pc[w] = "acquire"
      /\ \A t \in Tasks : result[t] = "none"
  BY ElemsEmpty DEF Init, Queued
<1>2. \A t \in Tasks : Unseen(t)
  BY <1>1, ProgramAssumption DEF Unseen
<1>3. \A a \in Actors : Distinct(todo[a]) /\ Elems(todo[a]) \subseteq Tasks
  BY <1>1, ElemsEmpty, FreshAssumption, ProgramAssumption DEF Elems
<1>4. \A a, b \in Actors : a # b => Elems(todo[a]) \cap Elems(todo[b]) = {}
  BY <1>1, ElemsEmpty, FreshAssumption
<1>5. \A t \in Tasks : /\ Elems(Spawns[t]) \subseteq Tasks
                       /\ \A a \in Actors : Elems(Spawns[t]) \cap Elems(todo[a]) = {}
  <2> SUFFICES ASSUME NEW t \in Tasks
               PROVE  /\ Elems(Spawns[t]) \subseteq Tasks
                      /\ \A a \in Actors : Elems(Spawns[t]) \cap Elems(todo[a]) = {}
    OBVIOUS
  <2>1. Elems(Spawns[t]) \subseteq Tasks
    BY ProgramAssumption DEF Elems
  <2>2. \A a \in Actors : Elems(Spawns[t]) \cap Elems(todo[a]) = {}
    BY <1>1, ElemsEmpty, FreshAssumption
  <2> QED BY <2>1, <2>2
<1>6. Fresh
  BY <1>1, <1>2, <1>3, <1>4, <1>5 DEF Fresh, Pending
<1> QED BY <1>1, <1>6 DEF OnceOnly

\* A submitted task is queued once, runs on one worker and is settled once, for
\* any number of workers and clients and any program of tasks, up to the end of
\* the pool or of the process.
THEOREM TasksRunOnce == Spec => []OnceOnly
BY OnceInit, CoreInit, CoreStep, OnceStep, PTL DEF Spec

-------------------------------------------------------------------------------
(* Refinement: the pool implements TaskExecutor.                           *)

\* Nothing is pushed to a stopping pool, so a worker that left an empty queue
\* leaves it empty for ever; the destructor joins the workers in their order.
LeaveInv ==
    /\ stopping <=> owner # "use"
    /\ \A w \in Workers : stop[w] => stopping
    /\ \A w \in Workers : pc[w] = "exited" => stopping /\ tasks = <<>>
    /\ owner \in {"release", "members"} => idx = 1
    /\ owner = "join" => \A w \in Workers : w < idx => pc[w] = "exited"
    /\ owner = "gone" => \A w \in Workers : pc[w] = "exited"

LEMMA LeaveStep ==
    ASSUME CoreInv, LeaveInv, [Next]_vars
    PROVE  LeaveInv'
<1>0. /\ pc \in [Workers -> {"acquire", "check", "pop", "run", "exited"}]
      /\ stop \in [Workers -> BOOLEAN] /\ stopping \in BOOLEAN /\ tasks \in Seq(Tasks)
      /\ idx \in 1..(N + 1) /\ (owner # "gone" => idx <= N) /\ N \in Nat \ {0}
  BY NAssumption DEF CoreInv, TypeOK
<1> USE DEF LeaveInv
<1>1. ASSUME NEW a \in Actors, Push(a) PROVE LeaveInv'
  <2>1. ~stopping /\ UNCHANGED <<stopping, stop, pc, owner, idx>>
    BY <1>1 DEF Push
  <2> QED BY <2>1
<1>2. ASSUME NEW a \in Actors, Release(a) PROVE LeaveInv'
  BY <1>2 DEF Release
<1>3. ASSUME NEW w \in Workers, CheckStop(w) PROVE LeaveInv'
  <2>1. /\ pc[w] = "check" /\ UNCHANGED <<tasks, stopping, stop, owner, idx>>
        /\ pc' = [pc EXCEPT ![w] = IF stop[w] /\ tasks = <<>> THEN "exited" ELSE "pop"]
    BY <1>3 DEF CheckStop
  <2>2. \A v \in Workers : pc'[v] = "exited" <=> (pc[v] = "exited" \/ (v = w /\ stop[w] /\ tasks = <<>>))
    BY <1>0, <2>1
  <2> QED BY <2>1, <2>2
\* The other steps of a worker: nobody leaves or comes back, nothing is queued.
<1>4. ASSUME NEW w \in Workers, WorkerStep(w), ~CheckStop(w) PROVE LeaveInv'
  <2>1. UNCHANGED <<stopping, stop, owner, idx>> /\ (tasks = <<>> => tasks' = tasks)
    BY <1>4 DEF WorkerStep, Acquire, PopNothing, Pop, PopDestroyed, Reject, Finish
  <2>2. \A v \in Workers : pc'[v] = "exited" <=> pc[v] = "exited"
    BY <1>0, <1>4 DEF WorkerStep, Acquire, PopNothing, Pop, PopDestroyed, Reject, Finish
  <2> QED BY <2>1, <2>2
<1>5. CASE SetStopping
  BY <1>5 DEF SetStopping
<1>6. CASE RequestStop
  <2>1. stop' = [stop EXCEPT ![idx] = TRUE] /\ stopping /\ UNCHANGED <<stopping, pc, tasks>>
    BY <1>6 DEF RequestStop
  <2>2. owner' \in {"release", "request"} /\ (owner' = "release" => idx' = 1)
    BY <1>6 DEF RequestStop
  <2> QED BY <1>0, <2>1, <2>2
<1>7. CASE ReleaseAll
  BY <1>7 DEF ReleaseAll
<1>8. CASE DestroyMembers
  BY <1>0, <1>8 DEF DestroyMembers, Workers
<1>9. CASE JoinWorker
  <2>1. /\ owner = "join" /\ pc[idx] = "exited" /\ idx' = idx + 1
        /\ owner' = IF idx = N THEN "gone" ELSE "join"
        /\ UNCHANGED <<stopping, stop, pc, tasks>>
    BY <1>9 DEF JoinWorker
  <2>2. \A w \in Workers : w < idx + 1 => pc[w] = "exited"
    BY <1>0, <2>1 DEF Workers
  <2>3. idx = N => \A w \in Workers : w < idx + 1
    BY <1>0 DEF Workers
  <2> QED BY <2>1, <2>2, <2>3
<1>10. CASE UNCHANGED vars
  BY <1>10 DEF vars
<1> QED BY <1>1, <1>2, <1>3, <1>4, <1>5, <1>6, <1>7, <1>8, <1>9, <1>10
        DEF Next, Submission, Dtor, Terminated

\* What a worker takes out of its hands when a task ends.
LEMMA HandsAfterEnd ==
    ASSUME CoreInv, OnceOnly, Fresh, NEW w \in Workers, pc[w] = "run",
           cur' = [cur EXCEPT ![w] = NoTask]
    PROVE  cur[w] \in Tasks /\ cur[w] \in InHand /\ InHand' = InHand \ {cur[w]}
<1>1. cur \in [Workers -> Tasks \cup {NoTask}] /\ cur[w] # NoTask
  BY DEF CoreInv, TypeOK, Fresh
<1>2. cur'[w] = NoTask /\ \A v \in Workers : v # w => cur'[v] = cur[v] /\ cur[v] # cur[w]
  BY <1>1 DEF OnceOnly
<1> QED BY <1>1, <1>2 DEF InHand

\* Every step of the pool is a step of the abstract executor or invisible.
LEMMA StepSimulation ==
    ASSUME CoreInv, OnceOnly, Fresh, LeaveInv, LeaveInv', [Next]_vars
    PROVE  [Executor!Next]_(Executor!vars)
<1>0. /\ tasks \in Seq(Tasks) /\ todo \in [Actors -> Seq(Tasks)]
      /\ cur \in [Workers -> Tasks \cup {NoTask}]
      /\ result \in [Tasks -> {"none", "value", "exception", "rejected"}]
      /\ NoTask \notin Tasks
  BY ProgramAssumption DEF CoreInv, TypeOK
<1>1. ASSUME NEW a \in Actors, Push(a) PROVE \E t \in Tasks : Executor!Submit(t)
  <2> DEFINE t == Head(todo[a])
  <2>1. /\ todo[a] \in Seq(Tasks) /\ todo[a] # <<>> /\ ~stopping
        /\ tasks' = Append(tasks, t) /\ UNCHANGED <<cur, result, owner>>
    BY <1>0, <1>1 DEF Push
  <2>2. t \in Tasks /\ Unseen(t)
    BY <2>1, ElemsTail DEF Fresh
  <2> HIDE DEF t
  <2>3. t \notin Queued /\ t \notin InHand /\ t \notin Ran
    BY <2>2 DEF Unseen, InHand, Ran
  <2>4. InHand' = InHand /\ Ran' = Ran /\ owner # "gone" /\ owner' # "gone"
    BY <2>1 DEF InHand, Ran, LeaveInv
  <2>5. Executor!Queued = Queued
    BY DEF Executor!Queued, Queued, Elems
  <2>6. Executor!Submit(t)
    BY <2>1, <2>3, <2>4, <2>5 DEF Executor!Submit
  <2> QED BY <2>2, <2>6
<1>2. ASSUME NEW w \in Workers, Pop(w) PROVE Executor!Start
  <2> DEFINE t == Head(tasks)
  <2>1. /\ tasks # <<>> /\ pc[w] = "pop" /\ tasks' = Tail(tasks)
        /\ cur' = [cur EXCEPT ![w] = t] /\ UNCHANGED <<result, owner>>
    BY <1>2 DEF Pop
  <2>2. t \in Queued /\ t \in Tasks
    BY <1>0, <2>1, ElemsTail DEF Queued
  <2>3. t \notin InHand /\ t \notin Ran
    BY <2>2 DEF OnceOnly, InHand, Ran
  <2>4. cur[w] = NoTask
    BY <2>1 DEF Fresh
  <2>5. InHand' = InHand \cup {t}
    <3> HIDE DEF t
    <3>1. cur'[w] = t /\ t # NoTask /\ \A v \in Workers : v # w => cur'[v] = cur[v]
      BY <1>0, <2>1, <2>2
    <3> QED BY <2>4, <3>1 DEF InHand
  <2>6. Ran' = Ran /\ (owner' = "gone") = (owner = "gone")
    BY <2>1 DEF Ran
  <2> QED BY <2>1, <2>3, <2>5, <2>6 DEF Executor!Start
<1>3. ASSUME NEW w \in Workers, Finish(w) PROVE \E t \in Tasks : Executor!Finish(t)
  <2>1. /\ pc[w] = "run" /\ cur' = [cur EXCEPT ![w] = NoTask]
        /\ result' = [result EXCEPT ![cur[w]] = "value"] /\ UNCHANGED <<tasks, owner>>
    BY <1>3 DEF Finish
  <2>2. cur[w] \in Tasks /\ cur[w] \in InHand /\ InHand' = InHand \ {cur[w]}
    BY <2>1, HandsAfterEnd
  <2>3. Ran' = Ran \cup {cur[w]}
    BY <1>0, <2>1, <2>2 DEF Ran
  <2>4. Executor!Finish(cur[w])
    BY <2>1, <2>2, <2>3 DEF Executor!Finish
  <2> QED BY <2>2, <2>4
\* The task that throws ends; the one it could not submit was never accepted.
<1>4. ASSUME NEW w \in Workers, Reject(w) PROVE \E t \in Tasks : Executor!Finish(t)
  <2> DEFINE u == Head(todo[w])
  <2>1. /\ pc[w] = "run" /\ cur' = [cur EXCEPT ![w] = NoTask] /\ todo[w] # <<>>
        /\ result' = [[result EXCEPT ![cur[w]] = "exception"] EXCEPT ![u] = "rejected"]
        /\ UNCHANGED <<tasks, owner>>
    BY <1>4 DEF Reject
  <2>2. u \in Tasks /\ Unseen(u)
    <3>1. w \in Actors /\ todo[w] \in Seq(Tasks)
      BY <1>0 DEF Actors
    <3> QED BY <2>1, <3>1, ElemsTail DEF Fresh
  <2> HIDE DEF u
  <2>3. cur[w] \in Tasks /\ cur[w] \in InHand /\ InHand' = InHand \ {cur[w]}
    BY <2>1, HandsAfterEnd
  <2>4. u # cur[w] /\ result[u] = "none"
    BY <2>2 DEF Unseen
  <2>5. Ran' = Ran \cup {cur[w]}
    BY <1>0, <2>1, <2>2, <2>3, <2>4 DEF Ran
  <2>6. Executor!Finish(cur[w])
    BY <2>1, <2>3, <2>5 DEF Executor!Finish
  <2> QED BY <2>3, <2>6
<1>5. CASE JoinWorker
  <2>1. UNCHANGED <<tasks, cur, result, pc>> /\ owner = "join" /\ owner' \in {"join", "gone"}
    BY <1>5 DEF JoinWorker
  <2>2. InHand' = InHand /\ Ran' = Ran
    BY <2>1 DEF InHand, Ran
  <2>3. CASE owner' = "gone"
    <3>1. \A w \in Workers : pc[w] = "exited"
      BY <2>1, <2>3 DEF LeaveInv
    <3>2. 1 \in Workers
      BY NAssumption DEF Workers
    <3>3. tasks = <<>> /\ InHand = {}
      BY <3>1, <3>2 DEF LeaveInv, Fresh, InHand
    <3> QED BY <2>1, <2>2, <2>3, <3>3 DEF Executor!Next, Executor!Close
  <2>4. CASE owner' = "join"
    BY <2>1, <2>2, <2>4 DEF Executor!vars
  <2> QED BY <2>1, <2>3, <2>4
<1>6. ASSUME UNCHANGED <<tasks, cur, result>>, (owner' = "gone") = (owner = "gone")
      PROVE  UNCHANGED Executor!vars
  BY <1>6 DEF Executor!vars, InHand, Ran
<1>7. ASSUME NEW a \in Actors, Release(a) PROVE UNCHANGED Executor!vars
  BY <1>6, <1>7 DEF Release
<1>8. ASSUME NEW w \in Workers, Acquire(w) \/ CheckStop(w) \/ PopNothing(w) \/ PopDestroyed(w)
      PROVE  UNCHANGED Executor!vars
  BY <1>6, <1>8 DEF Acquire, CheckStop, PopNothing, PopDestroyed
<1>9. CASE SetStopping \/ RequestStop \/ ReleaseAll \/ DestroyMembers \/ UNCHANGED vars
  BY <1>6, <1>9 DEF SetStopping, RequestStop, ReleaseAll, DestroyMembers, vars
<1> QED BY <1>1, <1>2, <1>3, <1>4, <1>5, <1>7, <1>8, <1>9
        DEF Next, Submission, WorkerStep, Dtor, Terminated, Executor!Next

\* The pool implements the abstract executor up to the end of the process: tasks
\* start in the order of their submission, each once, and when the destructor
\* does return every task that submit accepted has run.
THEOREM PoolRefinesExecutor == Spec => ImplementsExecutor
<1>1. Init => Executor!Init
  <2> SUFFICES ASSUME Init PROVE Executor!Init
    OBVIOUS
  <2>1. tasks = <<>> /\ InHand = {} /\ Ran = {} /\ owner # "gone"
    BY DEF Init, InHand, Ran
  <2> QED BY <2>1 DEF Executor!Init
<1>2. Init => OnceOnly /\ Fresh /\ LeaveInv
  <2>1. Init => LeaveInv
    BY DEF Init, LeaveInv
  <2> QED BY <2>1, OnceInit
<1>3. CoreInv /\ OnceOnly /\ Fresh /\ LeaveInv /\ LeaveInv' /\ [Next]_vars
         => [Executor!Next]_(Executor!vars)
  BY StepSimulation
<1>4. CoreInv /\ LeaveInv /\ [Next]_vars => LeaveInv'
  BY LeaveStep
<1> QED BY <1>1, <1>2, <1>3, <1>4, CoreInit, CoreStep, OnceStep, PTL
        DEF Spec, ImplementsExecutor, Executor!Spec
================================================================================
