-------------------- MODULE ProducerConsumerQueueProofs --------------------
(***************************************************************************)
(* Theorems about ProducerConsumerQueue for every ring size, every number  *)
(* of items and both variants.  RingInv is the inductive invariant: the    *)
(* records between the indices are consecutive items.                      *)
(***************************************************************************)
EXTENDS ProducerConsumerQueue, SequenceTheorems, TLAPS

USE SizeAssumption

LEMMA NextSlotType == \A s \in Slots : NextSlot(s) \in Slots
  BY DEF NextSlot, Slots

LEMMA UsedType == TypeOK => Used \in 0..(Size - 1)
  BY DEF TypeOK, Used, Slots

\* Publishing a record adds one to Used, and leaves the slots before it alone.
LEMMA UsedGrows ==
  ASSUME TypeOK, Used < Size - 1, readIndex' = readIndex,
         writeIndex' = NextSlot(writeIndex)
  PROVE  Used' = Used + 1 /\ Slot(Used) = writeIndex
  BY DEF TypeOK, Used, Slot, Slots, NextSlot

\* Giving the front slot back takes one from Used and shifts the others.
LEMMA UsedShrinks ==
  ASSUME TypeOK, Used > 0, writeIndex' = writeIndex,
         readIndex' = NextSlot(readIndex)
  PROVE  /\ Used' = Used - 1
         /\ \A i \in 0..(Used - 2) : Slot(i)' = Slot(i + 1)
  BY DEF TypeOK, Used, Slot, Slots, NextSlot

\* The writer's slot is none of the occupied ones.
LEMMA WriteSlotFree ==
  ASSUME TypeOK, Used < Size - 1
  PROVE  \A i \in 0..(Used - 1) : Slot(i) # writeIndex /\ Slot(i) \in Slots
  BY DEF TypeOK, Used, Slot, Slots

LEMMA SlotType == ASSUME TypeOK PROVE \A i \in 0..(Size - 1) : Slot(i) \in Slots
  BY DEF TypeOK, Slot, Slots

LEMMA FrontSlot == ASSUME TypeOK PROVE Slot(0) = readIndex
  BY DEF TypeOK, Slot, Slots

\* write sees a free slot exactly when the ring is not full.
LEMMA FullTest == TypeOK => (NextSlot(writeIndex) = readIndex <=> Used = Size - 1)
  BY DEF TypeOK, Used, Slots, NextSlot

LEMMA EmptyTest == TypeOK => (readIndex = writeIndex <=> Used = 0)
  BY DEF TypeOK, Used, Slots

LEMMA SizeGuessInt == TypeOK => SizeGuess \in Int
  BY HalfAssumption DEF TypeOK, SizeGuess, ToInt, Minus, Slots

LEMMA AnswerTypes ==
  /\ NoAnswer \in Answers
  /\ TypeOK => [empty |-> readIndex = writeIndex,
                full  |-> NextSlot(writeIndex) = readIndex,
                size  |-> SizeGuess, valid |-> TRUE] \in Answers
  BY SizeGuessInt DEF NoAnswer, Answers

-----------------------------------------------------------------------------

LEMMA TypeStep == TypeOK /\ [Next]_vars => TypeOK'
  <1> SUFFICES ASSUME TypeOK, [Next]_vars PROVE TypeOK'
    OBVIOUS
  <1> USE DEF TypeOK
  <1>1. CASE Producer
    BY <1>1, NextSlotType, AnswerTypes
    DEF Producer, WriteStart, WriteLoad, Construct, WritePublish, Forget, Roles
  <1>2. CASE Consumer
    <2>1. CASE Take \/ UseFront \/ Destroy
      BY <2>1 DEF Take, UseFront, Destroy
    <2>2. CASE ReadStart \/ ReadLoad \/ ReadPublish \/ FrontPtr \/ PopFront
      BY <2>2, NextSlotType, AnswerTypes
      DEF ReadStart, ReadLoad, ReadPublish, FrontPtr, PopFront, Forget, Roles
    <2> QED
      BY <1>2, <2>1, <2>2 DEF Consumer
  <1>3. ASSUME NEW r \in Roles, Query(r) PROVE TypeOK'
    BY <1>3, AnswerTypes DEF Query
  <1>4. CASE Stop
    BY <1>4 DEF Stop
  <1>5. CASE Dtor
    BY <1>5 DEF Dtor
  <1>6. CASE UNCHANGED vars
    BY <1>6 DEF vars
  <1> QED
    BY <1>1, <1>2, <1>3, <1>4, <1>5, <1>6 DEF Next, Terminated

\* The steps that move no index, no record and neither counter.
Quiet == UNCHANGED <<records, readIndex, writeIndex, sent, got>>

LEMMA QuietUsed == Quiet => Used' = Used /\ \A i \in Int : Slot(i)' = Slot(i)
  BY DEF Quiet, Used, Slot

LEMMA RingInit == Init => RingInv
  <1> SUFFICES ASSUME Init PROVE RingInv
    OBVIOUS
  <1>1. TypeOK
    <2>1. Blank \in Int
      BY DEF Blank
    <2>2. records \in [Slots -> Int] /\ ask \in [Roles -> Answers]
      BY <2>1, AnswerTypes DEF Init
    <2>3. 0 \in Slots
      BY DEF Slots
    <2>4. live \subseteq Slots
      BY DEF Init
    <2>5. gone \in BOOLEAN /\ stopped \in BOOLEAN /\ twice \in BOOLEAN
      BY Zenon DEF Init
    <2> QED
      BY <2>2, <2>3, <2>4, <2>5 DEF Init, TypeOK
  <1>2. Used = 0 /\ Taken = 0
    BY DEF Init, Used, Taken
  <1> QED
    BY <1>1, <1>2 DEF RingInv, Init

LEMMA ProducerStep == ASSUME RingInv, TypeOK', Producer PROVE RingInv'
  <1> USE DEF RingInv
  <1>0. Used \in 0..(Size - 1) /\ Taken \in {0, 1} /\ sent \in Nat /\ got \in Int
    BY UsedType DEF Taken, TypeOK
  <1>1. CASE WriteStart
    <2>1. Quiet /\ Taken' = Taken /\ gone' = gone /\ cpc' = cpc
      BY <1>1 DEF WriteStart, Quiet, Taken
    <2>2. ppc' \in {"idle", "load"} /\ ~gone
      BY <1>1 DEF WriteStart
    <2> QED
      BY <1>0, <2>1, <2>2, QuietUsed DEF Quiet
  <1>2. CASE WriteLoad
    <2>1. Quiet /\ Taken' = Taken /\ gone' = gone /\ cpc' = cpc
      BY <1>2 DEF WriteLoad, Quiet, Taken
    <2>2. ppc' = "construct" => Used < Size - 1
      BY <1>2, <1>0, FullTest DEF WriteLoad
    <2>3. ppc' \in {"idle", "construct"} /\ ~gone
      BY <1>2 DEF WriteLoad
    <2> QED
      BY <1>0, <2>1, <2>2, <2>3, QuietUsed DEF Quiet
  <1>3. CASE Construct
    <2>1. /\ UNCHANGED <<readIndex, writeIndex, sent, got, cpc, gone>>
          /\ ppc' = "publish" /\ ~gone /\ Used < Size - 1
      BY <1>3 DEF Construct
    <2>2. Used' = Used /\ Taken' = Taken /\ \A i \in Int : Slot(i)' = Slot(i)
      BY <2>1 DEF Used, Taken, Slot
    <2>3. /\ records'[writeIndex] = sent
          /\ \A s \in Slots : s # writeIndex => records'[s] = records[s]
      BY <1>3 DEF Construct, TypeOK
    <2>4. \A i \in Taken'..(Used' - 1) : records'[Slot(i)'] = got' + 1 + i - Taken'
      BY <1>0, <2>1, <2>2, <2>3, WriteSlotFree
    <2> QED
      BY <1>0, <2>1, <2>2, <2>3, <2>4
  <1>4. CASE WritePublish
    <2>1. /\ UNCHANGED <<readIndex, records, got, cpc, gone>>
          /\ writeIndex' = NextSlot(writeIndex) /\ sent' = sent + 1
          /\ ppc' = "idle" /\ ~gone /\ Used < Size - 1 /\ records[writeIndex] = sent
      BY <1>4 DEF WritePublish
    <2>2. Used' = Used + 1 /\ Slot(Used) = writeIndex
      BY <2>1, UsedGrows
    <2>3. Taken' = Taken /\ \A i \in Int : Slot(i)' = Slot(i)
      BY <2>1 DEF Taken, Slot
    <2>4. \A i \in Taken'..(Used' - 1) : records'[Slot(i)'] = got' + 1 + i - Taken'
      <3> SUFFICES ASSUME NEW i \in Taken..Used
                   PROVE  records[Slot(i)] = got + 1 + i - Taken
        BY <1>0, <2>1, <2>2, <2>3
      <3>1. CASE i = Used
        BY <1>0, <2>1, <2>2, <3>1
      <3>2. CASE i # Used
        BY <1>0, <3>2
      <3> QED
        BY <3>1, <3>2
    <2> QED
      BY <1>0, <2>1, <2>2, <2>3, <2>4
  <1> QED
    BY <1>1, <1>2, <1>3, <1>4 DEF Producer

LEMMA ConsumerStep == ASSUME RingInv, TypeOK', Consumer PROVE RingInv'
  <1> USE DEF RingInv
  <1>0. Used \in 0..(Size - 1) /\ Taken \in {0, 1} /\ sent \in Nat /\ got \in Int
    BY UsedType DEF Taken, TypeOK
  <1>1. CASE ReadStart \/ ReadLoad \/ FrontPtr
    <2>1. Quiet /\ gone' = gone /\ ppc' = ppc /\ ~gone
      BY <1>1 DEF ReadStart, ReadLoad, FrontPtr, Quiet
    <2>2. Taken' = 0 /\ Taken = 0
      BY <1>1 DEF ReadStart, ReadLoad, FrontPtr, Taken
    <2>3. cpc' \notin {"idle", "load"} => Used > 0
      BY <1>0, <1>1, EmptyTest DEF ReadStart, ReadLoad, FrontPtr
    <2> QED
      BY <1>0, <2>1, <2>2, <2>3, QuietUsed DEF Quiet
  <1>2. CASE PopFront \/ Destroy
    <2>1. Quiet /\ gone' = gone /\ ppc' = ppc /\ ~gone /\ cpc \notin {"idle", "load"}
      BY <1>2 DEF PopFront, Destroy, Quiet
    <2>2. Taken' = 1 /\ Taken = 1
      BY <1>2 DEF PopFront, Destroy, Taken
    <2> QED
      BY <1>0, <2>1, <2>2, QuietUsed DEF Quiet
  <1>3. CASE Take \/ UseFront
    <2>1. /\ UNCHANGED <<records, readIndex, writeIndex, sent, ppc, gone>>
          /\ ~gone /\ got' = records[readIndex] /\ cpc \notin {"idle", "load"}
      BY <1>3 DEF Take, UseFront
    <2>2. Taken = 0 /\ Taken' = 1
      BY <1>3 DEF Take, UseFront, Taken
    <2>3. Used' = Used /\ \A i \in Int : Slot(i)' = Slot(i)
      BY <2>1 DEF Used, Slot
    <2>4. got' = got + 1
      BY <1>0, <2>1, <2>2, FrontSlot
    <2> QED
      BY <1>0, <2>1, <2>2, <2>3, <2>4
  <1>4. CASE ReadPublish
    <2>1. /\ UNCHANGED <<records, writeIndex, sent, got, ppc, gone>>
          /\ readIndex' = NextSlot(readIndex) /\ cpc' = "idle" /\ ~gone /\ Used > 0
      BY <1>4 DEF ReadPublish
    <2>2. Taken = 1 /\ Taken' = 0
      BY <1>4 DEF ReadPublish, Taken
    <2>3. Used' = Used - 1 /\ \A i \in 0..(Used - 2) : Slot(i)' = Slot(i + 1)
      BY <2>1, UsedShrinks
    <2>4. \A i \in 0..(Used - 2) : records[Slot(i + 1)] = got + 1 + i
      BY <1>0, <2>2
    <2>5. \A i \in Taken'..(Used' - 1) : records'[Slot(i)'] = got' + 1 + i - Taken'
      BY <1>0, <2>1, <2>2, <2>3, <2>4
    <2> QED
      BY <1>0, <2>1, <2>2, <2>3, <2>5
  <1> QED
    BY <1>1, <1>2, <1>3, <1>4 DEF Consumer

LEMMA RingStep == RingInv /\ [Next]_vars => RingInv'
  <1> SUFFICES ASSUME RingInv, [Next]_vars PROVE RingInv'
    OBVIOUS
  <1>0. TypeOK'
    BY TypeStep DEF RingInv
  <1>1. CASE Producer
    BY <1>0, <1>1, ProducerStep
  <1>2. CASE Consumer
    BY <1>0, <1>2, ConsumerStep
  <1>3. ASSUME Quiet, UNCHANGED <<ppc, cpc>>, gone' => ppc = "idle" /\ cpc = "idle"
        PROVE  RingInv'
    <2>1. Taken' = Taken
      BY <1>3 DEF Taken
    <2>2. Used \in Int /\ Taken \in Int
      BY UsedType DEF RingInv, Taken
    <2> QED
      BY <1>0, <1>3, <2>1, <2>2, QuietUsed DEF Quiet, RingInv
  <1>4. ASSUME NEW r \in Roles, Query(r) PROVE RingInv'
    BY <1>3, <1>4 DEF Query, Quiet, RingInv
  <1>5. CASE Stop \/ UNCHANGED vars
    BY <1>3, <1>5 DEF Stop, Quiet, RingInv, vars
  <1>6. CASE Dtor
    BY <1>3, <1>6 DEF Dtor, Quiet
  <1> QED
    BY <1>1, <1>2, <1>4, <1>5, <1>6 DEF Next, Terminated

\* RingInv holds in every reachable state of write, read, frontPtr and popFront.
THEOREM RingInvariant == Spec => []RingInv
  BY RingInit, RingStep, PTL DEF Spec

-----------------------------------------------------------------------------

\* The consumer and the producer never use the same slot, and the assert of
\* popFront holds, for every ring size.
THEOREM SlotsNotShared == Spec => []NoSlotRace
<1>1. RingInv => NoSlotRace
  BY EmptyTest DEF RingInv, NoSlotRace
<1> QED
  BY RingInvariant, <1>1, PTL

\* The assert of the test programs: items are read in the order they were
\* written, without a gap and without a repetition.
THEOREM ReadInOrder == Spec => InOrder
<1> DEFINE NextItem == got' # got => got' = got + 1
<1>1. RingInv /\ [Next]_vars => [NextItem]_vars
  <2> SUFFICES ASSUME RingInv, Next, got' # got PROVE got' = got + 1
    BY DEF vars
  <2>1. Take \/ UseFront
    BY DEF Next, Producer, Consumer, WriteStart, WriteLoad, Construct, WritePublish,
           ReadStart, ReadLoad, Destroy, ReadPublish, FrontPtr, PopFront, Query,
           Stop, Dtor, Terminated, vars
  <2>2. Taken = 0 /\ Used > 0 /\ got' = records[readIndex]
    BY <2>1 DEF Take, UseFront, Taken, RingInv
  <2>3. Used \in Int /\ got \in Int /\ Slot(0) = readIndex
    BY UsedType, FrontSlot DEF RingInv, TypeOK
  <2> QED
    BY <2>2, <2>3 DEF RingInv
<1> QED
  BY RingInvariant, <1>1, PTL DEF Spec, InOrder

-----------------------------------------------------------------------------
(* The queries.                                                            *)

\* An answer counts until the thread that asked calls an operation.
GuessInv == /\ GuessBounds
            /\ ask["producer"].valid => ppc = "idle"
            /\ ask["consumer"].valid => cpc = "idle"

\* When the ring has at most 2^(w-1) slots the conversions of sizeGuess lose
\* nothing.
LEMMA SizeGuessExact == ASSUME TypeOK, Size <= Half PROVE SizeGuess = Used
  <1> USE HalfAssumption DEF TypeOK, Slots
  <1>1. CASE readIndex <= writeIndex
    <2>1. Minus(writeIndex, readIndex) = writeIndex - readIndex
      BY <1>1 DEF Minus
    <2>2. ToInt(writeIndex - readIndex) = writeIndex - readIndex
      BY <1>1 DEF ToInt
    <2> QED
      BY <1>1, <2>1, <2>2 DEF SizeGuess, Used
  <1>2. CASE readIndex > writeIndex
    <2> DEFINE back == writeIndex - readIndex
    <2>1. Minus(writeIndex, readIndex) = back + 2 * Half
      BY <1>2 DEF Minus
    <2>2. ToInt(back + 2 * Half) = back
      BY <1>2 DEF ToInt
    <2>3. Minus(Size, -back) = Size + back /\ ToInt(Size + back) = Size + back
      BY <1>2 DEF Minus, ToInt
    <2> QED
      BY <1>2, <2>1, <2>2, <2>3 DEF SizeGuess, Used
  <1> QED
    BY <1>1, <1>2

LEMMA QueryAnswers ==
  ASSUME RingInv, GuessInv, Size <= Half, NEW r \in Roles, Query(r)
  PROVE  GuessInv'
  <1>1. TypeOK /\ Used \in 0..(Size - 1) /\ SizeGuess = Used
    BY UsedType, SizeGuessExact DEF RingInv
  <1>2. /\ ask'[r].size = Used
        /\ ask'[r].empty <=> Used = 0
        /\ ask'[r].full <=> Used = Size - 1
        /\ \A x \in Roles \ {r} : ask'[x] = ask[x]
    BY <1>1, EmptyTest, FullTest DEF Query, TypeOK
  <1>3. Used' = Used /\ ppc' = ppc /\ cpc' = cpc
    BY DEF Query, Used
  <1>4. IF r = "producer" THEN ppc = "idle" ELSE cpc = "idle"
    BY DEF Query
  <1>5. CASE r = "producer"
    <2>1. ask'["consumer"] = ask["consumer"] /\ ppc' = "idle"
      BY <1>2, <1>3, <1>4, <1>5 DEF Roles
    <2>2. /\ Used' <= ask'["producer"].size
          /\ ask'["producer"].empty => Used' = 0
          /\ ~ask'["producer"].full => Used' < Size - 1
      BY <1>1, <1>2, <1>3, <1>5
    <2> QED
      BY <1>3, <2>1, <2>2 DEF GuessInv, GuessBounds
  <1>6. CASE r = "consumer"
    <2>1. ask'["producer"] = ask["producer"] /\ cpc' = "idle"
      BY <1>2, <1>3, <1>4, <1>6 DEF Roles
    <2>2. /\ ask'["consumer"].size <= Used'
          /\ ~ask'["consumer"].empty => Used' > 0
          /\ ask'["consumer"].full => Used' = Size - 1
      BY <1>1, <1>2, <1>3, <1>6
    <2> QED
      BY <1>3, <2>1, <2>2 DEF GuessInv, GuessBounds
  <1> QED
    BY <1>5, <1>6 DEF Roles

LEMMA GuessStep ==
  ASSUME RingInv, GuessInv, [Next]_vars, Size <= Half
  PROVE  GuessInv'
  <1>0. /\ TypeOK /\ Used \in 0..(Size - 1)
        /\ ask["producer"].size \in Int /\ ask["consumer"].size \in Int
    BY UsedType DEF RingInv, TypeOK, Answers, Roles
  <1>1. ASSUME NEW r \in Roles, Query(r) PROVE GuessInv'
    BY <1>1, QueryAnswers
  <1>2. CASE WriteStart
    BY <1>2 DEF WriteStart, Forget, NoAnswer, GuessInv, GuessBounds, Used, TypeOK,
                RingInv, Roles
  <1>3. CASE ReadStart \/ FrontPtr
    BY <1>3 DEF ReadStart, FrontPtr, Forget, NoAnswer, GuessInv, GuessBounds, Used,
                TypeOK, RingInv, Roles
  <1>4. CASE WriteLoad \/ Construct \/ ReadLoad \/ Take \/ UseFront \/ PopFront \/ Destroy
             \/ Stop \/ Dtor \/ UNCHANGED vars
    <2>1. UNCHANGED <<ask, readIndex, writeIndex>>
      BY <1>4 DEF WriteLoad, Construct, ReadLoad, Take, UseFront, PopFront, Destroy,
                  Stop, Dtor, vars
    <2>2. (ppc = "idle" => ppc' = "idle") /\ (cpc = "idle" => cpc' = "idle")
      BY <1>4 DEF WriteLoad, Construct, ReadLoad, Take, UseFront, PopFront, Destroy,
                  Stop, Dtor, vars
    <2> QED
      BY <2>1, <2>2 DEF GuessInv, GuessBounds, Used
  <1>5. CASE WritePublish
    <2>1. Used' = Used + 1 /\ ask' = ask /\ ppc = "publish" /\ cpc' = cpc
      BY <1>5, UsedGrows DEF WritePublish, RingInv
    <2>2. Used < Size - 1 /\ ~ask["producer"].valid
      BY <2>1 DEF RingInv, GuessInv
    <2> QED
      BY <1>0, <2>1, <2>2 DEF GuessInv, GuessBounds
  <1>6. CASE ReadPublish
    <2>1. Used > 0 /\ cpc = "publish"
      BY <1>6 DEF ReadPublish, RingInv
    <2>2. Used' = Used - 1 /\ ask' = ask /\ ppc' = ppc
      BY <1>0, <1>6, <2>1, UsedShrinks DEF ReadPublish
    <2>3. ~ask["consumer"].valid
      BY <2>1 DEF GuessInv
    <2> QED
      BY <1>0, <2>1, <2>2, <2>3 DEF GuessInv, GuessBounds
  <1> QED
    BY <1>1, <1>2, <1>3, <1>4, <1>5, <1>6 DEF Next, Producer, Consumer, Terminated

\* What the comment on sizeGuess promises, with its analogues for isEmpty and
\* isFull, holds for every ring of at most 2^(w-1) slots.
THEOREM QueriesBound == Size <= Half => (Spec => []GuessBounds)
<1> SUFFICES ASSUME Size <= Half PROVE Spec => []GuessBounds
  OBVIOUS
<1>1. Init => GuessInv
  BY DEF Init, GuessInv, GuessBounds, NoAnswer, Roles
<1>2. RingInv /\ GuessInv /\ [Next]_vars => GuessInv'
  BY GuessStep
<1>3. GuessInv => GuessBounds
  BY DEF GuessInv
<1> QED
  BY RingInvariant, <1>1, <1>2, <1>3, PTL DEF Spec

-----------------------------------------------------------------------------
(* Lifetimes in the raw storage.                                           *)

\* The slots an object of the raw class lives in: those between the indices, the
\* one constructed in before writeIndex_ is stored, not the one destroyed before
\* readIndex_ is.
Occupied == {s \in Slots : \/ s \in Between(readIndex, writeIndex)
                           \/ ppc = "publish" /\ s = writeIndex}
            \ {s \in Slots : cpc = "publish" /\ s = readIndex}

LifeInv == folly => /\ ~twice
                    /\ live = IF gone THEN {} ELSE Occupied

\* The slots between the indices, when one of these moves.
LEMMA BetweenGrows ==
  ASSUME TypeOK, Used < Size - 1
  PROVE  /\ writeIndex \notin Between(readIndex, writeIndex)
         /\ Between(readIndex, NextSlot(writeIndex))
              = Between(readIndex, writeIndex) \cup {writeIndex}
<1> USE DEF TypeOK, Used, Slots, NextSlot, Between
<1>1. writeIndex \notin Between(readIndex, writeIndex)
  OBVIOUS
<1>2. \A s \in Slots : s \in Between(readIndex, NextSlot(writeIndex))
                        <=> s \in Between(readIndex, writeIndex) \/ s = writeIndex
  OBVIOUS
<1> QED BY <1>1, <1>2

LEMMA BetweenShrinks ==
  ASSUME TypeOK, Used > 0
  PROVE  /\ readIndex \in Between(readIndex, writeIndex)
         /\ Between(NextSlot(readIndex), writeIndex)
              = Between(readIndex, writeIndex) \ {readIndex}
<1> USE DEF TypeOK, Used, Slots, NextSlot, Between
<1>1. readIndex \in Between(readIndex, writeIndex)
  OBVIOUS
<1>2. \A s \in Slots : s \in Between(NextSlot(readIndex), writeIndex)
                        <=> s \in Between(readIndex, writeIndex) /\ s # readIndex
  OBVIOUS
<1> QED BY <1>1, <1>2

LEMMA LifeStep ==
  ASSUME RingInv, LifeInv, [Next]_vars
  PROVE  LifeInv'
<1>8. folly' = folly
  BY DEF Next, Producer, Consumer, WriteStart, WriteLoad, Construct, WritePublish, ReadStart,
         ReadLoad, Take, Destroy, ReadPublish, FrontPtr, UseFront, PopFront, Query, Stop, Dtor,
         Terminated, vars
<1> SUFFICES ASSUME folly PROVE ~twice' /\ live' = IF gone' THEN {} ELSE Occupied'
  BY <1>8 DEF LifeInv
<1>0. TypeOK /\ ~twice /\ live = IF gone THEN {} ELSE Occupied
  BY DEF LifeInv, RingInv
<1>1. /\ cpc = "publish" => readIndex # writeIndex
      /\ readIndex \in Slots /\ writeIndex \in Slots
  BY EmptyTest DEF RingInv, TypeOK
<1>2. CASE Construct
  <2>1. /\ live' = live \cup {writeIndex} /\ ppc' = "publish" /\ ppc # "publish" /\ ~gone
        /\ UNCHANGED <<readIndex, writeIndex, cpc, gone, twice>>
    BY <1>2 DEF Construct, RingInv
  <2> QED BY <1>0, <1>1, <2>1 DEF Occupied, Between
<1>3. CASE WritePublish
  <2>1. /\ writeIndex' = NextSlot(writeIndex) /\ ppc = "publish" /\ ppc' = "idle" /\ ~gone
        /\ UNCHANGED <<live, readIndex, cpc, gone, twice>> /\ Used < Size - 1
    BY <1>3 DEF WritePublish, RingInv
  <2>2. Between(readIndex, writeIndex)' = Between(readIndex, writeIndex) \cup {writeIndex}
    BY <1>0, <2>1, BetweenGrows DEF Between
  <2> QED BY <1>0, <1>1, <2>1, <2>2 DEF Occupied
<1>4. CASE Destroy
  <2>1. /\ live' = live \ {readIndex} /\ twice' = (twice \/ readIndex \notin live)
        /\ cpc = "destroy" /\ cpc' = "publish" /\ ~gone /\ Used > 0
        /\ UNCHANGED <<readIndex, writeIndex, ppc, gone>>
    BY <1>4 DEF Destroy, RingInv
  <2>2. readIndex \in Between(readIndex, writeIndex)
    BY <1>0, <2>1, BetweenShrinks
  <2>3. readIndex \in live
    BY <1>0, <1>1, <2>1, <2>2 DEF Occupied
  <2>4. live' = Occupied'
    BY <1>0, <1>1, <2>1 DEF Occupied, Between
  <2> QED BY <1>0, <2>1, <2>3, <2>4
<1>5. CASE ReadPublish
  <2>1. /\ readIndex' = NextSlot(readIndex) /\ cpc = "publish" /\ cpc' = "idle" /\ ~gone
        /\ UNCHANGED <<live, writeIndex, ppc, gone, twice>> /\ Used > 0
    BY <1>5 DEF ReadPublish, RingInv
  <2>2. Between(readIndex, writeIndex)' = Between(readIndex, writeIndex) \ {readIndex}
    BY <1>0, <2>1, BetweenShrinks DEF Between
  <2> QED BY <1>0, <1>1, <2>1, <2>2 DEF Occupied
<1>6. CASE Dtor
  <2>1. ppc = "idle" /\ cpc = "idle" /\ ~gone /\ gone'
    BY <1>6 DEF Dtor
  <2>2. live = Between(readIndex, writeIndex)
    BY <1>0, <2>1 DEF Occupied, Between
  <2> QED BY <1>0, <1>6, <2>1, <2>2 DEF Dtor
<1>7. CASE \/ WriteStart \/ WriteLoad \/ ReadStart \/ ReadLoad \/ Take \/ FrontPtr \/ UseFront
           \/ PopFront \/ Stop \/ (\E r \in Roles : Query(r)) \/ UNCHANGED vars
  <2>1. UNCHANGED <<live, readIndex, writeIndex, gone, twice>>
    BY <1>7 DEF WriteStart, WriteLoad, ReadStart, ReadLoad, Take, FrontPtr, UseFront,
                PopFront, Stop, Query, vars
  <2>2. (ppc' = "publish" <=> ppc = "publish") /\ (cpc' = "publish" <=> cpc = "publish")
    BY <1>7 DEF WriteStart, WriteLoad, ReadStart, ReadLoad, Take, FrontPtr, UseFront,
                PopFront, Stop, Query, vars
  <2> QED BY <1>0, <2>1, <2>2 DEF Occupied, Between
<1> QED
  BY <1>2, <1>3, <1>4, <1>5, <1>6, <1>7 DEF Next, Producer, Consumer, Terminated

\* In the class with raw storage no destructor of T is applied where no object
\* lives, and none is left out, for every ring size.
THEOREM LifetimesKept == Spec => []RawLifetimesMatch
<1>1. Init => LifeInv
  <2> SUFFICES ASSUME Init, folly PROVE ~twice /\ ~gone /\ live = {} /\ Occupied = {}
    BY DEF LifeInv
  <2>1. Between(readIndex, writeIndex) = {}
    BY DEF Init, Between, Slots
  <2> QED BY <2>1 DEF Init, Occupied
<1>2. RingInv /\ LifeInv /\ [Next]_vars => LifeInv'
  BY LifeStep
<1>3. LifeInv => RawLifetimesMatch
  BY DEF LifeInv, RawLifetimesMatch, LifetimesMatch
<1> QED BY RingInvariant, <1>1, <1>2, <1>3, PTL DEF Spec

-----------------------------------------------------------------------------
(* The ring implements BoundedFifo.                                        *)

\* The items after a and before b, in order.
Window(a, b) == [i \in 1..(b - a - 1) |-> a + i]

LEMMA WindowIsSeq ==
  ASSUME NEW a \in Int, NEW b \in Int, a < b
  PROVE  /\ Window(a, b) \in Seq(Int)
         /\ Len(Window(a, b)) = b - a - 1
  BY DEF Window

LEMMA WindowAppend ==
  ASSUME NEW a \in Int, NEW b \in Int, a < b
  PROVE  Append(Window(a, b), b) = Window(a, b + 1)
  BY WindowIsSeq DEF Window

LEMMA WindowTail ==
  ASSUME NEW a \in Int, NEW b \in Int, a + 1 < b
  PROVE  /\ Window(a, b) # <<>>
         /\ Head(Window(a, b)) = a + 1
         /\ Tail(Window(a, b)) = Window(a + 1, b)
  <1>1. Window(a, b) \in Seq(Int) /\ Len(Window(a, b)) = b - a - 1
    BY WindowIsSeq
  <1>2. Window(a, b) # <<>> /\ Head(Window(a, b)) = a + 1
    BY <1>1 DEF Window
  <1>3. Window(a + 1, b) \in Seq(Int) /\ Len(Window(a + 1, b)) = b - a - 2
    BY WindowIsSeq
  <1>4. /\ Tail(Window(a, b)) \in Seq(Int)
        /\ Len(Tail(Window(a, b))) = b - a - 2
        /\ \A i \in 1..(b - a - 2) : Tail(Window(a, b))[i] = Window(a, b)[i + 1]
    BY <1>1, <1>2, HeadTailProperties
  <1>5. \A i \in 1..(b - a - 2) : Window(a, b)[i + 1] = Window(a + 1, b)[i]
    BY DEF Window
  <1>6. Tail(Window(a, b)) = Window(a + 1, b)
    BY <1>3, <1>4, <1>5, SeqEqual
  <1> QED
    BY <1>2, <1>6

\* What the refinement mapping gives for q.
Contents == [i \in 1..(Used - Taken) |-> records[Slot(i + Taken - 1)]]

MapInv == Contents = Window(got, sent) /\ got < sent

LEMMA ContentsIsWindow == RingInv => MapInv
  <1> SUFFICES ASSUME RingInv PROVE MapInv
    OBVIOUS
  <1>1. /\ Used \in 0..(Size - 1) /\ Taken \in {0, 1} /\ sent \in Nat /\ got \in Int
        /\ Used - Taken = sent - got - 1 /\ Taken <= Used
    BY UsedType DEF RingInv, Taken, TypeOK
  <1>2. \A i \in 1..(Used - Taken) : records[Slot(i + Taken - 1)] = got + i
    <2> TAKE i \in 1..(Used - Taken)
    <2>1. i + Taken - 1 \in Taken..(Used - 1)
      BY <1>1
    <2>2. records[Slot(i + Taken - 1)] = got + 1 + (i + Taken - 1) - Taken
      BY <2>1 DEF RingInv
    <2> QED
      BY <1>1, <2>2
  <1>3. Contents = [i \in 1..(Used - Taken) |-> got + i]
    BY <1>2 DEF Contents
  <1> QED
    BY <1>1, <1>3 DEF Window, MapInv

\* Every step of the ring is a Put, a Get, the Drop of the destructor, or
\* changes nothing that a user of BoundedFifo sees: the queue is put to when
\* writeIndex_ is stored and got from when the record is moved out.
THEOREM RingRefinesFifo == Spec => ImplementsFifo
<1> DEFINE Q == IF gone THEN <<>> ELSE Contents
<1>1. Init => Fifo!Init
  <2> SUFFICES ASSUME Init PROVE Q = <<>> /\ sent = 0 /\ got = -1
    BY DEF Fifo!Init, Contents
  <2>1. Contents = Window(got, sent)
    BY RingInit, ContentsIsWindow DEF MapInv
  <2> QED
    BY <2>1 DEF Init, Window
<1>2. RingInv /\ MapInv /\ MapInv' /\ [Next]_vars => [Fifo!Put \/ Fifo!Get \/ Fifo!Drop]_(Fifo!vars)
  <2> SUFFICES ASSUME RingInv, MapInv, MapInv', [Next]_vars
               PROVE  \/ Len(Q) < Size - 1 /\ Q' = Append(Q, sent) /\ sent' = sent + 1 /\ got' = got
                      \/ Q # <<>> /\ got' = Head(Q) /\ Q' = Tail(Q) /\ sent' = sent
                      \/ Q' = <<>> /\ sent' = sent /\ got' = got
                      \/ Q' = Q /\ sent' = sent /\ got' = got
    BY DEF Fifo!Put, Fifo!Get, Fifo!Drop, Fifo!vars, Contents
  <2>0. /\ Contents = Window(got, sent) /\ got < sent
        /\ Contents' = Window(got', sent') /\ sent \in Int /\ got \in Int
    BY DEF MapInv, Window, RingInv, TypeOK
  <2>1. CASE WritePublish
    <3>1. /\ sent' = sent + 1 /\ got' = got /\ gone' = gone /\ ~gone /\ Used < Size - 1
      BY <2>1 DEF WritePublish, RingInv
    <3>2. Len(Window(got, sent)) < Size - 1
      <4>1. Len(Window(got, sent)) = sent - got - 1
        BY <2>0, WindowIsSeq
      <4>2. Used - Taken = sent - got - 1 /\ Taken \in {0, 1} /\ Used \in Int
        BY UsedType DEF RingInv, Taken
      <4> QED
        BY <2>0, <3>1, <4>1, <4>2
    <3>3. Append(Window(got, sent), sent) = Window(got, sent + 1)
      BY <2>0, WindowAppend
    <3>4. Q = Window(got, sent) /\ Q' = Window(got, sent + 1)
      BY <2>0, <3>1
    <3> HIDE DEF Q
    <3> QED
      BY <3>1, <3>2, <3>3, <3>4
  <2>2. CASE Take \/ UseFront
    <3>1. /\ sent' = sent /\ gone' = gone /\ ~gone /\ Used > 0 /\ Taken = 0
          /\ got' = records[readIndex]
      BY <2>2 DEF Take, UseFront, RingInv, Taken
    <3>2. Used \in Int /\ Slot(0) = readIndex
      BY UsedType, FrontSlot DEF RingInv
    <3>3. got' = got + 1 /\ got + 1 < sent
      BY <2>0, <3>1, <3>2 DEF RingInv
    <3>4. /\ Window(got, sent) # <<>> /\ Head(Window(got, sent)) = got + 1
          /\ Tail(Window(got, sent)) = Window(got + 1, sent)
      BY <2>0, <3>3, WindowTail
    <3>5. Q = Window(got, sent) /\ Q' = Window(got + 1, sent)
      BY <2>0, <3>1, <3>3
    <3> HIDE DEF Q
    <3> QED
      BY <3>1, <3>3, <3>4, <3>5
  <2>3. CASE Dtor
    BY <2>3 DEF Dtor
  <2>4. ASSUME UNCHANGED <<sent, got, gone>> PROVE Q' = Q /\ sent' = sent /\ got' = got
    BY <2>0, <2>4
  <2>5. ASSUME NEW r \in Roles, Query(r) PROVE UNCHANGED <<sent, got, gone>>
    BY <2>5 DEF Query
  <2>6. CASE \/ WriteStart \/ WriteLoad \/ Construct \/ ReadStart \/ ReadLoad \/ Destroy
             \/ ReadPublish \/ FrontPtr \/ PopFront \/ Stop \/ UNCHANGED vars
    BY <2>4, <2>6 DEF WriteStart, WriteLoad, Construct, ReadStart, ReadLoad, Destroy,
                      ReadPublish, FrontPtr, PopFront, Stop, vars
  <2> QED
    BY <2>1, <2>2, <2>3, <2>4, <2>5, <2>6 DEF Next, Producer, Consumer, Terminated
<1> QED
  BY RingInvariant, ContentsIsWindow, <1>1, <1>2, PTL DEF Spec, ImplementsFifo, Fifo!Spec
=============================================================================
