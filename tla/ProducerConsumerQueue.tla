----------------------- MODULE ProducerConsumerQueue -----------------------
(***************************************************************************)
(* The one-producer one-consumer ring of src/multiThread:                  *)
(* OneReaderOneWriterQueue3.cpp (stop, and an array of T that it owns),    *)
(* OneReaderOneWriterQueue_folly.cpp (raw storage, no stop) and, as far as *)
(* read and write go, OneReaderOneWriterQueue.cpp.                         *)
(*                                                                         *)
(* Every atomic load or store that the other thread can see is a step, and *)
(* so is every access to a slot.  Items are numbered in the order they are *)
(* written, as in the programs that test the queue.  T is a type with a    *)
(* destructor: live holds the slots in which an object lives.  An index of *)
(* unsigned type takes 2 * Half values; sizeGuess subtracts in that type   *)
(* and converts to int.                                                    *)
(***************************************************************************)
EXTENDS Integers

CONSTANTS
    Size,      \* size_: slots of the ring
    Half,      \* 2^(w-1) for indices of w bits
    MaxItems   \* bound: items the producer writes

ASSUME SizeAssumption == Size \in Nat /\ Size >= 2
ASSUME HalfAssumption == Half \in Nat /\ Size < 2 * Half
ASSUME BoundAssumption == MaxItems \in Nat

VARIABLES
    folly,       \* which class the queue is: OneReaderOneWriterQueue_folly.cpp,
                 \* raw storage and no stop(), or OneReaderOneWriterQueue3.cpp
    records,     \* records_
    live,        \* the slots that hold an object whose lifetime has not ended
    readIndex,   \* readIndex_
    writeIndex,  \* writeIndex_
    stopped,     \* _stopped
    ppc,         \* where the producer is
    cpc,         \* where the consumer is
    sent,        \* items written so far: the number of the next one
    got,         \* the item the consumer read last, -1 before the first
    ask,         \* what each thread learnt from its last query, if it still counts
    gone,        \* the destructor has run
    twice        \* a destructor of T was applied where no object lives

vars == <<folly, records, live, readIndex, writeIndex, stopped, ppc, cpc, sent, got,
          ask, gone, twice>>

Slots == 0..(Size - 1)

Roles == {"producer", "consumer"}

NoAnswer == [empty |-> FALSE, full |-> FALSE, size |-> 0, valid |-> FALSE]

Answers == [empty : BOOLEAN, full : BOOLEAN, size : Int, valid : BOOLEAN]

Blank == -1

TypeOK == /\ folly \in BOOLEAN
          /\ records \in [Slots -> Int]
          /\ live \subseteq Slots
          /\ readIndex \in Slots
          /\ writeIndex \in Slots
          /\ stopped \in BOOLEAN
          /\ ppc \in {"idle", "load", "construct", "publish"}
          /\ cpc \in {"idle", "load", "take", "front", "pop", "destroy", "publish"}
          /\ sent \in Nat
          /\ got \in Int
          /\ ask \in [Roles -> Answers]
          /\ gone \in BOOLEAN
          /\ twice \in BOOLEAN

Init == /\ folly \in BOOLEAN
        /\ records = [s \in Slots |-> Blank]
        /\ live = IF folly THEN {} ELSE Slots
        /\ readIndex = 0
        /\ writeIndex = 0
        /\ stopped = FALSE
        /\ ppc = "idle"
        /\ cpc = "idle"
        /\ sent = 0
        /\ got = -1
        /\ ask = [r \in Roles |-> NoAnswer]
        /\ gone = FALSE
        /\ twice = FALSE

\* nextRecord
NextSlot(s) == IF s + 1 = Size THEN 0 ELSE s + 1

Forget(r) == ask' = [ask EXCEPT ![r] = NoAnswer]

-----------------------------------------------------------------------------
(* write, by the producer.                                                 *)

\* _stopped is tested, where there is one; write fails on a stopped queue.
WriteStart == /\ ~gone /\ ppc = "idle" /\ sent < MaxItems
              /\ ppc' = IF stopped THEN "idle" ELSE "load"
              /\ Forget("producer")
              /\ UNCHANGED <<folly, records, live, readIndex, writeIndex,
                             stopped, cpc, sent, got, gone, twice>>

\* Mutant: every slot is used, so that full looks like empty.
WriteLoadAll == /\ ppc = "load"
                /\ ppc' = "construct"
                /\ UNCHANGED <<folly, records, live, readIndex, writeIndex,
                               stopped, cpc, sent, got, ask, gone, twice>>

\* readIndex_ is loaded: the queue is full, or the slot at writeIndex_ is free.
WriteLoad == /\ ppc = "load"
             /\ ppc' = IF NextSlot(writeIndex) = readIndex THEN "idle" ELSE "construct"
             /\ UNCHANGED <<folly, records, live, readIndex, writeIndex,
                            stopped, cpc, sent, got, ask, gone, twice>>

\* Mutant: with a relaxed store of the index the record need not be visible when
\* the index is.
ConstructUnseen == /\ ppc = "construct"
                   /\ records' \in {records, [records EXCEPT ![writeIndex] = sent]}
                   /\ live' = live \cup {writeIndex}
                   /\ ppc' = "publish"
                   /\ UNCHANGED <<folly, readIndex, writeIndex, stopped, cpc,
                                  sent, got, ask, gone, twice>>

\* new (&records_[currentWrite]) T(...)
Construct == /\ ppc = "construct"
             /\ records' = [records EXCEPT ![writeIndex] = sent]
             /\ live' = live \cup {writeIndex}
             /\ ppc' = "publish"
             /\ UNCHANGED <<folly, readIndex, writeIndex, stopped, cpc, sent,
                            got, ask, gone, twice>>

\* writeIndex_.store(nextRecord, release)
WritePublish == /\ ppc = "publish"
                /\ writeIndex' = NextSlot(writeIndex)
                /\ sent' = sent + 1
                /\ ppc' = "idle"
                /\ UNCHANGED <<folly, records, live, readIndex, stopped, cpc,
                               got, ask, gone, twice>>

-----------------------------------------------------------------------------
(* read, frontPtr and popFront, by the consumer.                           *)

ReadStart == /\ ~gone /\ cpc = "idle"
             /\ cpc' = IF stopped THEN "idle" ELSE "load"
             /\ Forget("consumer")
             /\ UNCHANGED <<folly, records, live, readIndex, writeIndex,
                            stopped, ppc, sent, got, gone, twice>>

\* Mutant: one record left counts as none.
ReadLoadLast == /\ cpc = "load"
                /\ cpc' = IF readIndex = writeIndex \/ NextSlot(readIndex) = writeIndex
                          THEN "idle" ELSE "take"
                /\ UNCHANGED <<folly, records, live, readIndex, writeIndex,
                               stopped, ppc, sent, got, ask, gone, twice>>

\* Mutant: read does not look whether there is anything to read.
ReadLoadUnchecked == /\ cpc = "load"
                     /\ cpc' = "take"
                     /\ UNCHANGED <<folly, records, live, readIndex,
                                    writeIndex, stopped, ppc, sent, got, ask,
                                    gone, twice>>

\* writeIndex_ is loaded: the queue is empty, or records_[currentRead] is ready.
ReadLoad == /\ cpc = "load"
            /\ cpc' = IF readIndex = writeIndex THEN "idle" ELSE "take"
            /\ UNCHANGED <<folly, records, live, readIndex, writeIndex,
                           stopped, ppc, sent, got, ask, gone, twice>>

\* record = std::move(records_[currentRead])
Take == /\ cpc = "take"
        /\ got' = records[readIndex]
        /\ cpc' = "destroy"
        /\ UNCHANGED <<folly, records, live, readIndex, writeIndex, stopped,
                       ppc, sent, ask, gone, twice>>

\* frontPtr() that returns a pointer; nullptr changes nothing.
FrontPtr == /\ ~gone /\ cpc = "idle"
            /\ readIndex # writeIndex
            /\ cpc' = "front"
            /\ Forget("consumer")
            /\ UNCHANGED <<folly, records, live, readIndex, writeIndex,
                           stopped, ppc, sent, got, gone, twice>>

\* The caller of frontPtr uses the record in place.
UseFront == /\ cpc = "front"
            /\ got' = records[readIndex]
            /\ cpc' = "pop"
            /\ UNCHANGED <<folly, records, live, readIndex, writeIndex,
                           stopped, ppc, sent, ask, gone, twice>>

\* popFront() begins; its assert is part of NoSlotRace.
PopFront == /\ cpc = "pop"
            /\ cpc' = "destroy"
            /\ UNCHANGED <<folly, records, live, readIndex, writeIndex,
                           stopped, ppc, sent, got, ask, gone, twice>>

\* Mutant: read does not end the lifetime of what it moved from.
DestroyNothing == /\ cpc = "destroy"
                  /\ cpc' = "publish"
                  /\ UNCHANGED <<folly, records, live, readIndex, writeIndex,
                                 stopped, ppc, sent, got, ask, gone, twice>>

\* records_[currentRead].~T()
Destroy == /\ cpc = "destroy"
           /\ live' = live \ {readIndex}
           /\ twice' = (twice \/ readIndex \notin live)
           /\ cpc' = "publish"
           /\ UNCHANGED <<folly, records, readIndex, writeIndex, stopped, ppc,
                          sent, got, ask, gone>>

\* readIndex_.store(nextRecord, release)
ReadPublish == /\ cpc = "publish"
               /\ readIndex' = NextSlot(readIndex)
               /\ cpc' = "idle"
               /\ UNCHANGED <<folly, records, live, writeIndex, stopped, ppc,
                              sent, got, ask, gone, twice>>

-----------------------------------------------------------------------------
(* The queries, by either thread between two operations of its own.  One   *)
(* of the two indices a query loads is the caller's and does not move, so  *)
(* the other load is the step, in whatever order the two are made.         *)

\* A value of unsigned type, converted to int.
ToInt(n) == IF n >= Half THEN n - 2 * Half ELSE n

\* a - b in unsigned type
Minus(a, b) == IF a >= b THEN a - b ELSE a - b + 2 * Half

\* Mutant: the correction for a wrapped index adds the capacity.
SizeGuessCapacity == LET ret == ToInt(Minus(writeIndex, readIndex))
                     IN  IF ret < 0 THEN ToInt(Minus(Size - 1, -ret)) ELSE ret

SizeGuess == LET ret == ToInt(Minus(writeIndex, readIndex))
             IN  IF ret < 0 THEN ToInt(Minus(Size, -ret)) ELSE ret

\* isEmpty(), isFull() and sizeGuess()
Query(r) == /\ ~gone
            /\ IF r = "producer" THEN ppc = "idle" ELSE cpc = "idle"
            /\ ask' = [ask EXCEPT ![r] =
                         [empty |-> readIndex = writeIndex,
                          full  |-> NextSlot(writeIndex) = readIndex,
                          size  |-> SizeGuess,
                          valid |-> TRUE]]
            /\ UNCHANGED <<folly, records, live, readIndex, writeIndex,
                           stopped, ppc, cpc, sent, got, gone, twice>>

-----------------------------------------------------------------------------
(* stop and the destructor.                                                *)

Stop == /\ ~folly /\ ~gone
        /\ stopped' = TRUE
        /\ UNCHANGED <<folly, records, live, readIndex, writeIndex, ppc, cpc,
                       sent, got, ask, gone, twice>>

\* The slots from index r up to, not including, index w.
Between(r, w) == {s \in Slots : IF r <= w THEN r <= s /\ s < w ELSE r <= s \/ s < w}

\* Both threads are done.  ~ProducerConsumerQueue destroys the records between
\* the indices; then an array of T that is owned by records_ is deleted, which
\* destroys all its elements.
Dtor == /\ ~gone /\ ppc = "idle" /\ cpc = "idle"
        /\ gone' = TRUE
        /\ LET rest == Between(readIndex, writeIndex)
           IN  /\ live' = IF folly THEN live \ rest ELSE {}
               /\ twice' = \/ twice
                           \/ ~(rest \subseteq live)
                           \/ ~folly /\ live \ rest # Slots
        /\ UNCHANGED <<folly, records, readIndex, writeIndex, stopped, ppc,
                       cpc, sent, got, ask>>

Producer == WriteStart \/ WriteLoad \/ Construct \/ WritePublish

Consumer == \/ ReadStart \/ ReadLoad \/ Take \/ Destroy \/ ReadPublish
            \/ FrontPtr \/ UseFront \/ PopFront

Terminated == gone /\ UNCHANGED vars

Next == \/ Producer
        \/ Consumer
        \/ \E r \in Roles : Query(r)
        \/ Stop
        \/ Dtor
        \/ Terminated

Spec == Init /\ [][Next]_vars

\* The two loops of the test programs, while(!q.write(el)) and
\* while(!q.read(el)), keep calling, and both threads are scheduled.
Fairness == WF_vars(Producer) /\ WF_vars(Consumer)

FairSpec == Spec /\ Fairness

-----------------------------------------------------------------------------
(* Properties.                                                             *)

\* How many records lie between the indices.
Used == IF readIndex <= writeIndex THEN writeIndex - readIndex
                                   ELSE writeIndex + Size - readIndex

\* The i-th slot from readIndex on.
Slot(i) == IF readIndex + i < Size THEN readIndex + i ELSE readIndex + i - Size

\* The consumer has the front record in hand and not yet given its slot back.
Taken == IF cpc \in {"pop", "destroy", "publish"} THEN 1 ELSE 0

\* While the consumer is at the front record, the slot the producer constructs
\* in, the one at writeIndex, is another one; this is also the assert of
\* popFront.  The indices are all the synchronisation there is.
NoSlotRace == cpc \in {"take", "front", "pop", "destroy"} => readIndex # writeIndex

\* The assert in consume() of the test programs: every item read is the one
\* after the item read before, so none is lost, repeated or torn.
InOrder == [][got' # got => got' = got + 1]_vars

\* What the comment on sizeGuess says, and the same of isEmpty and isFull: to
\* the consumer the true size may be more and to the producer it may be less,
\* never the other way round.
GuessBounds ==
    /\ ask["producer"].valid =>
          /\ Used <= ask["producer"].size
          /\ ask["producer"].empty => Used = 0
          /\ ~ask["producer"].full => Used < Size - 1
    /\ ask["consumer"].valid =>
          /\ ask["consumer"].size <= Used
          /\ ~ask["consumer"].empty => Used > 0
          /\ ask["consumer"].full => Used = Size - 1

\* "We need to destruct anything that may still exist in our queue": every
\* object is destroyed, and none that no longer lives.
LifetimesMatch == ~twice /\ (gone => live = {})

\* The same of the class with raw storage, where read, popFront and the
\* destructor are the only ones to end a lifetime.
RawLifetimesMatch == folly => LifetimesMatch

\* Whatever was written is read, unless the queue is stopped or destroyed first.
AllDelivered ==
    \A n \in 0..(MaxItems - 1) : (sent > n) ~> (got >= n \/ stopped \/ gone)

Fifo == INSTANCE BoundedFifo WITH
          Capacity <- Size - 1,
          q <- IF gone THEN <<>>
               ELSE [i \in 1..(Used - Taken) |-> records[Slot(i + Taken - 1)]],
          sent <- sent,
          got <- got

\* The ring implements a bounded first-in first-out queue of size - 1 items.
ImplementsFifo == Fifo!Spec

\* Why: the records between the indices are the items that follow the last one
\* read, in order, up to the last one written.
RingInv ==
    /\ TypeOK
    /\ Used - Taken = sent - got - 1
    /\ \A i \in Taken..(Used - 1) : records[Slot(i)] = got + 1 + i - Taken
    /\ ppc \in {"construct", "publish"} => Used < Size - 1
    /\ ppc = "publish" => records[writeIndex] = sent
    /\ cpc \notin {"idle", "load"} => Used > 0
    /\ gone => ppc = "idle" /\ cpc = "idle"
=============================================================================
