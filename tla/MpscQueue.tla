----------------------------- MODULE MpscQueue -----------------------------
(***************************************************************************)
(* mpsc_queue of src/multiThread/OneReaderMWriter2.cpp (the same class is  *)
(* in OneReaderOneWriterQueue2.cpp): one bounded single-producer queue per *)
(* producer, and a consumer that sweeps over all of them, hands what it    *)
(* found to a callback and ends when stop() was called and every producer  *)
(* has counted itself out.                                                 *)
(*                                                                         *)
(* produce() reads _stop once per round of its loop, once to decide        *)
(* whether to count itself out, and once more for its result: three steps. *)
(* The program around it is that of the file's main: each producer calls   *)
(* produce with a batch until it returns true, and stop comes at any time. *)
(***************************************************************************)
EXTENDS Integers, Sequences

CONSTANTS
    P,         \* producers, and queues
    Capacity,  \* producerCapacity
    Batch,     \* items of one call of produce
    MaxItems   \* bound: items one producer offers before stop

ASSUME SizesAssumption == /\ P \in Nat \ {0} /\ Capacity \in Nat \ {0}
                          /\ Batch \in Nat \ {0} /\ MaxItems \in Nat

Producers == 1..P

VARIABLES
    queue,      \* _producerQueues; an item is <<producer, number>>
    buf,        \* _consumerBuf
    offset,     \* _consumerBufOffset
    stop,       \* _stop
    done,       \* _donePorodicers
    pc,         \* where each producer is
    left,       \* items of its batch a producer has still to push
    pushed,     \* items a producer has pushed in all
    cpc,        \* where the consumer is
    at,         \* the queue the consumer is sweeping
    delivered   \* what the callback was given, so far

vars == <<queue, buf, offset, stop, done, pc, left, pushed, cpc, at, delivered>>

Items == Producers \X (1..MaxItems)

TypeOK == /\ queue \in [Producers -> Seq(Items)]
          /\ \A p \in Producers : Len(queue[p]) <= Capacity
          /\ buf \in Seq(Items)
          /\ offset \in 0..Len(buf)
          /\ stop \in BOOLEAN
          /\ done \in 0..P
          /\ pc \in [Producers -> {"loop", "count", "return", "ended"}]
          /\ left \in [Producers -> 0..Batch]
          /\ pushed \in [Producers -> 0..MaxItems]
          /\ cpc \in {"sweep", "call", "check", "ended"}
          /\ at \in Producers
          /\ delivered \in Seq(Items)

Init == /\ queue = [p \in Producers |-> <<>>]
        /\ buf = <<>>
        /\ offset = 0
        /\ stop = FALSE
        /\ done = 0
        /\ pc = [p \in Producers |-> "loop"]
        /\ left = [p \in Producers |-> Batch]
        /\ pushed = [p \in Producers |-> 0]
        /\ cpc = "sweep"
        /\ at = 1
        /\ delivered = <<>>

-----------------------------------------------------------------------------
(* produce, and the loop in produceOne that calls it.                      *)

\* The queue's push(begin, end): as many items as there is room for.
Room(p) == LET free == Capacity - Len(queue[p])
           IN  IF left[p] <= free THEN left[p] ELSE free

\* A round of the loop: not stopped, something left to push.
PushSome(p) == /\ pc[p] = "loop"
               /\ ~stop
               /\ left[p] > 0
               /\ pushed[p] + Room(p) <= MaxItems
               /\ queue' = [queue EXCEPT ![p] = @ \o
                              [i \in 1..Room(p) |-> <<p, pushed[p] + i>>]]
               /\ left' = [left EXCEPT ![p] = @ - Room(p)]
               /\ pushed' = [pushed EXCEPT ![p] = @ + Room(p)]
               /\ UNCHANGED <<buf, offset, stop, done, pc, cpc, at, delivered>>

\* Mutant: the loop ends only when the batch is pushed.
LoopEndsPushed(p) == /\ pc[p] = "loop"
                     /\ left[p] = 0
                     /\ pc' = [pc EXCEPT ![p] = "count"]
                     /\ UNCHANGED <<queue, buf, offset, stop, done, left, pushed,
                                    cpc, at, delivered>>

\* The loop ends: stopped, or the batch is pushed.
LoopEnds(p) == /\ pc[p] = "loop"
               /\ stop \/ left[p] = 0
               /\ pc' = [pc EXCEPT ![p] = "count"]
               /\ UNCHANGED <<queue, buf, offset, stop, done, left, pushed, cpc,
                              at, delivered>>

\* if (_stop) ++_donePorodicers;
Count(p) == /\ pc[p] = "count"
            /\ done' = IF stop THEN done + 1 ELSE done
            /\ pc' = [pc EXCEPT ![p] = "return"]
            /\ UNCHANGED <<queue, buf, offset, stop, left, pushed, cpc, at,
                           delivered>>

\* return _stop; and produceOne calls again with a new batch unless it is true.
Return(p) == /\ pc[p] = "return"
             /\ pc' = [pc EXCEPT ![p] = IF stop THEN "ended" ELSE "loop"]
             /\ left' = [left EXCEPT ![p] = Batch]
             /\ UNCHANGED <<queue, buf, offset, stop, done, pushed, cpc, at,
                            delivered>>

-----------------------------------------------------------------------------
(* consume.                                                                *)

\* Mutant: every chunk goes to the front of the buffer.
PopChunkFront == /\ cpc = "sweep"
                 /\ queue[at] # <<>>
                 /\ buf' = queue[at] \o buf
                 /\ offset' = offset + Len(queue[at])
                 /\ queue' = [queue EXCEPT ![at] = <<>>]
                 /\ UNCHANGED <<stop, done, pc, left, pushed, cpc, at, delivered>>

\* queue.pop takes what is there; it is inserted at the offset.
PopChunk == /\ cpc = "sweep"
            /\ queue[at] # <<>>
            /\ buf' = SubSeq(buf, 1, offset) \o queue[at] \o
                      SubSeq(buf, offset + 1, Len(buf))
            /\ offset' = offset + Len(queue[at])
            /\ queue' = [queue EXCEPT ![at] = <<>>]
            /\ UNCHANGED <<stop, done, pc, left, pushed, cpc, at, delivered>>

\* queue.pop returns 0: on to the next queue.
NextQueue == /\ cpc = "sweep"
             /\ queue[at] = <<>>
             /\ at' = IF at = P THEN 1 ELSE at + 1
             /\ cpc' = IF at = P THEN "call" ELSE "sweep"
             /\ UNCHANGED <<queue, buf, offset, stop, done, pc, left, pushed,
                            delivered>>

\* f(std::move(_consumerBuf)), by value, which leaves the vector empty.
Call == /\ cpc = "call"
        /\ delivered' = delivered \o buf
        /\ buf' = <<>>
        /\ offset' = 0
        /\ cpc' = "check"
        /\ UNCHANGED <<queue, stop, done, pc, left, pushed, at>>

\* Mutant: the consumer ends as soon as it sees stop.
CheckStopOnly == /\ cpc = "check"
                 /\ cpc' = IF stop THEN "ended" ELSE "sweep"
                 /\ UNCHANGED <<queue, buf, offset, stop, done, pc, left, pushed,
                                at, delivered>>

\* if (_stop && _donePorodicers == _producerQueues.size()) break;
Check == /\ cpc = "check"
         /\ cpc' = IF stop /\ done = P THEN "ended" ELSE "sweep"
         /\ UNCHANGED <<queue, buf, offset, stop, done, pc, left, pushed, at,
                        delivered>>

-----------------------------------------------------------------------------

Stop == /\ ~stop
        /\ stop' = TRUE
        /\ UNCHANGED <<queue, buf, offset, done, pc, left, pushed, cpc, at,
                       delivered>>

Produce(p) == PushSome(p) \/ LoopEnds(p) \/ Count(p) \/ Return(p)

Consume == PopChunk \/ NextQueue \/ Call \/ Check

Next == (\E p \in Producers : Produce(p)) \/ Consume \/ Stop

Spec == Init /\ [][Next]_vars

\* All threads are scheduled, and main calls stop after its sleep.
Fairness == /\ \A p \in Producers : WF_vars(Produce(p))
            /\ WF_vars(Consume)
            /\ WF_vars(Stop)

FairSpec == Spec /\ Fairness

-----------------------------------------------------------------------------
(* Properties.                                                             *)

\* What the consumer has taken so far, and how many items of p that is.
Taken == delivered \o buf
Gone(p) == pushed[p] - Len(queue[p])

\* What a producer pushed is, in this order, what the callback got of it, what
\* is in the buffer and what is in its queue: nothing is lost, repeated or
\* reordered, whatever the consumer and the other producers do.
Conserved ==
    /\ \A p \in Producers :
        /\ \A i \in 1..Len(queue[p]) : queue[p][i] = <<p, Gone(p) + i>>
        /\ \A n \in 1..Gone(p) : \E i \in 1..Len(Taken) : Taken[i] = <<p, n>>
    /\ \A i \in 1..Len(Taken) : Taken[i][2] <= Gone(Taken[i][1])
    /\ \A i, j \in 1..Len(Taken) :
        i < j /\ Taken[i][1] = Taken[j][1] => Taken[i][2] < Taken[j][2]

\* The types, and no item lost, repeated or reordered.
QueueInv == TypeOK /\ Conserved

\* The consumer does not end while a producer may still push.
ConsumerEndsLast ==
    cpc = "ended" => \A p \in Producers : pc[p] \in {"return", "ended"}

\* Once stop() is called no call of produce goes on for ever and no producer
\* calls it again, even if its queue is full.
ProducersEnd == stop ~> \A p \in Producers : pc[p] = "ended"

\* main waits for the consumer after it stopped the queue and the producers
\* returned: consume() ends.
ConsumerEnds == stop ~> cpc = "ended"
=============================================================================
