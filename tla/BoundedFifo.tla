---------------------------- MODULE BoundedFifo ----------------------------
(***************************************************************************)
(* What a bounded one-producer one-consumer queue promises, with no slots, *)
(* indices or threads in it: items come out in the order in which they     *)
(* went in, each one once, and no more than Capacity are in it.            *)
(***************************************************************************)
EXTENDS Integers, Sequences

CONSTANT Capacity

VARIABLES q,    \* the items in the queue, oldest first
          sent, \* the next item; items are numbered in the order they are sent
          got   \* the item delivered last, -1 before the first

vars == <<q, sent, got>>

Init == /\ q = <<>>
        /\ sent = 0
        /\ got = -1

Put == /\ Len(q) < Capacity
       /\ q' = Append(q, sent)
       /\ sent' = sent + 1
       /\ UNCHANGED got

Get == /\ q # <<>>
       /\ got' = Head(q)
       /\ q' = Tail(q)
       /\ UNCHANGED sent

\* The queue is destroyed with what is still in it.
Drop == /\ q' = <<>>
        /\ UNCHANGED <<sent, got>>

Spec == Init /\ [][Put \/ Get \/ Drop]_vars
=============================================================================
