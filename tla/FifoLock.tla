------------------------------ MODULE FifoLock ------------------------------
(***************************************************************************)
(* What a fair lock promises, with no tickets or counters in it: whoever   *)
(* asks for the lock gets it after those that asked before, and after      *)
(* nobody else; whoever only tries gets it when nobody has it or asks.     *)
(***************************************************************************)
CONSTANT Threads

VARIABLES asking, \* the threads that asked for the lock and do not have it yet
          inside, \* the threads that have it
          ahead   \* whom each thread still has to wait for

vars == <<asking, inside, ahead>>

Init == /\ asking = {}
        /\ inside = {}
        /\ ahead = [t \in Threads |-> {}]

\* A thread asks: all that asked before, and the holder, come first.
Ask(t) == /\ t \notin asking \cup inside
          /\ asking' = asking \cup {t}
          /\ ahead' = [ahead EXCEPT ![t] = asking \cup inside]
          /\ UNCHANGED inside

Enter(t) == /\ t \in asking
            /\ ahead[t] = {}
            /\ asking' = asking \ {t}
            /\ inside' = inside \cup {t}
            /\ UNCHANGED ahead

\* A thread that only tries takes the lock when it is free and nobody asks.
TryEnter(t) == /\ asking \cup inside = {}
               /\ inside' = {t}
               /\ UNCHANGED <<asking, ahead>>

Leave(t) == /\ t \in inside
            /\ inside' = inside \ {t}
            /\ ahead' = [u \in Threads |-> ahead[u] \ {t}]
            /\ UNCHANGED asking

Next == \E t \in Threads : Ask(t) \/ Enter(t) \/ TryEnter(t) \/ Leave(t)

Spec == Init /\ [][Next]_vars
=============================================================================
