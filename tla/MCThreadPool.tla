---------------------------- MODULE MCThreadPool ----------------------------
(***************************************************************************)
(* ThreadPool for TLC.  Client c1 submits the chain of                     *)
(* FutureOnPoolChain.cpp: t3 waits for the futures of t1 and t2.  Client   *)
(* c2 submits t4, whose body submits t5 to the same pool.                  *)
(***************************************************************************)
EXTENDS ThreadPool

CONSTANTS c1, c2, t1, t2, t3, t4, t5

MCClients == {c1, c2}
MCTasks == {t1, t2, t3, t4, t5}
MCScript == [c \in MCClients |-> IF c = c1 THEN <<t1, t2, t3>> ELSE <<t4>>]
MCSpawns == [t \in MCTasks |-> IF t = t4 THEN <<t5>> ELSE <<>>]
MCDeps == [t \in MCTasks |-> IF t = t3 THEN {t1, t2} ELSE {}]
=============================================================================
