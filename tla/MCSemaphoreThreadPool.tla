----------------------- MODULE MCSemaphoreThreadPool -----------------------
(***************************************************************************)
(* SemaphoreThreadPool for TLC: the client submits t1, t2 and t3; t2, a    *)
(* detached task, submits t4 and t3 submits t5 to the same pool.           *)
(***************************************************************************)
EXTENDS SemaphoreThreadPool

CONSTANTS c1, t1, t2, t3, t4, t5

MCClients == {c1}
MCTasks == {t1, t2, t3, t4, t5}
MCScript == [c \in MCClients |-> <<t1, t2, t3>>]
MCSpawns == [t \in MCTasks |-> IF t = t2 THEN <<t4>> ELSE IF t = t3 THEN <<t5>> ELSE <<>>]
MCDetached == {t2}
=============================================================================
