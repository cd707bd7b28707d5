------------------------ MODULE MCHierarchicalMutex ------------------------
(***************************************************************************)
(* HierarchicalMutex for TLC: two levels, two mutexes on the lower.        *)
(***************************************************************************)
EXTENDS HierarchicalMutex

CONSTANTS a, b, c, high, low, side

MCThreads == {a, b, c}
MCMutexes == {high, low, side}
MCLevel == [m \in MCMutexes |-> IF m = high THEN 2 ELSE 1]
=============================================================================
