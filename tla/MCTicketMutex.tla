--------------------------- MODULE MCTicketMutex ---------------------------
(***************************************************************************)
(* TicketMutex for TLC.                                                    *)
(***************************************************************************)
EXTENDS TicketMutex

CONSTANTS a, b, c

MCThreads == {a, b, c}
MCTryLockers == {c}
=============================================================================
