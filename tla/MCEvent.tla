------------------------------- MODULE MCEvent -------------------------------
(* A small instance of Event: three threads and two event bits. *)
EXTENDS Event, TLC

CONSTANTS t1, t2, t3, e0, e1

MCThreads == {t1, t2, t3}
MCPrio == [t \in MCThreads |-> 1]
MCSymmetry == Permutations(MCThreads) \cup Permutations({e0, e1})
=============================================================================
