------------------------------ MODULE MCMemPool ------------------------------
(* Small instances of MemPool: three threads and two blocks. *)
EXTENDS MemPool

CONSTANTS t1, t2, t3

MCThreads == {t1, t2, t3}
MCPrio == [t \in MCThreads |-> 1]
MCSymmetry == Permutations(MCThreads)
=============================================================================
