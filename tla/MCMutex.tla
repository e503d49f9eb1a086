------------------------------- MODULE MCMutex -------------------------------
(* Small instances of Mutex: three threads of different priorities. *)
EXTENDS Mutex

CONSTANTS t1, t2, t3

MCThreads == {t1, t2, t3}
MCPrio == (t1 :> 1) @@ (t2 :> 2) @@ (t3 :> 3)
=============================================================================
