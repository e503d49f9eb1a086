----------------------------- MODULE MCSemaphore -----------------------------
(* Small instances of Semaphore: three threads, two of equal priority. *)
EXTENDS Semaphore

CONSTANTS t1, t2, t3

MCThreads == {t1, t2, t3}
MCPrio == (t1 :> 1) @@ (t2 :> 2) @@ (t3 :> 2)
=============================================================================
