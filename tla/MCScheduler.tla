----------------------------- MODULE MCScheduler -----------------------------
(* A small system: the idle thread, two static threads of the highest      *)
(* priority, one of which manages a dynamic worker of a lower one.         *)
EXTENDS Scheduler

CONSTANTS idle, main, app, worker

MCThreads == {idle, main, app, worker}
MCPriority == (idle :> 2) @@ (main :> 0) @@ (app :> 0) @@ (worker :> 1)
MCSlice == (idle :> 1) @@ (main :> 2) @@ (app :> 1) @@ (worker :> 1)
=============================================================================
