----------------------------- MODULE ThreadLists -----------------------------
(***************************************************************************)
(* Lists of threads, linked through thread->tlist: the suspend lists of    *)
(* IPC objects (rt-thread/src/ipc.c) and the lists of the ready table      *)
(* (scheduler.c).                                                          *)
(***************************************************************************)
EXTENDS Integers, SequencesExt

CONSTANT Threads    \* the threads that may be linked

(* Where rt_ipc_list_suspend links a thread into a suspend list: at the    *)
(* tail, or in front of the first thread of lower priority.                *)
SuspendList(list, t, flag, prio) ==
    LET lower == {i \in DOMAIN list : prio[t] < prio[list[i]]}
    IN  IF flag = "FIFO" \/ lower = {}
        THEN Append(list, t)
        ELSE InsertAt(list, Min(lower), t)

(* rt_list_remove of a thread: the list loses it if it was linked there. *)
ListRemove(list, t) ==
    IF t \in ToSet(list)
    THEN RemoveAt(list, CHOOSE j \in DOMAIN list : list[j] = t)
    ELSE list

(* A list in which priorities never rise from head to tail. *)
PriorityOrdered(list, prio) ==
    \A i, j \in DOMAIN list : i < j => prio[list[i]] <= prio[list[j]]
=============================================================================
