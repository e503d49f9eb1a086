----------------------------- MODULE ThreadCore -----------------------------
(***************************************************************************)
(* The part of an RT-Thread thread control block that blocking services    *)
(* share: its state, the error number a blocked call returns, and the      *)
(* thread timer that ends a timed wait (rt-thread/src/thread.c), with what *)
(* the wake-all loop of IPC objects (rt-thread/src/ipc.c) does to it.      *)
(*                                                                         *)
(* The kernel is uniprocessor: a section between rt_hw_interrupt_disable   *)
(* and rt_hw_interrupt_enable is one step.  Between two such sections any  *)
(* thread that is not suspended, or an interrupt, may run; "READY" stands  *)
(* for both RT_THREAD_READY and RT_THREAD_RUNNING.                         *)
(***************************************************************************)
EXTENDS ThreadLists

CONSTANTS
    Priorities,     \* what current_priority may be, 0 is the highest
    Prio            \* Prio[t]: init_priority of t

ASSUME PrioAssumption ==
    /\ Priorities \subseteq Nat
    /\ Prio \in [Threads -> Priorities]

VARIABLES
    stat,       \* thread->stat
    error,      \* thread->error
    timer       \* thread_timer is linked in the timer list

threadVars == <<stat, error, timer>>

Errors == {"EOK", "ERROR", "ETIMEOUT"}

(* The three kinds of waiting time: 0, a tick count, RT_WAITING_FOREVER. *)
TimeKinds == {"none", "timed", "forever"}

ThreadTypeOK ==
    /\ stat \in [Threads -> {"READY", "SUSPEND"}]
    /\ error \in [Threads -> Errors]
    /\ timer \in [Threads -> BOOLEAN]

ThreadInit ==
    /\ stat = [t \in Threads |-> "READY"]
    /\ error = [t \in Threads |-> "EOK"]
    /\ timer = [t \in Threads |-> FALSE]

-----------------------------------------------------------------------------
(* Where a thread may be linked when it blocks: rt_ipc_list_suspend        *)
(* compares the current priorities, which mutexes and rt_thread_control    *)
(* change at any time, also of threads in the list, and which are left     *)
(* open here.                                                              *)
SuspendLists(list, t, flag) ==
    {SuspendList(list, t, flag, prio) : prio \in [Threads -> Priorities]}

(* A thread blocks itself: thread->error = RT_EOK, rt_thread_suspend (which *)
(* also stops the thread timer), and the timer started when time > 0.      *)
Suspend(t, time) ==
    /\ stat' = [stat EXCEPT ![t] = "SUSPEND"]
    /\ error' = [error EXCEPT ![t] = "EOK"]
    /\ timer' = [timer EXCEPT ![t] = (time = "timed")]

(* rt_thread_resume of a suspended thread: its timer is stopped first. *)
Resume(t) ==
    /\ stat' = [stat EXCEPT ![t] = "READY"]
    /\ timer' = [timer EXCEPT ![t] = FALSE]
    /\ UNCHANGED error

(* One turn of the loop of rt_ipc_list_resume_all. *)
ResumeWithError(t) ==
    /\ stat' = [stat EXCEPT ![t] = "READY"]
    /\ timer' = [timer EXCEPT ![t] = FALSE]
    /\ error' = [error EXCEPT ![t] = "ERROR"]

(* rt_ipc_list_resume_all called with interrupts disabled: every thread of *)
(* the set W of listed threads is resumed with -RT_ERROR.                  *)
ResumeAll(W) ==
    /\ stat' = [t \in Threads |-> IF t \in W THEN "READY" ELSE stat[t]]
    /\ timer' = [t \in Threads |-> IF t \in W THEN FALSE ELSE timer[t]]
    /\ error' = [t \in Threads |-> IF t \in W THEN "ERROR" ELSE error[t]]

(* rt_thread_timeout, called by the tick interrupt when the thread timer,  *)
(* a one-shot timer, has expired.                                          *)
TimeoutThread(t) ==
    /\ timer[t]
    /\ stat' = [stat EXCEPT ![t] = "READY"]
    /\ timer' = [timer EXCEPT ![t] = FALSE]
    /\ error' = [error EXCEPT ![t] = "ETIMEOUT"]
=============================================================================
