------------------------------ MODULE Semaphore ------------------------------
(***************************************************************************)
(* RT-Thread counting semaphores (rt-thread/src/ipc.c): rt_sem_take with   *)
(* its blocking path, rt_sem_release, rt_sem_control(RT_IPC_CMD_RESET),    *)
(* rt_sem_detach / rt_sem_delete and rt_sem_init / rt_sem_create.          *)
(*                                                                         *)
(* A release with a waiter does not touch value: it resumes the first      *)
(* waiter with error RT_EOK, which is how the token changes hands.  Two    *)
(* threads then act on one token at different times, and a timeout, a      *)
(* reset or a detach may come in between.                                  *)
(***************************************************************************)
EXTENDS ThreadCore, FiniteSets

CONSTANTS
    Flag,           \* parent.flag: "FIFO" or "PRIO"
    ValueRange,     \* value is an rt_uint16_t: it counts modulo 2^16
    InitValues,     \* values passed to rt_sem_init and to RESET
    Times,          \* kinds of waiting time the callers use
    MayDetach,      \* the object is detached (or deleted) at run time
    Quiesce         \* no call starts once a detach has begun

ASSUME SemAssumption ==
    /\ Flag \in {"FIFO", "PRIO"}
    /\ ValueRange \in Nat \ {0, 1}
    /\ InitValues \subseteq 0..(ValueRange - 1)
    /\ InitValues # {}
    /\ Times \subseteq TimeKinds
    /\ MayDetach \in BOOLEAN
    /\ Quiesce \in BOOLEAN
    /\ IsFiniteSet(Threads)

VARIABLES
    value,           \* sem->value
    suspend_thread,  \* sem->parent.suspend_thread
    pc,              \* "idle", or "take": inside the blocking path of rt_sem_take
    obj,             \* "live", "check", "resume", "remove" (in detach), "gone"
    wild,            \* rt_thread_resume was given the list head as a thread
    owed,            \* history: tokens put in and not yet returned to a taker
    current_priority,\* thread->current_priority
    stale            \* history: a listed thread has changed its priority, and
                     \* the list has not been empty since

prioVars == <<current_priority, stale>>

vars == <<stat, error, timer, value, suspend_thread, pc, obj, wild, owed, prioVars>>

(* Threads that were resumed with a token and have not returned with it. *)
Granted == {t \in Threads : pc[t] = "take" /\ stat[t] = "READY" /\ error[t] = "EOK"}

Init ==
    /\ ThreadInit
    /\ value \in InitValues
    /\ suspend_thread = <<>>
    /\ pc = [t \in Threads |-> "idle"]
    /\ obj = "live"
    /\ wild = FALSE
    /\ owed = value
    /\ current_priority = Prio
    /\ stale = FALSE

(* A call may be made on the object. *)
Usable == ~wild /\ (obj = "live" \/ (obj # "gone" /\ ~Quiesce))

-----------------------------------------------------------------------------
(* rt_sem_take up to the point where it returns or schedules away. *)
TakeAvailable(t) ==
    /\ value > 0
    /\ value' = value - 1
    /\ owed' = owed - 1
    /\ UNCHANGED <<threadVars, suspend_thread, pc, stale>>

TakeNoWait(t, time) ==
    /\ value = 0
    /\ time = "none"
    /\ UNCHANGED <<threadVars, value, suspend_thread, pc, owed, stale>>

TakeBlock(t, time) ==
    /\ value = 0
    /\ time # "none"
    /\ suspend_thread' = SuspendList(suspend_thread, t, Flag, current_priority)
    /\ stale' = (stale /\ suspend_thread # <<>>)
    /\ Suspend(t, time)
    /\ pc' = [pc EXCEPT ![t] = "take"]
    /\ UNCHANGED <<value, owed>>

Take(t, time) ==
    /\ Usable
    /\ pc[t] = "idle"
    /\ TakeAvailable(t) \/ TakeNoWait(t, time) \/ TakeBlock(t, time)
    /\ UNCHANGED <<obj, wild, current_priority>>

(* The resumed thread leaves rt_schedule and returns thread->error. *)
TakeReturn(t) ==
    /\ ~wild
    /\ pc[t] = "take"
    /\ stat[t] = "READY"
    /\ pc' = [pc EXCEPT ![t] = "idle"]
    /\ owed' = IF error[t] = "EOK" THEN owed - 1 ELSE owed
    /\ UNCHANGED <<threadVars, value, suspend_thread, obj, wild, prioVars>>

(* Mutant of ReleaseHandOver: the waiter that came last is resumed. *)
ReleaseLastWaiter ==
    /\ suspend_thread # <<>>
    /\ Resume(Last(suspend_thread))
    /\ suspend_thread' = Front(suspend_thread)
    /\ owed' = owed + 1
    /\ UNCHANGED value

(* Mutant of ReleaseCount: value is raised although threads wait. *)
ReleaseAlwaysCounts ==
    /\ value' = (value + 1) % ValueRange
    /\ owed' = IF value + 1 = ValueRange THEN owed + 1 - ValueRange ELSE owed + 1
    /\ UNCHANGED <<threadVars, suspend_thread>>

(* rt_sem_release, by a thread or an interrupt handler. *)
ReleaseHandOver ==
    /\ suspend_thread # <<>>
    /\ Resume(Head(suspend_thread))
    /\ suspend_thread' = Tail(suspend_thread)
    /\ owed' = owed + 1
    /\ UNCHANGED value

ReleaseCount ==
    /\ suspend_thread = <<>>
    /\ IF value + 1 = ValueRange
       THEN value' = 0 /\ owed' = owed + 1 - ValueRange
       ELSE value' = value + 1 /\ owed' = owed + 1
    /\ UNCHANGED <<threadVars, suspend_thread>>

Release ==
    /\ Usable
    /\ ReleaseHandOver \/ ReleaseCount
    /\ UNCHANGED <<pc, obj, wild, prioVars>>

(* Mutant of Timeout: the thread stays linked in the suspend list. *)
TimeoutStaysLinked(t) ==
    /\ ~wild
    /\ TimeoutThread(t)
    /\ UNCHANGED <<value, suspend_thread, pc, obj, wild, owed, prioVars>>

(* The thread timer of a waiter expires. *)
Timeout(t) ==
    /\ ~wild
    /\ TimeoutThread(t)
    /\ suspend_thread' = ListRemove(suspend_thread, t)
    /\ UNCHANGED <<value, pc, obj, wild, owed, prioVars>>

(* rt_sem_control(RT_IPC_CMD_RESET): resume_all runs with interrupts off. *)
Reset(v) ==
    /\ Usable
    /\ ResumeAll(ToSet(suspend_thread))
    /\ suspend_thread' = <<>>
    /\ value' = v
    /\ owed' = v + Cardinality(Granted)
    /\ UNCHANGED <<pc, obj, wild, prioVars>>

-----------------------------------------------------------------------------
(* rt_sem_detach and rt_sem_delete: the loop of rt_ipc_list_resume_all     *)
(* tests the list with interrupts enabled, disables them, and takes        *)
(* list->next without testing again.                                       *)
DetachBegin ==
    /\ MayDetach
    /\ ~wild
    /\ obj = "live"
    /\ obj' = "check"
    /\ UNCHANGED <<threadVars, value, suspend_thread, pc, wild, owed, prioVars>>

(* Mutant of DetachCheck: a test for one waiter, not for the last one. *)
DetachCheckOne ==
    /\ ~wild
    /\ obj = "check"
    /\ obj' = IF Len(suspend_thread) <= 1 THEN "remove" ELSE "resume"
    /\ UNCHANGED <<threadVars, value, suspend_thread, pc, wild, owed, prioVars>>

DetachCheck ==
    /\ ~wild
    /\ obj = "check"
    /\ obj' = IF suspend_thread = <<>> THEN "remove" ELSE "resume"
    /\ UNCHANGED <<threadVars, value, suspend_thread, pc, wild, owed, prioVars>>

(* Mutant of DetachResume: the waiter is resumed with RT_EOK. *)
DetachResumeOK ==
    /\ ~wild
    /\ obj = "resume"
    /\ obj' = "check"
    /\ suspend_thread # <<>>
    /\ Resume(Head(suspend_thread))
    /\ suspend_thread' = Tail(suspend_thread)
    /\ UNCHANGED <<wild, value, pc, owed, prioVars>>

DetachResume ==
    /\ ~wild
    /\ obj = "resume"
    /\ obj' = "check"
    /\ IF suspend_thread = <<>>
       THEN /\ wild' = TRUE      \* list->next is the list itself
            /\ UNCHANGED <<threadVars, suspend_thread>>
       ELSE /\ ResumeWithError(Head(suspend_thread))
            /\ suspend_thread' = Tail(suspend_thread)
            /\ UNCHANGED wild
    /\ UNCHANGED <<value, pc, owed, prioVars>>

(* rt_object_detach / rt_object_delete. *)
DetachRemove ==
    /\ ~wild
    /\ obj = "remove"
    /\ obj' = "gone"
    /\ UNCHANGED <<threadVars, value, suspend_thread, pc, wild, owed, prioVars>>

(* rt_sem_init on the memory of a detached semaphore, or rt_sem_create. *)
Reinit(v) ==
    /\ ~wild
    /\ obj = "gone"
    /\ obj' = "live"
    /\ value' = v
    /\ owed' = v + Cardinality(Granted)
    /\ suspend_thread' = <<>>
    /\ UNCHANGED <<threadVars, pc, wild, prioVars>>

(* rt_thread_control(RT_THREAD_CTRL_CHANGE_PRIORITY), called by a thread or *)
(* by mutex code on the owner: a thread in a suspend list stays where it   *)
(* is.                                                                     *)
ChangePriority(t, p) ==
    /\ ~wild
    /\ p # current_priority[t]
    /\ current_priority' = [current_priority EXCEPT ![t] = p]
    /\ stale' = (stale \/ t \in ToSet(suspend_thread))
    /\ UNCHANGED <<threadVars, value, suspend_thread, pc, obj, wild, owed>>

-----------------------------------------------------------------------------
Next ==
    \/ \E t \in Threads, time \in Times : Take(t, time)
    \/ \E t \in Threads : TakeReturn(t)
    \/ \E t \in Threads : Timeout(t)
    \/ Release
    \/ \E v \in InitValues : Reset(v)
    \/ DetachBegin
    \/ DetachCheck
    \/ DetachResume
    \/ DetachRemove
    \/ \E v \in InitValues : Reinit(v)
    \/ \E t \in Threads, p \in Priorities : ChangePriority(t, p)

Spec == Init /\ [][Next]_vars

(* The tick interrupt fires every armed timer, a ready thread gets the     *)
(* processor (the one that detaches too), and the releasing side keeps     *)
(* releasing.                                                              *)
Fairness ==
    /\ \A t \in Threads : WF_vars(TakeReturn(t)) /\ WF_vars(Timeout(t))
    /\ WF_vars(Release)
    /\ WF_vars(DetachCheck \/ DetachResume \/ DetachRemove)

FairSpec == Spec /\ Fairness

-----------------------------------------------------------------------------
(* The fields of the object and of its callers keep to their ranges. *)
TypeOK ==
    /\ ThreadTypeOK
    /\ value \in 0..(ValueRange - 1)
    /\ suspend_thread \in Seq(Threads)
    /\ pc \in [Threads -> {"idle", "take"}]
    /\ obj \in {"live", "check", "resume", "remove", "gone"}
    /\ wild \in BOOLEAN
    /\ owed \in Nat
    /\ current_priority \in [Threads -> Priorities]
    /\ stale \in BOOLEAN

(* The suspend list holds exactly the threads blocked in rt_sem_take, each *)
(* once, still with error RT_EOK; rt_thread_timeout asserts that a thread  *)
(* with a running timer is suspended.                                      *)
WaitersConsistent ==
    /\ IsInjective(suspend_thread)
    /\ \A t \in Threads :
          /\ stat[t] = "SUSPEND" <=> t \in ToSet(suspend_thread)
          /\ stat[t] = "SUSPEND" => pc[t] = "take" /\ error[t] = "EOK"
          /\ timer[t] => stat[t] = "SUSPEND"

(* No lost wakeup: a thread waits only while there is no token. *)
NoTokenWithWaiters == value > 0 => suspend_thread = <<>>

(* Every token put in is in value, or with a thread that was resumed with  *)
(* it and will return RT_EOK: a timeout, a reset or a detach that races a  *)
(* hand-over neither loses nor duplicates one.  Only the wrap of the       *)
(* 16-bit value (which owed accounts for) makes tokens vanish.             *)
TokenConservation == owed = value + Cardinality(Granted)

(* With RT_IPC_FLAG_PRIO the list is sorted by the current priorities.     *)
(* The code does not promise it: no one moves a listed thread whose        *)
(* priority changes.                                                       *)
SortedByPriority == Flag = "PRIO" => PriorityOrdered(suspend_thread, current_priority)

(* The waiters are served in the order of their current priorities, which  *)
(* change freely, as long as none of them changes while in the list; one   *)
(* that does can disturb the order until the list has been empty.          *)
ServedByPriority == ~stale => SortedByPriority

(* rt_thread_resume asserts that what it is given is a thread object. *)
ResumesAThread == ~wild

(* "wakeup all suspend threads": none is left in the list of a detached    *)
(* semaphore.                                                              *)
AllWokenByDetach == obj = "gone" => suspend_thread = <<>>

(* Nobody can overtake t in the list, whatever its priority becomes. *)
Unbeaten(t) == Flag = "FIFO" \/ \A p \in Priorities : current_priority[t] <= p

(* A thread that blocks in rt_sem_take, on a FIFO semaphore or with the    *)
(* highest priority, returns from it while the other side goes on: by a    *)
(* release, a reset, its timeout or a detach, however others take again.   *)
(* Two ways out: a detach has resumed the list head as a thread, or the    *)
(* priority of a listed thread has changed.  Behind a thread that was      *)
(* lowered in the list, later ones pass even the highest priority.         *)
TakeReturns ==
    \A t \in Threads :
        pc[t] = "take" /\ Unbeaten(t)
            ~> pc[t] = "idle" \/ wild \/ (Flag = "PRIO" /\ stale)

(* The list, the threads in it and, up to priority changes of listed       *)
(* threads, their order agree, whoever is resumed, times out or is flushed *)
(* out by a reset or a detach.                                             *)
Consistent ==
    /\ TypeOK
    /\ WaitersConsistent
    /\ ServedByPriority
=============================================================================
