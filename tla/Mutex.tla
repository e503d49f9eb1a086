-------------------------------- MODULE Mutex --------------------------------
(***************************************************************************)
(* RT-Thread mutexes (rt-thread/src/ipc.c): recursive, owned, with         *)
(* priority inheritance and direct hand-over to the first waiter.          *)
(*                                                                         *)
(* original_priority is kept per mutex and is the current, possibly        *)
(* inherited, priority of the thread at the moment it becomes the owner.   *)
(* The module has a set of mutexes because this is what goes wrong when    *)
(* one thread holds two.                                                   *)
(***************************************************************************)
EXTENDS IpcObject, FiniteSets

CONSTANTS
    Mutexes,
    Flag,        \* parent.flag: "FIFO" or "PRIO"
    HoldRange,   \* hold is an rt_uint8_t: it counts modulo 2^8
    MaxNest,     \* bound: by how many a thread's takes exceed its releases
    Times,       \* kinds of waiting time the callers use
    NoThread,    \* RT_NULL
    Careful      \* a mutex is detached only by its owner, before it inherits

NoMutex == "none"       \* wait[t] of a thread that is not blocked

ASSUME MutexAssumption ==
    /\ NoMutex \notin Mutexes
    /\ Flag \in {"FIFO", "PRIO"}
    /\ MaxNest \in Nat \ {0}
    /\ HoldRange \in Nat \ {0, 1}
    /\ Times \subseteq TimeKinds
    /\ NoThread \notin Threads
    /\ Careful \in BOOLEAN

VARIABLES
    current_priority,   \* thread->current_priority
    value, owner, original_priority, hold, suspend_thread,   \* per mutex
    wait,               \* the mutex a thread is blocked in rt_mutex_take for
    depth               \* history: takes minus releases that returned RT_EOK

mutexVars == <<value, owner, original_priority, hold>>
vars == <<stat, error, timer, current_priority, value, owner, original_priority,
          hold, suspend_thread, wait, depth, obj, wild>>

NoPriority == 255       \* original_priority of a free mutex

(* rt_mutex_init, rt_mutex_create. *)
Init ==
    /\ ThreadInit
    /\ obj = [m \in Mutexes |-> "live"]
    /\ wild = FALSE
    /\ current_priority = Prio
    /\ value = [m \in Mutexes |-> 1]
    /\ owner = [m \in Mutexes |-> NoThread]
    /\ original_priority = [m \in Mutexes |-> NoPriority]
    /\ hold = [m \in Mutexes |-> 0]
    /\ suspend_thread = [m \in Mutexes |-> <<>>]
    /\ wait = [t \in Threads |-> NoMutex]
    /\ depth = [t \in Threads |-> [m \in Mutexes |-> 0]]

-----------------------------------------------------------------------------
(* A call on m may begin. *)
Live(m) == ~wild /\ obj[m] = "live"

(* The mutex is already held by the caller.  Nothing stops hold at its     *)
(* limit: the take that makes it wrap returns RT_EOK like any other.       *)
TakeAgain(t, m) ==
    /\ owner[m] = t
    /\ depth[t][m] < MaxNest
    /\ hold' = [hold EXCEPT ![m] = (@ + 1) % HoldRange]
    /\ depth' = [depth EXCEPT ![t][m] = @ + 1]
    /\ error' = [error EXCEPT ![t] = "EOK"]
    /\ UNCHANGED <<stat, timer, current_priority, value, owner, original_priority,
                   suspend_thread, wait>>

(* The mutex is free. *)
TakeFree(t, m) ==
    /\ owner[m] # t
    /\ value[m] > 0
    /\ value' = [value EXCEPT ![m] = @ - 1]
    /\ owner' = [owner EXCEPT ![m] = t]
    /\ original_priority' = [original_priority EXCEPT ![m] = current_priority[t]]
    /\ hold' = [hold EXCEPT ![m] = (@ + 1) % HoldRange]
    /\ depth' = [depth EXCEPT ![t][m] = @ + 1]
    /\ error' = [error EXCEPT ![t] = "EOK"]
    /\ UNCHANGED <<stat, timer, current_priority, suspend_thread, wait>>

TakeNoWait(t, m, time) ==
    /\ owner[m] # t
    /\ value[m] = 0
    /\ time = "none"
    /\ error' = [error EXCEPT ![t] = "ETIMEOUT"]
    /\ UNCHANGED <<stat, timer, current_priority, mutexVars, suspend_thread, wait, depth>>

(* Mutant of Inherit: the owner keeps its priority. *)
InheritNothing(t, m) == UNCHANGED current_priority

(* rt_thread_control(owner, RT_THREAD_CTRL_CHANGE_PRIORITY): the owner     *)
(* inherits a higher priority; if it is itself suspended in a list its     *)
(* place there does not change, nor does the priority of whom it waits for. *)
Inherit(t, m) ==
    current_priority' =
        IF current_priority[t] < current_priority[owner[m]]
        THEN [current_priority EXCEPT ![owner[m]] = current_priority[t]]
        ELSE current_priority

TakeBlock(t, m, time) ==
    /\ owner[m] # t
    /\ value[m] = 0
    /\ time # "none"
    /\ Inherit(t, m)
    /\ suspend_thread' = [suspend_thread EXCEPT
                             ![m] = SuspendList(@, t, Flag, current_priority)]
    /\ Suspend(t, time)
    /\ wait' = [wait EXCEPT ![t] = m]
    /\ UNCHANGED <<mutexVars, depth>>

Take(t, m, time) ==
    /\ Live(m)
    /\ wait[t] = NoMutex
    /\ \/ TakeAgain(t, m)
       \/ TakeFree(t, m)
       \/ TakeNoWait(t, m, time)
       \/ TakeBlock(t, m, time)
    /\ UNCHANGED objVars

(* A resumed taker returns thread->error. *)
TakeReturn(t) ==
    /\ ~wild
    /\ wait[t] # NoMutex
    /\ stat[t] = "READY"
    /\ wait' = [wait EXCEPT ![t] = NoMutex]
    /\ depth' = IF error[t] = "EOK" THEN [depth EXCEPT ![t][wait[t]] = @ + 1] ELSE depth
    /\ UNCHANGED <<threadVars, current_priority, mutexVars, suspend_thread, objVars>>

-----------------------------------------------------------------------------
(* "mutex only can be released by owner": others get -RT_ERROR. *)
ReleaseRefused(t, m) ==
    /\ owner[m] # t
    /\ error' = [error EXCEPT ![t] = "ERROR"]
    /\ UNCHANGED <<stat, timer, current_priority, mutexVars, suspend_thread, wait, depth>>

(* Not the last release of a recursive owner. *)
ReleaseInner(t, m) ==
    /\ owner[m] = t
    /\ (hold[m] - 1) % HoldRange # 0
    /\ hold' = [hold EXCEPT ![m] = (@ - 1) % HoldRange]
    /\ depth' = [depth EXCEPT ![t][m] = @ - 1]
    /\ UNCHANGED <<threadVars, current_priority, value, owner, original_priority,
                   suspend_thread, wait>>

(* Mutant of Restore: the inherited priority is kept. *)
RestoreNothing(t, m) == UNCHANGED current_priority

(* The owner gets back the priority it had when it became the owner. *)
Restore(t, m) ==
    current_priority' = [current_priority EXCEPT ![t] = original_priority[m]]

(* The last release, with a waiter: the first one becomes the owner. *)
ReleaseHandOver(t, m) ==
    LET next == Head(suspend_thread[m])
    IN  /\ owner[m] = t
        /\ (hold[m] - 1) % HoldRange = 0
        /\ suspend_thread[m] # <<>>
        /\ Restore(t, m)
        /\ owner' = [owner EXCEPT ![m] = next]
        /\ original_priority' = [original_priority EXCEPT ![m] = current_priority[next]]
        /\ hold' = [hold EXCEPT ![m] = 1]
        /\ depth' = [depth EXCEPT ![t][m] = @ - 1]
        /\ suspend_thread' = [suspend_thread EXCEPT ![m] = Tail(@)]
        /\ Resume(next)
        /\ UNCHANGED <<value, wait>>

(* Mutant of ReleaseFree: the nesting count is not looked at. *)
ReleaseAnyway(t, m) ==
    /\ owner[m] = t
    /\ suspend_thread[m] = <<>>
    /\ Restore(t, m)
    /\ owner' = [owner EXCEPT ![m] = NoThread]
    /\ original_priority' = [original_priority EXCEPT ![m] = NoPriority]
    /\ hold' = [hold EXCEPT ![m] = 0]
    /\ value' = [value EXCEPT ![m] = @ + 1]
    /\ depth' = [depth EXCEPT ![t][m] = @ - 1]
    /\ UNCHANGED <<threadVars, suspend_thread, wait>>

(* The last release, without waiters. *)
ReleaseFree(t, m) ==
    /\ owner[m] = t
    /\ (hold[m] - 1) % HoldRange = 0
    /\ suspend_thread[m] = <<>>
    /\ Restore(t, m)
    /\ owner' = [owner EXCEPT ![m] = NoThread]
    /\ original_priority' = [original_priority EXCEPT ![m] = NoPriority]
    /\ hold' = [hold EXCEPT ![m] = 0]
    /\ value' = [value EXCEPT ![m] = @ + 1]
    /\ depth' = [depth EXCEPT ![t][m] = @ - 1]
    /\ UNCHANGED <<threadVars, suspend_thread, wait>>

Release(t, m) ==
    /\ Live(m)
    /\ wait[t] = NoMutex
    /\ \/ ReleaseRefused(t, m)
       \/ ReleaseInner(t, m)
       \/ ReleaseHandOver(t, m)
       \/ ReleaseFree(t, m)
    /\ UNCHANGED objVars

(* Mutant of Timeout: the thread stays linked in the suspend list. *)
TimeoutStaysLinked(t) ==
    /\ ~wild
    /\ TimeoutThread(t)
    /\ UNCHANGED <<current_priority, mutexVars, suspend_thread, wait, depth, objVars>>

(* The thread timer of a waiter expires; the owner keeps what it inherited. *)
Timeout(t) ==
    /\ ~wild
    /\ TimeoutThread(t)
    /\ suspend_thread' = [suspend_thread EXCEPT ![wait[t]] = ListRemove(@, t)]
    /\ UNCHANGED <<current_priority, mutexVars, wait, depth, objVars>>

-----------------------------------------------------------------------------
(* rt_mutex_detach and rt_mutex_delete by thread t.  Neither looks at the  *)
(* owner, nor takes back what it inherited.                                *)
DetachStep(m, from, to) == ~wild /\ obj[m] = from /\ obj' = [obj EXCEPT ![m] = to]

DetachBegin(t, m) ==
    /\ DetachStep(m, "live", "check")
    /\ wait[t] = NoMutex
    /\ Careful => /\ owner[m] = t
                  /\ current_priority[t] = original_priority[m]
    /\ UNCHANGED <<threadVars, current_priority, mutexVars, suspend_thread, wait, depth, wild>>

DetachCheck(m) ==
    /\ DetachStep(m, "check", IF suspend_thread[m] = <<>> THEN "remove" ELSE "resume")
    /\ UNCHANGED <<threadVars, current_priority, mutexVars, suspend_thread, wait, depth, wild>>

DetachResume(m) ==
    /\ DetachStep(m, "resume", "check")
    /\ FlushFirst(suspend_thread[m])
    /\ suspend_thread' = [suspend_thread EXCEPT ![m] = Flushed(@)]
    /\ UNCHANGED <<current_priority, mutexVars, wait, depth>>

(* rt_object_detach or rt_object_delete: a mutex that is gone is nobody's. *)
DetachRemove(m) ==
    /\ DetachStep(m, "remove", "gone")
    /\ depth' = [t \in Threads |-> [depth[t] EXCEPT ![m] = 0]]
    /\ UNCHANGED <<threadVars, current_priority, mutexVars, suspend_thread, wait, wild>>

(* rt_mutex_init on the memory of a detached mutex, or rt_mutex_create. *)
Reinit(m) ==
    /\ DetachStep(m, "gone", "live")
    /\ value' = [value EXCEPT ![m] = 1]
    /\ owner' = [owner EXCEPT ![m] = NoThread]
    /\ original_priority' = [original_priority EXCEPT ![m] = NoPriority]
    /\ hold' = [hold EXCEPT ![m] = 0]
    /\ suspend_thread' = [suspend_thread EXCEPT ![m] = <<>>]
    /\ UNCHANGED <<threadVars, current_priority, wait, depth, wild>>

Next ==
    \/ \E t \in Threads, m \in Mutexes, time \in Times : Take(t, m, time)
    \/ \E t \in Threads : TakeReturn(t)
    \/ \E t \in Threads, m \in Mutexes : Release(t, m)
    \/ \E t \in Threads : Timeout(t)
    \/ \E t \in Threads, m \in Mutexes : DetachBegin(t, m)
    \/ \E m \in Mutexes : DetachCheck(m)
    \/ \E m \in Mutexes : DetachResume(m)
    \/ \E m \in Mutexes : DetachRemove(m)
    \/ \E m \in Mutexes : Reinit(m)

Spec == Init /\ [][Next]_vars

-----------------------------------------------------------------------------
(* The fields of the object and of its callers keep to their ranges. *)
TypeOK ==
    /\ ThreadTypeOK
    /\ current_priority \in [Threads -> Nat]
    /\ value \in [Mutexes -> 0..1]
    /\ owner \in [Mutexes -> Threads \cup {NoThread}]
    /\ original_priority \in [Mutexes -> Nat]
    /\ hold \in [Mutexes -> 0..(HoldRange - 1)]
    /\ suspend_thread \in [Mutexes -> Seq(Threads)]
    /\ wait \in [Threads -> Mutexes \cup {NoMutex}]
    /\ depth \in [Threads -> [Mutexes -> 0..MaxNest]]
    /\ obj \in [Mutexes -> {"live", "check", "resume", "remove", "gone"}]
    /\ wild \in BOOLEAN

(* Each list holds exactly the threads asleep for its mutex, each once. *)
WaitersConsistent ==
    /\ \A m \in Mutexes :
          /\ IsInjective(suspend_thread[m])
          /\ \A t \in Threads :
                t \in ToSet(suspend_thread[m]) <=> stat[t] = "SUSPEND" /\ wait[t] = m
    /\ \A t \in Threads :
          /\ stat[t] = "SUSPEND" => wait[t] # NoMutex /\ error[t] = "EOK"
          /\ timer[t] => stat[t] = "SUSPEND"

(* At most one thread has returned from rt_mutex_take more often than from *)
(* rt_mutex_release, and it is the owner: true of every thread that has    *)
(* nested fewer than HoldRange takes.  hold counts them modulo HoldRange,  *)
(* and only a thread with a multiple of HoldRange more takes than releases *)
(* may find the mutex gone: one release after the wrap has freed it.       *)
MutualExclusion ==
    \A t \in Threads, m \in Mutexes :
        depth[t][m] % HoldRange # 0 =>
            /\ owner[m] = t
            /\ hold[m] = depth[t][m] % HoldRange
            /\ value[m] = 0

(* The same without regard to the wrap.  The code does not keep it: after  *)
(* HoldRange + 1 nested takes hold is 1, and the first release frees the   *)
(* mutex, or gives it to a waiter, while its holder has HoldRange to go.   *)
HolderIsOwner ==
    \A t \in Threads, m \in Mutexes : depth[t][m] > 0 => owner[m] = t

(* No wakeup is lost: threads wait only for a mutex that has an owner, and *)
(* an owner that no longer waits really holds it; nobody waits for a mutex *)
(* that is gone.                                                           *)
OwnerAnswerable ==
    \A m \in Mutexes : IF obj[m] = "gone" THEN suspend_thread[m] = <<>> ELSE
        /\ suspend_thread[m] # <<>> => owner[m] # NoThread
        /\ value[m] = 1 <=> owner[m] = NoThread
        /\ owner[m] # NoThread =>
              \/ depth[owner[m]][m] > 0
              \/ /\ wait[owner[m]] = m /\ stat[owner[m]] = "READY"
                 /\ error[owner[m]] = "EOK" /\ hold[m] = 1

(* Priority inheritance: with RT_IPC_FLAG_PRIO nobody of higher priority   *)
(* than the owner waits, also after a hand-over.                           *)
PriorityInherited ==
    Flag = "PRIO" =>
        \A m \in Mutexes : \A t \in ToSet(suspend_thread[m]) :
            current_priority[owner[m]] <= current_priority[t]

(* "change the owner thread to original priority": a thread that owns no   *)
(* mutex, or only one that is gone, runs at its own priority.              *)
PriorityRestored ==
    \A t \in Threads :
        (\A m \in Mutexes : owner[m] = t => obj[m] = "gone") =>
            current_priority[t] = Prio[t]

(* Lists, threads and owners always agree, whoever is resumed, times out   *)
(* or is flushed out by a detach.                                          *)
Consistent ==
    /\ TypeOK
    /\ WaitersConsistent
    /\ OwnerAnswerable
=============================================================================
