------------------------------ MODULE Scheduler ------------------------------
(***************************************************************************)
(* The thread scheduler (rt-thread/src/scheduler.c), the life cycle of     *)
(* threads (thread.c), the time slice (rt_tick_increase, clock.c) and the  *)
(* reaping of dead threads by the idle thread (idle.c).                    *)
(*                                                                         *)
(* One processor: a step of thread code is taken by current only, a step   *)
(* of an interrupt handler at any time.  A section with interrupts off is  *)
(* one step.  The running thread is in no ready list.  rt_thread_resume,   *)
(* rt_thread_suspend and rt_thread_delete read thread->stat before they    *)
(* disable interrupts, or disable them several times: the caller's pc says *)
(* how far it is, and arg on which thread it acts.                         *)
(***************************************************************************)
EXTENDS ThreadLists, FiniteSets

CONSTANTS
    Idle,           \* the idle thread
    Managers,       \* threads that create, resume, suspend and delete others
    Managed,        \* the threads they do it to
    Priorities,     \* 0 .. RT_THREAD_PRIORITY_MAX - 1
    Priority,       \* Priority[t]: init_priority
    Slice,          \* Slice[t]: init_tick
    NewPriorities,  \* arguments of RT_THREAD_CTRL_CHANGE_PRIORITY
    MaxNest,        \* bound on the nesting of rt_enter_critical
    Careful,        \* the callers keep to the restrictions at each use below
    NoThread        \* no thread, or what is read from an empty ready list

ASSUME SchedAssumption ==
    /\ IsFiniteSet(Threads)
    /\ NoThread \notin Threads
    /\ Idle \in Threads \ (Managers \cup Managed)
    /\ Managers \cup Managed \subseteq Threads
    /\ Priorities \subseteq Nat /\ NewPriorities \subseteq Priorities
    /\ Priority \in [Threads -> Priorities]
    /\ Slice \in [Threads -> Nat \ {0}]
    /\ MaxNest \in Nat
    /\ Careful \in BOOLEAN

VARIABLES
    stat,       \* thread->stat; "NONE" once the object is freed or not made yet
    dynamic,    \* threads made by rt_thread_create, not by rt_thread_init
    prio,       \* thread->current_priority
    ready,      \* rt_thread_priority_table
    group,      \* rt_thread_ready_priority_group: priorities whose bit is set
    current,    \* rt_current_thread
    waiting,    \* threads linked in the suspend list of some object
    defunct,    \* rt_thread_defunct
    timer,      \* thread_timer is linked in the timer list
    slice,      \* thread->remaining_tick
    lock_nest,  \* rt_scheduler_lock_nest
    pc,         \* where the thread is in a kernel call
    arg,        \* the thread that call is about
    lazy        \* history: a priority was changed and nothing scheduled since

links == <<ready, group, waiting, defunct>>
vars == <<stat, dynamic, prio, ready, group, current, waiting, defunct, timer,
          slice, lock_nest, pc, arg, lazy>>

Stats == {"NONE", "INIT", "READY", "RUNNING", "SUSPEND", "CLOSE"}
Pcs == {"run", "sched", "unlink", "insert", "suspend", "timer", "close", "defunct", "free"}

-----------------------------------------------------------------------------
(* The operations on the ready table, as functions of its state.           *)
RunQueue == [stat |-> stat, prio |-> prio, ready |-> ready, group |-> group,
             current |-> current, waiting |-> waiting, defunct |-> defunct]

Becomes(queue) ==
    \E q \in {queue} :
        /\ stat' = q.stat
        /\ prio' = q.prio
        /\ ready' = q.ready
        /\ group' = q.group
        /\ current' = q.current
        /\ waiting' = q.waiting
        /\ defunct' = q.defunct

SetStat(q, t, s) == [q EXCEPT !.stat[t] = s]

(* rt_list_remove(&thread->tlist), whatever list the thread is linked in. *)
Unlink(q, t) ==
    [q EXCEPT !.ready = [p \in Priorities |-> ListRemove(@[p], t)],
              !.waiting = @ \ {t},
              !.defunct = ListRemove(@, t)]

(* Mutant of RemoveThread: the bit of an emptied list stays set. *)
RemoveKeepsBit(q, t) == Unlink(q, t)

(* rt_schedule_remove_thread: the bit of the thread's priority is cleared  *)
(* when the list of that priority is empty afterwards.                     *)
RemoveThread(q, t) ==
    [Unlink(q, t) EXCEPT !.group =
        IF ToSet(q.ready[q.prio[t]]) \subseteq {t} THEN @ \ {q.prio[t]} ELSE @]

(* Mutant of InsertThread: in front of the threads of its priority. *)
InsertFront(q, t) ==
    IF t = q.current
    THEN SetStat(q, t, "RUNNING")
    ELSE [SetStat(q, t, "READY") EXCEPT !.ready[q.prio[t]] = <<t>> \o @,
                                        !.group = @ \cup {q.prio[t]}]

(* rt_schedule_insert_thread. *)
InsertThread(q, t) ==
    IF t = q.current
    THEN SetStat(q, t, "RUNNING")
    ELSE [SetStat(q, t, "READY") EXCEPT !.ready[q.prio[t]] = Append(@, t),
                                        !.group = @ \cup {q.prio[t]}]

(* _get_highest_priority_thread: the set bit decides, the list is not      *)
(* tested.                                                                 *)
Highest(q) == LET l == q.ready[Min(q.group)] IN IF l = <<>> THEN NoThread ELSE Head(l)

SwitchTo(q, to) ==
    IF to = NoThread THEN [q EXCEPT !.current = NoThread]
    ELSE SetStat(RemoveThread([q EXCEPT !.current = to], to), to, "RUNNING")

(* rt_schedule: the running thread goes on only if it is strictly higher   *)
(* than every ready one; else it goes to the tail of its list.  Nothing    *)
(* happens while the scheduler is locked.                                  *)
Scheduled(q) ==
    IF lock_nest # 0 \/ q.group = {} THEN q
    ELSE LET from == q.current
             to == Highest(q)
         IN  IF q.stat[from] # "RUNNING" THEN SwitchTo(q, to)
             ELSE IF q.prio[from] < Min(q.group) THEN RemoveThread(q, from)
             ELSE SwitchTo(InsertThread([q EXCEPT !.current = to], from), to)

(* The state after rt_schedule in the state queue. *)
Reschedule(queue) ==
    /\ \E q \in {queue} : Becomes(Scheduled(q))
    /\ lazy' = (lazy /\ lock_nest # 0)

-----------------------------------------------------------------------------
(* rt_system_scheduler_start: the static threads are started, the first of *)
(* the highest ones runs; the others are still to be made.                 *)
Init ==
    LET started == Threads \ Managed
        lists == [p \in Priorities |-> SetToSeq({t \in started : Priority[t] = p})]
        q == [stat |-> [t \in Threads |-> IF t \in started THEN "READY" ELSE "NONE"],
              prio |-> Priority, ready |-> lists,
              group |-> {p \in Priorities : lists[p] # <<>>},
              current |-> NoThread, waiting |-> {}, defunct |-> <<>>]
        first == SwitchTo(q, Highest(q))
    IN  /\ stat = first.stat
        /\ dynamic = {}
        /\ prio = Priority
        /\ ready = first.ready
        /\ group = first.group
        /\ current = first.current
        /\ waiting = {}
        /\ defunct = <<>>
        /\ timer = [t \in Threads |-> FALSE]
        /\ slice = Slice
        /\ lock_nest = 0
        /\ pc = [t \in Threads |-> "run"]
        /\ arg = [t \in Threads |-> NoThread]
        /\ lazy = FALSE

(* t executes its own code. *)
Runs(t) == current = t /\ pc[t] = "run"

(* m, in its own code, starts a call on t.  Careful callers leave alone a  *)
(* thread that somebody else's call is about.                              *)
Untouched(t) == Careful => \A u \in Threads : arg[u] # t

Calls(m, t) == Runs(m) /\ m \in Managers /\ t \in Managed /\ t # m /\ Untouched(t)

Goto(t, label) == pc' = [pc EXCEPT ![t] = label]

-----------------------------------------------------------------------------
(* rt_thread_create, or rt_thread_init: a thread object that was freed, or *)
(* detached, or never used, is made anew.                                  *)
Create(m, t, isDynamic) ==
    /\ Calls(m, t)
    /\ stat[t] = "NONE" \/ (stat[t] = "CLOSE" /\ t \notin dynamic)
    /\ stat' = [stat EXCEPT ![t] = "INIT"]
    /\ dynamic' = IF isDynamic THEN dynamic \cup {t} ELSE dynamic \ {t}
    /\ prio' = [prio EXCEPT ![t] = Priority[t]]
    /\ slice' = [slice EXCEPT ![t] = Slice[t]]
    /\ timer' = [timer EXCEPT ![t] = FALSE]
    /\ Goto(t, "run")
    /\ arg' = [arg EXCEPT ![t] = NoThread]
    /\ UNCHANGED <<links, current, lock_nest, lazy>>

(* rt_thread_startup up to its call of rt_thread_resume, which finds the   *)
(* thread suspended.                                                       *)
Startup(m, t) ==
    /\ Calls(m, t)
    /\ stat[t] = "INIT"
    /\ stat' = [stat EXCEPT ![t] = "SUSPEND"]
    /\ prio' = [prio EXCEPT ![t] = Priority[t]]
    /\ Goto(m, "unlink")
    /\ arg' = [arg EXCEPT ![m] = t]
    /\ UNCHANGED <<dynamic, links, current, timer, slice, lock_nest, lazy>>

(* rt_thread_resume with interrupts enabled, as rt_workqueue_dowork calls  *)
(* it: the test of stat.  A careful caller resumes only a thread that      *)
(* suspended itself without a timer and in no list.                        *)
ResumeCall(m, t) ==
    /\ Calls(m, t)
    /\ stat[t] = "SUSPEND"
    /\ Careful => ~timer[t] /\ t \notin waiting
    /\ Goto(m, "unlink")
    /\ arg' = [arg EXCEPT ![m] = t]
    /\ UNCHANGED <<dynamic, stat, prio, links, current, timer, slice, lock_nest, lazy>>

(* ... the first section with interrupts off ... *)
ResumeUnlink(m) ==
    /\ current = m
    /\ pc[m] = "unlink"
    /\ Becomes(Unlink(RunQueue, arg[m]))
    /\ timer' = [timer EXCEPT ![arg[m]] = FALSE]
    /\ Goto(m, "insert")
    /\ UNCHANGED <<dynamic, slice, lock_nest, arg, lazy>>

(* ... and the second; the caller goes on to rt_schedule. *)
ResumeInsert(m) ==
    /\ current = m
    /\ pc[m] = "insert"
    /\ Becomes(InsertThread(RunQueue, arg[m]))
    /\ Goto(m, "sched")
    /\ arg' = [arg EXCEPT ![m] = NoThread]
    /\ UNCHANGED <<dynamic, timer, slice, lock_nest, lazy>>

(* rt_thread_suspend of another thread: stat is read first.  A careful     *)
(* caller has locked the scheduler.                                        *)
SuspendCall(m, t) ==
    /\ Calls(m, t)
    /\ stat[t] = "READY"
    /\ Careful => lock_nest > 0
    /\ Goto(m, "suspend")
    /\ arg' = [arg EXCEPT ![m] = t]
    /\ UNCHANGED <<dynamic, stat, prio, links, current, timer, slice, lock_nest, lazy>>

SuspendDo(m) ==
    /\ current = m
    /\ pc[m] = "suspend"
    /\ Becomes(SetStat(RemoveThread(RunQueue, arg[m]), arg[m], "SUSPEND"))
    /\ timer' = [timer EXCEPT ![arg[m]] = FALSE]
    /\ Goto(m, "run")
    /\ arg' = [arg EXCEPT ![m] = NoThread]
    /\ UNCHANGED <<dynamic, slice, lock_nest, lazy>>

(* Mutant of DeleteCall: the thread is not taken out of its list. *)
DeleteNoRemove(m, t) ==
    /\ Calls(m, t)
    /\ stat[t] # "NONE"
    /\ Careful => stat[t] # "CLOSE" /\ ~timer[t] /\ arg[t] = NoThread
    /\ Goto(m, "timer")
    /\ arg' = [arg EXCEPT ![m] = t]
    /\ UNCHANGED <<dynamic, stat, prio, links, current, timer, slice, lock_nest, lazy>>

(* rt_thread_delete, and rt_thread_detach of a static thread, step by      *)
(* step: out of its list, the timer, stat, and (if dynamic) into the       *)
(* defunct list.  It does not ask whether the thread is closed already.  A *)
(* careful caller deletes none that is, none whose timer runs, which could *)
(* expire between the first two steps, and none in such a call.            *)
DeleteCall(m, t) ==
    /\ Calls(m, t)
    /\ stat[t] # "NONE"
    /\ Careful => stat[t] # "CLOSE" /\ ~timer[t] /\ arg[t] = NoThread
    /\ Becomes(IF stat[t] = "INIT" THEN RunQueue ELSE RemoveThread(RunQueue, t))
    /\ Goto(m, "timer")
    /\ arg' = [arg EXCEPT ![m] = t]
    /\ UNCHANGED <<dynamic, timer, slice, lock_nest, lazy>>

DeleteTimer(m) ==
    /\ current = m
    /\ pc[m] = "timer"
    /\ timer' = [timer EXCEPT ![arg[m]] = FALSE]
    /\ Goto(m, "close")
    /\ UNCHANGED <<dynamic, stat, prio, links, current, slice, lock_nest, arg, lazy>>

DeleteClose(m) ==
    /\ current = m
    /\ pc[m] = "close"
    /\ stat' = [stat EXCEPT ![arg[m]] = "CLOSE"]
    /\ Goto(m, "defunct")
    /\ UNCHANGED <<dynamic, prio, links, current, timer, slice, lock_nest, arg, lazy>>

DeleteDefunct(m) ==
    /\ current = m
    /\ pc[m] = "defunct"
    /\ defunct' = IF arg[m] \in dynamic THEN <<arg[m]>> \o defunct ELSE defunct
    /\ Goto(m, "run")
    /\ arg' = [arg EXCEPT ![m] = NoThread]
    /\ UNCHANGED <<dynamic, stat, prio, ready, group, current, waiting, timer, slice, lock_nest, lazy>>

(* rt_thread_control(RT_THREAD_CTRL_CHANGE_PRIORITY): a ready thread       *)
(* changes lists.  Nothing is scheduled.                                   *)
ChangePriority(m, t, p) ==
    /\ Runs(m) /\ m \in Managers
    /\ t \in Managed \cup {m} /\ Untouched(t)
    /\ stat[t] \notin {"NONE", "CLOSE"}
    /\ prio[t] # p
    /\ Becomes(IF stat[t] = "READY"
               THEN InsertThread([RemoveThread(RunQueue, t) EXCEPT !.prio[t] = p], t)
               ELSE [RunQueue EXCEPT !.prio[t] = p])
    /\ lazy' = TRUE
    /\ UNCHANGED <<dynamic, timer, slice, lock_nest, pc, arg>>

-----------------------------------------------------------------------------
(* rt_thread_suspend of the caller itself: it has an effect once only when *)
(* the scheduler is locked and the thread therefore runs on.               *)
Suspended(t) ==
    IF stat[t] = "RUNNING"
    THEN SetStat(RemoveThread(RunQueue, t), t, "SUSPEND")
    ELSE RunQueue

(* A worker parks itself: rt_thread_suspend and rt_schedule. *)
Park(t) ==
    /\ Runs(t) /\ t \in Managed
    /\ Becomes(Suspended(t))
    /\ timer' = IF stat[t] = "RUNNING" THEN [timer EXCEPT ![t] = FALSE] ELSE timer
    /\ Goto(t, "sched")
    /\ UNCHANGED <<dynamic, slice, lock_nest, arg, lazy>>

(* rt_thread_sleep: the timer is started whatever rt_thread_suspend did. *)
Sleep(t) ==
    /\ Runs(t) /\ t # Idle
    /\ Becomes(Suspended(t))
    /\ timer' = [timer EXCEPT ![t] = TRUE]
    /\ Goto(t, "sched")
    /\ UNCHANGED <<dynamic, slice, lock_nest, arg, lazy>>

(* A blocking call: rt_thread_suspend, the suspend list of the object, and *)
(* the thread timer when the wait is timed.                                *)
Block(t, timed) ==
    /\ Runs(t) /\ t # Idle
    /\ stat[t] = "RUNNING"
    /\ LET q == Suspended(t) IN Becomes([q EXCEPT !.waiting = @ \cup {t}])
    /\ timer' = [timer EXCEPT ![t] = timed]
    /\ Goto(t, "sched")
    /\ UNCHANGED <<dynamic, slice, lock_nest, arg, lazy>>

(* rt_thread_yield, and the rt_schedule that ends a call. *)
Yield(t) ==
    /\ Runs(t)
    /\ Reschedule(RunQueue)
    /\ UNCHANGED <<dynamic, timer, slice, lock_nest, pc, arg>>

Schedule(t) ==
    /\ current = t
    /\ pc[t] = "sched"
    /\ Reschedule(RunQueue)
    /\ Goto(t, "run")
    /\ UNCHANGED <<dynamic, timer, slice, lock_nest, arg>>

(* rt_enter_critical. *)
EnterCritical(t) ==
    /\ Runs(t) /\ t # Idle
    /\ lock_nest < MaxNest
    /\ lock_nest' = lock_nest + 1
    /\ UNCHANGED <<dynamic, stat, prio, links, current, timer, slice, pc, arg, lazy>>

(* Mutant of ExitCritical: the lock is dropped and nothing is scheduled. *)
ExitNoSchedule(t) ==
    /\ Runs(t)
    /\ lock_nest > 0
    /\ lock_nest' = lock_nest - 1
    /\ UNCHANGED <<dynamic, stat, prio, links, current, timer, slice, pc, arg, lazy>>

(* rt_exit_critical: the outermost one goes on to rt_schedule. *)
ExitCritical(t) ==
    /\ Runs(t)
    /\ lock_nest > 0
    /\ lock_nest' = lock_nest - 1
    /\ IF lock_nest = 1 THEN Goto(t, "sched") ELSE UNCHANGED pc
    /\ UNCHANGED <<dynamic, stat, prio, links, current, timer, slice, arg, lazy>>

(* rt_thread_exit, to which the entry function returns, with the scheduler *)
(* unlocked.                                                               *)
ThreadExit(t) ==
    /\ Runs(t) /\ t \in Managed
    /\ lock_nest = 0
    /\ LET q == SetStat(RemoveThread(RunQueue, t), t, "CLOSE")
       IN  Becomes(IF t \in dynamic THEN [q EXCEPT !.defunct = <<t>> \o @] ELSE q)
    /\ timer' = [timer EXCEPT ![t] = FALSE]
    /\ Goto(t, "sched")
    /\ UNCHANGED <<dynamic, slice, lock_nest, arg, lazy>>

(* rt_thread_idle_excute: the first defunct thread is unlinked; leaving    *)
(* the critical section around its cleanup schedules.                      *)
IdleReap ==
    /\ Runs(Idle)
    /\ defunct # <<>>
    /\ Reschedule([RunQueue EXCEPT !.defunct = Tail(@)])
    /\ Goto(Idle, "free")
    /\ arg' = [arg EXCEPT ![Idle] = Head(defunct)]
    /\ UNCHANGED <<dynamic, timer, slice, lock_nest>>

(* ... and its stack and object are freed with interrupts enabled. *)
IdleFree ==
    /\ current = Idle
    /\ pc[Idle] = "free"
    /\ stat' = [stat EXCEPT ![arg[Idle]] = "NONE"]
    /\ Goto(Idle, "run")
    /\ arg' = [arg EXCEPT ![Idle] = NoThread]
    /\ UNCHANGED <<dynamic, prio, links, current, timer, slice, lock_nest, lazy>>

-----------------------------------------------------------------------------
(* rt_tick_increase: the running thread's slice. *)
Tick ==
    /\ current # NoThread
    /\ IF slice[current] = 1
       THEN /\ slice' = [slice EXCEPT ![current] = Slice[current]]
            /\ Reschedule(RunQueue)
       ELSE /\ slice' = [slice EXCEPT ![current] = @ - 1]
            /\ UNCHANGED <<stat, prio, links, current, lazy>>
    /\ UNCHANGED <<dynamic, timer, lock_nest, pc, arg>>

(* rt_thread_timeout, called by rt_timer_check in the tick interrupt. *)
ThreadTimeout(t) ==
    /\ current # NoThread
    /\ timer[t]
    /\ timer' = [timer EXCEPT ![t] = FALSE]
    /\ Reschedule(InsertThread(Unlink(RunQueue, t), t))
    /\ UNCHANGED <<dynamic, slice, lock_nest, pc, arg>>

(* An interrupt handler resumes a thread that waits for its object, with   *)
(* interrupts off, and schedules.                                          *)
IsrResume(t) ==
    /\ current # NoThread
    /\ t \in waiting
    /\ stat[t] = "SUSPEND"
    /\ timer' = [timer EXCEPT ![t] = FALSE]
    /\ Reschedule(InsertThread(Unlink(RunQueue, t), t))
    /\ UNCHANGED <<dynamic, slice, lock_nest, pc, arg>>

-----------------------------------------------------------------------------
ManagerCall(m) ==
    \/ \E t \in Managed :
          \/ Create(m, t, TRUE) \/ Create(m, t, FALSE) \/ Startup(m, t) \/ ResumeCall(m, t)
          \/ SuspendCall(m, t) \/ DeleteCall(m, t)
    \/ \E t \in Managed \cup {m}, p \in NewPriorities : ChangePriority(m, t, p)

ManagerStep(m) ==
    \/ ResumeUnlink(m) \/ ResumeInsert(m) \/ SuspendDo(m)
    \/ DeleteTimer(m) \/ DeleteClose(m) \/ DeleteDefunct(m)

Next ==
    \/ \E m \in Managers : ManagerCall(m) \/ ManagerStep(m)
    \/ \E t \in Threads :
          \/ Park(t) \/ Sleep(t) \/ Block(t, TRUE) \/ Block(t, FALSE)
          \/ Yield(t) \/ Schedule(t) \/ EnterCritical(t) \/ ExitCritical(t)
          \/ ThreadExit(t) \/ ThreadTimeout(t) \/ IsrResume(t)
    \/ IdleReap \/ IdleFree
    \/ Tick

(* The tick interrupt keeps coming and ends every armed timer; the running *)
(* thread finishes the kernel call it is in.                               *)
Fairness ==
    /\ WF_vars(Tick)
    /\ \A t \in Threads : WF_vars(ThreadTimeout(t)) /\ WF_vars(Schedule(t))
    /\ \A m \in Managers : WF_vars(ManagerStep(m))
    /\ WF_vars(IdleFree)

Spec == Init /\ [][Next]_vars /\ Fairness

-----------------------------------------------------------------------------
(* Every field keeps to its range. *)
TypeOK ==
    /\ stat \in [Threads -> Stats]
    /\ prio \in [Threads -> Priorities]
    /\ ready \in [Priorities -> Seq(Threads)]
    /\ dynamic \subseteq Threads
    /\ group \subseteq Priorities
    /\ current \in Threads
    /\ waiting \subseteq Threads
    /\ defunct \in Seq(Threads)
    /\ timer \in [Threads -> BOOLEAN]
    /\ \A t \in Threads : slice[t] \in 1..Slice[t]
    /\ lock_nest \in 0..MaxNest
    /\ pc \in [Threads -> Pcs]
    /\ arg \in [Threads -> Threads \cup {NoThread}]
    /\ lazy \in BOOLEAN

(* A thread that rt_thread_delete has unlinked and not closed yet. *)
Dying(t) == \E m \in Managers : arg[m] = t /\ pc[m] \in {"timer", "close"}

(* The ready table agrees with the threads at every step: the list of each *)
(* priority holds the ready threads of that priority once, and its bit is  *)
(* set exactly when it is not empty (rt_schedule takes the head without a  *)
(* test); only the current thread is RUNNING; a thread is linked in one    *)
(* list at most; and a thread whose timer runs is suspended, as            *)
(* rt_thread_timeout asserts.                                              *)
Consistent ==
    /\ TypeOK
    /\ \A p \in Priorities :
          /\ IsInjective(ready[p])
          /\ {t \in Threads : stat[t] = "READY" /\ prio[t] = p /\ ~Dying(t)} = ToSet(ready[p])
    /\ group = {p \in Priorities : ready[p] # <<>>}
    /\ IsInjective(defunct)
    /\ \A t \in Threads :
          /\ stat[t] = "RUNNING" => t = current
          /\ t \in waiting => stat[t] = "SUSPEND"
          /\ t \in ToSet(defunct) => stat[t] = "CLOSE"
          /\ timer[t] => stat[t] = "SUSPEND"

(* A ready thread never waits for a lower one: whenever the running thread *)
(* is not on its way to rt_schedule and has not locked the scheduler, it   *)
(* is runnable and no ready thread is above it, unless a priority was      *)
(* changed since the last rt_schedule (CHANGE_PRIORITY schedules nothing). *)
HighestRuns ==
    (lock_nest = 0 /\ ~lazy /\ pc[current] # "sched")
        => /\ stat[current] = "RUNNING"
           /\ \A t \in Threads : stat[t] = "READY" /\ ~Dying(t) => prio[current] <= prio[t]

(* A thread that exited or was deleted does not come back: it is in no     *)
(* list of ready or waiting threads and no timer will wake it, it is       *)
(* current only until its last rt_schedule; and a closed dynamic thread is *)
(* not forgotten: it is in the defunct list, in the hands of the idle      *)
(* thread or of the rt_thread_delete that closed it, and in one of them.   *)
DeadStayDead ==
    \A t \in Threads :
        stat[t] \in {"NONE", "INIT", "CLOSE"} =>
            /\ ~timer[t] /\ t \notin waiting
            /\ \A p \in Priorities : t \notin ToSet(ready[p])
            /\ current = t => stat[t] = "CLOSE" /\ pc[t] = "sched"
            /\ t \in dynamic /\ stat[t] = "CLOSE" =>
                  Cardinality({u \in Threads : arg[u] = t}) =
                      (IF t \in ToSet(defunct) THEN 0 ELSE 1)

(* Round robin: if every critical section ends, a ready thread of the      *)
(* highest priority gets the processor, though the others of its priority  *)
(* never give it up by themselves.                                         *)
TurnComes ==
    []<>(lock_nest = 0) =>
        \A t \in Threads \ (Managed \cup Managers) :
            (\A p \in Priorities : Priority[t] <= p) =>
                (stat[t] = "READY" ~> stat[t] = "RUNNING")
=============================================================================
