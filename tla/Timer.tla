-------------------------------- MODULE Timer --------------------------------
(***************************************************************************)
(* RT-Thread hard timers (rt-thread/src/timer.c) and the system tick       *)
(* (rt-thread/src/clock.c).                                                *)
(*                                                                         *)
(* Deadlines are absolute ticks in a counter that wraps; the list is kept  *)
(* sorted by modular differences.  rt_timer_start and rt_timer_stop called *)
(* by a thread have gaps with interrupts enabled, in which ticks pass and  *)
(* other timers fire.  Timeout functions run inside the tick interrupt and *)
(* call the same operations.                                               *)
(***************************************************************************)
EXTENDS Integers, SequencesExt

CONSTANTS
    Timers,
    TickRange,    \* rt_tick_t counts modulo TickRange (2^32 in the code)
    InitTicks,    \* values of init_tick the users pass, 0 is one of them
    MaxDelay,     \* bound: ticks that pass while a start is under way
    Callbacks,    \* what timeout functions do
    ControlRunning   \* the mode of a running timer is changed

Half == (TickRange - 1) \div 2      \* RT_TICK_MAX / 2

ASSUME TimerAssumption ==
    /\ TickRange \in Nat
    /\ MaxDelay \in Nat
    /\ InitTicks \subseteq Nat
    /\ \A n \in InitTicks : n + MaxDelay < Half
    /\ Callbacks \subseteq {"nothing", "stop", "restart", "startOther", "delete"}
    /\ ControlRunning \in BOOLEAN

VARIABLES
    tick,          \* rt_tick
    irq,           \* "none", or "check": inside rt_timer_check
    list,          \* rt_timer_list, first to last
    active,        \* RT_TIMER_FLAG_ACTIVATED
    periodic,      \* RT_TIMER_FLAG_PERIODIC
    init_tick, timeout_tick,
    pc,            \* where the thread that uses the timer is in start or stop
    loaded,        \* RT_TIMER_FLAG_ACTIVATED in the flag byte rt_timer_control loaded
    due            \* history: ticks until the deadline, counted without wrap

vars == <<tick, irq, list, active, periodic, init_tick, timeout_tick, pc, loaded, due>>

(* The variables one start or stop changes. *)
Now == [list |-> list, active |-> active, timeout |-> timeout_tick, due |-> due]
Become(s) ==
    /\ list' = s.list /\ active' = s.active
    /\ timeout_tick' = s.timeout /\ due' = s.due

(* rt_timer_init, rt_timer_create; the counter is at any value when the    *)
(* first timer is started.                                                 *)
Init ==
    /\ tick \in 0..(TickRange - 1)
    /\ irq = "none"
    /\ list = <<>>
    /\ active = [t \in Timers |-> FALSE]
    /\ periodic \in [Timers -> BOOLEAN]
    /\ init_tick \in [Timers -> InitTicks]
    /\ timeout_tick = [t \in Timers |-> 0]
    /\ pc = [t \in Timers |-> "idle"]
    /\ loaded = [t \in Timers |-> FALSE]
    /\ due = [t \in Timers |-> 0]

-----------------------------------------------------------------------------
(* _rt_timer_remove: harmless when the timer is not linked. *)
RemoveTimer(s, t) ==
    [s EXCEPT !.list = SelectSeq(@, LAMBDA u : u # t), !.due[t] = 0]

Deactivate(s, t) == [s EXCEPT !.active[t] = FALSE]

(* timer->timeout_tick = rt_tick_get() + timer->init_tick *)
SetDeadline(s, t) ==
    [s EXCEPT !.timeout[t] = (tick + init_tick[t]) % TickRange,
              !.due[t] = init_tick[t]]

(* Mutant of StopsBefore: ticks compared without regard to the wrap. *)
StopsBeforeUnwrapped(other, new) == other > new

(* The search for the place ends before a timer with this deadline. *)
StopsBefore(other, new) ==
    /\ (other - new) % TickRange # 0
    /\ (other - new) % TickRange < Half

(* The loop of rt_timer_start, and RT_TIMER_FLAG_ACTIVATED. *)
InsertTimer(s, t) ==
    LET later == {i \in DOMAIN s.list : StopsBefore(s.timeout[s.list[i]], s.timeout[t])}
        place == IF later = {} THEN Len(s.list) + 1 ELSE Min(later)
    IN  [s EXCEPT !.list = InsertAt(@, place, t), !.active[t] = TRUE]

(* rt_timer_start and rt_timer_stop with interrupts disabled throughout. *)
StartTimer(s, t) == InsertTimer(SetDeadline(Deactivate(RemoveTimer(s, t), t), t), t)
StopTimer(s, t) == IF s.active[t] THEN Deactivate(RemoveTimer(s, t), t) ELSE s

-----------------------------------------------------------------------------
(* A thread calls rt_timer_start; each timer is used by one thread.        *)
Unchanged == UNCHANGED <<tick, irq, periodic, init_tick, loaded>>
Goto(t, from, to) ==
    /\ irq = "none"
    /\ pc[t] = from
    /\ pc' = [pc EXCEPT ![t] = to]
    /\ Unchanged

StartRemove(t) ==
    Goto(t, "idle", "removed") /\ Become(Deactivate(RemoveTimer(Now, t), t))
StartDeadline(t) ==
    Goto(t, "removed", "deadline") /\ Become(SetDeadline(Now, t))
StartInsert(t) ==
    Goto(t, "deadline", "idle") /\ Become(InsertTimer(Now, t))

(* A thread calls rt_timer_stop: the flag is tested before and cleared     *)
(* after the critical section.                                             *)
StopTest(t) ==
    active[t] /\ Goto(t, "idle", "stop") /\ Become(Now)

StopRemove(t) == Goto(t, "stop", "stopped") /\ Become(RemoveTimer(Now, t))
StopClear(t) == Goto(t, "stopped", "idle") /\ Become(Deactivate(Now, t))

(* rt_timer_control(RT_TIMER_CTRL_SET_TIME). *)
SetTime(t) ==
    /\ irq = "none" /\ pc[t] = "idle"
    /\ \E n \in InitTicks : init_tick' = [init_tick EXCEPT ![t] = n]
    /\ UNCHANGED <<tick, irq, list, active, periodic, timeout_tick, pc, due, loaded>>

(* rt_timer_control(RT_TIMER_CTRL_SET_ONESHOT, _SET_PERIODIC): the flag    *)
(* byte, which also holds RT_TIMER_FLAG_ACTIVATED, is loaded, changed and  *)
(* stored with interrupts enabled.                                         *)
FlagLoad(t) ==
    /\ irq = "none" /\ pc[t] = "idle"
    /\ active[t] => ControlRunning
    /\ pc' = [pc EXCEPT ![t] = "control"]
    /\ loaded' = [loaded EXCEPT ![t] = active[t]]
    /\ UNCHANGED <<tick, irq, list, active, periodic, init_tick, timeout_tick, due>>

FlagStore(t) ==
    /\ irq = "none" /\ pc[t] = "control"
    /\ \E p \in BOOLEAN : periodic' = [periodic EXCEPT ![t] = p]
    /\ active' = [active EXCEPT ![t] = loaded[t]]
    /\ loaded' = [loaded EXCEPT ![t] = FALSE]
    /\ pc' = [pc EXCEPT ![t] = "idle"]
    /\ UNCHANGED <<tick, irq, list, init_tick, timeout_tick, due>>

(* rt_timer_detach, rt_timer_delete: the timer leaves the list; its flags  *)
(* stay as they are.                                                       *)
Delete(t) == Goto(t, "idle", "gone") /\ Become(RemoveTimer(Now, t))

(* rt_timer_init on the memory of a detached timer, or rt_timer_create. *)
Create(t) ==
    /\ irq = "none" /\ pc[t] = "gone"
    /\ pc' = [pc EXCEPT ![t] = "idle"]
    /\ \E p \in BOOLEAN, n \in InitTicks :
          /\ periodic' = [periodic EXCEPT ![t] = p]
          /\ init_tick' = [init_tick EXCEPT ![t] = n]
    /\ active' = [active EXCEPT ![t] = FALSE]
    /\ timeout_tick' = [timeout_tick EXCEPT ![t] = 0]
    /\ UNCHANGED <<tick, irq, list, loaded, due>>

-----------------------------------------------------------------------------
(* rt_tick_increase, in the clock interrupt: a timer with a deadline comes *)
(* one tick closer to it.                                                  *)
Tick ==
    /\ irq = "none"
    /\ \A t \in Timers : pc[t] = "deadline" => due[t] > -MaxDelay
    /\ tick' = (tick + 1) % TickRange
    /\ irq' = "check"
    /\ due' = [t \in Timers |->
                 IF t \in ToSet(list) \/ pc[t] = "deadline" THEN due[t] - 1 ELSE due[t]]
    /\ UNCHANGED <<list, active, periodic, init_tick, timeout_tick, pc, loaded>>

(* Mutant of Expired: due only when the ticks are equal. *)
ExpiredNowOnly(deadline) == tick = deadline

(* (current_tick - t->timeout_tick) < RT_TICK_MAX / 2 *)
Expired(deadline) == (tick - deadline) % TickRange < Half

HeadExpired == list # <<>> /\ Expired(timeout_tick[Head(list)])

(* What the timeout function of t does to the timers. *)
CallbackEffect(s, t, callback, other) ==
    CASE callback = "nothing" -> s
      [] callback = "stop" -> StopTimer(s, t)
      [] callback = "restart" -> StartTimer(s, t)
      [] callback = "startOther" -> StartTimer(s, other)
      [] callback = "delete" -> RemoveTimer(s, t)

(* Mutant of AfterCallback: the periodic timer is put back into the list   *)
(* without a new deadline.                                                 *)
AfterCallbackNoDeadline(s, t) ==
    IF periodic[t] /\ s.active[t] THEN InsertTimer(s, t) ELSE Deactivate(s, t)

(* A periodic timer is started again unless its function has stopped it. *)
AfterCallback(s, t) ==
    IF periodic[t] /\ s.active[t] THEN StartTimer(s, t) ELSE Deactivate(s, t)

(* One turn of the loop of rt_timer_check.  The timeout function may start *)
(* another timer that nobody else is starting or stopping.                 *)
CheckFire(callback, other) ==
    LET t == Head(list)
    IN  /\ irq = "check"
        /\ HeadExpired
        /\ IF callback = "startOther" THEN other # t /\ pc[other] = "idle" ELSE other = t
        /\ Become(AfterCallback(CallbackEffect(RemoveTimer(Now, t), t, callback, other), t))
        /\ pc' = IF callback = "delete" THEN [pc EXCEPT ![t] = "gone"] ELSE pc
        /\ UNCHANGED <<tick, irq, periodic, init_tick, loaded>>

CheckDone ==
    /\ irq = "check"
    /\ ~HeadExpired
    /\ irq' = "none"
    /\ UNCHANGED <<tick, list, active, periodic, init_tick, timeout_tick, pc, loaded, due>>

Next ==
    \/ \E t \in Timers : StartRemove(t)
    \/ \E t \in Timers : StartDeadline(t)
    \/ \E t \in Timers : StartInsert(t)
    \/ \E t \in Timers : StopTest(t)
    \/ \E t \in Timers : StopRemove(t)
    \/ \E t \in Timers : StopClear(t)
    \/ \E t \in Timers : SetTime(t)
    \/ \E t \in Timers : FlagLoad(t)
    \/ \E t \in Timers : FlagStore(t)
    \/ \E t \in Timers : Delete(t)
    \/ \E t \in Timers : Create(t)
    \/ Tick
    \/ \E callback \in Callbacks, other \in Timers : CheckFire(callback, other)
    \/ CheckDone

Spec == Init /\ [][Next]_vars

-----------------------------------------------------------------------------
(* The fields of the timers keep to their ranges. *)
TypeOK ==
    /\ tick \in 0..(TickRange - 1)
    /\ irq \in {"none", "check"}
    /\ list \in Seq(Timers)
    /\ active \in [Timers -> BOOLEAN]
    /\ periodic \in [Timers -> BOOLEAN]
    /\ init_tick \in [Timers -> InitTicks]
    /\ timeout_tick \in [Timers -> 0..(TickRange - 1)]
    /\ pc \in [Timers -> {"idle", "removed", "deadline", "stop", "stopped", "control", "gone"}]
    /\ loaded \in [Timers -> BOOLEAN]
    /\ due \in [Timers -> Int]

(* Deadlines survive the wrap: the list is sorted by the ticks that really *)
(* remain, each timer is in it once, and its timeout_tick is that deadline. *)
SortedByDeadline ==
    /\ IsInjective(list)
    /\ \A i, j \in DOMAIN list : i < j => due[list[i]] <= due[list[j]]
    /\ \A i \in DOMAIN list : timeout_tick[list[i]] = (tick + due[list[i]]) % TickRange

(* On time: when the tick interrupt ends, no timer whose deadline has come *)
(* is left in the list.                                                    *)
NothingOverdue ==
    [][irq = "check" /\ irq' = "none" => \A i \in DOMAIN list : due[list[i]] > 0]_vars

(* Never early: a timer fires only when the ticks it was started for have  *)
(* passed, in spite of the wrap.                                           *)
NeverEarly ==
    [][irq = "check" /\ list # <<>> /\ list' # list => due[Head(list)] <= 0]_vars

(* "If we have two timers that timeout at the same time, it's preferred    *)
(* that the timer inserted early get called early": a timer that joins the *)
(* list goes behind all those with its deadline that were there before.    *)
(* The timer rt_timer_check has just fired is started last.                *)
EarlierInsertedFirst ==
    [][list # list' =>
       LET new == ToSet(list') \ ToSet(list)
           old == IF irq = "check" THEN ToSet(Tail(list)) ELSE ToSet(list)
       IN  \A i, j \in DOMAIN list' :
              i < j /\ list'[i] \in new /\ list'[j] \in old =>
                  due'[list'[i]] < due'[list'[j]]]_vars

DueTimers == {t \in ToSet(list) : due[t] <= 0}

(* The loop of rt_timer_check gets on although periodic timers and timeout *)
(* functions start timers again: every turn takes a due timer, and leaves  *)
(* no new one due but timers started with zero ticks.  Without these the   *)
(* loop ends; a periodic timer of zero ticks keeps it in the interrupt for *)
(* ever, unless its function stops it.                                     *)
CheckProgresses ==
    [][irq = "check" /\ irq' = "check" =>
       /\ Head(list) \in DueTimers
       /\ \A t \in DueTimers' : t \in DueTimers \ {Head(list)} \/ init_tick[t] = 0]_vars

(* RT_TIMER_FLAG_ACTIVATED says "timer is active": between calls it is set *)
(* exactly for the timers in the list, so that rt_timer_stop never refuses *)
(* to stop a running timer.                                                *)
ActiveIffListed ==
    irq = "none" => \A t \in Timers :
        pc[t] = "idle" => (active[t] <=> t \in ToSet(list))

(* The memory of a timer that is gone may be used for something else: it   *)
(* is in no list.                                                          *)
GoneNotListed == \A t \in Timers : pc[t] = "gone" => t \notin ToSet(list)

(* The timer list keeps its order across the wrap of the tick counter, and *)
(* holds the active timers and no others.                                  *)
Consistent ==
    /\ TypeOK
    /\ SortedByDeadline
    /\ ActiveIffListed
    /\ GoneNotListed

(* A timer fires at the end of the tick it was started for, no tick sooner *)
(* and none later, and behind the timers that had its deadline before.     *)
OnTime == NothingOverdue /\ NeverEarly /\ EarlierInsertedFirst
=============================================================================
