-------------------------------- MODULE Event --------------------------------
(***************************************************************************)
(* RT-Thread event sets (rt-thread/src/ipc.c).  A thread waits for all or  *)
(* for any of a set of event bits and may ask for the bits it received to  *)
(* be cleared.  rt_event_send sets bits and then walks the suspend list    *)
(* once: each waiter it satisfies is resumed and may take bits away from   *)
(* the waiters behind it.                                                  *)
(***************************************************************************)
EXTENDS IpcObject

CONSTANTS
    Bits,     \* the event bits
    Flag,     \* parent.flag: "FIFO" or "PRIO"
    Times     \* kinds of waiting time the callers use

ASSUME EventAssumption ==
    /\ Flag \in {"FIFO", "PRIO"}
    /\ Times \subseteq TimeKinds

(* The options of rt_event_recv. *)
Options == [op : {"AND", "OR"}, clear : BOOLEAN]

(* The value of a thread's option while it is not waiting. *)
NoOption == [op |-> "OR", clear |-> FALSE]

VARIABLES
    set,              \* event->set
    suspend_thread,   \* event->parent.suspend_thread
    event_set,        \* thread->event_set: wanted, after an OR wakeup received
    event_info,       \* thread->event_info
    pc,               \* "idle", or "recv": inside the blocking path
    wanted            \* history: the set a waiter passed to rt_event_recv

vars == <<stat, error, timer, set, suspend_thread, event_set, event_info, pc,
          wanted, obj, wild>>

(* rt_event_init, rt_event_create. *)
Init ==
    /\ ThreadInit
    /\ ObjInit
    /\ set = {}
    /\ suspend_thread = <<>>
    /\ event_set = [t \in Threads |-> {}]
    /\ event_info = [t \in Threads |-> NoOption]
    /\ pc = [t \in Threads |-> "idle"]
    /\ wanted = [t \in Threads |-> {}]

(* Mutant of Satisfied: AND is treated as OR. *)
SatisfiedByAny(want, option, events) == want \cap events # {}

(* The condition both rt_event_send and rt_event_recv test. *)
Satisfied(want, option, events) ==
    IF option.op = "AND" THEN want \subseteq events ELSE want \cap events # {}

-----------------------------------------------------------------------------
(* rt_event_recv up to the point where it returns or schedules away. *)
RecvNow(t, want, option) ==
    /\ Satisfied(want, option, set)
    /\ set' = IF option.clear THEN set \ want ELSE set
    /\ error' = [error EXCEPT ![t] = "EOK"]
    /\ UNCHANGED <<stat, timer, suspend_thread, event_set, event_info, pc, wanted>>

RecvNoWait(t, want, option, time) ==
    /\ ~Satisfied(want, option, set)
    /\ time = "none"
    /\ error' = [error EXCEPT ![t] = "ETIMEOUT"]
    /\ UNCHANGED <<stat, timer, set, suspend_thread, event_set, event_info, pc, wanted>>

(* Mutant of RecvBlock: the event set is not tested before waiting. *)
RecvBlindBlock(t, want, option, time) ==
    /\ time # "none"
    /\ event_set' = [event_set EXCEPT ![t] = want]
    /\ wanted' = [wanted EXCEPT ![t] = want]
    /\ event_info' = [event_info EXCEPT ![t] = option]
    /\ suspend_thread' \in SuspendLists(suspend_thread, t, Flag)
    /\ Suspend(t, time)
    /\ pc' = [pc EXCEPT ![t] = "recv"]
    /\ UNCHANGED set

RecvBlock(t, want, option, time) ==
    /\ ~Satisfied(want, option, set)
    /\ time # "none"
    /\ event_set' = [event_set EXCEPT ![t] = want]
    /\ wanted' = [wanted EXCEPT ![t] = want]
    /\ event_info' = [event_info EXCEPT ![t] = option]
    /\ suspend_thread' \in SuspendLists(suspend_thread, t, Flag)
    /\ Suspend(t, time)
    /\ pc' = [pc EXCEPT ![t] = "recv"]
    /\ UNCHANGED set

Recv(t, want, option, time) ==
    /\ Usable
    /\ pc[t] = "idle"
    /\ \/ RecvNow(t, want, option)
       \/ RecvNoWait(t, want, option, time)
       \/ RecvBlock(t, want, option, time)
    /\ UNCHANGED objVars

(* The resumed thread returns thread->error, and event_set in *recved.  The *)
(* code leaves event_set and event_info as they are; no code reads them     *)
(* before the next wait fills them, so the model forgets them here.         *)
RecvReturn(t) ==
    /\ ~wild
    /\ pc[t] = "recv" /\ stat[t] = "READY"
    /\ pc' = [pc EXCEPT ![t] = "idle"]
    /\ event_set' = [event_set EXCEPT ![t] = {}]
    /\ event_info' = [event_info EXCEPT ![t] = NoOption]
    /\ wanted' = [wanted EXCEPT ![t] = {}]
    /\ UNCHANGED <<threadVars, set, suspend_thread, objVars>>

-----------------------------------------------------------------------------
(* Mutant of Visit: bits are cleared only after the whole walk. *)
VisitClearsLate(walk, t) ==
    IF ~Satisfied(event_set[t], event_info[t], walk.set)
    THEN [walk EXCEPT !.stay = Append(@, t)]
    ELSE LET received == event_set[t] \cap walk.set
         IN  [walk EXCEPT !.got = [@ EXCEPT ![t] = received],
                          !.woken = @ \cup {t}]

(* One turn of the loop of rt_event_send: walk is the state of the walk. *)
Visit(walk, t) ==
    IF ~Satisfied(event_set[t], event_info[t], walk.set)
    THEN [walk EXCEPT !.stay = Append(@, t)]
    ELSE LET received == event_set[t] \cap walk.set
         IN  [walk EXCEPT !.got = [@ EXCEPT ![t] = received],
                          !.woken = @ \cup {t},
                          !.set = IF event_info[t].clear THEN @ \ received ELSE @]

(* The walk over the suspend list: its state after the first i waiters. *)
Walk(new) ==
    LET start == [set |-> set \cup new, stay |-> <<>>, woken |-> {}, got |-> event_set]
        walked[i \in 0..Len(suspend_thread)] ==
            IF i = 0 THEN start ELSE Visit(walked[i - 1], suspend_thread[i])
    IN  walked

(* rt_event_send, by a thread or an interrupt handler. *)
Send(new) ==
    LET walk == Walk(new)[Len(suspend_thread)]
    IN  /\ Usable
        /\ set' = walk.set
        /\ suspend_thread' = walk.stay
        /\ event_set' = walk.got
        /\ stat' = [t \in Threads |-> IF t \in walk.woken THEN "READY" ELSE stat[t]]
        /\ timer' = [t \in Threads |-> IF t \in walk.woken THEN FALSE ELSE timer[t]]
        /\ UNCHANGED <<error, event_info, pc, wanted, objVars>>

(* Mutant of Timeout: the thread stays linked in the suspend list. *)
TimeoutStaysLinked(t) ==
    /\ ~wild
    /\ TimeoutThread(t)
    /\ UNCHANGED <<set, suspend_thread, event_set, event_info, pc, wanted, objVars>>

(* The thread timer of a waiter expires. *)
Timeout(t) ==
    /\ ~wild
    /\ TimeoutThread(t)
    /\ suspend_thread' = ListRemove(suspend_thread, t)
    /\ UNCHANGED <<set, event_set, event_info, pc, wanted, objVars>>

(* rt_event_control(RT_IPC_CMD_RESET). *)
Reset ==
    /\ Usable
    /\ ResumeAll(ToSet(suspend_thread))
    /\ suspend_thread' = <<>>
    /\ set' = {}
    /\ UNCHANGED <<event_set, event_info, pc, wanted, objVars>>

-----------------------------------------------------------------------------
(* rt_event_detach and rt_event_delete. *)
DetachBegin ==
    /\ Detach("live", "check")
    /\ UNCHANGED <<threadVars, set, suspend_thread, event_set, event_info, pc, wanted, wild>>

DetachCheck ==
    /\ Detach("check", IF suspend_thread = <<>> THEN "gone" ELSE "resume")
    /\ UNCHANGED <<threadVars, set, suspend_thread, event_set, event_info, pc, wanted, wild>>

DetachResume ==
    /\ Detach("resume", "check")
    /\ FlushFirst(suspend_thread)
    /\ suspend_thread' = Flushed(suspend_thread)
    /\ UNCHANGED <<set, event_set, event_info, pc, wanted>>

(* rt_event_init on the memory of a detached event set, or rt_event_create. *)
Reinit ==
    /\ Detach("gone", "live")
    /\ set' = {}
    /\ suspend_thread' = <<>>
    /\ UNCHANGED <<threadVars, event_set, event_info, pc, wanted, wild>>

NonEmpty == SUBSET Bits \ {{}}

Next ==
    \/ \E t \in Threads, want \in NonEmpty, option \in Options, time \in Times :
            Recv(t, want, option, time)
    \/ \E t \in Threads : RecvReturn(t)
    \/ \E new \in NonEmpty : Send(new)
    \/ \E t \in Threads : Timeout(t)
    \/ Reset
    \/ DetachBegin
    \/ DetachCheck
    \/ DetachResume
    \/ Reinit

Spec == Init /\ [][Next]_vars

-----------------------------------------------------------------------------
(* The fields of the object and of its callers keep to their ranges. *)
TypeOK ==
    /\ ThreadTypeOK
    /\ set \subseteq Bits
    /\ suspend_thread \in Seq(Threads)
    /\ event_set \in [Threads -> SUBSET Bits]
    /\ event_info \in [Threads -> Options]
    /\ pc \in [Threads -> {"idle", "recv"}]
    /\ wanted \in [Threads -> SUBSET Bits]
    /\ obj \in {"live", "check", "resume", "gone"}
    /\ wild \in BOOLEAN

(* The suspend list holds exactly the threads asleep in rt_event_recv, and *)
(* the event set each waits for is still the one it asked for.             *)
WaitersConsistent ==
    /\ IsInjective(suspend_thread)
    /\ \A t \in Threads :
          /\ t \in ToSet(suspend_thread) <=> stat[t] = "SUSPEND"
          /\ stat[t] = "SUSPEND" =>
                pc[t] = "recv" /\ error[t] = "EOK" /\ event_set[t] = wanted[t]
          /\ timer[t] => stat[t] = "SUSPEND"

(* "resume all suspended thread": a thread that is still in the list of an *)
(* object that is gone would sleep forever, or be taken off a list that is *)
(* no longer there.                                                        *)
NobodyLeftBehind == obj = "gone" => suspend_thread = <<>>

(* No lost wakeup: one walk over the list is enough, nobody sleeps whose   *)
(* condition the event set satisfies.                                      *)
NoSatisfiedSleeper ==
    \A t \in ToSet(suspend_thread) : ~Satisfied(event_set[t], event_info[t], set)

(* A thread that returns RT_EOK after waiting reports events that satisfy  *)
(* what it asked for, and no others.                                       *)
ReceivedWhatWasWanted ==
    \A t \in Threads :
        pc[t] = "recv" /\ stat[t] = "READY" /\ error[t] = "EOK" =>
            IF event_info[t].op = "AND" THEN event_set[t] = wanted[t]
            ELSE event_set[t] # {} /\ event_set[t] \subseteq wanted[t]

(* A thread that this step resumes, and whose rt_event_recv will succeed. *)
WokenInStep(t) == stat[t] = "SUSPEND" /\ stat'[t] = "READY" /\ error'[t] = "EOK"

ConsumedOnce ==
    \A a, b \in Threads :
        WokenInStep(a) /\ event_info[a].clear =>
           /\ event_set'[a] \cap set' = {}
           /\ a # b /\ WokenInStep(b) /\ event_info[b].clear =>
                  event_set'[a] \cap event_set'[b] = {}

(* Events sent once are consumed once: of the threads one step resumes,    *)
(* two that clear never receive the same bit, and no bit that a clearing   *)
(* thread received is still set.                                           *)
ClearedBitsConsumedOnce == [][ConsumedOnce]_vars

(* List and threads always agree, however many threads one send resumes,   *)
(* whoever times out or is flushed out by a reset or a detach, and nobody  *)
(* is left in the list of an object that is gone.                          *)
Consistent ==
    /\ TypeOK
    /\ WaitersConsistent
    /\ NobodyLeftBehind
=============================================================================
