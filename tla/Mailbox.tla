------------------------------- MODULE Mailbox -------------------------------
(***************************************************************************)
(* RT-Thread mailboxes (rt-thread/src/ipc.c): a ring of Size words with a  *)
(* list of blocked receivers and a list of blocked senders.                *)
(*                                                                         *)
(* Unlike a semaphore, a mailbox hands nothing over: a resumed thread      *)
(* tests the ring again, and a thread or an interrupt that came later may  *)
(* have used the slot or the message first.  One wakeup is sent per        *)
(* message and per freed slot, so a missing or wasted one would leave a    *)
(* thread asleep beside a message it could take.                           *)
(***************************************************************************)
EXTENDS IpcObject, FiniteSets

CONSTANTS
    Senders, Receivers,  \* the threads that send and those that receive
    Flag,                \* parent.flag: "FIFO" or "PRIO"
    Size,                \* mb->size
    Values, NoValue,     \* message words; what a receiver's buffer holds at first
    Times,               \* kinds of waiting time the callers use
    Patient              \* who deletes goes on only while no caller is ready

ASSUME MailboxAssumption ==
    /\ Threads = Senders \cup Receivers
    /\ Senders \cap Receivers = {}
    /\ IsFiniteSet(Threads)
    /\ Flag \in {"FIFO", "PRIO"}
    /\ Size \in Nat \ {0}
    /\ Values # {}
    /\ NoValue \notin Values
    /\ Times \subseteq TimeKinds
    /\ Patient \in BOOLEAN

VARIABLES
    msg_pool, entry, in_offset, out_offset,  \* the ring
    suspend_thread,          \* blocked receivers
    suspend_sender_thread,   \* blocked senders
    pc,                      \* "idle", or "send"/"recv": inside the wait loop
    arg,                     \* the value a sender in its loop wants to send
    left,                    \* its remaining waiting time
    got                      \* *value of a receiver's last successful call

ringVars == <<msg_pool, entry, in_offset, out_offset>>
listVars == <<suspend_thread, suspend_sender_thread>>
vars == <<stat, error, timer, msg_pool, entry, in_offset, out_offset,
          suspend_thread, suspend_sender_thread, pc, arg, left, got, obj, wild>>

(* rt_mb_init, rt_mb_create: the words of the pool are not initialised,    *)
(* and never read before they are written.                                 *)
Init ==
    /\ ThreadInit
    /\ ObjInit
    /\ msg_pool = [i \in 0..(Size - 1) |-> NoValue]
    /\ entry = 0 /\ in_offset = 0 /\ out_offset = 0
    /\ suspend_thread = <<>> /\ suspend_sender_thread = <<>>
    /\ pc = [t \in Threads |-> "idle"]
    /\ arg = [t \in Senders |-> NoValue]
    /\ left = [t \in Threads |-> "none"]
    /\ got = [t \in Receivers |-> NoValue]

(* ++offset; if (offset >= size) offset = 0; *)
Advance(offset) == IF offset + 1 >= Size THEN 0 ELSE offset + 1

-----------------------------------------------------------------------------
(* Mutant of WakeFirstReceiver: only the message that ends an empty        *)
(* mailbox wakes a receiver.                                               *)
WakeOnFirstMessage ==
    IF suspend_thread = <<>> \/ entry # 0
    THEN UNCHANGED <<threadVars, suspend_thread>>
    ELSE /\ Resume(Head(suspend_thread))
         /\ suspend_thread' = Tail(suspend_thread)

(* The tail of rt_mb_send_wait: one waiting receiver is resumed. *)
WakeFirstReceiver ==
    IF suspend_thread = <<>>
    THEN UNCHANGED <<threadVars, suspend_thread>>
    ELSE /\ Resume(Head(suspend_thread))
         /\ suspend_thread' = Tail(suspend_thread)

(* The end of rt_mb_send_wait: the message is stored. *)
Put(v) ==
    /\ entry # Size
    /\ msg_pool' = [msg_pool EXCEPT ![in_offset] = v]
    /\ in_offset' = Advance(in_offset)
    /\ entry' = entry + 1
    /\ WakeFirstReceiver
    /\ UNCHANGED <<out_offset, suspend_sender_thread, got>>

(* rt_mb_send, and rt_mb_send_wait with timeout 0: by a thread or an       *)
(* interrupt handler.  On a full mailbox it returns -RT_EFULL.             *)
SendNoWait(v) ==
    /\ Usable
    /\ \/ Put(v)
       \/ entry = Size /\ UNCHANGED <<threadVars, ringVars, listVars, got>>
    /\ UNCHANGED <<pc, arg, left, objVars>>

(* The body of the while loop of rt_mb_send_wait up to rt_schedule. *)
BlockSender(t, time) ==
    /\ entry = Size
    /\ suspend_sender_thread' \in SuspendLists(suspend_sender_thread, t, Flag)
    /\ Suspend(t, time)
    /\ UNCHANGED <<ringVars, suspend_thread, got>>

SendWait(t, v, time) ==
    /\ Usable
    /\ pc[t] = "idle"
    /\ time # "none"
    /\ UNCHANGED objVars
    /\ \/ Put(v) /\ UNCHANGED <<pc, arg, left>>
       \/ /\ BlockSender(t, time)
          /\ pc' = [pc EXCEPT ![t] = "send"]
          /\ arg' = [arg EXCEPT ![t] = v]
          /\ left' = [left EXCEPT ![t] = time]

(* A thread inside a call whose mailbox is still there. *)
MayGoOn(t) == ~wild /\ obj # "gone" /\ stat[t] = "READY"

(* What timeout -= tick_delta may leave of the waiting time. *)
Remaining(time) == IF time = "timed" THEN {"timed", "none"} ELSE {time}

(* A resumed sender with RT_EOK tests the mailbox again. *)
SendRetry(t, time) ==
    /\ MayGoOn(t) /\ pc[t] = "send" /\ error[t] = "EOK"
    /\ time \in Remaining(left[t])
    /\ \/ /\ Put(arg[t])
          /\ pc' = [pc EXCEPT ![t] = "idle"]
          /\ UNCHANGED left
       \/ /\ time # "none"
          /\ BlockSender(t, time)
          /\ left' = [left EXCEPT ![t] = time]
          /\ UNCHANGED pc
       \/ /\ time = "none" /\ entry = Size     \* -RT_EFULL
          /\ pc' = [pc EXCEPT ![t] = "idle"]
          /\ UNCHANGED <<threadVars, ringVars, listVars, got, left>>
    /\ UNCHANGED <<arg, objVars>>

-----------------------------------------------------------------------------
(* The tail of rt_mb_recv: one waiting sender is resumed. *)
WakeFirstSender ==
    IF suspend_sender_thread = <<>>
    THEN UNCHANGED <<threadVars, suspend_sender_thread>>
    ELSE /\ Resume(Head(suspend_sender_thread))
         /\ suspend_sender_thread' = Tail(suspend_sender_thread)

(* Mutant of Get: the offset is advanced before the word is read. *)
GetAdvanced(t) ==
    /\ entry # 0
    /\ got' = [got EXCEPT ![t] = msg_pool[Advance(out_offset)]]
    /\ out_offset' = Advance(out_offset)
    /\ entry' = entry - 1
    /\ WakeFirstSender
    /\ UNCHANGED <<msg_pool, in_offset, suspend_thread>>

(* The end of rt_mb_recv: the oldest message is taken. *)
Get(t) ==
    /\ entry # 0
    /\ got' = [got EXCEPT ![t] = msg_pool[out_offset]]
    /\ out_offset' = Advance(out_offset)
    /\ entry' = entry - 1
    /\ WakeFirstSender
    /\ UNCHANGED <<msg_pool, in_offset, suspend_thread>>

(* The body of the while loop of rt_mb_recv up to rt_schedule. *)
BlockReceiver(t, time) ==
    /\ entry = 0
    /\ suspend_thread' \in SuspendLists(suspend_thread, t, Flag)
    /\ Suspend(t, time)
    /\ UNCHANGED <<ringVars, suspend_sender_thread, got>>

Recv(t, time) ==
    /\ Usable
    /\ pc[t] = "idle"
    /\ \/ Get(t) /\ UNCHANGED <<pc, left>>
       \/ /\ time = "none" /\ entry = 0        \* -RT_ETIMEOUT
          /\ UNCHANGED <<threadVars, ringVars, listVars, got, pc, left>>
       \/ /\ time # "none"
          /\ BlockReceiver(t, time)
          /\ pc' = [pc EXCEPT ![t] = "recv"]
          /\ left' = [left EXCEPT ![t] = time]
    /\ UNCHANGED <<arg, objVars>>

(* A resumed receiver with RT_EOK tests the mailbox again. *)
RecvRetry(t, time) ==
    /\ MayGoOn(t) /\ pc[t] = "recv" /\ error[t] = "EOK"
    /\ time \in Remaining(left[t])
    /\ \/ /\ Get(t)
          /\ pc' = [pc EXCEPT ![t] = "idle"]
          /\ UNCHANGED left
       \/ /\ time # "none"
          /\ BlockReceiver(t, time)
          /\ left' = [left EXCEPT ![t] = time]
          /\ UNCHANGED pc
       \/ /\ time = "none" /\ entry = 0        \* -RT_ETIMEOUT
          /\ pc' = [pc EXCEPT ![t] = "idle"]
          /\ error' = [error EXCEPT ![t] = "ETIMEOUT"]
          /\ UNCHANGED <<stat, timer, ringVars, listVars, got, left>>
    /\ UNCHANGED <<arg, objVars>>

(* A sender or receiver resumed with an error returns it. *)
ReturnError(t) ==
    /\ ~wild
    /\ pc[t] # "idle" /\ stat[t] = "READY" /\ error[t] # "EOK"
    /\ pc' = [pc EXCEPT ![t] = "idle"]
    /\ UNCHANGED <<threadVars, ringVars, listVars, arg, left, got, objVars>>

-----------------------------------------------------------------------------
(* The thread timer of a waiter expires. *)
Timeout(t) ==
    /\ ~wild
    /\ TimeoutThread(t)
    /\ suspend_thread' = ListRemove(suspend_thread, t)
    /\ suspend_sender_thread' = ListRemove(suspend_sender_thread, t)
    /\ UNCHANGED <<ringVars, pc, arg, left, got, objVars>>

(* rt_mb_control(RT_IPC_CMD_RESET). *)
Reset ==
    /\ Usable
    /\ ResumeAll(ToSet(suspend_thread) \cup ToSet(suspend_sender_thread))
    /\ suspend_thread' = <<>> /\ suspend_sender_thread' = <<>>
    /\ entry' = 0 /\ in_offset' = 0 /\ out_offset' = 0
    /\ UNCHANGED <<msg_pool, pc, arg, left, got, objVars>>

-----------------------------------------------------------------------------
Busy == {t \in Threads : pc[t] # "idle" /\ stat[t] = "READY"}

(* rt_mb_detach and rt_mb_delete flush the receivers, then the senders.    *)
(* "check" and "resume" are the two halves of a turn of the loop.          *)
DetachStep(from, to) ==
    /\ Detach(from, to)
    /\ Patient => Busy = {}
    /\ UNCHANGED <<ringVars, pc, arg, left, got>>

DetachBegin ==
    /\ DetachStep("live", "check")
    /\ UNCHANGED <<threadVars, listVars, wild>>

DetachCheck ==
    /\ DetachStep("check", IF suspend_thread = <<>> THEN "check sender" ELSE "resume")
    /\ UNCHANGED <<threadVars, listVars, wild>>

DetachResume ==
    /\ DetachStep("resume", "check")
    /\ FlushFirst(suspend_thread)
    /\ suspend_thread' = Flushed(suspend_thread)
    /\ UNCHANGED suspend_sender_thread

(* Mutant of DetachCheckSender: the senders are forgotten. *)
DetachSkipsSenders ==
    /\ DetachStep("check sender", "remove")
    /\ UNCHANGED <<threadVars, listVars, wild>>

DetachCheckSender ==
    /\ DetachStep("check sender",
                  IF suspend_sender_thread = <<>> THEN "remove" ELSE "resume sender")
    /\ UNCHANGED <<threadVars, listVars, wild>>

DetachResumeSender ==
    /\ DetachStep("resume sender", "check sender")
    /\ FlushFirst(suspend_sender_thread)
    /\ suspend_sender_thread' = Flushed(suspend_sender_thread)
    /\ UNCHANGED suspend_thread

(* rt_object_detach, or rt_free of the pool and rt_object_delete. *)
DetachRemove ==
    /\ DetachStep("remove", "gone")
    /\ UNCHANGED <<threadVars, listVars, wild>>

(* rt_mb_init on the memory of a detached mailbox, or rt_mb_create. *)
Reinit ==
    /\ Detach("gone", "live")
    /\ entry' = 0 /\ in_offset' = 0 /\ out_offset' = 0
    /\ suspend_thread' = <<>> /\ suspend_sender_thread' = <<>>
    /\ UNCHANGED <<threadVars, msg_pool, pc, arg, left, got, wild>>

Next ==
    \/ \E v \in Values : SendNoWait(v)
    \/ \E t \in Senders, v \in Values, time \in Times : SendWait(t, v, time)
    \/ \E t \in Senders, time \in TimeKinds : SendRetry(t, time)
    \/ \E t \in Receivers, time \in Times : Recv(t, time)
    \/ \E t \in Receivers, time \in TimeKinds : RecvRetry(t, time)
    \/ \E t \in Threads : ReturnError(t)
    \/ \E t \in Threads : Timeout(t)
    \/ Reset
    \/ DetachBegin
    \/ DetachCheck
    \/ DetachResume
    \/ DetachCheckSender
    \/ DetachResumeSender
    \/ DetachRemove
    \/ Reinit

Spec == Init /\ [][Next]_vars

-----------------------------------------------------------------------------
(* The fields of the object and of its callers keep to their ranges. *)
TypeOK ==
    /\ ThreadTypeOK
    /\ msg_pool \in [0..(Size - 1) -> Values \cup {NoValue}]
    /\ entry \in 0..Size
    /\ in_offset \in 0..(Size - 1)
    /\ out_offset \in 0..(Size - 1)
    /\ suspend_thread \in Seq(Threads)
    /\ suspend_sender_thread \in Seq(Threads)
    /\ pc \in [Threads -> {"idle", "send", "recv"}]
    /\ arg \in [Senders -> Values \cup {NoValue}]
    /\ left \in [Threads -> TimeKinds]
    /\ got \in [Receivers -> Values \cup {NoValue}]
    /\ obj \in {"live", "check", "resume", "check sender", "resume sender", "remove", "gone"}
    /\ wild \in BOOLEAN

(* Each list holds exactly the threads asleep in its call, each once. *)
WaitersConsistent ==
    /\ IsInjective(suspend_thread)
    /\ IsInjective(suspend_sender_thread)
    /\ \A t \in Threads :
          /\ t \in ToSet(suspend_thread) <=> stat[t] = "SUSPEND" /\ pc[t] = "recv"
          /\ t \in ToSet(suspend_sender_thread) <=> stat[t] = "SUSPEND" /\ pc[t] = "send"
          /\ stat[t] = "SUSPEND" => pc[t] # "idle" /\ error[t] = "EOK"
          /\ timer[t] => stat[t] = "SUSPEND"
    /\ \A t \in Receivers : pc[t] # "send"
    /\ \A t \in Senders : pc[t] # "recv"

(* The two offsets and the count describe the same ring. *)
RingConsistent ==
    in_offset = IF out_offset + entry < Size THEN out_offset + entry
                ELSE out_offset + entry - Size

Woken(call) == {t \in Threads : pc[t] = call /\ stat[t] = "READY" /\ error[t] = "EOK"}

(* No receiver sleeps beside a message that no resumed receiver is on its  *)
(* way to take, and no sender beside a free slot that no resumed sender is *)
(* on its way to fill, whatever later callers take or time out in between. *)
NoWakeupWasted ==
    /\ suspend_thread # <<>> => entry <= Cardinality(Woken("recv"))
    /\ suspend_sender_thread # <<>> => Size - entry <= Cardinality(Woken("send"))

(* "resume all suspended thread": nobody sleeps in a mailbox that is gone, *)
(* or is on its way back to its ring and lists.                            *)
NobodyLeftBehind ==
    obj = "gone" =>
        /\ suspend_thread = <<>> /\ suspend_sender_thread = <<>>
        /\ Woken("send") = {} /\ Woken("recv") = {}

(* The queue the ring stands for, oldest message first. *)
Contents ==
    [i \in 1..entry |->
        msg_pool[IF out_offset + i - 1 < Size THEN out_offset + i - 1
                 ELSE out_offset + i - 1 - Size]]

Fifo == INSTANCE BoundedFifo WITH queue <- Contents, Urgent <- FALSE

(* The mailbox is a bounded FIFO queue: every message received is the      *)
(* oldest one sent, none is lost, repeated or overwritten.                 *)
IsFifo == Fifo!Spec


(* Ring, lists and threads always agree, whoever is resumed, times out or  *)
(* is flushed out by a reset or a detach, and nobody uses a mailbox that   *)
(* is gone.                                                                *)
Consistent ==
    /\ TypeOK
    /\ WaitersConsistent
    /\ RingConsistent
    /\ NobodyLeftBehind
=============================================================================
