----------------------------- MODULE MessageQueue -----------------------------
(***************************************************************************)
(* RT-Thread message queues (rt-thread/src/ipc.c): message nodes linked    *)
(* from msg_queue_head to msg_queue_tail, unused nodes linked from         *)
(* msg_queue_free.                                                         *)
(*                                                                         *)
(* A message is copied with interrupts enabled: sending and receiving have *)
(* two critical sections each, and between them the node is in no list but *)
(* in the hands of the caller, while others send, receive and reset.       *)
(***************************************************************************)
EXTENDS IpcObject, FiniteSets

CONSTANTS
    Senders,          \* contexts that send: threads and interrupt handlers
    Receivers,        \* threads that receive
    Nodes, Null,      \* the message nodes of the pool; RT_NULL
    Flag,             \* parent.flag: "FIFO" or "PRIO"
    Values, NoValue,  \* message bodies; what a buffer holds at first
    Times,            \* kinds of waiting time the receivers use
    Patient           \* who deletes goes on only while no caller is ready

ASSUME QueueAssumption ==
    /\ Threads = Receivers
    /\ Senders \cap Receivers = {}
    /\ IsFiniteSet(Receivers)
    /\ IsFiniteSet(Nodes) /\ Nodes # {}
    /\ Null \notin Nodes
    /\ Flag \in {"FIFO", "PRIO"}
    /\ NoValue \notin Values
    /\ Times \subseteq TimeKinds
    /\ Patient \in BOOLEAN

VARIABLES
    next, body,                                        \* of every node
    msg_queue_head, msg_queue_tail, msg_queue_free, entry,
    suspend_thread,   \* blocked receivers
    pc,               \* where a caller is between its critical sections
    msg,              \* the local variable msg of a caller
    arg,              \* what a sender sends: the value, and whether urgent
    left,             \* the remaining waiting time of a receiver
    got               \* the buffer of a receiver's last successful call

nodeVars == <<next, body>>
queueVars == <<msg_queue_head, msg_queue_tail, msg_queue_free, entry>>
callVars == <<msg, arg, left, got>>
vars == <<stat, error, timer, next, body, msg_queue_head, msg_queue_tail,
          msg_queue_free, entry, suspend_thread, pc, msg, arg, left, got, obj, wild>>

(* Local variables of a call are forgotten when it returns. *)
NoArg == [value |-> NoValue, urgent |-> FALSE]

Callers == Senders \cup Receivers

(* The place of a node in a list without doubles. *)
Position(order, n) == CHOOSE j \in DOMAIN order : order[j] = n

(* Nodes linked one behind the other, as an initialisation loop leaves them. *)
Linked(order) ==
    [n \in Nodes |-> LET i == Position(order, n)
                     IN  IF i = Len(order) THEN Null ELSE order[i + 1]]

(* rt_mq_init, rt_mq_create: every node is in the free list. *)
Init ==
    /\ ThreadInit
    /\ ObjInit
    /\ LET order == SetToSeq(Nodes)
       IN  /\ next = Linked(order)
           /\ msg_queue_free = order[1]
    /\ body = [n \in Nodes |-> NoValue]
    /\ msg_queue_head = Null /\ msg_queue_tail = Null
    /\ entry = 0
    /\ suspend_thread = <<>>
    /\ pc = [c \in Callers |-> "idle"]
    /\ msg = [c \in Callers |-> Null]
    /\ arg = [s \in Senders |-> NoArg]
    /\ left = [r \in Receivers |-> "none"]
    /\ got = [r \in Receivers |-> NoValue]

-----------------------------------------------------------------------------
(* A caller may go on in a call on a queue that is still there. *)
MayGoOn(c, where) == ~wild /\ obj # "gone" /\ pc[c] = where

(* First section of rt_mq_send and rt_mq_urgent: a node leaves the free    *)
(* list, or the call returns -RT_EFULL.                                    *)
SendAlloc(s, v, urgent) ==
    /\ Usable
    /\ pc[s] = "idle"
    /\ \/ /\ msg_queue_free = Null
          /\ UNCHANGED <<msg_queue_free, msg, arg, pc>>
       \/ /\ msg_queue_free # Null
          /\ msg' = [msg EXCEPT ![s] = msg_queue_free]
          /\ msg_queue_free' = next[msg_queue_free]
          /\ arg' = [arg EXCEPT ![s] = [value |-> v, urgent |-> urgent]]
          /\ pc' = [pc EXCEPT ![s] = "copy"]
    /\ UNCHANGED <<threadVars, nodeVars, msg_queue_head, msg_queue_tail, entry,
                   suspend_thread, left, got, objVars>>

(* The copy, with interrupts enabled; rt_mq_send also ends the node. *)
SendCopy(s) ==
    /\ MayGoOn(s, "copy")
    /\ body' = [body EXCEPT ![msg[s]] = arg[s].value]
    /\ next' = IF arg[s].urgent THEN next ELSE [next EXCEPT ![msg[s]] = Null]
    /\ pc' = [pc EXCEPT ![s] = "link"]
    /\ UNCHANGED <<threadVars, queueVars, suspend_thread, callVars, objVars>>

(* rt_mq_send: the node becomes the tail. *)
LinkTail(n) ==
    /\ next' = IF msg_queue_tail # Null THEN [next EXCEPT ![msg_queue_tail] = n] ELSE next
    /\ msg_queue_tail' = n
    /\ msg_queue_head' = IF msg_queue_head = Null THEN n ELSE msg_queue_head

(* rt_mq_urgent: the node becomes the head. *)
LinkHead(n) ==
    /\ next' = [next EXCEPT ![n] = msg_queue_head]
    /\ msg_queue_head' = n
    /\ msg_queue_tail' = IF msg_queue_tail = Null THEN n ELSE msg_queue_tail

(* Mutant of WakeFirst: only the message that ends an empty queue wakes. *)
WakeOnFirstMessage ==
    IF suspend_thread = <<>> \/ entry # 0
    THEN UNCHANGED <<threadVars, suspend_thread>>
    ELSE /\ Resume(Head(suspend_thread))
         /\ suspend_thread' = Tail(suspend_thread)

(* One waiting receiver is resumed. *)
WakeFirst ==
    IF suspend_thread = <<>>
    THEN UNCHANGED <<threadVars, suspend_thread>>
    ELSE /\ Resume(Head(suspend_thread))
         /\ suspend_thread' = Tail(suspend_thread)

(* Second section of rt_mq_send and rt_mq_urgent. *)
SendLink(s) ==
    /\ MayGoOn(s, "link")
    /\ IF arg[s].urgent THEN LinkHead(msg[s]) ELSE LinkTail(msg[s])
    /\ entry' = entry + 1
    /\ WakeFirst
    /\ pc' = [pc EXCEPT ![s] = "idle"]
    /\ msg' = [msg EXCEPT ![s] = Null]
    /\ arg' = [arg EXCEPT ![s] = NoArg]
    /\ UNCHANGED <<body, msg_queue_free, left, got, objVars>>

-----------------------------------------------------------------------------
(* Mutant of Unlink: the tail of an emptied queue is not reset. *)
UnlinkHeadOnly(r) ==
    /\ entry # 0
    /\ msg' = [msg EXCEPT ![r] = msg_queue_head]
    /\ msg_queue_head' = next[msg_queue_head]
    /\ entry' = entry - 1
    /\ pc' = [pc EXCEPT ![r] = "copy"]
    /\ left' = [left EXCEPT ![r] = "none"]
    /\ UNCHANGED <<threadVars, nodeVars, msg_queue_tail, msg_queue_free,
                   suspend_thread, arg, got, objVars>>

(* The first section of rt_mq_recv ends: the head leaves the queue. *)
Unlink(r) ==
    /\ entry # 0
    /\ msg' = [msg EXCEPT ![r] = msg_queue_head]
    /\ msg_queue_head' = next[msg_queue_head]
    /\ msg_queue_tail' = IF msg_queue_tail = msg_queue_head THEN Null ELSE msg_queue_tail
    /\ entry' = entry - 1
    /\ pc' = [pc EXCEPT ![r] = "copy"]
    /\ left' = [left EXCEPT ![r] = "none"]
    /\ UNCHANGED <<threadVars, nodeVars, msg_queue_free, suspend_thread, arg, got,
                   objVars>>

(* The body of the while loop of rt_mq_recv up to rt_schedule. *)
Block(r, time) ==
    /\ entry = 0
    /\ time # "none"
    /\ suspend_thread' \in SuspendLists(suspend_thread, r, Flag)
    /\ Suspend(r, time)
    /\ left' = [left EXCEPT ![r] = time]
    /\ pc' = [pc EXCEPT ![r] = "wait"]
    /\ UNCHANGED <<nodeVars, queueVars, msg, arg, got, objVars>>

Recv(r, time) ==
    /\ Usable
    /\ pc[r] = "idle"
    /\ \/ Unlink(r)
       \/ Block(r, time)
       \/ /\ entry = 0 /\ time = "none"      \* -RT_ETIMEOUT
          /\ UNCHANGED vars

(* What timeout -= tick_delta may leave of the waiting time. *)
Remaining(time) == IF time = "timed" THEN {"timed", "none"} ELSE {time}

(* A receiver resumed with RT_EOK tests the queue again. *)
RecvRetry(r, time) ==
    /\ MayGoOn(r, "wait") /\ stat[r] = "READY" /\ error[r] = "EOK"
    /\ time \in Remaining(left[r])
    /\ \/ Unlink(r)
       \/ Block(r, time)
       \/ /\ entry = 0 /\ time = "none"      \* -RT_ETIMEOUT
          /\ error' = [error EXCEPT ![r] = "ETIMEOUT"]
          /\ pc' = [pc EXCEPT ![r] = "idle"]
          /\ left' = [left EXCEPT ![r] = "none"]
          /\ UNCHANGED <<stat, timer, nodeVars, queueVars, suspend_thread, msg, arg, got,
                         objVars>>

(* A receiver resumed with an error returns it. *)
RecvError(r) ==
    /\ ~wild
    /\ pc[r] = "wait" /\ stat[r] = "READY" /\ error[r] # "EOK"
    /\ pc' = [pc EXCEPT ![r] = "idle"]
    /\ left' = [left EXCEPT ![r] = "none"]
    /\ UNCHANGED <<threadVars, nodeVars, queueVars, suspend_thread, msg, arg, got, objVars>>

(* Mutant of RecvCopy: the node is looked up again after the section. *)
RecvCopyHead(r) ==
    /\ MayGoOn(r, "copy")
    /\ got' = [got EXCEPT ![r] = IF msg_queue_head = Null THEN body[msg[r]]
                                 ELSE body[msg_queue_head]]
    /\ pc' = [pc EXCEPT ![r] = "free"]
    /\ UNCHANGED <<threadVars, nodeVars, queueVars, suspend_thread, msg, arg, left, objVars>>

(* The copy, with interrupts enabled. *)
RecvCopy(r) ==
    /\ MayGoOn(r, "copy")
    /\ got' = [got EXCEPT ![r] = body[msg[r]]]
    /\ pc' = [pc EXCEPT ![r] = "free"]
    /\ UNCHANGED <<threadVars, nodeVars, queueVars, suspend_thread, msg, arg, left, objVars>>

(* Second section of rt_mq_recv: the node joins the free list. *)
RecvFree(r) ==
    /\ MayGoOn(r, "free")
    /\ next' = [next EXCEPT ![msg[r]] = msg_queue_free]
    /\ msg_queue_free' = msg[r]
    /\ msg' = [msg EXCEPT ![r] = Null]
    /\ pc' = [pc EXCEPT ![r] = "idle"]
    /\ UNCHANGED <<threadVars, body, msg_queue_head, msg_queue_tail, entry,
                   suspend_thread, arg, left, got, objVars>>

-----------------------------------------------------------------------------
(* The thread timer of a receiver expires. *)
Timeout(r) ==
    /\ ~wild
    /\ TimeoutThread(r)
    /\ suspend_thread' = ListRemove(suspend_thread, r)
    /\ UNCHANGED <<nodeVars, queueVars, pc, callVars, objVars>>

(* The nodes that the pointers of links reach from start, first to last. *)
Chain(links, start) ==
    LET node[i \in 0..Cardinality(Nodes)] ==
            IF i = 0 THEN start
            ELSE IF node[i - 1] = Null THEN Null ELSE links[node[i - 1]]
        length == Cardinality({i \in 0..Cardinality(Nodes) : node[i] # Null})
    IN  [i \in 1..length |-> node[i - 1]]

(* rt_mq_control(RT_IPC_CMD_RESET): each queued node, first to last, is    *)
(* pushed on the free list, so that it points to the one before it.        *)
Reset ==
    LET queued == Chain(next, msg_queue_head)
        pushed(n) == IF Position(queued, n) = 1 THEN msg_queue_free
                     ELSE queued[Position(queued, n) - 1]
    IN  /\ Usable
        /\ ResumeAll(ToSet(suspend_thread))
        /\ suspend_thread' = <<>>
        /\ next' = [n \in Nodes |-> IF n \in ToSet(queued) THEN pushed(n) ELSE next[n]]
        /\ msg_queue_free' = IF queued = <<>> THEN msg_queue_free ELSE Last(queued)
        /\ msg_queue_head' = Null
        /\ msg_queue_tail' = IF msg_queue_tail \in ToSet(queued) THEN Null ELSE msg_queue_tail
        /\ entry' = 0
        /\ UNCHANGED <<body, pc, callVars, objVars>>

-----------------------------------------------------------------------------
(* Callers that are inside a call and not asleep. *)
Busy == {c \in Callers : pc[c] # "idle" /\ (c \in Receivers => stat[c] = "READY")}

(* rt_mq_detach and rt_mq_delete. *)
DetachStep(from, to) ==
    /\ Detach(from, to)
    /\ Patient => Busy = {}
    /\ UNCHANGED <<nodeVars, queueVars, pc, callVars>>

DetachBegin ==
    /\ DetachStep("live", "check")
    /\ UNCHANGED <<threadVars, suspend_thread, wild>>

DetachCheck ==
    /\ DetachStep("check", IF suspend_thread = <<>> THEN "remove" ELSE "resume")
    /\ UNCHANGED <<threadVars, suspend_thread, wild>>

DetachResume ==
    /\ DetachStep("resume", "check")
    /\ FlushFirst(suspend_thread)
    /\ suspend_thread' = Flushed(suspend_thread)

(* rt_object_detach, or rt_free of the pool and rt_object_delete. *)
DetachRemove ==
    /\ DetachStep("remove", "gone")
    /\ UNCHANGED <<threadVars, suspend_thread, wild>>

(* rt_mq_init on the memory of a detached queue, or rt_mq_create. *)
Reinit ==
    /\ Detach("gone", "live")
    /\ LET order == SetToSeq(Nodes)
       IN  next' = Linked(order) /\ msg_queue_free' = order[1]
    /\ msg_queue_head' = Null /\ msg_queue_tail' = Null
    /\ entry' = 0
    /\ suspend_thread' = <<>>
    /\ UNCHANGED <<threadVars, body, pc, callVars, wild>>

Next ==
    \/ \E s \in Senders, v \in Values, urgent \in BOOLEAN : SendAlloc(s, v, urgent)
    \/ \E s \in Senders : SendCopy(s)
    \/ \E s \in Senders : SendLink(s)
    \/ \E r \in Receivers, time \in Times : Recv(r, time)
    \/ \E r \in Receivers, time \in TimeKinds : RecvRetry(r, time)
    \/ \E r \in Receivers : RecvError(r)
    \/ \E r \in Receivers : RecvCopy(r)
    \/ \E r \in Receivers : RecvFree(r)
    \/ \E r \in Receivers : Timeout(r)
    \/ Reset
    \/ DetachBegin
    \/ DetachCheck
    \/ DetachResume
    \/ DetachRemove
    \/ Reinit

Spec == Init /\ [][Next]_vars

-----------------------------------------------------------------------------
(* The fields of the object and of its callers keep to their ranges. *)
TypeOK ==
    /\ ThreadTypeOK
    /\ next \in [Nodes -> Nodes \cup {Null}]
    /\ body \in [Nodes -> Values \cup {NoValue}]
    /\ {msg_queue_head, msg_queue_tail, msg_queue_free} \subseteq Nodes \cup {Null}
    /\ entry \in 0..Cardinality(Nodes)
    /\ suspend_thread \in Seq(Receivers)
    /\ pc \in [Callers -> {"idle", "copy", "link", "wait", "free"}]
    /\ msg \in [Callers -> Nodes \cup {Null}]
    /\ arg \in [Senders -> [value : Values \cup {NoValue}, urgent : BOOLEAN]]
    /\ left \in [Receivers -> TimeKinds]
    /\ got \in [Receivers -> Values \cup {NoValue}]
    /\ obj \in {"live", "check", "resume", "remove", "gone"}
    /\ wild \in BOOLEAN

(* The suspend list holds exactly the threads asleep in rt_mq_recv, each   *)
(* once.                                                                   *)
WaitersConsistent ==
    /\ IsInjective(suspend_thread)
    /\ \A r \in Receivers :
          /\ r \in ToSet(suspend_thread) <=> stat[r] = "SUSPEND"
          /\ stat[r] = "SUSPEND" => pc[r] = "wait" /\ error[r] = "EOK"
          /\ timer[r] => stat[r] = "SUSPEND"

Held == {c \in Callers : msg[c] # Null}

(* No node is lost, shared or linked twice: every node is in exactly one   *)
(* of the queue, the free list and the hands of one caller that copies,    *)
(* and neither list has a cycle.                                           *)
NodesPartitioned ==
    LET queued == Chain(next, msg_queue_head)
        free == Chain(next, msg_queue_free)
        held == {msg[c] : c \in Held}
    IN  /\ IsInjective(queued) /\ IsInjective(free)
        /\ Cardinality(held) = Cardinality(Held)
        /\ ToSet(queued) \cup ToSet(free) \cup held = Nodes
        /\ Len(queued) + Len(free) + Cardinality(held) = Cardinality(Nodes)

(* The tail is the last node the head reaches, and entry counts them. *)
TailReached ==
    LET queued == Chain(next, msg_queue_head)
    IN  /\ entry = Len(queued)
        /\ msg_queue_tail = IF queued = <<>> THEN Null ELSE Last(queued)

(* "resume all suspended thread": nobody sleeps in a queue that is gone,   *)
(* copies to or from its nodes, or is on its way back to them.             *)
NobodyLeftBehind ==
    obj = "gone" =>
        /\ suspend_thread = <<>>
        /\ \A c \in Busy : pc[c] = "wait" /\ error[c] # "EOK"

(* No receiver sleeps beside a message that no resumed receiver is on its  *)
(* way to take.                                                            *)
NoMessageWasted ==
    suspend_thread # <<>> =>
        entry <= Cardinality({r \in Receivers :
                     pc[r] = "wait" /\ stat[r] = "READY" /\ error[r] = "EOK"})

(* The messages in the queue, and what a receiver that is copying will get. *)
Contents == [i \in 1..entry |-> body[Chain(next, msg_queue_head)[i]]]
Delivered == [r \in Receivers |-> IF pc[r] = "copy" THEN body[msg[r]] ELSE got[r]]

Fifo == INSTANCE BoundedFifo
            WITH Size <- Cardinality(Nodes), Urgent <- TRUE,
                 queue <- Contents, got <- Delivered

(* The queue is a bounded FIFO queue with an urgent lane: the copies made  *)
(* outside the critical sections deliver exactly the messages sent, in     *)
(* order.                                                                  *)
IsFifo == Fifo!Spec

(* Queue, list and threads always agree, whoever is resumed, times out or  *)
(* is flushed out by a reset or a detach; no node is lost; and nobody uses *)
(* a queue that is gone.                                                   *)
Consistent ==
    /\ TypeOK
    /\ WaitersConsistent
    /\ NodesPartitioned
    /\ TailReached
    /\ NobodyLeftBehind
=============================================================================
