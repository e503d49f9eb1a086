---------------------------- MODULE MailboxProofs ----------------------------
(***************************************************************************)
(* The safety of RT-Thread mailboxes for any number of senders and         *)
(* receivers, any priorities and any size, and that a mailbox implements a *)
(* bounded FIFO queue.  The two invariants assume Patient: who detaches a  *)
(* mailbox waits until no caller is ready inside rt_mb_send_wait or        *)
(* rt_mb_recv, which rt_mb_detach itself does not see to.  The refinement  *)
(* assumes nothing of the kind.                                            *)
(***************************************************************************)
EXTENDS Mailbox, ListProofs

(* While a detach is under way no thread is on its way back to the ring. *)
DetachedQuiet == obj # "live" => Woken("send") = {} /\ Woken("recv") = {}

(* A list that a detach has found empty stays empty: first that of the     *)
(* receivers, then that of the senders.                                    *)
DetachedEmpty ==
    /\ obj \in {"check sender", "resume sender", "remove", "gone"} => suspend_thread = <<>>
    /\ obj \in {"remove", "gone"} => suspend_sender_thread = <<>>

(* A blocked sender has a message to send. *)
SendersHaveMessage == \A t \in Senders : pc[t] = "send" => arg[t] \in Values

(* The inductive invariant.  That no wakeup is wasted rests on the exact   *)
(* link between lists and threads, and this link on a detach that leaves   *)
(* nobody in the lists when the mailbox is initialised again.              *)
IInv ==
    /\ TypeOK
    /\ WaitersConsistent
    /\ RingConsistent
    /\ NoWakeupWasted
    /\ DetachedQuiet
    /\ DetachedEmpty
    /\ SendersHaveMessage

-----------------------------------------------------------------------------
(* The threads on their way back to the ring, before and after a step. *)
LEMMA WokenType ==
    \A call : Woken(call) \in SUBSET Threads /\ Woken(call)' \in SUBSET Threads
BY DEF Woken

LEMMA SizeType == Size \in Nat /\ Size > 0
BY MailboxAssumption

(* Offsets stay inside the ring. *)
LEMMA AdvanceType ==
    ASSUME NEW i \in 0..(Size - 1)
    PROVE  Advance(i) \in 0..(Size - 1) /\ Advance(i) = IF i + 1 = Size THEN 0 ELSE i + 1
BY SizeType DEF Advance

LEMMA InitInv == Init => IInv
<1> SUFFICES ASSUME Init PROVE IInv
    OBVIOUS
<1> USE DEF Init, ThreadInit, ObjInit
<1>1. TypeOK
    <2>1. ThreadTypeOK
        BY DEF ThreadTypeOK, Errors
    <2>2. entry \in 0..Size /\ in_offset \in 0..(Size - 1) /\ out_offset \in 0..(Size - 1)
        BY MailboxAssumption
    <2> QED BY <2>1, <2>2, EmptyList DEF TypeOK, TimeKinds
<1>2. WaitersConsistent
    BY EmptyList, MailboxAssumption DEF WaitersConsistent
<1>3. RingConsistent
    BY MailboxAssumption DEF RingConsistent
<1>4. SendersHaveMessage
    BY MailboxAssumption DEF SendersHaveMessage
<1> QED BY <1>1, <1>2, <1>3, <1>4 DEF IInv, NoWakeupWasted, DetachedQuiet, DetachedEmpty

-----------------------------------------------------------------------------
(* What a stored message does to the ring, and to the first receiver.      *)
LEMMA PutFacts ==
    ASSUME TypeOK, WaitersConsistent, RingConsistent, NEW v \in Values, Put(v)
    PROVE  /\ msg_pool' \in [0..(Size - 1) -> Values \cup {NoValue}]
           /\ entry' = entry + 1 /\ entry' \in 0..Size
           /\ in_offset' \in 0..(Size - 1) /\ out_offset' = out_offset
           /\ RingConsistent'
           /\ suspend_sender_thread' = suspend_sender_thread /\ got' = got
           /\ \/ suspend_thread = <<>> /\ UNCHANGED <<threadVars, suspend_thread>>
              \/ \E h \in ToSet(suspend_thread) :
                    /\ h \in Threads
                    /\ stat' = [stat EXCEPT ![h] = "READY"]
                    /\ timer' = [timer EXCEPT ![h] = FALSE]
                    /\ error' = error
                    /\ suspend_thread' \in Seq(Threads) /\ IsInjective(suspend_thread')
                    /\ ToSet(suspend_thread') = ToSet(suspend_thread) \ {h}
<1>0. /\ entry # Size /\ entry' = entry + 1
      /\ msg_pool' = [msg_pool EXCEPT ![in_offset] = v]
      /\ in_offset' = Advance(in_offset) /\ out_offset' = out_offset
      /\ WakeFirstReceiver
      /\ suspend_sender_thread' = suspend_sender_thread /\ got' = got
    BY DEF Put
<1>a. /\ entry \in 0..Size
      /\ in_offset \in 0..(Size - 1) /\ out_offset \in 0..(Size - 1)
      /\ msg_pool \in [0..(Size - 1) -> Values \cup {NoValue}]
    BY DEF TypeOK
<1>1. msg_pool' \in [0..(Size - 1) -> Values \cup {NoValue}]
    BY <1>0, <1>a
<1>2. entry' \in 0..Size
    BY <1>0, <1>a, SizeType
<1>3. /\ in_offset' \in 0..(Size - 1)
      /\ in_offset' = IF in_offset + 1 = Size THEN 0 ELSE in_offset + 1
    BY <1>0, <1>a, AdvanceType
<1>4. RingConsistent'
    BY <1>0, <1>a, <1>3, SizeType DEF RingConsistent
<1>5. CASE suspend_thread = <<>>
    BY <1>0, <1>1, <1>2, <1>3, <1>4, <1>5 DEF WakeFirstReceiver
<1>6. CASE suspend_thread # <<>>
    <2> DEFINE h == Head(suspend_thread)
    <2>1. /\ h \in Threads /\ h \in ToSet(suspend_thread)
          /\ Tail(suspend_thread) \in Seq(Threads) /\ IsInjective(Tail(suspend_thread))
          /\ ToSet(Tail(suspend_thread)) = ToSet(suspend_thread) \ {h}
        BY <1>6, TailList DEF TypeOK, WaitersConsistent
    <2>2. /\ stat' = [stat EXCEPT ![h] = "READY"] /\ timer' = [timer EXCEPT ![h] = FALSE]
          /\ error' = error /\ suspend_thread' = Tail(suspend_thread)
        BY <1>0, <1>6 DEF WakeFirstReceiver, Resume
    <2> HIDE DEF h
    <2> QED BY <1>0, <1>1, <1>2, <1>3, <1>4, <2>1, <2>2
<1> QED BY <1>5, <1>6

(* A message is stored by a thread or an interrupt handler that did not    *)
(* have to wait, or by a resumed sender t, which leaves its call.          *)
LEMMA PutInv ==
    ASSUME IInv, NEW v \in Values, Put(v), obj = "live", UNCHANGED <<objVars, arg, left>>,
           NEW t, pc' = pc \/ (t \in Woken("send") /\ pc' = [pc EXCEPT ![t] = "idle"])
    PROVE  IInv'
<1> USE DEF IInv
<1>0. /\ msg_pool' \in [0..(Size - 1) -> Values \cup {NoValue}]
      /\ entry' = entry + 1 /\ entry' \in 0..Size /\ entry \in 0..Size
      /\ in_offset' \in 0..(Size - 1) /\ out_offset' = out_offset
      /\ RingConsistent'
      /\ suspend_sender_thread' = suspend_sender_thread /\ got' = got
    BY PutFacts DEF TypeOK
<1>1. DetachedQuiet' /\ DetachedEmpty'
    BY DEF objVars, DetachedQuiet, DetachedEmpty
<1>2. /\ pc' \in [Threads -> {"idle", "send", "recv"}]
      /\ \A u \in Threads : pc'[u] = pc[u] \/ (u \in Woken("send") /\ u = t /\ pc'[u] = "idle")
    BY DEF TypeOK, Woken
<1>3. SendersHaveMessage'
    BY <1>2, MailboxAssumption DEF SendersHaveMessage, Woken
<1>4. \A u \in Woken("send") : u \in Threads /\ stat[u] = "READY" /\ pc[u] = "send"
    BY DEF Woken
<1>5. suspend_sender_thread # <<>> => Size - entry <= Cardinality(Woken("send"))
    BY DEF NoWakeupWasted
<1>6. ASSUME Woken("send") \ {t} \subseteq Woken("send")'
      PROVE  suspend_sender_thread' # <<>> => Size - entry' <= Cardinality(Woken("send")')
    <2>1. /\ Cardinality(Woken("send")) \in Nat /\ Cardinality(Woken("send")') \in Nat
          /\ Cardinality(Woken("send")) - 1 <= Cardinality(Woken("send")')
        BY <1>6, WokenType, MailboxAssumption, CardinalityCompare
    <2> QED BY <1>0, <1>5, <2>1, SizeType
<1>7. CASE suspend_thread = <<>> /\ UNCHANGED <<threadVars, suspend_thread>>
    <2>1. TypeOK'
        BY <1>0, <1>2, <1>7 DEF TypeOK, ThreadTypeOK, threadVars, objVars
    <2>2. WaitersConsistent'
        BY <1>0, <1>2, <1>4, <1>7, MailboxAssumption DEF WaitersConsistent, threadVars
    <2>3. Woken("send") \ {t} \subseteq Woken("send")'
        BY <1>2, <1>7 DEF Woken, threadVars
    <2>4. NoWakeupWasted'
        BY <1>6, <1>7, <2>3 DEF NoWakeupWasted
    <2> QED BY <1>0, <1>1, <1>3, <2>1, <2>2, <2>4
<1>8. ASSUME NEW h \in ToSet(suspend_thread), h \in Threads,
             stat' = [stat EXCEPT ![h] = "READY"],
             timer' = [timer EXCEPT ![h] = FALSE],
             error' = error,
             suspend_thread' \in Seq(Threads), IsInjective(suspend_thread'),
             ToSet(suspend_thread') = ToSet(suspend_thread) \ {h}
      PROVE  IInv'
    <2>1. TypeOK'
        BY <1>0, <1>2, <1>8 DEF TypeOK, ThreadTypeOK, objVars
    <2>2. stat[h] = "SUSPEND" /\ pc[h] = "recv" /\ error[h] = "EOK" /\ suspend_thread # <<>>
        BY <1>8, EmptyList DEF WaitersConsistent
    <2>3. WaitersConsistent'
        BY <1>0, <1>2, <1>4, <1>8, <2>2, MailboxAssumption
           DEF WaitersConsistent, TypeOK, ThreadTypeOK
    <2>4. Woken("send") \ {t} \subseteq Woken("send")'
        BY <1>2, <1>8, <2>2 DEF Woken, TypeOK, ThreadTypeOK
    <2>5. Woken("recv") \cup {h} \subseteq Woken("recv")' /\ h \notin Woken("recv")
        BY <1>2, <1>4, <1>8, <2>2 DEF Woken, TypeOK, ThreadTypeOK
    <2>6. /\ Cardinality(Woken("recv")) \in Nat /\ Cardinality(Woken("recv")') \in Nat
          /\ Cardinality(Woken("recv")) + 1 <= Cardinality(Woken("recv")')
        BY <2>5, WokenType, MailboxAssumption, CardinalityCompare
    <2>7. entry <= Cardinality(Woken("recv"))
        BY <2>2 DEF NoWakeupWasted
    <2>8. NoWakeupWasted'
        BY <1>0, <1>6, <2>4, <2>6, <2>7 DEF NoWakeupWasted
    <2> QED BY <1>0, <1>1, <1>3, <2>1, <2>3, <2>8
<1> QED BY <1>7, <1>8, PutFacts

-----------------------------------------------------------------------------
(* What the taking of a message does to the ring, and to the first sender. *)
LEMMA GetFacts ==
    ASSUME TypeOK, WaitersConsistent, RingConsistent, NEW r \in Receivers, Get(r)
    PROVE  /\ msg_pool' = msg_pool /\ in_offset' = in_offset
           /\ entry' = entry - 1 /\ entry' \in 0..Size
           /\ out_offset' \in 0..(Size - 1)
           /\ RingConsistent'
           /\ got' \in [Receivers -> Values \cup {NoValue}]
           /\ suspend_thread' = suspend_thread
           /\ \/ suspend_sender_thread = <<>> /\ UNCHANGED <<threadVars, suspend_sender_thread>>
              \/ \E h \in ToSet(suspend_sender_thread) :
                    /\ h \in Threads
                    /\ stat' = [stat EXCEPT ![h] = "READY"]
                    /\ timer' = [timer EXCEPT ![h] = FALSE]
                    /\ error' = error
                    /\ suspend_sender_thread' \in Seq(Threads)
                    /\ IsInjective(suspend_sender_thread')
                    /\ ToSet(suspend_sender_thread') = ToSet(suspend_sender_thread) \ {h}
<1>0. /\ entry # 0 /\ entry' = entry - 1
      /\ got' = [got EXCEPT ![r] = msg_pool[out_offset]]
      /\ out_offset' = Advance(out_offset) /\ in_offset' = in_offset
      /\ WakeFirstSender
      /\ suspend_thread' = suspend_thread /\ msg_pool' = msg_pool
    BY DEF Get
<1>a. /\ entry \in 0..Size
      /\ in_offset \in 0..(Size - 1) /\ out_offset \in 0..(Size - 1)
      /\ msg_pool \in [0..(Size - 1) -> Values \cup {NoValue}]
      /\ got \in [Receivers -> Values \cup {NoValue}]
    BY DEF TypeOK
<1>1. got' \in [Receivers -> Values \cup {NoValue}]
    BY <1>0, <1>a
<1>2. entry' \in 0..Size
    BY <1>0, <1>a, SizeType
<1>3. /\ out_offset' \in 0..(Size - 1)
      /\ out_offset' = IF out_offset + 1 = Size THEN 0 ELSE out_offset + 1
    BY <1>0, <1>a, AdvanceType
<1>4. RingConsistent'
    BY <1>0, <1>a, <1>3, SizeType DEF RingConsistent
<1>5. CASE suspend_sender_thread = <<>>
    BY <1>0, <1>1, <1>2, <1>3, <1>4, <1>5 DEF WakeFirstSender
<1>6. CASE suspend_sender_thread # <<>>
    <2> DEFINE h == Head(suspend_sender_thread)
    <2>1. /\ h \in Threads /\ h \in ToSet(suspend_sender_thread)
          /\ Tail(suspend_sender_thread) \in Seq(Threads)
          /\ IsInjective(Tail(suspend_sender_thread))
          /\ ToSet(Tail(suspend_sender_thread)) = ToSet(suspend_sender_thread) \ {h}
        BY <1>6, TailList DEF TypeOK, WaitersConsistent
    <2>2. /\ stat' = [stat EXCEPT ![h] = "READY"] /\ timer' = [timer EXCEPT ![h] = FALSE]
          /\ error' = error /\ suspend_sender_thread' = Tail(suspend_sender_thread)
        BY <1>0, <1>6 DEF WakeFirstSender, Resume
    <2> HIDE DEF h
    <2> QED BY <1>0, <1>1, <1>2, <1>3, <1>4, <2>1, <2>2
<1> QED BY <1>5, <1>6

(* A message is taken by a receiver that did not have to wait, or by a     *)
(* resumed receiver t, which leaves its call.                              *)
LEMMA GetInv ==
    ASSUME IInv, NEW r \in Receivers, Get(r), obj = "live", UNCHANGED <<objVars, arg, left>>,
           NEW t, pc' = pc \/ (t \in Woken("recv") /\ pc' = [pc EXCEPT ![t] = "idle"])
    PROVE  IInv'
<1> USE DEF IInv
<1>0. /\ msg_pool' = msg_pool /\ in_offset' = in_offset
      /\ entry' = entry - 1 /\ entry' \in 0..Size /\ entry \in 0..Size
      /\ out_offset' \in 0..(Size - 1)
      /\ RingConsistent'
      /\ got' \in [Receivers -> Values \cup {NoValue}]
      /\ suspend_thread' = suspend_thread
    BY GetFacts DEF TypeOK
<1>1. DetachedQuiet' /\ DetachedEmpty'
    BY DEF objVars, DetachedQuiet, DetachedEmpty
<1>2. /\ pc' \in [Threads -> {"idle", "send", "recv"}]
      /\ \A u \in Threads : pc'[u] = pc[u] \/ (u \in Woken("recv") /\ u = t /\ pc'[u] = "idle")
    BY DEF TypeOK, Woken
<1>3. SendersHaveMessage'
    BY <1>2, MailboxAssumption DEF SendersHaveMessage, Woken
<1>4. \A u \in Woken("recv") : u \in Threads /\ stat[u] = "READY" /\ pc[u] = "recv"
    BY DEF Woken
<1>5. suspend_thread # <<>> => entry <= Cardinality(Woken("recv"))
    BY DEF NoWakeupWasted
<1>6. ASSUME Woken("recv") \ {t} \subseteq Woken("recv")'
      PROVE  suspend_thread' # <<>> => entry' <= Cardinality(Woken("recv")')
    <2>1. /\ Cardinality(Woken("recv")) \in Nat /\ Cardinality(Woken("recv")') \in Nat
          /\ Cardinality(Woken("recv")) - 1 <= Cardinality(Woken("recv")')
        BY <1>6, WokenType, MailboxAssumption, CardinalityCompare
    <2> QED BY <1>0, <1>5, <2>1, SizeType
<1>7. CASE suspend_sender_thread = <<>> /\ UNCHANGED <<threadVars, suspend_sender_thread>>
    <2>1. TypeOK'
        BY <1>0, <1>2, <1>7 DEF TypeOK, ThreadTypeOK, threadVars, objVars
    <2>2. WaitersConsistent'
        BY <1>0, <1>2, <1>4, <1>7, MailboxAssumption DEF WaitersConsistent, threadVars
    <2>3. Woken("recv") \ {t} \subseteq Woken("recv")'
        BY <1>2, <1>7 DEF Woken, threadVars
    <2>4. NoWakeupWasted'
        BY <1>6, <1>7, <2>3 DEF NoWakeupWasted
    <2> QED BY <1>0, <1>1, <1>3, <2>1, <2>2, <2>4
<1>8. ASSUME NEW h \in ToSet(suspend_sender_thread), h \in Threads,
             stat' = [stat EXCEPT ![h] = "READY"],
             timer' = [timer EXCEPT ![h] = FALSE],
             error' = error,
             suspend_sender_thread' \in Seq(Threads), IsInjective(suspend_sender_thread'),
             ToSet(suspend_sender_thread') = ToSet(suspend_sender_thread) \ {h}
      PROVE  IInv'
    <2>1. TypeOK'
        BY <1>0, <1>2, <1>8 DEF TypeOK, ThreadTypeOK, objVars
    <2>2. stat[h] = "SUSPEND" /\ pc[h] = "send" /\ error[h] = "EOK" /\ suspend_sender_thread # <<>>
        BY <1>8, EmptyList DEF WaitersConsistent
    <2>3. WaitersConsistent'
        BY <1>0, <1>2, <1>4, <1>8, <2>2, MailboxAssumption
           DEF WaitersConsistent, TypeOK, ThreadTypeOK
    <2>4. Woken("recv") \ {t} \subseteq Woken("recv")'
        BY <1>2, <1>8, <2>2 DEF Woken, TypeOK, ThreadTypeOK
    <2>5. Woken("send") \cup {h} \subseteq Woken("send")' /\ h \notin Woken("send")
        BY <1>2, <1>4, <1>8, <2>2 DEF Woken, TypeOK, ThreadTypeOK
    <2>6. /\ Cardinality(Woken("send")) \in Nat /\ Cardinality(Woken("send")') \in Nat
          /\ Cardinality(Woken("send")) + 1 <= Cardinality(Woken("send")')
        BY <2>5, WokenType, MailboxAssumption, CardinalityCompare
    <2>7. Size - entry <= Cardinality(Woken("send"))
        BY <2>2 DEF NoWakeupWasted
    <2>8. NoWakeupWasted'
        BY <1>0, <1>6, <2>4, <2>6, <2>7, SizeType DEF NoWakeupWasted
    <2> QED BY <1>0, <1>1, <1>3, <2>1, <2>3, <2>8
<1> QED BY <1>7, <1>8, GetFacts

-----------------------------------------------------------------------------
(* A thread blocks: a new caller, or a resumed one that found nothing.     *)
LEMMA BlockSenderInv ==
    ASSUME IInv, NEW t \in Senders, NEW time \in TimeKinds, BlockSender(t, time),
           stat[t] = "READY", obj = "live",
           pc' = [pc EXCEPT ![t] = "send"], left' = [left EXCEPT ![t] = time],
           arg' \in [Senders -> Values \cup {NoValue}], arg'[t] \in Values,
           \A u \in Senders : u # t => arg'[u] = arg[u],
           UNCHANGED objVars
    PROVE  IInv'
<1> USE DEF IInv
<1>a. PICK prio \in [Threads -> Priorities] :
            suspend_sender_thread' = SuspendList(suspend_sender_thread, t, Flag, prio)
    BY DEF BlockSender, SuspendLists
<1>b. prio \in [Threads -> Nat]
    BY PrioAssumption
<1> DEFINE new == SuspendList(suspend_sender_thread, t, Flag, prio)
<1>0. t \in Threads /\ t \notin Receivers /\ pc[t] # "recv" /\ t \notin ToSet(suspend_sender_thread)
    BY MailboxAssumption DEF WaitersConsistent
<1>1. new \in Seq(Threads) /\ ToSet(new) = ToSet(suspend_sender_thread) \cup {t} /\ IsInjective(new)
    BY <1>0, <1>b, SuspendListFacts DEF TypeOK, WaitersConsistent
<1>2. /\ entry = Size /\ UNCHANGED <<ringVars, suspend_thread, got>>
      /\ suspend_sender_thread' = new
      /\ stat' = [stat EXCEPT ![t] = "SUSPEND"]
      /\ error' = [error EXCEPT ![t] = "EOK"]
      /\ timer' = [timer EXCEPT ![t] = (time = "timed")]
    BY <1>a DEF BlockSender, Suspend
<1> HIDE DEF new
<1>3. TypeOK'
    BY <1>0, <1>1, <1>2 DEF TypeOK, ThreadTypeOK, Errors, ringVars, objVars
<1>4. WaitersConsistent'
    BY <1>0, <1>1, <1>2, MailboxAssumption DEF WaitersConsistent, TypeOK, ThreadTypeOK
<1>5. Woken("recv") \subseteq Woken("recv")'
    BY <1>0, <1>2 DEF Woken, TypeOK, ThreadTypeOK
<1>6. NoWakeupWasted'
    <2>1. Cardinality(Woken("recv")) <= Cardinality(Woken("recv")')
          /\ Cardinality(Woken("recv")) \in Nat /\ Cardinality(Woken("recv")') \in Nat
          /\ Cardinality(Woken("send")') \in Nat
        BY <1>5, WokenType, MailboxAssumption, CardinalityCompare
    <2>2. Size - entry' = 0 /\ entry' = entry /\ entry \in Nat
        BY <1>2, SizeType DEF ringVars
    <2> QED BY <1>2, <2>1, <2>2 DEF NoWakeupWasted
<1>7. RingConsistent'
    BY <1>2 DEF RingConsistent, ringVars
<1>8. SendersHaveMessage'
    BY <1>2 DEF SendersHaveMessage, TypeOK
<1> QED BY <1>3, <1>4, <1>6, <1>7, <1>8 DEF DetachedQuiet, DetachedEmpty, objVars

LEMMA BlockReceiverInv ==
    ASSUME IInv, NEW t \in Receivers, NEW time \in TimeKinds, BlockReceiver(t, time),
           stat[t] = "READY", obj = "live",
           pc' = [pc EXCEPT ![t] = "recv"], left' = [left EXCEPT ![t] = time],
           UNCHANGED <<arg, objVars>>
    PROVE  IInv'
<1> USE DEF IInv
<1>a. PICK prio \in [Threads -> Priorities] :
            suspend_thread' = SuspendList(suspend_thread, t, Flag, prio)
    BY DEF BlockReceiver, SuspendLists
<1>b. prio \in [Threads -> Nat]
    BY PrioAssumption
<1> DEFINE new == SuspendList(suspend_thread, t, Flag, prio)
<1>0. t \in Threads /\ t \notin Senders /\ pc[t] # "send" /\ t \notin ToSet(suspend_thread)
    BY MailboxAssumption DEF WaitersConsistent
<1>1. new \in Seq(Threads) /\ ToSet(new) = ToSet(suspend_thread) \cup {t} /\ IsInjective(new)
    BY <1>0, <1>b, SuspendListFacts DEF TypeOK, WaitersConsistent
<1>2. /\ entry = 0 /\ UNCHANGED <<ringVars, suspend_sender_thread, got>>
      /\ suspend_thread' = new
      /\ stat' = [stat EXCEPT ![t] = "SUSPEND"]
      /\ error' = [error EXCEPT ![t] = "EOK"]
      /\ timer' = [timer EXCEPT ![t] = (time = "timed")]
    BY <1>a DEF BlockReceiver, Suspend
<1> HIDE DEF new
<1>3. TypeOK'
    BY <1>0, <1>1, <1>2 DEF TypeOK, ThreadTypeOK, Errors, ringVars, objVars
<1>4. WaitersConsistent'
    BY <1>0, <1>1, <1>2, MailboxAssumption DEF WaitersConsistent, TypeOK, ThreadTypeOK
<1>5. Woken("send") \subseteq Woken("send")'
    BY <1>0, <1>2 DEF Woken, TypeOK, ThreadTypeOK
<1>6. NoWakeupWasted'
    <2>1. Cardinality(Woken("send")) <= Cardinality(Woken("send")')
          /\ Cardinality(Woken("send")) \in Nat /\ Cardinality(Woken("send")') \in Nat
          /\ Cardinality(Woken("recv")') \in Nat
        BY <1>5, WokenType, MailboxAssumption, CardinalityCompare
    <2>2. entry' = 0 /\ entry' = entry
        BY <1>2 DEF ringVars
    <2> QED BY <1>2, <2>1, <2>2, SizeType DEF NoWakeupWasted
<1>7. RingConsistent'
    BY <1>2 DEF RingConsistent, ringVars
<1>8. SendersHaveMessage'
    BY <1>0, <1>2, MailboxAssumption DEF SendersHaveMessage, TypeOK
<1> QED BY <1>3, <1>4, <1>6, <1>7, <1>8 DEF DetachedQuiet, DetachedEmpty, objVars

-----------------------------------------------------------------------------
(* A thread leaves its call without a message: a sender of a full mailbox, *)
(* a receiver of an empty one, or a thread that was resumed with an error. *)
LEMMA LeaveInv ==
    ASSUME IInv, NEW t \in Threads, stat[t] = "READY",
           \/ pc[t] = "send" /\ entry = Size
           \/ pc[t] = "recv" /\ entry = 0
           \/ error[t] # "EOK",
           pc' = [pc EXCEPT ![t] = "idle"],
           error' \in [Threads -> Errors], \A u \in Threads : u # t => error'[u] = error[u],
           UNCHANGED <<stat, timer, ringVars, listVars, arg, left, got, objVars>>
    PROVE  IInv'
<1> USE DEF IInv, listVars
<1>a. TypeOK'
    BY DEF TypeOK, ThreadTypeOK, ringVars, objVars
<1>b. SendersHaveMessage'
    BY MailboxAssumption DEF TypeOK, SendersHaveMessage
<1>1. TypeOK' /\ RingConsistent' /\ SendersHaveMessage'
    BY <1>a, <1>b DEF RingConsistent, ringVars
<1>2. WaitersConsistent'
    BY MailboxAssumption DEF WaitersConsistent, TypeOK, ThreadTypeOK
<1>3. ASSUME NEW call, call # "idle"
      PROVE  /\ Woken(call)' \subseteq Woken(call)
             /\ t \notin Woken(call) => Woken(call)' = Woken(call)
    <2>1. \A u \in Threads : u # t => pc'[u] = pc[u] /\ error'[u] = error[u] /\ stat'[u] = stat[u]
        BY DEF TypeOK, ThreadTypeOK
    <2>2. t \notin Woken(call)'
        BY <1>3 DEF Woken, TypeOK, ThreadTypeOK
    <2> QED BY <2>1, <2>2 DEF Woken
<1>4. NoWakeupWasted'
    <2>1. entry' = entry /\ suspend_thread' = suspend_thread
          /\ suspend_sender_thread' = suspend_sender_thread /\ entry \in 0..Size
        BY DEF ringVars, TypeOK
    <2>2. Cardinality(Woken("send")') \in Nat /\ Cardinality(Woken("recv")') \in Nat
        BY WokenType, MailboxAssumption, CardinalityCompare
    <2>3. t \in Woken("send") => entry = Size
        BY SizeType DEF Woken
    <2>4. t \in Woken("recv") => entry = 0
        BY SizeType DEF Woken
    <2> QED BY <1>3, <2>1, <2>2, <2>3, <2>4, SizeType DEF NoWakeupWasted
<1> QED BY <1>1, <1>2, <1>3, <1>4 DEF DetachedQuiet, DetachedEmpty, objVars

(* rt_mb_send and rt_mb_send_wait, first the call and then the loop. *)
LEMMA SendInv ==
    ASSUME IInv,
           \/ \E v \in Values : SendNoWait(v)
           \/ \E t \in Senders, v \in Values, time \in Times : SendWait(t, v, time)
           \/ \E t \in Senders, time \in TimeKinds : SendRetry(t, time)
    PROVE  IInv'
<1>1. ASSUME NEW v \in Values, SendNoWait(v) PROVE IInv'
    <2>1. obj = "live" /\ UNCHANGED <<pc, arg, left, objVars>>
        BY <1>1 DEF SendNoWait, Usable
    <2>2. CASE Put(v)
        BY <2>1, <2>2, PutInv
    <2>3. CASE UNCHANGED <<threadVars, ringVars, listVars, got>>
        <3>1. UNCHANGED vars
            BY <2>1, <2>3 DEF vars, threadVars, ringVars, listVars, objVars
        <3>2. \A call : Woken(call)' = Woken(call)
            BY <3>1 DEF vars, Woken
        <3> QED BY <3>1, <3>2 DEF vars, IInv, TypeOK, ThreadTypeOK, WaitersConsistent,
                RingConsistent, NoWakeupWasted, DetachedQuiet, DetachedEmpty, SendersHaveMessage
    <2> QED BY <1>1, <2>2, <2>3 DEF SendNoWait
<1>2. ASSUME NEW t \in Senders, NEW v \in Values, NEW time \in Times, SendWait(t, v, time)
      PROVE  IInv'
    <2>1. obj = "live" /\ UNCHANGED objVars /\ pc[t] = "idle"
        BY <1>2 DEF SendWait, Usable
    <2>2. CASE Put(v) /\ UNCHANGED <<pc, arg, left>>
        BY <2>1, <2>2, PutInv
    <2>3. CASE /\ BlockSender(t, time)
               /\ pc' = [pc EXCEPT ![t] = "send"]
               /\ arg' = [arg EXCEPT ![t] = v]
               /\ left' = [left EXCEPT ![t] = time]
        <3>1. stat[t] = "READY" /\ time \in TimeKinds
            BY <2>1, MailboxAssumption DEF IInv, WaitersConsistent, TypeOK, ThreadTypeOK
        <3>2. /\ arg' \in [Senders -> Values \cup {NoValue}] /\ arg'[t] \in Values
              /\ \A u \in Senders : u # t => arg'[u] = arg[u]
            BY <2>3 DEF IInv, TypeOK
        <3> QED BY <2>1, <2>3, <3>1, <3>2, BlockSenderInv
    <2> QED BY <1>2, <2>2, <2>3 DEF SendWait
<1>3. ASSUME NEW t \in Senders, NEW time \in TimeKinds, SendRetry(t, time) PROVE IInv'
    <2>0. t \in Threads
        BY MailboxAssumption
    <2>1. /\ t \in Woken("send") /\ stat[t] = "READY" /\ pc[t] = "send"
          /\ UNCHANGED <<arg, objVars>>
        BY <1>3, <2>0 DEF SendRetry, MayGoOn, Woken
    <2>2. obj = "live" /\ arg[t] \in Values
        BY <2>1 DEF IInv, DetachedQuiet, SendersHaveMessage
    <2>3. CASE Put(arg[t]) /\ pc' = [pc EXCEPT ![t] = "idle"] /\ UNCHANGED left
        BY <2>1, <2>2, <2>3, PutInv
    <2>4. CASE BlockSender(t, time) /\ left' = [left EXCEPT ![t] = time] /\ UNCHANGED pc
        <3>1. pc' = [pc EXCEPT ![t] = "send"]
            BY <2>0, <2>1, <2>4 DEF IInv, TypeOK
        <3>2. arg' \in [Senders -> Values \cup {NoValue}]
            BY <2>1 DEF IInv, TypeOK
        <3> QED BY <2>1, <2>2, <2>4, <3>1, <3>2, BlockSenderInv
    <2>5. CASE /\ entry = Size /\ pc' = [pc EXCEPT ![t] = "idle"]
               /\ UNCHANGED <<threadVars, ringVars, listVars, got, left>>
        <3>1. error' \in [Threads -> Errors] /\ error' = error /\ stat' = stat /\ timer' = timer
            BY <2>5 DEF threadVars, IInv, TypeOK, ThreadTypeOK
        <3> QED BY <2>0, <2>1, <2>5, <3>1, LeaveInv
    <2> QED BY <1>3, <2>3, <2>4, <2>5 DEF SendRetry
<1> QED BY <1>1, <1>2, <1>3

(* rt_mb_recv, first the call and then the loop. *)
LEMMA RecvInv ==
    ASSUME IInv,
           \/ \E t \in Receivers, time \in Times : Recv(t, time)
           \/ \E t \in Receivers, time \in TimeKinds : RecvRetry(t, time)
    PROVE  IInv'
<1>1. ASSUME NEW t \in Receivers, NEW time \in Times, Recv(t, time) PROVE IInv'
    <2>1. obj = "live" /\ UNCHANGED <<arg, objVars>> /\ pc[t] = "idle"
        BY <1>1 DEF Recv, Usable
    <2>2. CASE Get(t) /\ UNCHANGED <<pc, left>>
        BY <2>1, <2>2, GetInv
    <2>3. CASE UNCHANGED <<threadVars, ringVars, listVars, got, pc, left>>
        <3>1. UNCHANGED vars
            BY <2>1, <2>3 DEF vars, threadVars, ringVars, listVars, objVars
        <3>2. \A call : Woken(call)' = Woken(call)
            BY <3>1 DEF vars, Woken
        <3> QED BY <3>1, <3>2 DEF vars, IInv, TypeOK, ThreadTypeOK, WaitersConsistent,
                RingConsistent, NoWakeupWasted, DetachedQuiet, DetachedEmpty, SendersHaveMessage
    <2>4. CASE /\ BlockReceiver(t, time)
               /\ pc' = [pc EXCEPT ![t] = "recv"]
               /\ left' = [left EXCEPT ![t] = time]
        <3>1. stat[t] = "READY" /\ time \in TimeKinds
            BY <2>1, MailboxAssumption DEF IInv, WaitersConsistent, TypeOK, ThreadTypeOK
        <3> QED BY <2>1, <2>4, <3>1, BlockReceiverInv
    <2> QED BY <1>1, <2>2, <2>3, <2>4 DEF Recv
<1>2. ASSUME NEW t \in Receivers, NEW time \in TimeKinds, RecvRetry(t, time) PROVE IInv'
    <2>0. t \in Threads
        BY MailboxAssumption
    <2>1. /\ t \in Woken("recv") /\ stat[t] = "READY" /\ pc[t] = "recv"
          /\ UNCHANGED <<arg, objVars>>
        BY <1>2, <2>0 DEF RecvRetry, MayGoOn, Woken
    <2>2. obj = "live"
        BY <2>1 DEF IInv, DetachedQuiet
    <2>3. CASE Get(t) /\ pc' = [pc EXCEPT ![t] = "idle"] /\ UNCHANGED left
        BY <2>1, <2>2, <2>3, GetInv
    <2>4. CASE BlockReceiver(t, time) /\ left' = [left EXCEPT ![t] = time] /\ UNCHANGED pc
        <3>1. pc' = [pc EXCEPT ![t] = "recv"]
            BY <2>0, <2>1, <2>4 DEF IInv, TypeOK
        <3> QED BY <2>1, <2>2, <2>4, <3>1, BlockReceiverInv
    <2>5. CASE /\ entry = 0 /\ pc' = [pc EXCEPT ![t] = "idle"]
               /\ error' = [error EXCEPT ![t] = "ETIMEOUT"]
               /\ UNCHANGED <<stat, timer, ringVars, listVars, got, left>>
        <3>1. /\ error' \in [Threads -> Errors]
              /\ \A u \in Threads : u # t => error'[u] = error[u]
            BY <2>5 DEF IInv, TypeOK, ThreadTypeOK, Errors
        <3> QED BY <2>0, <2>1, <2>5, <3>1, LeaveInv
    <2> QED BY <1>2, <2>3, <2>4, <2>5 DEF RecvRetry
<1> QED BY <1>1, <1>2

(* The return of an error to the caller. *)
LEMMA ReturnErrorInv ==
    ASSUME IInv, NEW t \in Threads, ReturnError(t)
    PROVE  IInv'
<1>1. error' \in [Threads -> Errors] /\ error' = error /\ stat' = stat /\ timer' = timer
    BY DEF ReturnError, threadVars, IInv, TypeOK, ThreadTypeOK
<1> QED BY <1>1, LeaveInv DEF ReturnError

-----------------------------------------------------------------------------
(* The timeout of a waiter, in whichever list it is. *)
LEMMA TimeoutInv ==
    ASSUME IInv, NEW t \in Threads, Timeout(t)
    PROVE  IInv'
<1> USE DEF IInv
<1>1. /\ timer[t] /\ stat' = [stat EXCEPT ![t] = "READY"]
      /\ timer' = [timer EXCEPT ![t] = FALSE] /\ error' = [error EXCEPT ![t] = "ETIMEOUT"]
      /\ suspend_thread' = ListRemove(suspend_thread, t)
      /\ suspend_sender_thread' = ListRemove(suspend_sender_thread, t)
      /\ UNCHANGED <<ringVars, pc, arg, left, got, objVars>>
    BY DEF Timeout, TimeoutThread
<1>2. /\ suspend_thread' \in Seq(Threads) /\ IsInjective(suspend_thread')
      /\ ToSet(suspend_thread') = ToSet(suspend_thread) \ {t}
      /\ suspend_thread = <<>> => suspend_thread' = <<>>
    BY <1>1, ListRemoveAny DEF TypeOK, WaitersConsistent
<1>3. /\ suspend_sender_thread' \in Seq(Threads) /\ IsInjective(suspend_sender_thread')
      /\ ToSet(suspend_sender_thread') = ToSet(suspend_sender_thread) \ {t}
      /\ suspend_sender_thread = <<>> => suspend_sender_thread' = <<>>
    BY <1>1, ListRemoveAny DEF TypeOK, WaitersConsistent
<1>4. TypeOK'
    BY <1>1, <1>2, <1>3 DEF TypeOK, ThreadTypeOK, Errors, ringVars, objVars
<1>5. WaitersConsistent'
    BY <1>1, <1>2, <1>3 DEF WaitersConsistent, TypeOK, ThreadTypeOK
<1>6. \A call : Woken(call)' = Woken(call)
    BY <1>1 DEF Woken, WaitersConsistent, TypeOK, ThreadTypeOK
<1>7. RingConsistent' /\ SendersHaveMessage'
    BY <1>1 DEF RingConsistent, SendersHaveMessage, ringVars
<1>8. NoWakeupWasted' /\ DetachedQuiet' /\ DetachedEmpty'
    BY <1>1, <1>2, <1>3, <1>6 DEF NoWakeupWasted, DetachedQuiet, DetachedEmpty, ringVars, objVars
<1> QED BY <1>4, <1>5, <1>7, <1>8

(* A reset empties the ring and wakes everybody with -RT_ERROR. *)
LEMMA ResetInv ==
    ASSUME IInv, Reset
    PROVE  IInv'
<1> USE DEF IInv
<1>1. /\ obj = "live" /\ UNCHANGED <<msg_pool, pc, arg, left, got, objVars>>
      /\ suspend_thread' = <<>> /\ suspend_sender_thread' = <<>>
      /\ entry' = 0 /\ in_offset' = 0 /\ out_offset' = 0
    BY DEF Reset, Usable
<1>2. /\ stat' \in [Threads -> {"READY", "SUSPEND"}] /\ timer' \in [Threads -> BOOLEAN]
      /\ error' \in [Threads -> Errors]
      /\ \A u \in Threads : stat'[u] = "READY" /\ ~timer'[u]
    BY DEF Reset, ResumeAll, TypeOK, ThreadTypeOK, Errors, WaitersConsistent
<1>3. TypeOK'
    BY <1>1, <1>2, EmptyList, SizeType DEF TypeOK, ThreadTypeOK, objVars
<1>4. WaitersConsistent'
    BY <1>1, <1>2, EmptyList DEF WaitersConsistent
<1>5. RingConsistent' /\ SendersHaveMessage'
    BY <1>1, SizeType DEF RingConsistent, SendersHaveMessage
<1> QED BY <1>1, <1>3, <1>4, <1>5 DEF NoWakeupWasted, DetachedQuiet, DetachedEmpty, objVars

(* The steps of a detach that change no thread, no list and no ring.       *)
LEMMA DetachMoveInv ==
    ASSUME IInv, Patient, DetachBegin \/ DetachCheck \/ DetachCheckSender \/ DetachRemove
    PROVE  IInv'
<1> USE DEF IInv
<1>1. /\ UNCHANGED <<threadVars, listVars, wild, ringVars, pc, arg, left, got>>
      /\ Busy = {} /\ obj' # "live"
    BY DEF DetachBegin, DetachCheck, DetachCheckSender, DetachRemove, DetachStep, Detach
<1>2. obj' \in {"check", "resume", "check sender", "resume sender", "remove", "gone"}
    BY DEF DetachBegin, DetachCheck, DetachCheckSender, DetachRemove, DetachStep, Detach
<1>3. DetachedEmpty'
    BY <1>1 DEF DetachBegin, DetachCheck, DetachCheckSender, DetachRemove, DetachStep, Detach,
           DetachedEmpty, listVars
<1>4. \A call : Woken(call)' = Woken(call)
    BY <1>1 DEF Woken, threadVars
<1>5. Woken("send") = {} /\ Woken("recv") = {}
    BY <1>1 DEF Busy, Woken
<1> QED BY <1>1, <1>2, <1>3, <1>4, <1>5 DEF TypeOK, ThreadTypeOK, WaitersConsistent,
        RingConsistent, NoWakeupWasted, DetachedQuiet, SendersHaveMessage,
        threadVars, listVars, ringVars

(* What the body of the loop of rt_ipc_list_resume_all does to a list.     *)
LEMMA FlushFacts ==
    ASSUME ThreadTypeOK, NEW list \in Seq(Threads), IsInjective(list), list # <<>>,
           FlushFirst(list)
    PROVE  \E h \in ToSet(list) :
              /\ h \in Threads
              /\ stat' = [stat EXCEPT ![h] = "READY"]
              /\ timer' = [timer EXCEPT ![h] = FALSE]
              /\ error' = [error EXCEPT ![h] = "ERROR"]
              /\ wild' = wild
              /\ Flushed(list) \in Seq(Threads) /\ IsInjective(Flushed(list))
              /\ ToSet(Flushed(list)) = ToSet(list) \ {h}
<1> DEFINE h == Head(list)
<1>1. /\ h \in Threads /\ h \in ToSet(list)
      /\ Tail(list) \in Seq(Threads) /\ IsInjective(Tail(list))
      /\ ToSet(Tail(list)) = ToSet(list) \ {h}
    BY TailList
<1>2. /\ stat' = [stat EXCEPT ![h] = "READY"] /\ timer' = [timer EXCEPT ![h] = FALSE]
      /\ error' = [error EXCEPT ![h] = "ERROR"] /\ wild' = wild /\ Flushed(list) = Tail(list)
    BY DEF FlushFirst, ResumeWithError, Flushed
<1> HIDE DEF h
<1> QED BY <1>1, <1>2

(* The loops of a detach over the receivers and over the senders. *)
LEMMA DetachResumeInv ==
    ASSUME IInv, Patient, DetachResume \/ DetachResumeSender
    PROVE  IInv'
<1> USE DEF IInv
<1>0. ThreadTypeOK /\ suspend_thread \in Seq(Threads) /\ suspend_sender_thread \in Seq(Threads)
      /\ IsInjective(suspend_thread) /\ IsInjective(suspend_sender_thread)
    BY DEF TypeOK, WaitersConsistent
<1>1. /\ UNCHANGED <<ringVars, pc, arg, left, got>>
      /\ Busy = {} /\ obj # "live" /\ obj' \in {"check", "check sender"} /\ ~wild
    BY DEF DetachResume, DetachResumeSender, DetachStep, Detach
<1>2. RingConsistent' /\ SendersHaveMessage'
    BY <1>1 DEF RingConsistent, SendersHaveMessage, ringVars
<1>3. ASSUME NEW list, list \in {suspend_thread, suspend_sender_thread}, list = <<>>,
             FlushFirst(list), UNCHANGED listVars, DetachedEmpty'
      PROVE  IInv'
    <2>1. UNCHANGED threadVars /\ wild' = TRUE
        BY <1>3 DEF FlushFirst
    <2>2. \A call : Woken(call)' = Woken(call)
        BY <1>1, <2>1 DEF Woken, threadVars
    <2> QED BY <1>1, <1>2, <1>3, <2>1, <2>2 DEF TypeOK, ThreadTypeOK, WaitersConsistent,
            NoWakeupWasted, DetachedQuiet, threadVars, listVars, ringVars
<1>4. ASSUME NEW h \in Threads, stat[h] = "SUSPEND",
             stat' = [stat EXCEPT ![h] = "READY"],
             timer' = [timer EXCEPT ![h] = FALSE],
             error' = [error EXCEPT ![h] = "ERROR"], wild' = wild,
             suspend_thread' \in Seq(Threads), IsInjective(suspend_thread'),
             suspend_sender_thread' \in Seq(Threads), IsInjective(suspend_sender_thread'),
             ToSet(suspend_thread') = ToSet(suspend_thread) \ {h},
             ToSet(suspend_sender_thread') = ToSet(suspend_sender_thread) \ {h},
             suspend_thread = <<>> => suspend_thread' = <<>>,
             suspend_sender_thread = <<>> => suspend_sender_thread' = <<>>,
             DetachedEmpty'
      PROVE  IInv'
    <2>1. TypeOK'
        BY <1>1, <1>4 DEF TypeOK, ThreadTypeOK, Errors, ringVars
    <2>2. WaitersConsistent'
        BY <1>1, <1>4 DEF WaitersConsistent, TypeOK, ThreadTypeOK
    <2>3. \A call : Woken(call)' = Woken(call)
        BY <1>1, <1>4 DEF Woken, TypeOK, ThreadTypeOK
    <2>4. NoWakeupWasted' /\ DetachedQuiet'
        BY <1>1, <1>4, <2>3 DEF NoWakeupWasted, DetachedQuiet, ringVars
    <2> QED BY <1>2, <1>4, <2>1, <2>2, <2>4
<1>5. CASE DetachResume
    <2>1. /\ obj = "resume" /\ obj' = "check" /\ FlushFirst(suspend_thread)
          /\ suspend_thread' = Flushed(suspend_thread)
          /\ suspend_sender_thread' = suspend_sender_thread
        BY <1>5 DEF DetachResume, DetachStep, Detach
    <2>2. DetachedEmpty'
        BY <2>1 DEF DetachedEmpty
    <2>3. CASE suspend_thread = <<>>
        BY <1>3, <2>1, <2>2, <2>3 DEF Flushed, listVars
    <2>4. CASE suspend_thread # <<>>
        <3>1. PICK h \in ToSet(suspend_thread) :
                 /\ h \in Threads
                 /\ stat' = [stat EXCEPT ![h] = "READY"]
                 /\ timer' = [timer EXCEPT ![h] = FALSE]
                 /\ error' = [error EXCEPT ![h] = "ERROR"]
                 /\ wild' = wild
                 /\ suspend_thread' \in Seq(Threads) /\ IsInjective(suspend_thread')
                 /\ ToSet(suspend_thread') = ToSet(suspend_thread) \ {h}
            BY <1>0, <2>1, <2>4, FlushFacts
        <3>2. stat[h] = "SUSPEND" /\ h \notin ToSet(suspend_sender_thread)
            BY <3>1 DEF WaitersConsistent
        <3> QED BY <1>0, <1>4, <2>1, <2>2, <2>4, <3>1, <3>2
    <2> QED BY <2>3, <2>4
<1>6. CASE DetachResumeSender
    <2>1. /\ obj = "resume sender" /\ obj' = "check sender" /\ FlushFirst(suspend_sender_thread)
          /\ suspend_sender_thread' = Flushed(suspend_sender_thread)
          /\ suspend_thread' = suspend_thread
        BY <1>6 DEF DetachResumeSender, DetachStep, Detach
    <2>2. DetachedEmpty'
        BY <2>1 DEF DetachedEmpty
    <2>3. CASE suspend_sender_thread = <<>>
        BY <1>3, <2>1, <2>2, <2>3 DEF Flushed, listVars
    <2>4. CASE suspend_sender_thread # <<>>
        <3>1. PICK h \in ToSet(suspend_sender_thread) :
                 /\ h \in Threads
                 /\ stat' = [stat EXCEPT ![h] = "READY"]
                 /\ timer' = [timer EXCEPT ![h] = FALSE]
                 /\ error' = [error EXCEPT ![h] = "ERROR"]
                 /\ wild' = wild
                 /\ suspend_sender_thread' \in Seq(Threads) /\ IsInjective(suspend_sender_thread')
                 /\ ToSet(suspend_sender_thread') = ToSet(suspend_sender_thread) \ {h}
            BY <1>0, <2>1, <2>4, FlushFacts
        <3>2. stat[h] = "SUSPEND" /\ h \notin ToSet(suspend_thread)
            BY <3>1 DEF WaitersConsistent
        <3> QED BY <1>0, <1>4, <2>1, <2>2, <2>4, <3>1, <3>2
    <2> QED BY <2>3, <2>4
<1> QED BY <1>5, <1>6

(* The mailbox is initialised again: nobody is asleep in it. *)
LEMMA ReinitInv ==
    ASSUME IInv, Reinit
    PROVE  IInv'
<1> USE DEF IInv
<1>1. /\ obj = "gone" /\ obj' = "live"
      /\ UNCHANGED <<threadVars, msg_pool, pc, arg, left, got, wild>>
      /\ suspend_thread' = <<>> /\ suspend_sender_thread' = <<>>
      /\ entry' = 0 /\ in_offset' = 0 /\ out_offset' = 0
    BY DEF Reinit, Detach
<1>2. suspend_thread = <<>> /\ suspend_sender_thread = <<>>
    BY <1>1 DEF DetachedEmpty
<1>3. TypeOK'
    BY <1>1, EmptyList, SizeType DEF TypeOK, ThreadTypeOK, threadVars
<1>4. WaitersConsistent'
    BY <1>1, <1>2 DEF WaitersConsistent, threadVars
<1>5. RingConsistent' /\ SendersHaveMessage'
    BY <1>1, SizeType DEF RingConsistent, SendersHaveMessage
<1> QED BY <1>1, <1>3, <1>4, <1>5 DEF NoWakeupWasted, DetachedQuiet, DetachedEmpty

-----------------------------------------------------------------------------
(* Every step of a mailbox that is detached patiently preserves the        *)
(* inductive invariant.                                                    *)
LEMMA NextInv ==
    ASSUME Patient, IInv, [Next]_vars
    PROVE  IInv'
<1>1. CASE UNCHANGED vars
    <2>1. \A call : Woken(call)' = Woken(call)
        BY <1>1 DEF vars, Woken
    <2> QED BY <1>1, <2>1 DEF vars, IInv, TypeOK, ThreadTypeOK, WaitersConsistent,
            RingConsistent, NoWakeupWasted, DetachedQuiet, DetachedEmpty, SendersHaveMessage
<1>2. CASE Next
    BY <1>2, SendInv, RecvInv, ReturnErrorInv, TimeoutInv, ResetInv, DetachMoveInv,
       DetachResumeInv, ReinitInv DEF Next
<1> QED BY <1>1, <1>2

LEMMA Invariance ==
    ASSUME Patient
    PROVE  Spec => []IInv
<1>1. Init => IInv
    BY InitInv
<1>2. IInv /\ [Next]_vars => IInv'
    BY NextInv
<1> QED BY <1>1, <1>2, PTL DEF Spec

(* Types, the exact correspondence of the two suspend lists and the thread *)
(* states, the agreement of offsets and count, and that nobody is left     *)
(* behind by a detach hold of rt_mb_* in every reachable state.            *)
THEOREM MailboxConsistent ==
    ASSUME Patient
    PROVE  Spec => []Consistent
<1>1. IInv => Consistent
    BY DEF IInv, Consistent, NobodyLeftBehind, DetachedQuiet, DetachedEmpty
<1> QED BY <1>1, Invariance, PTL

(* No receiver sleeps beside a message and no sender beside a free slot    *)
(* that no resumed thread is on its way to use: the one wakeup that        *)
(* rt_mb_send and rt_mb_recv make per message and per slot is enough.      *)
THEOREM OneWakeupIsEnough ==
    ASSUME Patient
    PROVE  Spec => []NoWakeupWasted
<1>1. IInv => NoWakeupWasted
    BY DEF IInv
<1> QED BY <1>1, Invariance, PTL

-----------------------------------------------------------------------------
(* The refinement: what n words of a pool, read from an offset on, are as  *)
(* a sequence, and what a put and a get do to it.                          *)
Words == Values \cup {NoValue}
Slot(offset, i) == IF offset + i - 1 < Size THEN offset + i - 1 ELSE offset + i - 1 - Size
Ring(pool, n, offset) == [i \in 1..n |-> pool[Slot(offset, i)]]

LEMMA RingIsSeq ==
    ASSUME NEW pool \in [0..(Size - 1) -> Words], NEW n \in 0..Size, NEW offset \in 0..(Size - 1)
    PROVE  /\ Ring(pool, n, offset) \in Seq(Words)
           /\ Len(Ring(pool, n, offset)) = n
           /\ \A i \in 1..n : Ring(pool, n, offset)[i] = pool[Slot(offset, i)]
<1>1. \A i \in 1..n : Slot(offset, i) \in 0..(Size - 1)
    BY SizeType DEF Slot
<1>2. Ring(pool, n, offset) \in [1..n -> Words]
    BY <1>1 DEF Ring
<1> QED BY <1>2, SizeType, FunctionIsSeq DEF Ring

(* The word behind the last one is written: the others are not disturbed,  *)
(* as long as the ring is not full.                                        *)
LEMMA RingPut ==
    ASSUME NEW pool \in [0..(Size - 1) -> Words], NEW n \in 0..(Size - 1),
           NEW offset \in 0..(Size - 1), NEW v \in Words
    PROVE  Ring([pool EXCEPT ![Slot(offset, n + 1)] = v], n + 1, offset) =
           Append(Ring(pool, n, offset), v)
<1> DEFINE last == Slot(offset, n + 1)
           pool2 == [pool EXCEPT ![last] = v]
           old == Ring(pool, n, offset)
           new == Ring(pool2, n + 1, offset)
<1>0. n \in 0..Size /\ n + 1 \in 0..Size /\ n \in Nat
    BY SizeType
<1>1. last \in 0..(Size - 1) /\ \A i \in 1..n : Slot(offset, i) \in 0..(Size - 1) \ {last}
    BY SizeType DEF Slot
<1>2. /\ pool2 \in [0..(Size - 1) -> Words] /\ pool2[last] = v
      /\ \A i \in 1..n : pool2[Slot(offset, i)] = pool[Slot(offset, i)]
    BY <1>1
<1>3. old \in Seq(Words) /\ Len(old) = n /\ \A i \in 1..n : old[i] = pool[Slot(offset, i)]
    BY <1>0, RingIsSeq
<1>4. /\ new \in Seq(Words) /\ Len(new) = n + 1
      /\ \A i \in 1..(n + 1) : new[i] = pool2[Slot(offset, i)]
    <2> HIDE DEF pool2
    <2> QED BY <1>0, <1>2, RingIsSeq
<1>5. /\ Append(old, v) \in Seq(Words) /\ Len(Append(old, v)) = n + 1
      /\ \A i \in 1..n : Append(old, v)[i] = old[i]
      /\ Append(old, v)[n + 1] = v
    <2> HIDE DEF old
    <2> QED BY <1>3, AppendProperties
<1>6. \A i \in 1..(n + 1) : new[i] = Append(old, v)[i]
    <2> HIDE DEF pool2, old, new
    <2>1. \A i \in 1..(n + 1) : i \in 1..n \/ i = n + 1
        BY <1>0
    <2> QED BY <1>0, <1>2, <1>3, <1>4, <1>5, <2>1
<1> HIDE DEF old, new
<1>7. new = Append(old, v)
    BY <1>4, <1>5, <1>6, SeqEqual
<1> QED BY <1>7 DEF old, new

(* The first word is left behind. *)
LEMMA RingGet ==
    ASSUME NEW pool \in [0..(Size - 1) -> Words], NEW n \in 1..Size, NEW offset \in 0..(Size - 1)
    PROVE  /\ Ring(pool, n, offset) # <<>>
           /\ Head(Ring(pool, n, offset)) = pool[offset]
           /\ Tail(Ring(pool, n, offset)) = Ring(pool, n - 1, Advance(offset))
<1> DEFINE next == Advance(offset)
           old == Ring(pool, n, offset)
           new == Ring(pool, n - 1, next)
<1>0. n \in 0..Size /\ n - 1 \in 0..Size /\ n \in Nat \ {0}
    BY SizeType
<1>1. /\ next \in 0..(Size - 1)
      /\ \A i \in 1..(n - 1) : Slot(next, i) = Slot(offset, i + 1)
    <2>1. next \in 0..(Size - 1) /\ next = IF offset + 1 = Size THEN 0 ELSE offset + 1
        BY AdvanceType
    <2> HIDE DEF next
    <2>2. CASE offset + 1 = Size
        BY <2>1, <2>2, SizeType DEF Slot
    <2>3. CASE offset + 1 # Size
        BY <2>1, <2>3, SizeType DEF Slot
    <2> QED BY <2>2, <2>3
<1>2. Slot(offset, 1) = offset
    BY SizeType DEF Slot
<1>3. old \in Seq(Words) /\ Len(old) = n /\ \A i \in 1..n : old[i] = pool[Slot(offset, i)]
    BY <1>0, RingIsSeq
<1>4. /\ new \in Seq(Words) /\ Len(new) = n - 1
      /\ \A i \in 1..(n - 1) : new[i] = pool[Slot(next, i)]
    <2> HIDE DEF next
    <2> QED BY <1>0, <1>1, RingIsSeq
<1> HIDE DEF old, new, next
<1>5. old # <<>> /\ Head(old) = pool[offset]
    BY <1>0, <1>2, <1>3, EmptySeq
<1>6. /\ Tail(old) \in Seq(Words) /\ Len(Tail(old)) = n - 1
      /\ \A i \in 1..(n - 1) : Tail(old)[i] = old[i + 1]
    BY <1>3, <1>5, HeadTailProperties
<1>7. \A i \in 1..(n - 1) : new[i] = Tail(old)[i]
    <2>1. \A i \in 1..(n - 1) : i + 1 \in 1..n
        BY <1>0
    <2> QED BY <1>1, <1>3, <1>4, <1>6, <2>1
<1>8. Tail(old) = new
    BY <1>4, <1>6, <1>7, SeqEqual
<1> QED BY <1>5, <1>8 DEF old, new, next

(* What the refinement rests on; unlike IInv it holds whoever detaches the *)
(* mailbox and when.                                                       *)
RingInv ==
    /\ msg_pool \in [0..(Size - 1) -> Words]
    /\ entry \in 0..Size
    /\ in_offset \in 0..(Size - 1)
    /\ out_offset \in 0..(Size - 1)
    /\ pc \in [Threads -> {"idle", "send", "recv"}]
    /\ arg \in [Senders -> Words]
    /\ RingConsistent
    /\ SendersHaveMessage

(* What becomes of the callers: none of them enters or goes on in the loop *)
(* of rt_mb_send_wait without a message.                                   *)
CallersKeepMessage ==
    /\ pc' \in [Threads -> {"idle", "send", "recv"}]
    /\ arg' \in [Senders -> Words]
    /\ SendersHaveMessage'

(* A step stores a message, takes one, empties the mailbox, or leaves the  *)
(* ring and the receivers' buffers alone.                                  *)
LEMMA StepKinds ==
    ASSUME RingInv, [Next]_vars
    PROVE  /\ CallersKeepMessage
           /\ \/ \E v \in Values : Put(v)
              \/ \E t \in Receivers : Get(t)
              \/ /\ entry' = 0 /\ in_offset' = 0 /\ out_offset' = 0
                 /\ UNCHANGED <<msg_pool, got>>
              \/ UNCHANGED <<ringVars, got>>
<1> USE DEF RingInv, CallersKeepMessage, SendersHaveMessage, Words
<1>0. Senders \subseteq Threads /\ Receivers \subseteq Threads /\ Senders \cap Receivers = {}
    BY MailboxAssumption
<1>1. CASE \E v \in Values : SendNoWait(v)
    BY <1>1 DEF SendNoWait
<1>2. CASE \E t \in Senders, v \in Values, time \in Times : SendWait(t, v, time)
    BY <1>0, <1>2 DEF SendWait, BlockSender
<1>3. CASE \E t \in Senders, time \in TimeKinds : SendRetry(t, time)
    BY <1>0, <1>3 DEF SendRetry, BlockSender
<1>4. CASE \E t \in Receivers, time \in Times : Recv(t, time)
    BY <1>0, <1>4 DEF Recv, BlockReceiver
<1>5. CASE \E t \in Receivers, time \in TimeKinds : RecvRetry(t, time)
    BY <1>0, <1>5 DEF RecvRetry, BlockReceiver
<1>6. CASE (\E t \in Threads : ReturnError(t) \/ Timeout(t)) \/ UNCHANGED vars
    BY <1>0, <1>6 DEF ReturnError, Timeout, vars, ringVars
<1>7. CASE Reset \/ Reinit
    BY <1>7 DEF Reset, Reinit
<1>8. CASE \/ DetachBegin \/ DetachCheck \/ DetachResume
           \/ DetachCheckSender \/ DetachResumeSender \/ DetachRemove
    BY <1>8 DEF DetachBegin, DetachCheck, DetachResume, DetachCheckSender,
       DetachResumeSender, DetachRemove, DetachStep
<1> QED BY <1>1, <1>2, <1>3, <1>4, <1>5, <1>6, <1>7, <1>8 DEF Next

LEMMA ContentsIsRing ==
    /\ Contents = Ring(msg_pool, entry, out_offset)
    /\ Contents' = Ring(msg_pool', entry', out_offset')
BY DEF Contents, Ring, Slot

(* A message that is stored is the last of the queue. *)
LEMMA PutRefines ==
    ASSUME RingInv, CallersKeepMessage, NEW v \in Values, Put(v)
    PROVE  RingInv' /\ Fifo!Enqueue(v)
<1>1. /\ entry # Size /\ msg_pool' = [msg_pool EXCEPT ![in_offset] = v]
      /\ in_offset' = Advance(in_offset) /\ entry' = entry + 1
      /\ out_offset' = out_offset /\ got' = got
    BY DEF Put
<1>2. entry \in 0..(Size - 1) /\ in_offset = Slot(out_offset, entry + 1)
    BY <1>1, SizeType DEF RingInv, RingConsistent, Slot
<1>3. v \in Words
    BY DEF Words
<1>4. Contents' = Append(Contents, v)
    BY <1>1, <1>2, <1>3, ContentsIsRing, RingPut DEF RingInv
<1>5. Len(Contents) < Size
    BY <1>2, ContentsIsRing, RingIsSeq, SizeType DEF RingInv
<1>6. in_offset' \in 0..(Size - 1) /\ in_offset' = IF in_offset + 1 = Size THEN 0 ELSE in_offset + 1
    BY <1>1, AdvanceType DEF RingInv
<1>7. RingConsistent'
    BY <1>1, <1>2, <1>6, SizeType DEF RingInv, RingConsistent
<1>8. RingInv'
    BY <1>1, <1>2, <1>3, <1>6, <1>7, SizeType DEF RingInv, CallersKeepMessage
<1> QED BY <1>1, <1>4, <1>5, <1>8 DEF Fifo!Enqueue

(* A message that is taken was the first of the queue. *)
LEMMA GetRefines ==
    ASSUME RingInv, CallersKeepMessage, NEW t \in Receivers, Get(t)
    PROVE  RingInv' /\ Fifo!Dequeue(t)
<1>1. /\ entry # 0 /\ got' = [got EXCEPT ![t] = msg_pool[out_offset]]
      /\ out_offset' = Advance(out_offset) /\ entry' = entry - 1
      /\ msg_pool' = msg_pool /\ in_offset' = in_offset
    BY DEF Get
<1>2. entry \in 1..Size
    BY <1>1, SizeType DEF RingInv
<1>3. /\ Contents # <<>> /\ Head(Contents) = msg_pool[out_offset]
      /\ Contents' = Tail(Contents)
    BY <1>1, <1>2, ContentsIsRing, RingGet DEF RingInv
<1>4. out_offset' \in 0..(Size - 1) /\ out_offset' = IF out_offset + 1 = Size THEN 0 ELSE out_offset + 1
    BY <1>1, AdvanceType DEF RingInv
<1>5. RingConsistent'
    BY <1>1, <1>2, <1>4, SizeType DEF RingInv, RingConsistent
<1>6. RingInv'
    BY <1>1, <1>2, <1>4, <1>5, SizeType DEF RingInv, CallersKeepMessage
<1> QED BY <1>1, <1>3, <1>6 DEF Fifo!Dequeue

LEMMA EmptyRing ==
    ASSUME NEW pool, NEW offset
    PROVE  Ring(pool, 0, offset) = <<>>
<1>1. DOMAIN Ring(pool, 0, offset) = {}
    BY DEF Ring
<1> QED BY <1>1 DEF Ring

LEMMA StepRefines ==
    ASSUME RingInv, [Next]_vars
    PROVE  RingInv' /\ [Fifo!Next]_<<Contents, got>>
<1>0. CallersKeepMessage
    BY StepKinds
<1>1. CASE \E v \in Values : Put(v)
    BY <1>0, <1>1, PutRefines DEF Fifo!Next
<1>2. CASE \E t \in Receivers : Get(t)
    BY <1>0, <1>2, GetRefines DEF Fifo!Next
<1>3. CASE /\ entry' = 0 /\ in_offset' = 0 /\ out_offset' = 0
           /\ UNCHANGED <<msg_pool, got>>
    <2>1. Contents' = <<>>
        BY <1>3, ContentsIsRing, EmptyRing
    <2>2. RingInv'
        BY <1>0, <1>3, SizeType DEF RingInv, RingConsistent, CallersKeepMessage
    <2> QED BY <1>3, <2>1, <2>2 DEF Fifo!Next, Fifo!Clear
<1>4. CASE UNCHANGED <<ringVars, got>>
    <2>1. Contents' = Contents
        BY <1>4, ContentsIsRing DEF ringVars
    <2> QED BY <1>0, <1>4, <2>1 DEF ringVars, RingInv, RingConsistent, CallersKeepMessage
<1> QED BY <1>1, <1>2, <1>3, <1>4, StepKinds

(* The ring of rt_mb_send_wait and rt_mb_recv implements a bounded FIFO    *)
(* queue, whatever threads and interrupts use it, also while and after it  *)
(* is reset, detached and initialised again: no message is lost, repeated, *)
(* overwritten or delivered out of order.                                  *)
THEOREM MailboxIsFifo == Spec => IsFifo
<1>1. Init => RingInv /\ Fifo!Init
    <2> SUFFICES ASSUME Init PROVE RingInv /\ Fifo!Init
        OBVIOUS
    <2>1. Contents = <<>>
        BY ContentsIsRing, EmptyRing DEF Init
    <2>2. RingInv
        BY SizeType, MailboxAssumption DEF Init, RingInv, RingConsistent, SendersHaveMessage, Words
    <2> QED BY <2>1, <2>2 DEF Init, Fifo!Init
<1>2. RingInv /\ [Next]_vars => RingInv' /\ [Fifo!Next]_<<Contents, got>>
    BY StepRefines
<1> QED BY <1>1, <1>2, PTL DEF Spec, IsFifo, Fifo!Spec
=============================================================================
