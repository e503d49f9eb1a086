--------------------------- MODULE SemaphoreProofs ---------------------------
(***************************************************************************)
(* The safety of RT-Thread semaphores for any number of threads, any       *)
(* priorities, which may change at any time, and any width of the counter. *)
(***************************************************************************)
EXTENDS Semaphore, ListProofs, FiniteSetTheorems

(* Users stop calling before the object is detached, or it never is. *)
Disciplined == Quiesce \/ ~MayDetach

(* Once detach has found the list empty it stays empty. *)
DetachedEmpty == obj \in {"remove", "gone"} => suspend_thread = <<>>

(* Without MayDetach no detach is ever under way. *)
DetachGuard == obj = "live" \/ MayDetach

(* The inductive invariant: token conservation needs the exact link        *)
(* between list, state and error of the waiters, and that link needs       *)
(* detach to leave no waiter behind.                                       *)
IInv ==
    /\ TypeOK
    /\ WaitersConsistent
    /\ NoTokenWithWaiters
    /\ TokenConservation
    /\ ServedByPriority
    /\ DetachedEmpty
    /\ DetachGuard

USE DEF prioVars, SortedByPriority

(* Granted is a finite set, so its cardinality is a natural number. *)
LEMMA GrantedFinite == IsFiniteSet(Granted) /\ Cardinality(Granted) \in Nat
<1>1. Granted \in SUBSET Threads
    BY DEF Granted
<1> QED BY <1>1, SemAssumption, FS_Subset, FS_CardinalityType

(* Priorities are natural numbers. *)
LEMMA PriorityNat == TypeOK => current_priority \in [Threads -> Nat]
BY PrioAssumption DEF TypeOK

LEMMA InitInv == Init => IInv
<1> SUFFICES ASSUME Init PROVE IInv
    OBVIOUS
<1>1. TypeOK
    <2>1. ThreadTypeOK
        BY DEF Init, ThreadInit, ThreadTypeOK, Errors
    <2>2. value \in 0..(ValueRange - 1) /\ owed \in Nat
        BY SemAssumption DEF Init
    <2> QED BY <2>1, <2>2, EmptyList, PrioAssumption DEF Init, TypeOK
<1>2. WaitersConsistent /\ ServedByPriority
    BY EmptyList DEF Init, ThreadInit, WaitersConsistent, ServedByPriority
<1>3. Granted = {}
    BY DEF Init, Granted
<1>4. TokenConservation
    BY <1>1, <1>3, FS_EmptySet DEF Init, TokenConservation, TypeOK
<1> QED BY <1>1, <1>2, <1>4 DEF Init, IInv, NoTokenWithWaiters, DetachedEmpty, DetachGuard

(* A call of rt_sem_take, whatever it does. *)
LEMMA TakeInv ==
    ASSUME IInv, Disciplined, NEW t \in Threads, NEW time \in Times, Take(t, time)
    PROVE  IInv'
<1> USE DEF IInv, Take
<1>0. obj = "live"
    BY DEF Disciplined, DetachGuard, Usable, TypeOK
<1>1. CASE TakeAvailable(t)
    <2>1. Granted' = Granted
        BY <1>1 DEF TakeAvailable, threadVars, Granted
    <2>2. TokenConservation' /\ TypeOK'
        BY <1>1, <2>1, GrantedFinite, SemAssumption
           DEF TakeAvailable, threadVars, TokenConservation, TypeOK, ThreadTypeOK
    <2> QED BY <1>1, <2>2 DEF TakeAvailable, threadVars, WaitersConsistent,
                NoTokenWithWaiters, ServedByPriority, DetachedEmpty, DetachGuard, TypeOK
<1>2. CASE TakeNoWait(t, time)
    <2>1. Granted' = Granted
        BY <1>2 DEF TakeNoWait, threadVars, Granted
    <2> QED BY <1>2, <2>1 DEF TakeNoWait, threadVars, WaitersConsistent, TypeOK, ThreadTypeOK,
                NoTokenWithWaiters, ServedByPriority, DetachedEmpty, DetachGuard, TokenConservation
<1>3. CASE TakeBlock(t, time)
    <2> DEFINE new == SuspendList(suspend_thread, t, Flag, current_priority)
    <2>0. stat[t] = "READY" /\ t \notin ToSet(suspend_thread)
        BY DEF WaitersConsistent, TypeOK, ThreadTypeOK
    <2>1. /\ new \in Seq(Threads) /\ ToSet(new) = ToSet(suspend_thread) \cup {t}
          /\ IsInjective(new)
          /\ Flag # "FIFO" /\ PriorityOrdered(suspend_thread, current_priority)
                => PriorityOrdered(new, current_priority)
        BY <2>0, PriorityNat, SuspendListFacts DEF TypeOK, WaitersConsistent
    <2> HIDE DEF new
    <2>2. suspend_thread' = new
        BY <1>3 DEF TakeBlock, new
    <2>3. TypeOK'
        BY <1>3, <2>1, <2>2, SemAssumption DEF TakeBlock, Suspend, TypeOK, ThreadTypeOK, Errors
    <2>4. WaitersConsistent'
        BY <1>3, <2>1, <2>2 DEF TakeBlock, Suspend, TypeOK, ThreadTypeOK, WaitersConsistent
    <2>5. Granted' = Granted
        BY <1>3 DEF TakeBlock, Suspend, Granted, TypeOK, ThreadTypeOK
    <2>6. ServedByPriority'
        BY <1>3, <2>1, <2>2, EmptyList DEF TakeBlock, ServedByPriority
    <2> QED BY <1>0, <1>3, <2>1, <2>2, <2>3, <2>4, <2>5, <2>6
            DEF TakeBlock, NoTokenWithWaiters, DetachedEmpty, DetachGuard, TokenConservation
<1> QED BY <1>1, <1>2, <1>3

(* The return of a resumed taker. *)
LEMMA TakeReturnInv ==
    ASSUME IInv, NEW t \in Threads, TakeReturn(t)
    PROVE  IInv'
<1> USE DEF IInv, TakeReturn, threadVars
<1>1. CASE error[t] = "EOK"
    <2>1. t \in Granted /\ Granted' = Granted \ {t}
        BY <1>1 DEF Granted, TypeOK, ThreadTypeOK
    <2>2. Cardinality(Granted') = Cardinality(Granted) - 1 /\ Cardinality(Granted') \in Nat
        BY <2>1, GrantedFinite, FS_RemoveElement, FS_CardinalityType
    <2>3. TokenConservation' /\ owed' \in Nat
        BY <1>1, <2>2, GrantedFinite, SemAssumption DEF TokenConservation, TypeOK
    <2> QED BY <2>3 DEF TypeOK, ThreadTypeOK, WaitersConsistent,
                NoTokenWithWaiters, ServedByPriority, DetachedEmpty, DetachGuard
<1>2. CASE error[t] # "EOK"
    <2>1. Granted' = Granted
        BY <1>2 DEF Granted, TypeOK, ThreadTypeOK
    <2> QED BY <1>2, <2>1 DEF TypeOK, ThreadTypeOK, WaitersConsistent, TokenConservation,
                NoTokenWithWaiters, ServedByPriority, DetachedEmpty, DetachGuard
<1> QED BY <1>1, <1>2

(* A release, with and without waiters. *)
LEMMA ReleaseInv ==
    ASSUME IInv, Disciplined, Release
    PROVE  IInv'
<1> USE DEF IInv, Release
<1>0. obj = "live"
    BY DEF Disciplined, DetachGuard, Usable, TypeOK
<1>1. CASE ReleaseHandOver
    <2> DEFINE h == Head(suspend_thread)
    <2>1. /\ h \in Threads /\ h \in ToSet(suspend_thread)
          /\ Tail(suspend_thread) \in Seq(Threads) /\ IsInjective(Tail(suspend_thread))
          /\ ToSet(Tail(suspend_thread)) = ToSet(suspend_thread) \ {h}
        BY <1>1, TailList DEF ReleaseHandOver, TypeOK, WaitersConsistent
    <2>2. /\ stat' = [stat EXCEPT ![h] = "READY"] /\ timer' = [timer EXCEPT ![h] = FALSE]
          /\ error' = error /\ suspend_thread' = Tail(suspend_thread)
          /\ value' = value /\ owed' = owed + 1 /\ pc' = pc /\ suspend_thread # <<>>
        BY <1>1 DEF ReleaseHandOver, Resume
    <2>3. ServedByPriority'
        BY <2>2, TailOrdered, PriorityNat DEF ServedByPriority, TypeOK
    <2> HIDE DEF h
    <2>4. stat[h] = "SUSPEND" /\ pc[h] = "take" /\ error[h] = "EOK"
        BY <2>1 DEF WaitersConsistent
    <2>5. h \notin Granted /\ Granted' = Granted \cup {h}
        BY <2>1, <2>2, <2>4 DEF Granted, TypeOK, ThreadTypeOK
    <2>6. Cardinality(Granted') = Cardinality(Granted) + 1
        BY <2>5, GrantedFinite, FS_AddElement
    <2>7. TypeOK'
        BY <2>1, <2>2 DEF TypeOK, ThreadTypeOK
    <2>8. WaitersConsistent'
        BY <2>1, <2>2 DEF WaitersConsistent, TypeOK, ThreadTypeOK
    <2>9. TokenConservation'
        BY <2>2, <2>6, GrantedFinite, SemAssumption DEF TokenConservation, TypeOK
    <2> QED BY <1>0, <2>2, <2>3, <2>7, <2>8, <2>9 DEF NoTokenWithWaiters, DetachedEmpty, DetachGuard
<1>2. CASE ReleaseCount
    <2>1. Granted' = Granted
        BY <1>2 DEF ReleaseCount, threadVars, Granted
    <2>a. value' \in 0..(ValueRange - 1) /\ owed' \in Nat /\ TokenConservation'
        <3>1. CASE value + 1 = ValueRange
            BY <1>2, <2>1, <3>1, GrantedFinite, SemAssumption DEF ReleaseCount, TypeOK, TokenConservation
        <3>2. CASE value + 1 # ValueRange
            BY <1>2, <2>1, <3>2, GrantedFinite, SemAssumption DEF ReleaseCount, TypeOK, TokenConservation
        <3> QED BY <3>1, <3>2
    <2>2. TypeOK' /\ TokenConservation'
        BY <1>2, <2>a DEF ReleaseCount, threadVars, TypeOK, ThreadTypeOK
    <2> QED BY <1>2, <2>2 DEF ReleaseCount, threadVars, WaitersConsistent,
                NoTokenWithWaiters, ServedByPriority, DetachedEmpty, DetachGuard
<1> QED BY <1>1, <1>2

(* The timeout of a waiter. *)
LEMMA TimeoutInv ==
    ASSUME IInv, NEW t \in Threads, Timeout(t)
    PROVE  IInv'
<1> USE DEF IInv, Timeout, TimeoutThread
<1> DEFINE new == ListRemove(suspend_thread, t)
<1>0. stat[t] = "SUSPEND" /\ t \in ToSet(suspend_thread) /\ suspend_thread # <<>>
    BY EmptyList DEF WaitersConsistent
<1>1. /\ new \in Seq(Threads) /\ ToSet(new) = ToSet(suspend_thread) \ {t} /\ IsInjective(new)
      /\ PriorityOrdered(suspend_thread, current_priority)
            => PriorityOrdered(new, current_priority)
    BY <1>0, PriorityNat, ListRemoveFacts DEF TypeOK, WaitersConsistent
<1>2. suspend_thread' = new
    OBVIOUS
<1> HIDE DEF new
<1>3. TypeOK'
    BY <1>1, <1>2 DEF TypeOK, ThreadTypeOK, Errors
<1>4. WaitersConsistent'
    BY <1>1, <1>2 DEF WaitersConsistent, TypeOK, ThreadTypeOK
<1>5. Granted' = Granted
    BY <1>0 DEF Granted, TypeOK, ThreadTypeOK
<1> QED BY <1>0, <1>1, <1>2, <1>3, <1>4, <1>5
        DEF NoTokenWithWaiters, ServedByPriority, DetachedEmpty, DetachGuard, TokenConservation

(* A reset wakes every waiter with -RT_ERROR. *)
LEMMA ResetInv ==
    ASSUME IInv, NEW v \in InitValues, Reset(v)
    PROVE  IInv'
<1> USE DEF IInv, Reset, ResumeAll
<1>1. Granted' = Granted
    BY DEF Granted, WaitersConsistent, TypeOK, ThreadTypeOK
<1>2. TypeOK'
    <2>1. ThreadTypeOK'
        BY DEF TypeOK, ThreadTypeOK, Errors
    <2>2. value' \in 0..(ValueRange - 1) /\ owed' \in Nat
        BY SemAssumption, GrantedFinite
    <2> QED BY <2>1, <2>2, EmptyList DEF TypeOK
<1>3. WaitersConsistent'
    <2>1. suspend_thread' = <<>> /\ ToSet(suspend_thread') = {} /\ IsInjective(suspend_thread')
        BY EmptyList
    <2>2. \A t \in Threads : stat'[t] = "READY" /\ ~timer'[t]
        BY DEF WaitersConsistent, TypeOK, ThreadTypeOK
    <2> QED BY <2>1, <2>2 DEF WaitersConsistent
<1> QED BY <1>1, <1>2, <1>3, EmptyList
        DEF NoTokenWithWaiters, ServedByPriority, DetachedEmpty, DetachGuard, TokenConservation

(* The steps of detach, and the re-initialisation of the object. *)
LEMMA DetachInv ==
    ASSUME IInv,
           \/ DetachBegin \/ DetachCheck \/ DetachResume \/ DetachRemove
           \/ \E v \in InitValues : Reinit(v)
    PROVE  IInv'
<1> USE DEF IInv
<1>1. CASE DetachBegin \/ DetachCheck \/ DetachRemove
    <2>1. UNCHANGED <<threadVars, value, suspend_thread, pc, wild, owed, prioVars>>
        BY <1>1 DEF DetachBegin, DetachCheck, DetachRemove
    <2>2. Granted' = Granted
        BY <2>1 DEF Granted, threadVars
    <2>3. obj' \in {"check", "remove", "resume", "gone"} /\ DetachedEmpty' /\ DetachGuard'
        BY <1>1, <2>1 DEF DetachBegin, DetachCheck, DetachRemove, DetachedEmpty, DetachGuard
    <2> QED BY <2>1, <2>2, <2>3 DEF threadVars, TypeOK, ThreadTypeOK, WaitersConsistent,
                NoTokenWithWaiters, TokenConservation, ServedByPriority
<1>2. CASE DetachResume /\ suspend_thread = <<>>
    <2>1. Granted' = Granted
        BY <1>2 DEF DetachResume, Granted, threadVars
    <2> QED BY <1>2, <2>1 DEF DetachResume, threadVars, TypeOK, ThreadTypeOK, WaitersConsistent,
                NoTokenWithWaiters, TokenConservation, ServedByPriority, DetachedEmpty, DetachGuard
<1>3. CASE DetachResume /\ suspend_thread # <<>>
    <2> DEFINE h == Head(suspend_thread)
    <2>1. /\ h \in Threads /\ h \in ToSet(suspend_thread)
          /\ Tail(suspend_thread) \in Seq(Threads) /\ IsInjective(Tail(suspend_thread))
          /\ ToSet(Tail(suspend_thread)) = ToSet(suspend_thread) \ {h}
        BY <1>3, TailList DEF TypeOK, WaitersConsistent
    <2>2. /\ stat' = [stat EXCEPT ![h] = "READY"] /\ timer' = [timer EXCEPT ![h] = FALSE]
          /\ error' = [error EXCEPT ![h] = "ERROR"] /\ suspend_thread' = Tail(suspend_thread)
          /\ UNCHANGED <<value, owed, pc, wild, prioVars>> /\ obj' = "check" /\ obj = "resume"
        BY <1>3 DEF DetachResume, ResumeWithError
    <2>3. ServedByPriority'
        BY <1>3, <2>2, TailOrdered, PriorityNat DEF ServedByPriority, TypeOK
    <2> HIDE DEF h
    <2>4. stat[h] = "SUSPEND"
        BY <2>1 DEF WaitersConsistent
    <2>5. Granted' = Granted
        BY <2>1, <2>2, <2>4 DEF Granted, TypeOK, ThreadTypeOK
    <2>6. TypeOK'
        BY <2>1, <2>2 DEF TypeOK, ThreadTypeOK, Errors
    <2>7. WaitersConsistent'
        BY <2>1, <2>2 DEF WaitersConsistent, TypeOK, ThreadTypeOK
    <2> QED BY <1>3, <2>2, <2>3, <2>5, <2>6, <2>7
            DEF NoTokenWithWaiters, DetachedEmpty, DetachGuard, TokenConservation
<1>4. ASSUME NEW v \in InitValues, Reinit(v) PROVE IInv'
    <2>1. Granted' = Granted
        BY <1>4 DEF Reinit, Granted, threadVars
    <2>2. suspend_thread = <<>>
        BY <1>4 DEF Reinit, DetachedEmpty
    <2>3. TypeOK'
        BY <1>4, SemAssumption, GrantedFinite, EmptyList DEF Reinit, threadVars, TypeOK, ThreadTypeOK
    <2> QED BY <1>4, <2>1, <2>2, <2>3, EmptyList DEF Reinit, threadVars, WaitersConsistent,
            NoTokenWithWaiters, ServedByPriority, DetachedEmpty, DetachGuard, TokenConservation
<1> QED BY <1>1, <1>2, <1>3, <1>4

(* A change of priority disturbs the order at most of a list that holds    *)
(* the thread.                                                             *)
LEMMA ChangePriorityInv ==
    ASSUME IInv, NEW t \in Threads, NEW p \in Priorities, ChangePriority(t, p)
    PROVE  IInv'
<1> USE DEF IInv, ChangePriority, threadVars
<1>1. Granted' = Granted
    BY DEF Granted
<1>2. TypeOK'
    BY DEF TypeOK, ThreadTypeOK
<1>3. ServedByPriority'
    <2> SUFFICES ASSUME ~stale', Flag = "PRIO"
                 PROVE  PriorityOrdered(suspend_thread, current_priority')
        BY DEF ServedByPriority
    <2>1. ~stale /\ t \notin ToSet(suspend_thread) /\ ToSet(suspend_thread) \subseteq Threads
        BY ElementOfSeq, LenProperties DEF TypeOK, ToSet
    <2>2. \A u \in ToSet(suspend_thread) : current_priority[u] = current_priority'[u]
        BY <2>1 DEF TypeOK
    <2>3. PriorityOrdered(suspend_thread, current_priority)
        BY <2>1 DEF ServedByPriority
    <2> QED BY <2>2, <2>3, OrderedAgree
<1> QED BY <1>1, <1>2, <1>3
        DEF WaitersConsistent, NoTokenWithWaiters, TokenConservation, DetachedEmpty, DetachGuard

(* Every step of a semaphore whose users follow the discipline preserves   *)
(* the inductive invariant.                                                *)
LEMMA NextInv ==
    ASSUME Disciplined, IInv, [Next]_vars
    PROVE  IInv'
<1>1. CASE UNCHANGED vars
    <2>1. Granted' = Granted
        BY <1>1 DEF vars, Granted
    <2> QED BY <1>1, <2>1 DEF vars, IInv, TypeOK, ThreadTypeOK, WaitersConsistent,
            NoTokenWithWaiters, TokenConservation, ServedByPriority, DetachedEmpty, DetachGuard
<1>2. CASE Next
    BY <1>2, TakeInv, TakeReturnInv, TimeoutInv, ReleaseInv, ResetInv, DetachInv,
       ChangePriorityInv DEF Next
<1> QED BY <1>1, <1>2

(* The inductive invariant holds in every reachable state. *)
LEMMA Invariance ==
    ASSUME Disciplined
    PROVE  Spec => []IInv
<1>1. Init => IInv
    BY InitInv
<1>2. IInv /\ [Next]_vars => IInv'
    BY NextInv
<1> QED BY <1>1, <1>2, PTL DEF Spec

(* Type correctness and the exact correspondence of suspend list and       *)
(* thread states hold of rt_sem_* in every reachable state, and so does    *)
(* the order of the list while no listed thread has changed its priority.  *)
THEOREM SemaphoreConsistent ==
    ASSUME Disciplined
    PROVE  Spec => []Consistent
<1>1. IInv => Consistent
    BY DEF IInv, Consistent
<1> QED BY <1>1, Invariance, PTL

(* No wakeup is lost: rt_sem_take never leaves a thread asleep beside a    *)
(* token, whichever release, reset or re-initialisation put it there.      *)
THEOREM NoLostWakeup ==
    ASSUME Disciplined
    PROVE  Spec => []NoTokenWithWaiters
<1>1. IInv => NoTokenWithWaiters
    BY DEF IInv
<1> QED BY <1>1, Invariance, PTL

(* Every token rt_sem_release put in is in value or with a thread that     *)
(* will return RT_EOK.                                                     *)
THEOREM TokensConserved ==
    ASSUME Disciplined
    PROVE  Spec => []TokenConservation
<1>1. IInv => TokenConservation
    BY DEF IInv
<1> QED BY <1>1, Invariance, PTL

(* A semaphore whose users stop calling is never removed under a waiter. *)
THEOREM DetachWakesAll ==
    ASSUME Disciplined
    PROVE  Spec => []AllWokenByDetach
<1>1. IInv => AllWokenByDetach
    BY DEF IInv, DetachedEmpty, AllWokenByDetach
<1> QED BY <1>1, Invariance, PTL

(* The passing half of the detach race: as long as no waiter has a time    *)
(* limit, the list cannot shrink between the test and the read of          *)
(* rt_ipc_list_resume_all, and what it resumes is a thread.                *)
THEOREM DetachResumesThreads ==
    ASSUME Disciplined, "timed" \notin Times
    PROVE  Spec => []ResumesAThread
<1> DEFINE J == /\ \A t \in Threads : ~timer[t]
                /\ obj = "resume" => suspend_thread # <<>>
                /\ ~wild
<1>1. Init => IInv /\ J
    BY InitInv DEF Init, ThreadInit
<1>2. IInv /\ J /\ [Next]_vars => IInv' /\ J'
    <2> SUFFICES ASSUME IInv, J, [Next]_vars PROVE J'
        BY NextInv
    <2>1. ASSUME NEW t \in Threads, NEW time \in Times, Take(t, time) PROVE J'
        <3>1. obj = "live" /\ time # "timed"
            BY <2>1 DEF Take, Usable, Disciplined, IInv, TypeOK, DetachGuard
        <3>2. \A u \in Threads : ~timer'[u]
            BY <2>1, <3>1 DEF Take, TakeAvailable, TakeNoWait, TakeBlock, Suspend, threadVars,
                   IInv, TypeOK, ThreadTypeOK
        <3> QED BY <2>1, <3>1, <3>2 DEF Take
    <2>2. ASSUME NEW t \in Threads, TakeReturn(t) PROVE J'
        BY <2>2 DEF TakeReturn, threadVars
    <2>3. ASSUME NEW t \in Threads, Timeout(t) PROVE J'
        BY <2>3 DEF Timeout, TimeoutThread
    <2>4. CASE Release
        <3>1. obj = "live"
            BY <2>4 DEF Release, Usable, Disciplined, IInv, TypeOK, DetachGuard
        <3>2. \A u \in Threads : ~timer'[u]
            BY <2>4 DEF Release, ReleaseHandOver, ReleaseCount, Resume, threadVars,
                   IInv, TypeOK, ThreadTypeOK
        <3> QED BY <2>4, <3>1, <3>2 DEF Release
    <2>5. ASSUME NEW v \in InitValues, Reset(v) PROVE J'
        <3>1. obj = "live"
            BY <2>5 DEF Reset, Usable, Disciplined, IInv, TypeOK, DetachGuard
        <3> QED BY <2>5, <3>1 DEF Reset, ResumeAll
    <2>6. CASE DetachBegin \/ DetachCheck \/ DetachRemove
        BY <2>6 DEF DetachBegin, DetachCheck, DetachRemove, threadVars
    <2>7. CASE DetachResume
        BY <2>7 DEF DetachResume, ResumeWithError, IInv, TypeOK, ThreadTypeOK
    <2>8. ASSUME NEW v \in InitValues, Reinit(v) PROVE J'
        BY <2>8 DEF Reinit, threadVars
    <2>9. ASSUME NEW t \in Threads, NEW p \in Priorities, ChangePriority(t, p) PROVE J'
        BY <2>9 DEF ChangePriority, threadVars
    <2>10. CASE UNCHANGED vars
        BY <2>10 DEF vars
    <2> QED BY <2>1, <2>2, <2>3, <2>4, <2>5, <2>6, <2>7, <2>8, <2>9, <2>10 DEF Next
<1>3. J => ResumesAThread
    BY DEF ResumesAThread
<1> QED BY <1>1, <1>2, <1>3, PTL DEF Spec
=============================================================================
