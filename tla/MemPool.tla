------------------------------- MODULE MemPool -------------------------------
(***************************************************************************)
(* RT-Thread memory pools (rt-thread/src/mempool.c): blocks of one size in *)
(* a free list, and threads that wait for one.                             *)
(*                                                                         *)
(* The waiters are described twice, by a list and by a counter.  Only the  *)
(* pool's own functions keep the two together; rt_thread_timeout takes a   *)
(* thread off the list and knows nothing of the counter.                   *)
(***************************************************************************)
EXTENDS ThreadCore, FiniteSets

CONSTANTS
    Blocks,      \* the blocks of the pool
    Times,       \* kinds of waiting time the callers use
    MaxCount,    \* bound: no thread starts to wait at this counter value
    MayDetach    \* the pool is detached (or deleted) at run time

ASSUME PoolAssumption ==
    /\ IsFiniteSet(Blocks)
    /\ IsFiniteSet(Threads)
    /\ Times \subseteq TimeKinds
    /\ MaxCount \in Nat
    /\ Cardinality(Threads) < MaxCount
    /\ MayDetach \in BOOLEAN

VARIABLES
    block_list,            \* the free blocks, first to last
    block_free_count,
    suspend_thread,        \* mp->suspend_thread, first to last
    suspend_thread_count,
    used,                  \* the blocks callers have
    pc,                    \* "idle", or "alloc": inside the wait loop
    left,                  \* remaining waiting time of a caller in the loop
    obj,                   \* "live", "check", "resume" (in detach), "gone"
    wild                   \* rt_thread_resume was given the list head as a thread

poolVars == <<block_list, block_free_count, used>>
waitVars == <<suspend_thread, suspend_thread_count>>
vars == <<stat, error, timer, block_list, block_free_count, suspend_thread,
          suspend_thread_count, used, pc, left, obj, wild>>

(* rt_mp_init, rt_mp_create. *)
Init ==
    /\ ThreadInit
    /\ block_list = SetToSeq(Blocks)
    /\ block_free_count = Cardinality(Blocks)
    /\ suspend_thread = <<>>
    /\ suspend_thread_count = 0
    /\ used = {}
    /\ pc = [t \in Threads |-> "idle"]
    /\ left = [t \in Threads |-> "none"]
    /\ obj = "live"
    /\ wild = FALSE

-----------------------------------------------------------------------------
(* The end of rt_mp_alloc: the first free block is unlinked. *)
TakeBlock ==
    /\ block_free_count # 0
    /\ block_free_count' = block_free_count - 1
    /\ used' = used \cup {Head(block_list)}
    /\ block_list' = Tail(block_list)

(* The body of the while loop of rt_mp_alloc up to rt_schedule: the thread *)
(* is linked behind the list head, in front of those that wait already.    *)
Block(t, time) ==
    /\ block_free_count = 0
    /\ time # "none"
    /\ suspend_thread_count < MaxCount
    /\ suspend_thread' = <<t>> \o suspend_thread
    /\ suspend_thread_count' = suspend_thread_count + 1
    /\ Suspend(t, time)
    /\ pc' = [pc EXCEPT ![t] = "alloc"]
    /\ left' = [left EXCEPT ![t] = time]
    /\ UNCHANGED <<poolVars, obj, wild>>

Alloc(t, time) ==
    /\ ~wild /\ obj = "live"
    /\ pc[t] = "idle"
    /\ \/ TakeBlock /\ UNCHANGED <<threadVars, waitVars, pc, left, obj, wild>>
       \/ Block(t, time)
       \/ /\ block_free_count = 0 /\ time = "none"     \* RT_NULL
          /\ error' = [error EXCEPT ![t] = "ETIMEOUT"]  \* rt_set_errno
          /\ UNCHANGED <<stat, timer, poolVars, waitVars, pc, left, obj, wild>>

(* What time -= rt_tick_get() - before_sleep may leave of the waiting time. *)
Remaining(time) == IF time = "timed" THEN {"timed", "none"} ELSE {time}

Leave(t) ==
    /\ pc' = [pc EXCEPT ![t] = "idle"]
    /\ left' = [left EXCEPT ![t] = "none"]

(* A thread resumed with RT_EOK tests the counter again. *)
AllocRetry(t, time) ==
    /\ ~wild
    /\ pc[t] = "alloc" /\ stat[t] = "READY" /\ error[t] = "EOK"
    /\ time \in Remaining(left[t])
    /\ \/ /\ TakeBlock /\ Leave(t)
          /\ UNCHANGED <<threadVars, waitVars, obj, wild>>
       \/ Block(t, time)
       \/ /\ block_free_count = 0 /\ time = "none"     \* RT_NULL
          /\ error' = [error EXCEPT ![t] = "ETIMEOUT"]
          /\ Leave(t)
          /\ UNCHANGED <<stat, timer, poolVars, waitVars, obj, wild>>

(* A thread resumed with an error returns RT_NULL. *)
AllocError(t) ==
    /\ ~wild
    /\ pc[t] = "alloc" /\ stat[t] = "READY" /\ error[t] # "EOK"
    /\ Leave(t)
    /\ UNCHANGED <<threadVars, poolVars, waitVars, obj, wild>>

(* Mutant of WakeFirst: a waiter is resumed only when the pool was empty. *)
WakeWhenEmpty ==
    IF suspend_thread = <<>> \/ block_free_count # 0
    THEN UNCHANGED <<threadVars, waitVars, wild>>
    ELSE /\ Resume(Head(suspend_thread))
         /\ suspend_thread' = Tail(suspend_thread)
         /\ suspend_thread_count' = suspend_thread_count - 1
         /\ UNCHANGED wild

(* The tail of rt_mp_free: when the counter says so, the first thread of   *)
(* the list is resumed with RT_EOK.  Of an empty list that is the list     *)
(* itself, taken for a thread.                                             *)
WakeFirst ==
    \/ /\ suspend_thread_count = 0
       /\ UNCHANGED <<threadVars, waitVars, wild>>
    \/ /\ suspend_thread_count > 0 /\ suspend_thread # <<>>
       /\ Resume(Head(suspend_thread))
       /\ suspend_thread' = Tail(suspend_thread)
       /\ suspend_thread_count' = suspend_thread_count - 1
       /\ UNCHANGED wild
    \/ /\ suspend_thread_count > 0 /\ suspend_thread = <<>>
       /\ wild' = TRUE
       /\ UNCHANGED <<threadVars, waitVars>>

(* rt_mp_free of a block, by a thread or an interrupt handler. *)
Free(b) ==
    /\ ~wild /\ obj = "live"
    /\ b \in used
    /\ block_free_count' = block_free_count + 1
    /\ block_list' = <<b>> \o block_list
    /\ used' = used \ {b}
    /\ WakeFirst
    /\ UNCHANGED <<pc, left, obj>>

(* Mutant of Timeout: the thread stays linked in the suspend list. *)
TimeoutStaysLinked(t) ==
    /\ ~wild
    /\ TimeoutThread(t)
    /\ UNCHANGED <<poolVars, waitVars, pc, left, obj, wild>>

(* The thread timer of a waiter expires: the list changes, the counter     *)
(* does not.                                                               *)
Timeout(t) ==
    /\ ~wild
    /\ TimeoutThread(t)
    /\ suspend_thread' = ListRemove(suspend_thread, t)
    /\ UNCHANGED <<poolVars, suspend_thread_count, pc, left, obj, wild>>

-----------------------------------------------------------------------------
(* rt_mp_detach and rt_mp_delete; users make no calls once it has begun.   *)
DetachBegin ==
    /\ MayDetach /\ ~wild /\ obj = "live"
    /\ obj' = "check"
    /\ UNCHANGED <<threadVars, poolVars, waitVars, pc, left, wild>>

(* The loop tests the list with interrupts enabled. *)
DetachCheck ==
    /\ ~wild /\ obj = "check"
    /\ obj' = IF suspend_thread = <<>> THEN "gone" ELSE "resume"
    /\ UNCHANGED <<threadVars, poolVars, waitVars, pc, left, wild>>

(* The body of the loop. *)
DetachResume ==
    /\ ~wild /\ obj = "resume"
    /\ obj' = "check"
    /\ IF suspend_thread = <<>>
       THEN wild' = TRUE /\ UNCHANGED <<threadVars, waitVars>>
       ELSE /\ ResumeWithError(Head(suspend_thread))
            /\ suspend_thread' = Tail(suspend_thread)
            /\ suspend_thread_count' = suspend_thread_count - 1
            /\ UNCHANGED wild
    /\ UNCHANGED <<poolVars, pc, left>>

Next ==
    \/ \E t \in Threads, time \in Times : Alloc(t, time)
    \/ \E t \in Threads, time \in TimeKinds : AllocRetry(t, time)
    \/ \E t \in Threads : AllocError(t)
    \/ \E b \in Blocks : Free(b)
    \/ \E t \in Threads : Timeout(t)
    \/ DetachBegin
    \/ DetachCheck
    \/ DetachResume

Spec == Init /\ [][Next]_vars

-----------------------------------------------------------------------------
(* The fields of the object and of its callers keep to their ranges. *)
TypeOK ==
    /\ ThreadTypeOK
    /\ block_list \in Seq(Blocks)
    /\ block_free_count \in 0..Cardinality(Blocks)
    /\ suspend_thread \in Seq(Threads)
    /\ suspend_thread_count \in 0..MaxCount
    /\ used \subseteq Blocks
    /\ pc \in [Threads -> {"idle", "alloc"}]
    /\ left \in [Threads -> TimeKinds]
    /\ obj \in {"live", "check", "resume", "gone"}
    /\ wild \in BOOLEAN

(* The suspend list holds exactly the threads asleep in rt_mp_alloc, each  *)
(* once, and the counter never misses one, though it still counts those    *)
(* that have timed out: rt_mp_free skips nobody.                           *)
WaitersConsistent ==
    /\ IsInjective(suspend_thread)
    /\ \A t \in Threads :
          /\ t \in ToSet(suspend_thread) <=> stat[t] = "SUSPEND"
          /\ stat[t] = "SUSPEND" => pc[t] = "alloc" /\ error[t] = "EOK"
    /\ suspend_thread_count >= Len(suspend_thread)

(* No block is lost or handed out twice: free and used blocks are all the  *)
(* blocks, and the counter counts the free ones, so that                   *)
(* RT_ASSERT(block_ptr != RT_NULL) in rt_mp_alloc holds.                   *)
BlocksConserved ==
    /\ IsInjective(block_list)
    /\ ToSet(block_list) \cap used = {}
    /\ ToSet(block_list) \cup used = Blocks
    /\ block_free_count = Len(block_list)

(* No thread sleeps beside a free block that no resumed thread is on its   *)
(* way to take.                                                            *)
NoBlockWasted ==
    suspend_thread # <<>> =>
        block_free_count <= Cardinality({t \in Threads :
            pc[t] = "alloc" /\ stat[t] = "READY" /\ error[t] = "EOK"})

(* List, counter and threads always agree, whoever is resumed, times out   *)
(* or is flushed out by a detach, and no block is lost.                    *)
Consistent ==
    /\ TypeOK
    /\ WaitersConsistent
    /\ BlocksConserved
=============================================================================
