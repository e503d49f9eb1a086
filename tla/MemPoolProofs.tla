---------------------------- MODULE MemPoolProofs ----------------------------
(***************************************************************************)
(* The safety of RT-Thread memory pools for any blocks, any number of      *)
(* threads and any bound of the waiter counter, with a detach at any time. *)
(***************************************************************************)
EXTENDS MemPool, ListProofs

(* The threads resumed by rt_mp_free that have not tested the counter yet. *)
Woken == {t \in Threads : pc[t] = "alloc" /\ stat[t] = "READY" /\ error[t] = "EOK"}

(* Only a sleeping thread has its timer running. *)
TimersOfSleepers == \A t \in Threads : timer[t] => stat[t] = "SUSPEND"

(* The inductive invariant: that a free block is never wasted rests on a   *)
(* counter that misses no waiter, and that on lists without doubles.       *)
IInv ==
    /\ TypeOK
    /\ WaitersConsistent
    /\ BlocksConserved
    /\ NoBlockWasted
    /\ TimersOfSleepers

-----------------------------------------------------------------------------
LEMMA InitInv == Init => IInv
<1> SUFFICES ASSUME Init PROVE IInv
    OBVIOUS
<1>1. /\ block_list \in Seq(Blocks) /\ Len(block_list) = Cardinality(Blocks)
      /\ ToSet(block_list) = Blocks /\ IsInjective(block_list)
    BY PoolAssumption, SetToSeqFacts DEF Init
<1>2. Cardinality(Blocks) \in Nat /\ block_free_count \in 0..Cardinality(Blocks)
    BY PoolAssumption, FS_CardinalityType DEF Init
<1>3. TypeOK
    <2>1. ThreadTypeOK
        BY DEF Init, ThreadInit, ThreadTypeOK, Errors
    <2>2. suspend_thread_count \in 0..MaxCount /\ used \subseteq Blocks
        BY PoolAssumption DEF Init
    <2>3. pc \in [Threads -> {"idle", "alloc"}] /\ left \in [Threads -> TimeKinds]
        BY DEF Init, TimeKinds
    <2> QED BY <1>1, <1>2, <2>1, <2>2, <2>3, EmptyList DEF Init, TypeOK
<1>4. WaitersConsistent /\ TimersOfSleepers
    BY EmptyList DEF Init, ThreadInit, WaitersConsistent, TimersOfSleepers
<1>5. BlocksConserved
    BY <1>1, <1>2 DEF Init, BlocksConserved
<1> QED BY <1>3, <1>4, <1>5 DEF IInv, Init, NoBlockWasted

(* The number of resumed threads, before and after a step. *)
LEMMA WokenCount ==
    ASSUME NEW x
    PROVE  /\ Cardinality(Woken) \in Nat /\ Cardinality(Woken') \in Nat
           /\ Woken \subseteq Woken' => Cardinality(Woken) <= Cardinality(Woken')
           /\ Woken \ {x} \subseteq Woken' => Cardinality(Woken) - 1 <= Cardinality(Woken')
           /\ Woken \cup {x} \subseteq Woken' /\ x \notin Woken =>
                 Cardinality(Woken) + 1 <= Cardinality(Woken')
<1>1. Woken \in SUBSET Threads /\ Woken' \in SUBSET Threads
    BY DEF Woken
<1> QED BY <1>1, PoolAssumption, CardinalityCompare

(* The first free block goes to a caller. *)
LEMMA TakeBlockFacts ==
    ASSUME IInv, TakeBlock
    PROVE  /\ block_list' \in Seq(Blocks) /\ used' \subseteq Blocks
           /\ block_free_count' \in 0..Cardinality(Blocks)
           /\ BlocksConserved'
<1>1. /\ block_free_count # 0 /\ block_free_count' = block_free_count - 1
      /\ used' = used \cup {Head(block_list)} /\ block_list' = Tail(block_list)
    BY DEF TakeBlock
<1>2. /\ block_list \in Seq(Blocks) /\ block_free_count = Len(block_list)
      /\ block_free_count \in 0..Cardinality(Blocks) /\ Cardinality(Blocks) \in Nat
      /\ IsInjective(block_list) /\ used \subseteq Blocks
      /\ ToSet(block_list) \cap used = {} /\ ToSet(block_list) \cup used = Blocks
    BY PoolAssumption, FS_CardinalityType DEF IInv, TypeOK, BlocksConserved
<1>3. block_list # <<>>
    BY <1>1, <1>2
<1>4. /\ Head(block_list) \in ToSet(block_list) /\ Tail(block_list) \in Seq(Blocks)
      /\ Len(Tail(block_list)) = Len(block_list) - 1
      /\ ToSet(Tail(block_list)) = ToSet(block_list) \ {Head(block_list)}
      /\ IsInjective(Tail(block_list))
    BY <1>2, <1>3, TailList
<1>5. used' \subseteq Blocks /\ ToSet(block_list') \cap used' = {} /\ ToSet(block_list') \cup used' = Blocks
    BY <1>1, <1>2, <1>4
<1>6. block_free_count' = Len(block_list') /\ block_free_count' \in 0..Cardinality(Blocks)
    BY <1>1, <1>2, <1>4
<1> QED BY <1>1, <1>4, <1>5, <1>6 DEF BlocksConserved

(* The caller is linked in front of the other waiters and suspended. *)
LEMMA BlockInv ==
    ASSUME IInv, NEW t \in Threads, NEW time \in TimeKinds, Block(t, time),
           stat[t] = "READY"
    PROVE  IInv'
<1> USE DEF IInv
<1>1. /\ block_free_count = 0 /\ suspend_thread_count < MaxCount
      /\ suspend_thread' = <<t>> \o suspend_thread
      /\ suspend_thread_count' = suspend_thread_count + 1
      /\ stat' = [stat EXCEPT ![t] = "SUSPEND"] /\ error' = [error EXCEPT ![t] = "EOK"]
      /\ timer' = [timer EXCEPT ![t] = (time = "timed")]
      /\ pc' = [pc EXCEPT ![t] = "alloc"] /\ left' = [left EXCEPT ![t] = time]
      /\ UNCHANGED <<block_list, block_free_count, used, obj, wild>>
    BY DEF Block, Suspend, poolVars
<1>2. t \notin ToSet(suspend_thread)
    BY DEF WaitersConsistent
<1>3. /\ suspend_thread' \in Seq(Threads) /\ Len(suspend_thread') = Len(suspend_thread) + 1
      /\ ToSet(suspend_thread') = ToSet(suspend_thread) \cup {t}
      /\ IsInjective(suspend_thread')
    BY <1>1, <1>2, PrependList DEF TypeOK, WaitersConsistent
<1>4. suspend_thread_count' \in 0..MaxCount
    BY <1>1, PoolAssumption DEF TypeOK
<1>5. TypeOK'
    BY <1>1, <1>3, <1>4 DEF TypeOK, ThreadTypeOK, Errors
<1>6. suspend_thread_count' >= Len(suspend_thread')
    BY <1>1, <1>3, PoolAssumption, LenProperties DEF TypeOK, WaitersConsistent
<1>7. WaitersConsistent' /\ TimersOfSleepers'
    BY <1>1, <1>3, <1>6 DEF TypeOK, ThreadTypeOK, WaitersConsistent, TimersOfSleepers
<1>8. BlocksConserved'
    BY <1>1 DEF BlocksConserved
<1>9. NoBlockWasted'
    <2>1. Cardinality(Woken') \in Nat
        BY WokenCount
    <2> QED BY <1>1, <2>1 DEF NoBlockWasted, Woken
<1> QED BY <1>5, <1>7, <1>8, <1>9

(* A step of a caller that leaves states, timers and waiters alone. *)
LEMMA CallerInv ==
    ASSUME IInv, NEW t \in Threads, stat[t] = "READY",
           UNCHANGED <<stat, timer, suspend_thread, suspend_thread_count, obj, wild>>,
           error' \in [Threads -> Errors],
           \A u \in Threads : u # t => error'[u] = error[u] /\ pc'[u] = pc[u],
           pc' \in [Threads -> {"idle", "alloc"}], left' \in [Threads -> TimeKinds]
    PROVE  /\ ThreadTypeOK' /\ WaitersConsistent' /\ TimersOfSleepers'
           /\ UNCHANGED <<block_list, block_free_count, used>> => TypeOK' /\ BlocksConserved'
           /\ Woken \ {t} \subseteq Woken'
<1>1. ThreadTypeOK'
    BY DEF IInv, TypeOK, ThreadTypeOK
<1>2. WaitersConsistent' /\ TimersOfSleepers'
    BY DEF IInv, TypeOK, ThreadTypeOK, WaitersConsistent, TimersOfSleepers
<1>3. ASSUME UNCHANGED <<block_list, block_free_count, used>> PROVE TypeOK' /\ BlocksConserved'
    BY <1>1, <1>3 DEF IInv, TypeOK, BlocksConserved
<1>4. Woken \ {t} \subseteq Woken'
    BY DEF Woken
<1> QED BY <1>1, <1>2, <1>3, <1>4

(* A block is taken by a caller that is alone or a resumed one. *)
LEMMA TakeInv ==
    ASSUME IInv, NEW t \in Threads, stat[t] = "READY", TakeBlock,
           UNCHANGED <<threadVars, waitVars, obj, wild>>,
           \A u \in Threads : u # t => pc'[u] = pc[u],
           pc' \in [Threads -> {"idle", "alloc"}], left' \in [Threads -> TimeKinds]
    PROVE  IInv'
<1>0. UNCHANGED <<stat, error, timer, suspend_thread, suspend_thread_count, obj, wild>>
    BY DEF threadVars, waitVars
<1>a. error' \in [Threads -> Errors] /\ \A u \in Threads : u # t => error'[u] = error[u]
    BY <1>0 DEF IInv, TypeOK, ThreadTypeOK
<1>1. ThreadTypeOK' /\ WaitersConsistent' /\ TimersOfSleepers' /\ Woken \ {t} \subseteq Woken'
    BY <1>0, <1>a, CallerInv
<1>2. /\ block_list' \in Seq(Blocks) /\ used' \subseteq Blocks
      /\ block_free_count' \in 0..Cardinality(Blocks) /\ BlocksConserved'
    BY TakeBlockFacts
<1>3. TypeOK'
    BY <1>0, <1>1, <1>2 DEF IInv, TypeOK
<1>4. NoBlockWasted'
    <2>1. Cardinality(Woken) - 1 <= Cardinality(Woken') /\ Cardinality(Woken) \in Nat
          /\ Cardinality(Woken') \in Nat
        BY <1>1, WokenCount
    <2>2. block_free_count' = block_free_count - 1 /\ block_free_count \in Nat
        BY PoolAssumption, FS_CardinalityType DEF TakeBlock, IInv, TypeOK
    <2>3. suspend_thread # <<>> => block_free_count <= Cardinality(Woken)
        BY DEF IInv, NoBlockWasted, Woken
    <2>4. suspend_thread' # <<>> => block_free_count' <= Cardinality(Woken')
        BY <1>0, <2>1, <2>2, <2>3
    <2> QED BY <2>4 DEF NoBlockWasted, Woken
<1> QED BY <1>1, <1>2, <1>3, <1>4 DEF IInv

(* A caller gives up, or was never inside: no block moves. *)
LEMMA GiveUpInv ==
    ASSUME IInv, NEW t \in Threads, stat[t] = "READY",
           UNCHANGED <<stat, timer, poolVars, waitVars, obj, wild>>,
           error' \in [Threads -> Errors],
           \A u \in Threads : u # t => error'[u] = error[u] /\ pc'[u] = pc[u],
           pc' \in [Threads -> {"idle", "alloc"}], left' \in [Threads -> TimeKinds],
           block_free_count = 0 \/ t \notin Woken
    PROVE  IInv'
<1>0. /\ UNCHANGED <<stat, timer, suspend_thread, suspend_thread_count, obj, wild>>
      /\ UNCHANGED <<block_list, block_free_count, used>>
    BY DEF waitVars, poolVars
<1>1. /\ TypeOK' /\ WaitersConsistent' /\ TimersOfSleepers' /\ BlocksConserved'
      /\ Woken \ {t} \subseteq Woken'
    BY <1>0, CallerInv
<1>2. NoBlockWasted'
    <2>1. Cardinality(Woken') \in Nat
        BY WokenCount
    <2>2. CASE block_free_count = 0
        BY <1>0, <2>1, <2>2 DEF NoBlockWasted, Woken
    <2>3. CASE t \notin Woken
        <3>1. Cardinality(Woken) <= Cardinality(Woken') /\ Cardinality(Woken) \in Nat
            BY <1>1, <2>3, WokenCount
        <3>2. suspend_thread # <<>> => block_free_count <= Cardinality(Woken)
            BY DEF IInv, NoBlockWasted, Woken
        <3>3. block_free_count \in Nat
            BY PoolAssumption, FS_CardinalityType DEF IInv, TypeOK
        <3>4. suspend_thread' # <<>> => block_free_count' <= Cardinality(Woken')
            BY <1>0, <2>1, <3>1, <3>2, <3>3
        <3> QED BY <3>4 DEF NoBlockWasted, Woken
    <2> QED BY <2>2, <2>3
<1> QED BY <1>1, <1>2 DEF IInv

(* A call of rt_mp_alloc, whatever it does. *)
LEMMA AllocInv ==
    ASSUME IInv, NEW t \in Threads, NEW time \in Times, Alloc(t, time)
    PROVE  IInv'
<1>0. /\ pc[t] = "idle" /\ stat[t] = "READY" /\ t \notin Woken /\ time \in TimeKinds
    BY PoolAssumption DEF Alloc, IInv, TypeOK, ThreadTypeOK, WaitersConsistent, Woken
<1>1. pc \in [Threads -> {"idle", "alloc"}] /\ left \in [Threads -> TimeKinds]
      /\ error \in [Threads -> Errors]
    BY DEF IInv, TypeOK, ThreadTypeOK
<1>2. CASE TakeBlock /\ UNCHANGED <<threadVars, waitVars, pc, left, obj, wild>>
    BY <1>0, <1>1, <1>2, TakeInv
<1>3. CASE Block(t, time)
    BY <1>0, <1>3, BlockInv
<1>4. CASE /\ error' = [error EXCEPT ![t] = "ETIMEOUT"]
           /\ UNCHANGED <<stat, timer, poolVars, waitVars, pc, left, obj, wild>>
    <2>1. error' \in [Threads -> Errors] /\ \A u \in Threads : u # t => error'[u] = error[u]
        BY <1>1, <1>4 DEF Errors
    <2> QED BY <1>0, <1>1, <1>4, <2>1, GiveUpInv
<1> QED BY <1>2, <1>3, <1>4 DEF Alloc

(* A resumed caller takes a block, blocks again or gives up. *)
LEMMA AllocRetryInv ==
    ASSUME IInv, NEW t \in Threads, NEW time \in TimeKinds, AllocRetry(t, time)
    PROVE  IInv'
<1>0. stat[t] = "READY"
    BY DEF AllocRetry
<1>1. pc \in [Threads -> {"idle", "alloc"}] /\ left \in [Threads -> TimeKinds]
      /\ error \in [Threads -> Errors]
    BY DEF IInv, TypeOK, ThreadTypeOK
<1>2. Leave(t) => /\ pc' \in [Threads -> {"idle", "alloc"}] /\ left' \in [Threads -> TimeKinds]
                  /\ \A u \in Threads : u # t => pc'[u] = pc[u]
    BY <1>1 DEF Leave, TimeKinds
<1>3. CASE TakeBlock /\ Leave(t) /\ UNCHANGED <<threadVars, waitVars, obj, wild>>
    BY <1>0, <1>2, <1>3, TakeInv
<1>4. CASE Block(t, time)
    BY <1>0, <1>4, BlockInv
<1>5. CASE /\ block_free_count = 0 /\ Leave(t)
           /\ error' = [error EXCEPT ![t] = "ETIMEOUT"]
           /\ UNCHANGED <<stat, timer, poolVars, waitVars, obj, wild>>
    <2>1. error' \in [Threads -> Errors] /\ \A u \in Threads : u # t => error'[u] = error[u]
        BY <1>1, <1>5 DEF Errors
    <2> QED BY <1>0, <1>2, <1>5, <2>1, GiveUpInv
<1> QED BY <1>3, <1>4, <1>5 DEF AllocRetry

(* A caller resumed with an error leaves. *)
LEMMA AllocErrorInv ==
    ASSUME IInv, NEW t \in Threads, AllocError(t)
    PROVE  IInv'
<1>1. /\ stat[t] = "READY" /\ t \notin Woken
      /\ UNCHANGED <<stat, error, timer, poolVars, waitVars, obj, wild>>
    BY DEF AllocError, Woken, threadVars
<1>2. /\ pc' \in [Threads -> {"idle", "alloc"}] /\ left' \in [Threads -> TimeKinds]
      /\ \A u \in Threads : u # t => pc'[u] = pc[u]
    BY DEF AllocError, Leave, IInv, TypeOK, TimeKinds
<1>3. error' \in [Threads -> Errors] /\ \A u \in Threads : u # t => error'[u] = error[u]
    BY <1>1 DEF IInv, TypeOK, ThreadTypeOK
<1> QED BY <1>1, <1>2, <1>3, GiveUpInv

-----------------------------------------------------------------------------
(* The first waiter is resumed, with RT_EOK or with an error: it leaves    *)
(* the list and the counter goes down by one.                              *)
LEMMA ResumeHead ==
    ASSUME IInv, suspend_thread # <<>>, NEW err \in Errors,
           stat' = [stat EXCEPT ![Head(suspend_thread)] = "READY"],
           timer' = [timer EXCEPT ![Head(suspend_thread)] = FALSE],
           error' = [error EXCEPT ![Head(suspend_thread)] = err],
           suspend_thread' = Tail(suspend_thread),
           suspend_thread_count' = suspend_thread_count - 1,
           UNCHANGED pc
    PROVE  /\ ThreadTypeOK' /\ suspend_thread' \in Seq(Threads)
           /\ suspend_thread_count' \in 0..MaxCount
           /\ WaitersConsistent' /\ TimersOfSleepers'
           /\ Woken \subseteq Woken'
           /\ Head(suspend_thread) \notin Woken
           /\ err = "EOK" => Woken \cup {Head(suspend_thread)} \subseteq Woken'
<1> USE DEF IInv
<1>1. PICK h \in Threads :
         /\ h = Head(suspend_thread) /\ h \in ToSet(suspend_thread)
         /\ suspend_thread' \in Seq(Threads) /\ Len(suspend_thread') = Len(suspend_thread) - 1
         /\ ToSet(suspend_thread') = ToSet(suspend_thread) \ {h}
         /\ IsInjective(suspend_thread')
    BY TailList DEF TypeOK, WaitersConsistent
<1>2. stat[h] = "SUSPEND" /\ pc[h] = "alloc"
    BY <1>1 DEF WaitersConsistent
<1>3. /\ stat' = [stat EXCEPT ![h] = "READY"] /\ timer' = [timer EXCEPT ![h] = FALSE]
      /\ error' = [error EXCEPT ![h] = err]
    BY <1>1
<1>4. ThreadTypeOK'
    BY <1>3 DEF TypeOK, ThreadTypeOK
<1>5. suspend_thread_count' \in 0..MaxCount /\ suspend_thread_count' >= Len(suspend_thread')
    <2>1. Len(suspend_thread) \in Nat \ {0}
        BY LenProperties, EmptySeq DEF TypeOK
    <2> QED BY <1>1, <2>1, PoolAssumption DEF TypeOK, WaitersConsistent
<1>6. WaitersConsistent' /\ TimersOfSleepers'
    BY <1>1, <1>3, <1>5 DEF TypeOK, ThreadTypeOK, WaitersConsistent, TimersOfSleepers
<1>7. h \notin Woken /\ Woken \subseteq Woken'
    BY <1>2, <1>3 DEF Woken, TypeOK, ThreadTypeOK
<1>8. err = "EOK" => h \in Woken'
    BY <1>2, <1>3 DEF Woken, TypeOK, ThreadTypeOK
<1> QED BY <1>1, <1>4, <1>5, <1>6, <1>7, <1>8

(* rt_mp_free: the block is free again, and a waiter, if there is one, is  *)
(* on its way to take it.                                                  *)
LEMMA FreeInv ==
    ASSUME IInv, NEW b \in Blocks, Free(b)
    PROVE  IInv'
<1> USE DEF IInv
<1>1. /\ b \in used /\ block_free_count' = block_free_count + 1
      /\ block_list' = <<b>> \o block_list /\ used' = used \ {b}
      /\ UNCHANGED <<pc, left, obj>> /\ WakeFirst
    BY DEF Free
<1>2. /\ block_list' \in Seq(Blocks) /\ Len(block_list') = Len(block_list) + 1
      /\ ToSet(block_list') = ToSet(block_list) \cup {b} /\ IsInjective(block_list')
    BY <1>1, PrependList DEF TypeOK, BlocksConserved
<1>3. BlocksConserved'
    <2>1. /\ ToSet(block_list) \cap used = {} /\ ToSet(block_list) \cup used = Blocks
          /\ block_free_count = Len(block_list)
        BY DEF BlocksConserved
    <2>2. ToSet(block_list') \cap used' = {} /\ ToSet(block_list') \cup used' = Blocks
        BY <1>1, <1>2, <2>1
    <2> QED BY <1>1, <1>2, <2>1, <2>2 DEF BlocksConserved
<1>4. block_free_count \in Nat /\ block_free_count' \in 0..Cardinality(Blocks)
    <2> DEFINE dom == 1..Len(block_list')
    <2>1. Len(block_list') \in Nat /\ DOMAIN block_list' = dom /\ block_list' \in [dom -> Blocks]
        BY <1>2, LenProperties
    <2> HIDE DEF dom
    <2>2. block_list' \in Injection(dom, Blocks)
        BY <1>2, <2>1 DEF Injection
    <2>3. Cardinality(dom) <= Cardinality(Blocks)
        BY <2>2, PoolAssumption, FS_Injection
    <2>4. Cardinality(dom) = Len(block_list')
        BY <2>1, FS_Interval DEF dom
    <2>5. block_free_count' = Len(block_list') /\ block_free_count \in Nat
        BY <1>3, PoolAssumption, FS_CardinalityType DEF BlocksConserved, TypeOK
    <2> QED BY <2>1, <2>3, <2>4, <2>5, PoolAssumption, FS_CardinalityType
<1>5. used' \subseteq Blocks
    BY <1>1 DEF TypeOK
<1>6. CASE suspend_thread_count = 0 \/ suspend_thread = <<>>
    <2>1. UNCHANGED <<stat, error, timer, suspend_thread, suspend_thread_count>> /\ wild' \in BOOLEAN
        <3>1. UNCHANGED <<threadVars, waitVars>> /\ (wild' = wild \/ wild' = TRUE)
            BY <1>1, <1>6 DEF WakeFirst
        <3> QED BY <3>1 DEF threadVars, waitVars, TypeOK
    <2>2. suspend_thread = <<>>
        <3>1. suspend_thread_count >= Len(suspend_thread) /\ Len(suspend_thread) \in Nat
            BY LenProperties DEF WaitersConsistent, TypeOK
        <3> QED BY <1>6, <3>1, EmptySeq DEF TypeOK
    <2>3. WaitersConsistent' /\ TimersOfSleepers'
        BY <1>1, <2>1 DEF WaitersConsistent, TimersOfSleepers
    <2>4. TypeOK'
        BY <1>1, <1>2, <1>4, <1>5, <2>1 DEF TypeOK, ThreadTypeOK
    <2> QED BY <1>3, <2>1, <2>2, <2>3, <2>4 DEF NoBlockWasted
<1>7. CASE suspend_thread_count # 0 /\ suspend_thread # <<>>
    <2> DEFINE h == Head(suspend_thread)
    <2>1. /\ stat' = [stat EXCEPT ![h] = "READY"] /\ timer' = [timer EXCEPT ![h] = FALSE]
          /\ error' = error /\ suspend_thread' = Tail(suspend_thread)
          /\ suspend_thread_count' = suspend_thread_count - 1 /\ wild' = wild
        BY <1>1, <1>7 DEF WakeFirst, Resume
    <2>2. h \in Threads /\ error[h] = "EOK"
        BY <1>7, TailList DEF TypeOK, WaitersConsistent
    <2>3. error' = [error EXCEPT ![h] = "EOK"] /\ "EOK" \in Errors
        BY <2>1, <2>2 DEF Errors, TypeOK, ThreadTypeOK
    <2>4. /\ ThreadTypeOK' /\ suspend_thread' \in Seq(Threads)
          /\ suspend_thread_count' \in 0..MaxCount
          /\ WaitersConsistent' /\ TimersOfSleepers'
          /\ h \notin Woken /\ Woken \cup {h} \subseteq Woken'
        BY <1>1, <1>7, <2>1, <2>3, ResumeHead
    <2>5. TypeOK'
        BY <1>1, <1>2, <1>4, <1>5, <2>1, <2>4 DEF TypeOK
    <2>6. NoBlockWasted'
        <3>1. /\ Cardinality(Woken) + 1 <= Cardinality(Woken') /\ Cardinality(Woken) \in Nat
              /\ Cardinality(Woken') \in Nat
            BY <2>4, WokenCount
        <3>2. block_free_count <= Cardinality(Woken)
            BY <1>7 DEF NoBlockWasted, Woken
        <3>3. block_free_count' <= Cardinality(Woken')
            BY <1>1, <1>4, <3>1, <3>2
        <3> QED BY <3>3 DEF NoBlockWasted, Woken
    <2> QED BY <1>3, <2>4, <2>5, <2>6
<1> QED BY <1>6, <1>7

(* A waiter times out: the counter still counts it. *)
LEMMA TimeoutInv ==
    ASSUME IInv, NEW t \in Threads, Timeout(t)
    PROVE  IInv'
<1> USE DEF IInv
<1>1. /\ timer[t] /\ stat' = [stat EXCEPT ![t] = "READY"] /\ timer' = [timer EXCEPT ![t] = FALSE]
      /\ error' = [error EXCEPT ![t] = "ETIMEOUT"]
      /\ suspend_thread' = ListRemove(suspend_thread, t)
      /\ UNCHANGED <<block_list, block_free_count, used, suspend_thread_count, pc, left, obj, wild>>
    BY DEF Timeout, TimeoutThread, poolVars
<1>2. stat[t] = "SUSPEND"
    BY <1>1 DEF TimersOfSleepers
<1>3. /\ suspend_thread' \in Seq(Threads) /\ Len(suspend_thread') <= Len(suspend_thread)
      /\ ToSet(suspend_thread') = ToSet(suspend_thread) \ {t} /\ IsInjective(suspend_thread')
      /\ suspend_thread = <<>> => suspend_thread' = <<>>
    BY <1>1, ListRemoveAny DEF TypeOK, WaitersConsistent
<1>4. TypeOK'
    BY <1>1, <1>3 DEF TypeOK, ThreadTypeOK, Errors
<1>5. suspend_thread_count' >= Len(suspend_thread')
    BY <1>1, <1>3, LenProperties, PoolAssumption DEF WaitersConsistent, TypeOK
<1>6. WaitersConsistent' /\ TimersOfSleepers'
    BY <1>1, <1>3, <1>5 DEF TypeOK, ThreadTypeOK, WaitersConsistent, TimersOfSleepers
<1>7. Woken' = Woken
    BY <1>1, <1>2 DEF Woken, TypeOK, ThreadTypeOK
<1>8. BlocksConserved' /\ NoBlockWasted'
    BY <1>1, <1>3, <1>7 DEF BlocksConserved, NoBlockWasted, Woken
<1> QED BY <1>4, <1>6, <1>8

(* Steps of a detach that move no thread. *)
LEMMA DetachMoveInv ==
    ASSUME IInv, DetachBegin \/ DetachCheck
    PROVE  IInv'
<1>1. /\ obj' \in {"live", "check", "resume", "gone"}
      /\ UNCHANGED <<threadVars, poolVars, waitVars, pc, left, wild>>
    BY DEF DetachBegin, DetachCheck
<1> QED BY <1>1 DEF threadVars, poolVars, waitVars, IInv, TypeOK, ThreadTypeOK,
        WaitersConsistent, BlocksConserved, NoBlockWasted, TimersOfSleepers

(* The loop of rt_mp_detach resumes a waiter with an error. *)
LEMMA DetachResumeInv ==
    ASSUME IInv, DetachResume
    PROVE  IInv'
<1> USE DEF IInv
<1>1. obj' = "check" /\ UNCHANGED <<block_list, block_free_count, used, pc, left>>
    BY DEF DetachResume, poolVars
<1>2. CASE suspend_thread = <<>>
    <2>1. wild' = TRUE /\ UNCHANGED <<threadVars, waitVars>>
        BY <1>2 DEF DetachResume
    <2> QED BY <1>1, <2>1 DEF threadVars, waitVars, TypeOK, ThreadTypeOK,
            WaitersConsistent, BlocksConserved, NoBlockWasted, TimersOfSleepers
<1>3. CASE suspend_thread # <<>>
    <2>1. /\ stat' = [stat EXCEPT ![Head(suspend_thread)] = "READY"]
          /\ timer' = [timer EXCEPT ![Head(suspend_thread)] = FALSE]
          /\ error' = [error EXCEPT ![Head(suspend_thread)] = "ERROR"]
          /\ suspend_thread' = Tail(suspend_thread)
          /\ suspend_thread_count' = suspend_thread_count - 1 /\ wild' = wild
        BY <1>3 DEF DetachResume, ResumeWithError
    <2>2. "ERROR" \in Errors
        BY DEF Errors
    <2>3. /\ ThreadTypeOK' /\ suspend_thread' \in Seq(Threads)
          /\ suspend_thread_count' \in 0..MaxCount
          /\ WaitersConsistent' /\ TimersOfSleepers' /\ Woken \subseteq Woken'
        BY <1>1, <1>3, <2>1, <2>2, ResumeHead
    <2>4. TypeOK' /\ BlocksConserved'
        BY <1>1, <2>1, <2>3 DEF TypeOK, BlocksConserved
    <2>5. NoBlockWasted'
        <3>1. /\ Cardinality(Woken) <= Cardinality(Woken') /\ Cardinality(Woken) \in Nat
              /\ Cardinality(Woken') \in Nat
            BY <2>3, WokenCount
        <3>2. block_free_count <= Cardinality(Woken) /\ block_free_count \in Nat
            BY <1>3, PoolAssumption, FS_CardinalityType DEF NoBlockWasted, Woken, TypeOK
        <3>3. block_free_count' <= Cardinality(Woken')
            BY <1>1, <3>1, <3>2
        <3> QED BY <3>3 DEF NoBlockWasted, Woken
    <2> QED BY <2>3, <2>4, <2>5
<1> QED BY <1>2, <1>3

-----------------------------------------------------------------------------
LEMMA NextInv ==
    ASSUME IInv, [Next]_vars
    PROVE  IInv'
<1>1. CASE UNCHANGED vars
    BY <1>1 DEF vars, IInv, TypeOK, ThreadTypeOK, WaitersConsistent, BlocksConserved,
       NoBlockWasted, TimersOfSleepers
<1>2. CASE Next
    BY <1>2, AllocInv, AllocRetryInv, AllocErrorInv, FreeInv, TimeoutInv, DetachMoveInv,
       DetachResumeInv DEF Next
<1> QED BY <1>1, <1>2

LEMMA Invariance == Spec => []IInv
<1>1. Init => IInv
    BY InitInv
<1>2. IInv /\ [Next]_vars => IInv'
    BY NextInv
<1> QED BY <1>1, <1>2, PTL DEF Spec

(* In every reachable state of rt_mp_* the free list and the blocks in use *)
(* are all the blocks, each once, the list of waiters is exactly the       *)
(* sleeping threads, and the waiter counter misses none of them although   *)
(* rt_thread_timeout never corrects it.                                    *)
THEOREM PoolConsistent == Spec => []Consistent
<1>1. IInv => Consistent
    BY DEF IInv, Consistent
<1> QED BY <1>1, Invariance, PTL

(* rt_mp_free never leaves a thread asleep beside a free block that no     *)
(* resumed thread is on its way to take, whoever else allocates, times out *)
(* or is flushed out in between.                                           *)
THEOREM FreedBlocksAreUsed == Spec => []NoBlockWasted
<1>1. IInv => NoBlockWasted
    BY DEF IInv
<1> QED BY <1>1, Invariance, PTL
=============================================================================
