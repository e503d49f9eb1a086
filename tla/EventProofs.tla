----------------------------- MODULE EventProofs -----------------------------
(***************************************************************************)
(* The safety of RT-Thread event sets for any event bits, any number of    *)
(* threads and waiters of both kinds, with a detach at any time.  The walk *)
(* of rt_event_send is proved by induction on the waiters it has visited.  *)
(***************************************************************************)
EXTENDS Event, ListProofs

(* The inductive invariant.  The walk of rt_event_send looks at event_set  *)
(* and event_info of the waiters in the list, so that what it does for a   *)
(* sleeping thread depends on the list holding the sleepers once each.     *)
IInv ==
    /\ TypeOK
    /\ WaitersConsistent
    /\ NobodyLeftBehind
    /\ NoSatisfiedSleeper
    /\ ReceivedWhatWasWanted

(* The states of a walk. *)
Walks == [set : SUBSET Bits, stay : Seq(Threads), woken : SUBSET Threads,
          got : [Threads -> SUBSET Bits]]

(* What a thread received is what it waited for: all of it, or a part. *)
Received(t, got) ==
    IF event_info[t].op = "AND" THEN got = event_set[t]
    ELSE got # {} /\ got \subseteq event_set[t]

(* The threads in a list agree with the walk: those of its first i waiters *)
(* stay or are woken, each is treated as its condition says, and a bit a   *)
(* clearing thread received is gone for all that come after it.            *)
WalkOK(w, i) ==
    /\ w \in Walks
    /\ IsInjective(w.stay)
    /\ ToSet(w.stay) \cap w.woken = {}
    /\ ToSet(w.stay) \cup w.woken = {suspend_thread[j] : j \in 1..i}
    /\ \A t \in Threads : t \notin w.woken => w.got[t] = event_set[t]
    /\ \A t \in w.woken : Received(t, w.got[t])
    /\ \A t \in ToSet(w.stay) : ~Satisfied(event_set[t], event_info[t], w.set)
    /\ \A t \in w.woken : event_info[t].clear => w.got[t] \cap w.set = {}
    /\ \A t, u \in w.woken :
          t # u /\ event_info[t].clear /\ event_info[u].clear => w.got[t] \cap w.got[u] = {}

-----------------------------------------------------------------------------
(* The walk is what its definition says: it starts with the new events and *)
(* visits one waiter after the other.                                      *)
LEMMA WalkSteps ==
    ASSUME NEW new, suspend_thread \in Seq(Threads)
    PROVE  /\ Walk(new)[0] = [set |-> set \cup new, stay |-> <<>>, woken |-> {}, got |-> event_set]
           /\ \A i \in 1..Len(suspend_thread) :
                 Walk(new)[i] = Visit(Walk(new)[i - 1], suspend_thread[i])
<1> DEFINE start == [set |-> set \cup new, stay |-> <<>>, woken |-> {}, got |-> event_set]
           n == Len(suspend_thread)
           Follows(f, k) == /\ f = [i \in 0..k |-> f[i]]
                            /\ f[0] = start
                            /\ \A i \in 1..k : f[i] = Visit(f[i - 1], suspend_thread[i])
           S == {k \in 0..n : \E f : Follows(f, k)}
<1>0. n \in Nat
    BY LenProperties
<1> HIDE DEF start
<1>1. 0 \in S
    <2>1. Follows([i \in 0..0 |-> start], 0)
        OBVIOUS
    <2>2. 0 \in 0..n
        BY <1>0
    <2> HIDE DEF Follows
    <2> QED BY <2>1, <2>2, Zenon
<1>2. ASSUME NEW k \in 1..n, k - 1 \in S PROVE k \in S
    <2>1. PICK f : Follows(f, k - 1)
        BY <1>2
    <2> DEFINE g == [i \in 0..k |-> IF i = k THEN Visit(f[k - 1], suspend_thread[k]) ELSE f[i]]
    <2>2. g = [i \in 0..k |-> g[i]]
        OBVIOUS
    <2>3. g[0] = start
        BY <1>0, <2>1
    <2>4. ASSUME NEW i \in 1..k PROVE g[i] = Visit(g[i - 1], suspend_thread[i])
        <3>1. i - 1 \in 0..k /\ i - 1 # k /\ g[i - 1] = f[i - 1]
            BY <1>0
        <3>2. CASE i = k
            <4>1. g[k] = Visit(f[k - 1], suspend_thread[k])
                BY <1>0
            <4> QED BY <3>1, <3>2, <4>1, Zenon
        <3>3. CASE i # k
            <4>1. i \in 1..(k - 1) /\ g[i] = f[i]
                BY <1>0, <3>3
            <4> QED BY <2>1, <3>1, <4>1
        <3> QED BY <3>2, <3>3
    <2> HIDE DEF g
    <2>5. Follows(g, k) /\ k \in 0..n
        BY <1>0, <2>2, <2>3, <2>4
    <2> HIDE DEF Follows
    <2> QED BY <2>5, Zenon
<1>3. 0..n \subseteq S
    <2> HIDE DEF S
    <2> QED BY <1>0, <1>1, <1>2, UpTo
<1>4. PICK f : Follows(f, n)
    BY <1>0, <1>3
<1>5. f = [i \in 0..n |-> IF i = 0 THEN start ELSE Visit(f[i - 1], suspend_thread[i])]
    <2> DEFINE step(i) == IF i = 0 THEN start ELSE Visit(f[i - 1], suspend_thread[i])
    <2>1. ASSUME NEW i \in 0..n PROVE f[i] = step(i)
        <3>1. f[0] = start /\ \A j \in 1..n : f[j] = Visit(f[j - 1], suspend_thread[j])
            BY <1>4
        <3>2. i = 0 \/ (i # 0 /\ i \in 1..n)
            BY <1>0
        <3> QED BY <3>1, <3>2, Zenon
    <2>2. f = [i \in 0..n |-> f[i]]
        BY <1>4
    <2> HIDE DEF step
    <2>3. f = [i \in 0..n |-> step(i)]
        BY <2>1, <2>2
    <2> QED BY <2>3 DEF step
<1>6. Walk(new) = [i \in 0..n |-> IF i = 0 THEN start
                                  ELSE Visit(Walk(new)[i - 1], suspend_thread[i])]
    BY <1>5 DEF Walk, start
<1>7. 0 \in 0..n /\ \A i \in 1..n : i \in 0..n /\ i # 0
    BY <1>0
<1> QED BY <1>6, <1>7 DEF start

(* One turn of the loop, field by field. *)
LEMMA VisitFacts ==
    ASSUME NEW w \in Walks, NEW t \in Threads
    PROVE  LET v == Visit(w, t)
               received == event_set[t] \cap w.set
           IN  /\ v = [set |-> v.set, stay |-> v.stay, woken |-> v.woken, got |-> v.got]
               /\ ~Satisfied(event_set[t], event_info[t], w.set) =>
                     /\ v.stay = Append(w.stay, t)
                     /\ v.set = w.set /\ v.woken = w.woken /\ v.got = w.got
               /\ Satisfied(event_set[t], event_info[t], w.set) =>
                     /\ v.stay = w.stay
                     /\ v.woken = w.woken \cup {t}
                     /\ v.got = [w.got EXCEPT ![t] = received]
                     /\ v.set = IF event_info[t].clear THEN w.set \ received ELSE w.set
<1>1. CASE ~Satisfied(event_set[t], event_info[t], w.set)
    <2>1. Visit(w, t) = [w EXCEPT !.stay = Append(@, t)]
        BY <1>1 DEF Visit
    <2> QED BY <1>1, <2>1 DEF Walks
<1>2. CASE Satisfied(event_set[t], event_info[t], w.set)
    <2> DEFINE received == event_set[t] \cap w.set
    <2>1. Visit(w, t) = [w EXCEPT !.got = [@ EXCEPT ![t] = received],
                                  !.woken = @ \cup {t},
                                  !.set = IF event_info[t].clear THEN @ \ received ELSE @]
        BY <1>2 DEF Visit
    <2> HIDE DEF received
    <2>2. /\ Visit(w, t).stay = w.stay
          /\ Visit(w, t).woken = w.woken \cup {t}
          /\ Visit(w, t).got = [w.got EXCEPT ![t] = received]
          /\ Visit(w, t).set = IF event_info[t].clear THEN w.set \ received ELSE w.set
        BY <2>1 DEF Walks
    <2>3. Visit(w, t) = [set |-> Visit(w, t).set, stay |-> Visit(w, t).stay,
                         woken |-> Visit(w, t).woken, got |-> Visit(w, t).got]
        BY <2>1 DEF Walks
    <2> QED BY <1>2, <2>2, <2>3 DEF received
<1> QED BY <1>1, <1>2

(* The walk stays in order when it visits the next waiter. *)
LEMMA VisitOK ==
    ASSUME TypeOK, WaitersConsistent, NEW i \in 1..Len(suspend_thread), NEW w, WalkOK(w, i - 1)
    PROVE  WalkOK(Visit(w, suspend_thread[i]), i)
<1>1. PICK t \in Threads : t = suspend_thread[i]
    BY ElementOfSeq DEF TypeOK
<1>2. PICK v : v = Visit(w, t)
    OBVIOUS
<1>3. {suspend_thread[j] : j \in 1..i} = {suspend_thread[j] : j \in 1..(i - 1)} \cup {t}
    <2>1. Len(suspend_thread) \in Nat
        BY LenProperties DEF TypeOK
    <2>2. 1..i = 1..(i - 1) \cup {i}
        BY <2>1
    <2> QED BY <1>1, <2>2
<1>4. t \notin {suspend_thread[j] : j \in 1..(i - 1)}
    <2>1. Len(suspend_thread) \in Nat /\ DOMAIN suspend_thread = 1..Len(suspend_thread)
        BY LenProperties DEF TypeOK
    <2>2. \A j \in 1..(i - 1) : j \in DOMAIN suspend_thread /\ j # i
        BY <2>1
    <2> QED BY <1>1, <2>1, <2>2 DEF WaitersConsistent, IsInjective
<1>5. /\ w \in Walks /\ IsInjective(w.stay) /\ ToSet(w.stay) \cap w.woken = {}
      /\ ToSet(w.stay) \cup w.woken = {suspend_thread[j] : j \in 1..(i - 1)}
      /\ \A u \in Threads : u \notin w.woken => w.got[u] = event_set[u]
      /\ \A u \in w.woken : Received(u, w.got[u])
      /\ \A u \in ToSet(w.stay) : ~Satisfied(event_set[u], event_info[u], w.set)
      /\ \A u \in w.woken : event_info[u].clear => w.got[u] \cap w.set = {}
      /\ \A u, x \in w.woken :
            u # x /\ event_info[u].clear /\ event_info[x].clear => w.got[u] \cap w.got[x] = {}
    BY DEF WalkOK
<1>6. t \notin ToSet(w.stay) /\ t \notin w.woken
    BY <1>4, <1>5
<1>7. w.set \subseteq Bits /\ w.stay \in Seq(Threads) /\ w.woken \subseteq Threads
      /\ w.got \in [Threads -> SUBSET Bits] /\ event_set[t] \subseteq Bits
    BY <1>5 DEF Walks, TypeOK
<1> SUFFICES WalkOK(v, i)
    BY <1>1, <1>2
<1>a. v = [set |-> v.set, stay |-> v.stay, woken |-> v.woken, got |-> v.got]
    BY <1>2, <1>5, VisitFacts
<1>8. CASE ~Satisfied(event_set[t], event_info[t], w.set)
    <2>1. v.stay = Append(w.stay, t) /\ v.set = w.set /\ v.woken = w.woken /\ v.got = w.got
        BY <1>2, <1>5, <1>8, VisitFacts
    <2>2. /\ v.stay \in Seq(Threads) /\ ToSet(v.stay) = ToSet(w.stay) \cup {t}
          /\ IsInjective(v.stay)
        BY <1>5, <1>6, <1>7, <2>1, AppendList
    <2>3. v \in Walks
        BY <1>7, <1>a, <2>1, <2>2 DEF Walks
    <2>4. /\ ToSet(v.stay) \cap v.woken = {}
          /\ ToSet(v.stay) \cup v.woken = {suspend_thread[j] : j \in 1..i}
        BY <1>3, <1>5, <1>6, <2>1, <2>2
    <2>5. \A u \in ToSet(v.stay) : ~Satisfied(event_set[u], event_info[u], v.set)
        BY <1>5, <1>8, <2>1, <2>2
    <2> QED BY <1>5, <2>1, <2>2, <2>3, <2>4, <2>5, Zenon DEF WalkOK
<1>9. CASE Satisfied(event_set[t], event_info[t], w.set)
    <2>1. PICK received : received = event_set[t] \cap w.set
        OBVIOUS
    <2>2. /\ v.stay = w.stay /\ v.woken = w.woken \cup {t}
          /\ v.got = [w.got EXCEPT ![t] = received]
          /\ v.set = IF event_info[t].clear THEN w.set \ received ELSE w.set
        BY <1>2, <1>5, <1>9, <2>1, VisitFacts
    <2>3. v.set \subseteq w.set /\ v.got \in [Threads -> SUBSET Bits]
          /\ v.got[t] = received /\ \A u \in Threads : u # t => v.got[u] = w.got[u]
        BY <1>7, <2>1, <2>2
    <2>4. v \in Walks
        BY <1>7, <1>a, <2>2, <2>3 DEF Walks
    <2>5. /\ ToSet(v.stay) \cap v.woken = {}
          /\ ToSet(v.stay) \cup v.woken = {suspend_thread[j] : j \in 1..i}
        BY <1>3, <1>5, <1>6, <2>2
    <2>6. \A u \in Threads : u \notin v.woken => v.got[u] = event_set[u]
        BY <1>5, <2>2, <2>3
    <2>7. Received(t, received)
        BY <1>9, <2>1 DEF Satisfied, Received
    <2>8. \A u \in v.woken : Received(u, v.got[u])
        BY <1>5, <1>7, <2>2, <2>3, <2>7
    <2>9. \A u \in ToSet(v.stay) : ~Satisfied(event_set[u], event_info[u], v.set)
        BY <1>5, <2>2, <2>3 DEF Satisfied
    <2>10. \A u \in v.woken : event_info[u].clear => v.got[u] \cap v.set = {}
        BY <1>5, <1>7, <2>1, <2>2, <2>3
    <2>11. ASSUME NEW u \in v.woken, NEW x \in v.woken,
                  u # x, event_info[u].clear, event_info[x].clear
           PROVE  v.got[u] \cap v.got[x] = {}
        <3>1. received \subseteq w.set
            BY <2>1
        <3>2. CASE u = t
            BY <1>5, <1>7, <2>2, <2>3, <2>11, <3>1, <3>2
        <3>3. CASE x = t
            BY <1>5, <1>7, <2>2, <2>3, <2>11, <3>1, <3>3
        <3>4. CASE u # t /\ x # t
            BY <1>5, <1>7, <2>2, <2>3, <2>11, <3>4
        <3> QED BY <3>2, <3>3, <3>4
    <2> QED BY <1>5, <2>2, <2>4, <2>5, <2>6, <2>8, <2>9, <2>10, <2>11, Zenon DEF WalkOK
<1> QED BY <1>8, <1>9

(* What the whole walk of rt_event_send has done. *)
LEMMA WalkInv ==
    ASSUME TypeOK, WaitersConsistent, NEW new \in SUBSET Bits
    PROVE  WalkOK(Walk(new)[Len(suspend_thread)], Len(suspend_thread))
<1> DEFINE n == Len(suspend_thread)
           S == {i \in 0..n : WalkOK(Walk(new)[i], i)}
<1>0. n \in Nat /\ suspend_thread \in Seq(Threads)
    BY LenProperties DEF TypeOK
<1>1. 0 \in S
    <2>1. PICK w : w = Walk(new)[0]
        OBVIOUS
    <2>2. w = [set |-> set \cup new, stay |-> <<>>, woken |-> {}, got |-> event_set]
        BY <1>0, <2>1, WalkSteps
    <2>3. w \in Walks
        BY <2>2 DEF Walks, TypeOK
    <2>4. w.stay = <<>> /\ w.woken = {} /\ w.got = event_set
        BY <2>2
    <2>5. {suspend_thread[j] : j \in 1..0} = {}
        OBVIOUS
    <2>6. WalkOK(w, 0)
        BY <2>3, <2>4, <2>5, EmptyList DEF WalkOK
    <2> QED BY <1>0, <2>1, <2>6
<1>2. ASSUME NEW i \in 1..n, i - 1 \in S PROVE i \in S
    <2>1. WalkOK(Walk(new)[i - 1], i - 1)
        BY <1>2
    <2>2. Walk(new)[i] = Visit(Walk(new)[i - 1], suspend_thread[i])
        BY <1>0, WalkSteps
    <2>3. WalkOK(Walk(new)[i], i)
        BY <2>1, <2>2, VisitOK
    <2> QED BY <1>0, <2>3
<1>3. 0..n \subseteq S
    <2> HIDE DEF S
    <2> QED BY <1>0, <1>1, <1>2, UpTo
<1> QED BY <1>0, <1>3

-----------------------------------------------------------------------------
LEMMA InitInv == Init => IInv
<1> SUFFICES ASSUME Init PROVE IInv
    OBVIOUS
<1>1. TypeOK
    BY EmptyList DEF Init, ThreadInit, ObjInit, TypeOK, ThreadTypeOK, Errors, Options, NoOption
<1>2. WaitersConsistent /\ NobodyLeftBehind /\ NoSatisfiedSleeper /\ ReceivedWhatWasWanted
    BY EmptyList DEF Init, ThreadInit, ObjInit, WaitersConsistent, NobodyLeftBehind,
                     NoSatisfiedSleeper, ReceivedWhatWasWanted
<1> QED BY <1>1, <1>2 DEF IInv

(* Whoever calls rt_event_recv is not asleep. *)
LEMMA RecvInv ==
    ASSUME IInv, NEW t \in Threads, NEW want \in SUBSET Bits, NEW option \in Options, NEW time,
           Recv(t, want, option, time)
    PROVE  IInv'
<1> USE DEF IInv
<1>1. pc[t] = "idle" /\ stat[t] = "READY" /\ t \notin ToSet(suspend_thread) /\ obj = "live"
    BY DEF Recv, Usable, TypeOK, ThreadTypeOK, WaitersConsistent
<1>2. UNCHANGED <<obj, wild>>
    BY DEF Recv, objVars
<1>3. CASE RecvNow(t, want, option)
    <2>1. /\ set' \subseteq set /\ error' = [error EXCEPT ![t] = "EOK"]
          /\ UNCHANGED <<stat, timer, suspend_thread, event_set, event_info, pc, wanted>>
        BY <1>3 DEF RecvNow
    <2>2. TypeOK'
        BY <1>2, <2>1 DEF TypeOK, ThreadTypeOK, Errors
    <2>3. WaitersConsistent' /\ NobodyLeftBehind' /\ ReceivedWhatWasWanted'
        BY <1>1, <1>2, <2>1 DEF TypeOK, ThreadTypeOK, WaitersConsistent, NobodyLeftBehind,
                                ReceivedWhatWasWanted
    <2>4. NoSatisfiedSleeper'
        BY <2>1 DEF NoSatisfiedSleeper, Satisfied
    <2> QED BY <2>2, <2>3, <2>4
<1>4. CASE RecvNoWait(t, want, option, time)
    <2>1. /\ error' = [error EXCEPT ![t] = "ETIMEOUT"]
          /\ UNCHANGED <<set, stat, timer, suspend_thread, event_set, event_info, pc, wanted>>
        BY <1>4 DEF RecvNoWait
    <2>2. TypeOK'
        BY <1>2, <2>1 DEF TypeOK, ThreadTypeOK, Errors
    <2>3. WaitersConsistent' /\ NobodyLeftBehind' /\ ReceivedWhatWasWanted'
        BY <1>1, <1>2, <2>1 DEF TypeOK, ThreadTypeOK, WaitersConsistent, NobodyLeftBehind,
                                ReceivedWhatWasWanted
    <2>4. NoSatisfiedSleeper'
        BY <2>1 DEF NoSatisfiedSleeper, Satisfied
    <2> QED BY <2>2, <2>3, <2>4
<1>5. CASE RecvBlock(t, want, option, time)
    <2>1. /\ ~Satisfied(want, option, set) /\ UNCHANGED set
          /\ event_set' = [event_set EXCEPT ![t] = want]
          /\ wanted' = [wanted EXCEPT ![t] = want]
          /\ event_info' = [event_info EXCEPT ![t] = option]
          /\ suspend_thread' \in SuspendLists(suspend_thread, t, Flag)
          /\ stat' = [stat EXCEPT ![t] = "SUSPEND"] /\ error' = [error EXCEPT ![t] = "EOK"]
          /\ timer' = [timer EXCEPT ![t] = (time = "timed")]
          /\ pc' = [pc EXCEPT ![t] = "recv"]
        BY <1>5 DEF RecvBlock, Suspend
    <2>2. /\ suspend_thread' \in Seq(Threads)
          /\ ToSet(suspend_thread') = ToSet(suspend_thread) \cup {t}
          /\ IsInjective(suspend_thread')
        <3>1. PICK prio \in [Threads -> Priorities] :
                    suspend_thread' = SuspendList(suspend_thread, t, Flag, prio)
            BY <2>1 DEF SuspendLists
        <3>2. prio \in [Threads -> Nat]
            BY PrioAssumption
        <3> QED BY <1>1, <3>1, <3>2, SuspendListFacts DEF TypeOK, WaitersConsistent
    <2>3. TypeOK'
        BY <1>2, <2>1, <2>2 DEF TypeOK, ThreadTypeOK, Errors
    <2>4. WaitersConsistent' /\ NobodyLeftBehind' /\ ReceivedWhatWasWanted'
        BY <1>1, <1>2, <2>1, <2>2 DEF TypeOK, ThreadTypeOK, WaitersConsistent, NobodyLeftBehind,
                                      ReceivedWhatWasWanted
    <2>5. NoSatisfiedSleeper'
        <3> SUFFICES ASSUME NEW u \in ToSet(suspend_thread')
                     PROVE  ~Satisfied(event_set'[u], event_info'[u], set')
            BY DEF NoSatisfiedSleeper, Satisfied
        <3>1. CASE u = t
            <4>1. event_set'[u] = want /\ event_info'[u] = option /\ set' = set
                BY <2>1, <3>1 DEF TypeOK
            <4> QED BY <2>1, <4>1
        <3>2. CASE u # t
            <4>1. u \in ToSet(suspend_thread) /\ u \in Threads
                <5>1. u \in ToSet(suspend_thread)
                    BY <2>2, <3>2
                <5> QED BY <5>1, ElementOfSeq DEF TypeOK, ToSet
            <4>2. event_set'[u] = event_set[u] /\ event_info'[u] = event_info[u] /\ set' = set
                BY <2>1, <3>2, <4>1 DEF TypeOK
            <4> QED BY <4>1, <4>2 DEF NoSatisfiedSleeper
        <3> QED BY <3>1, <3>2
    <2> QED BY <2>3, <2>4, <2>5
<1> QED BY <1>3, <1>4, <1>5 DEF Recv

(* The resumed thread returns. *)
LEMMA RecvReturnInv ==
    ASSUME IInv, NEW t \in Threads, RecvReturn(t)
    PROVE  IInv'
<1> USE DEF IInv
<1>1. /\ stat[t] = "READY" /\ pc' = [pc EXCEPT ![t] = "idle"]
      /\ event_set' = [event_set EXCEPT ![t] = {}]
      /\ event_info' = [event_info EXCEPT ![t] = NoOption]
      /\ wanted' = [wanted EXCEPT ![t] = {}]
      /\ UNCHANGED <<stat, error, timer, set, suspend_thread, obj, wild>>
    BY DEF RecvReturn, threadVars, objVars
<1>2. TypeOK'
    BY <1>1 DEF TypeOK, ThreadTypeOK, Options, NoOption
<1>3. WaitersConsistent' /\ NobodyLeftBehind' /\ ReceivedWhatWasWanted'
    BY <1>1 DEF TypeOK, ThreadTypeOK, WaitersConsistent, NobodyLeftBehind,
                ReceivedWhatWasWanted
<1>4. NoSatisfiedSleeper'
    <2>1. \A u \in ToSet(suspend_thread) : u \in Threads /\ u # t
        BY <1>1, ElementOfSeq DEF TypeOK, WaitersConsistent, ToSet
    <2>2. \A u \in ToSet(suspend_thread) :
             event_set'[u] = event_set[u] /\ event_info'[u] = event_info[u]
        BY <1>1, <2>1 DEF TypeOK
    <2> QED BY <1>1, <2>2 DEF NoSatisfiedSleeper, Satisfied
<1> QED BY <1>2, <1>3, <1>4

(* rt_event_send: what the walk did is what the threads and the list see. *)
LEMMA SendInv ==
    ASSUME IInv, NEW new \in SUBSET Bits, Send(new)
    PROVE  IInv'
<1> USE DEF IInv
<1>1. PICK w : w = Walk(new)[Len(suspend_thread)]
    OBVIOUS
<1>2. /\ obj = "live" /\ set' = w.set /\ suspend_thread' = w.stay /\ event_set' = w.got
      /\ stat' = [t \in Threads |-> IF t \in w.woken THEN "READY" ELSE stat[t]]
      /\ timer' = [t \in Threads |-> IF t \in w.woken THEN FALSE ELSE timer[t]]
      /\ UNCHANGED <<error, event_info, pc, wanted, obj, wild>>
    BY <1>1 DEF Send, Usable, objVars
<1>3. WalkOK(w, Len(suspend_thread))
    BY <1>1, WalkInv
<1>4. {suspend_thread[j] : j \in 1..Len(suspend_thread)} = ToSet(suspend_thread)
    BY LenProperties DEF TypeOK, ToSet
<1>5. /\ w.set \subseteq Bits /\ w.stay \in Seq(Threads) /\ w.woken \subseteq Threads
      /\ w.got \in [Threads -> SUBSET Bits] /\ IsInjective(w.stay)
    BY <1>3 DEF WalkOK, Walks
<1>6. ToSet(w.stay) \cap w.woken = {} /\ ToSet(w.stay) \cup w.woken = ToSet(suspend_thread)
    BY <1>3, <1>4 DEF WalkOK
<1>7. /\ \A t \in Threads : t \notin w.woken => w.got[t] = event_set[t]
      /\ \A t \in w.woken : Received(t, w.got[t])
      /\ \A t \in ToSet(w.stay) : ~Satisfied(event_set[t], event_info[t], w.set)
    BY <1>3 DEF WalkOK
<1>8. TypeOK'
    BY <1>2, <1>5 DEF TypeOK, ThreadTypeOK
<1>9. WaitersConsistent'
    <2>1. \A t \in Threads : t \in ToSet(suspend_thread') <=> stat'[t] = "SUSPEND"
        BY <1>2, <1>6 DEF WaitersConsistent
    <2>2. \A t \in Threads : stat'[t] = "SUSPEND" => t \notin w.woken /\ stat[t] = "SUSPEND"
        BY <1>2
    <2>3. \A t \in Threads : stat'[t] = "SUSPEND" =>
             pc'[t] = "recv" /\ error'[t] = "EOK" /\ event_set'[t] = wanted'[t]
        BY <1>2, <1>7, <2>2 DEF WaitersConsistent
    <2>4. \A t \in Threads : timer'[t] => stat'[t] = "SUSPEND"
        BY <1>2 DEF WaitersConsistent
    <2> QED BY <1>2, <1>5, <2>1, <2>3, <2>4 DEF WaitersConsistent
<1>10. NobodyLeftBehind'
    BY <1>2 DEF NobodyLeftBehind
<1>11. NoSatisfiedSleeper'
    <2>1. \A t \in ToSet(w.stay) : w.got[t] = event_set[t]
        BY <1>5, <1>6, <1>7, ElementOfSeq DEF ToSet
    <2> QED BY <1>2, <1>7, <2>1 DEF NoSatisfiedSleeper, Satisfied
<1>12. ReceivedWhatWasWanted'
    <2> SUFFICES ASSUME NEW t \in Threads, pc[t] = "recv", stat'[t] = "READY", error[t] = "EOK"
                 PROVE  IF event_info[t].op = "AND" THEN w.got[t] = wanted[t]
                        ELSE w.got[t] # {} /\ w.got[t] \subseteq wanted[t]
        BY <1>2 DEF ReceivedWhatWasWanted
    <2>1. CASE t \in w.woken
        <3>1. event_set[t] = wanted[t]
            BY <1>6, <2>1 DEF WaitersConsistent
        <3> QED BY <1>7, <2>1, <3>1 DEF Received
    <2>2. CASE t \notin w.woken
        <3>1. stat[t] = "READY" /\ w.got[t] = event_set[t]
            BY <1>2, <1>7, <2>2
        <3> QED BY <3>1 DEF ReceivedWhatWasWanted
    <2> QED BY <2>1, <2>2
<1> QED BY <1>8, <1>9, <1>10, <1>11, <1>12

(* A step that resumes threads with an error, or nobody, and leaves the    *)
(* requests alone.                                                         *)
LEMMA FlushInv ==
    ASSUME IInv, NEW W \in SUBSET Threads, NEW e \in {"ERROR", "ETIMEOUT"},
           set' \in {set, {}},
           suspend_thread' \in Seq(Threads), IsInjective(suspend_thread'),
           ToSet(suspend_thread') = ToSet(suspend_thread) \ W,
           stat' \in [Threads -> {"READY", "SUSPEND"}], timer' \in [Threads -> BOOLEAN],
           error' \in [Threads -> Errors],
           \A t \in W : stat'[t] = "READY" /\ timer'[t] = FALSE /\ error'[t] = e,
           \A t \in Threads \ W :
               stat'[t] = stat[t] /\ timer'[t] = timer[t] /\ error'[t] = error[t],
           obj' \in {"live", "check", "resume", "gone"}, wild' \in BOOLEAN,
           NobodyLeftBehind',
           UNCHANGED <<event_set, event_info, pc, wanted>>
    PROVE  IInv'
<1> USE DEF IInv
<1>1. TypeOK'
    BY DEF TypeOK, ThreadTypeOK
<1>2. WaitersConsistent'
    <2>1. ASSUME NEW t \in W
          PROVE  /\ t \in ToSet(suspend_thread') <=> stat'[t] = "SUSPEND"
                 /\ stat'[t] = "SUSPEND" =>
                       pc'[t] = "recv" /\ error'[t] = "EOK" /\ event_set'[t] = wanted'[t]
                 /\ timer'[t] => stat'[t] = "SUSPEND"
        BY <2>1
    <2>2. ASSUME NEW t \in Threads \ W
          PROVE  /\ t \in ToSet(suspend_thread') <=> stat'[t] = "SUSPEND"
                 /\ stat'[t] = "SUSPEND" =>
                       pc'[t] = "recv" /\ error'[t] = "EOK" /\ event_set'[t] = wanted'[t]
                 /\ timer'[t] => stat'[t] = "SUSPEND"
        BY <2>2 DEF WaitersConsistent
    <2> QED BY <2>1, <2>2 DEF WaitersConsistent
<1>3. NoSatisfiedSleeper'
    <2>1. \A t \in ToSet(suspend_thread') : ~Satisfied(event_set[t], event_info[t], set)
        BY DEF NoSatisfiedSleeper
    <2>2. set' \subseteq set
        OBVIOUS
    <2> QED BY <2>1, <2>2 DEF NoSatisfiedSleeper, Satisfied
<1>4. ReceivedWhatWasWanted'
    <2> SUFFICES ASSUME NEW t \in Threads, pc[t] = "recv", stat'[t] = "READY", error'[t] = "EOK"
                 PROVE  IF event_info[t].op = "AND" THEN event_set[t] = wanted[t]
                        ELSE event_set[t] # {} /\ event_set[t] \subseteq wanted[t]
        BY DEF ReceivedWhatWasWanted
    <2>1. stat[t] = "READY" /\ error[t] = "EOK"
        OBVIOUS
    <2> QED BY <2>1 DEF ReceivedWhatWasWanted
<1> QED BY <1>1, <1>2, <1>3, <1>4

LEMMA TimeoutInv ==
    ASSUME IInv, NEW t \in Threads, Timeout(t)
    PROVE  IInv'
<1>1. /\ timer[t] /\ suspend_thread' = ListRemove(suspend_thread, t)
      /\ stat' = [stat EXCEPT ![t] = "READY"] /\ timer' = [timer EXCEPT ![t] = FALSE]
      /\ error' = [error EXCEPT ![t] = "ETIMEOUT"]
      /\ UNCHANGED <<set, event_set, event_info, pc, wanted, obj, wild>>
    BY DEF Timeout, TimeoutThread, objVars
<1>2. /\ TypeOK /\ ThreadTypeOK /\ suspend_thread \in Seq(Threads) /\ IsInjective(suspend_thread)
      /\ obj \in {"live", "check", "resume", "gone"} /\ wild \in BOOLEAN
    BY DEF IInv, TypeOK, WaitersConsistent
<1>3. /\ suspend_thread' \in Seq(Threads) /\ IsInjective(suspend_thread')
      /\ ToSet(suspend_thread') = ToSet(suspend_thread) \ {t}
      /\ suspend_thread = <<>> => suspend_thread' = <<>>
    BY <1>1, <1>2, ListRemoveAny
<1>4. /\ stat' \in [Threads -> {"READY", "SUSPEND"}] /\ timer' \in [Threads -> BOOLEAN]
      /\ error' \in [Threads -> Errors]
      /\ \A u \in {t} : stat'[u] = "READY" /\ timer'[u] = FALSE /\ error'[u] = "ETIMEOUT"
      /\ \A u \in Threads \ {t} :
            stat'[u] = stat[u] /\ timer'[u] = timer[u] /\ error'[u] = error[u]
    BY <1>1, <1>2 DEF ThreadTypeOK, Errors
<1>5. NobodyLeftBehind'
    BY <1>1, <1>3 DEF IInv, NobodyLeftBehind
<1>6. {t} \in SUBSET Threads /\ set' \in {set, {}}
    BY <1>1
<1> QED BY <1>1, <1>2, <1>3, <1>4, <1>5, <1>6, FlushInv

LEMMA ResetInv ==
    ASSUME IInv, Reset
    PROVE  IInv'
<1>1. PICK W : W = ToSet(suspend_thread)
    OBVIOUS
<1>2. /\ obj = "live" /\ suspend_thread' = <<>> /\ set' = {}
      /\ stat' = [t \in Threads |-> IF t \in W THEN "READY" ELSE stat[t]]
      /\ timer' = [t \in Threads |-> IF t \in W THEN FALSE ELSE timer[t]]
      /\ error' = [t \in Threads |-> IF t \in W THEN "ERROR" ELSE error[t]]
      /\ UNCHANGED <<event_set, event_info, pc, wanted, obj, wild>>
    BY <1>1 DEF Reset, Usable, ResumeAll, objVars
<1>3. ThreadTypeOK /\ wild \in BOOLEAN /\ W \subseteq Threads
    BY <1>1, ElementOfSeq DEF IInv, TypeOK, ToSet
<1>4. /\ stat' \in [Threads -> {"READY", "SUSPEND"}] /\ timer' \in [Threads -> BOOLEAN]
      /\ error' \in [Threads -> Errors]
      /\ \A u \in W : stat'[u] = "READY" /\ timer'[u] = FALSE /\ error'[u] = "ERROR"
      /\ \A u \in Threads \ W :
            stat'[u] = stat[u] /\ timer'[u] = timer[u] /\ error'[u] = error[u]
    BY <1>2, <1>3 DEF ThreadTypeOK, Errors
<1>5. /\ suspend_thread' \in Seq(Threads) /\ IsInjective(suspend_thread')
      /\ ToSet(suspend_thread') = ToSet(suspend_thread) \ W
    BY <1>1, <1>2, EmptyList
<1>6. NobodyLeftBehind' /\ obj' \in {"live", "check", "resume", "gone"}
    BY <1>2 DEF NobodyLeftBehind
<1> QED BY <1>2, <1>3, <1>4, <1>5, <1>6, FlushInv

(* A point of the detach, or the initialisation, that resumes nobody. *)
LEMMA QuietInv ==
    ASSUME IInv, set' \in {set, {}},
           UNCHANGED <<stat, error, timer, suspend_thread, event_set, event_info, pc, wanted>>,
           obj' \in {"live", "check", "resume", "gone"}, wild' \in BOOLEAN, NobodyLeftBehind'
    PROVE  IInv'
<1>1. ThreadTypeOK /\ suspend_thread \in Seq(Threads) /\ IsInjective(suspend_thread)
    BY DEF IInv, TypeOK, WaitersConsistent
<1>2. /\ stat' \in [Threads -> {"READY", "SUSPEND"}] /\ timer' \in [Threads -> BOOLEAN]
      /\ error' \in [Threads -> Errors]
      /\ \A t \in {} : stat'[t] = "READY" /\ timer'[t] = FALSE /\ error'[t] = "ERROR"
      /\ \A t \in Threads \ {} :
            stat'[t] = stat[t] /\ timer'[t] = timer[t] /\ error'[t] = error[t]
    BY <1>1 DEF ThreadTypeOK
<1>3. /\ suspend_thread' \in Seq(Threads) /\ IsInjective(suspend_thread')
      /\ ToSet(suspend_thread') = ToSet(suspend_thread) \ {}
    BY <1>1
<1> QED BY <1>2, <1>3, FlushInv

LEMMA DetachBeginInv ==
    ASSUME IInv, DetachBegin
    PROVE  IInv'
<1>1. /\ obj' = "check"
      /\ UNCHANGED <<stat, error, timer, set, suspend_thread, event_set, event_info, pc, wanted, wild>>
    BY DEF DetachBegin, Detach, threadVars
<1>2. wild' \in BOOLEAN /\ NobodyLeftBehind'
    BY <1>1 DEF IInv, TypeOK, NobodyLeftBehind
<1> QED BY <1>1, <1>2, QuietInv

LEMMA DetachCheckInv ==
    ASSUME IInv, DetachCheck
    PROVE  IInv'
<1>1. /\ obj' = IF suspend_thread = <<>> THEN "gone" ELSE "resume"
      /\ UNCHANGED <<stat, error, timer, set, suspend_thread, event_set, event_info, pc, wanted, wild>>
    BY DEF DetachCheck, Detach, threadVars
<1>2. wild' \in BOOLEAN /\ NobodyLeftBehind'
    BY <1>1 DEF IInv, TypeOK, NobodyLeftBehind
<1>3. obj' \in {"live", "check", "resume", "gone"}
    BY <1>1
<1> QED BY <1>1, <1>2, <1>3, QuietInv

LEMMA DetachResumeInv ==
    ASSUME IInv, DetachResume
    PROVE  IInv'
<1>1. /\ obj' = "check" /\ FlushFirst(suspend_thread) /\ suspend_thread' = Flushed(suspend_thread)
      /\ UNCHANGED <<set, event_set, event_info, pc, wanted>>
    BY DEF DetachResume, Detach
<1>2. /\ ThreadTypeOK /\ suspend_thread \in Seq(Threads) /\ IsInjective(suspend_thread)
      /\ wild \in BOOLEAN
    BY DEF IInv, TypeOK, WaitersConsistent
<1>3. NobodyLeftBehind' /\ obj' \in {"live", "check", "resume", "gone"}
    BY <1>1 DEF NobodyLeftBehind
<1>4. CASE suspend_thread = <<>>
    <2>1. wild' = TRUE /\ UNCHANGED <<stat, error, timer, suspend_thread>>
        BY <1>1, <1>4 DEF FlushFirst, Flushed, threadVars
    <2> QED BY <1>1, <1>3, <2>1, QuietInv
<1>5. CASE suspend_thread # <<>>
    <2>1. PICK t : t = Head(suspend_thread)
        OBVIOUS
    <2>2. /\ t \in Threads /\ suspend_thread' \in Seq(Threads) /\ IsInjective(suspend_thread')
          /\ ToSet(suspend_thread') = ToSet(suspend_thread) \ {t}
        BY <1>1, <1>2, <1>5, <2>1, TailList DEF Flushed
    <2>3. /\ stat' = [stat EXCEPT ![t] = "READY"] /\ timer' = [timer EXCEPT ![t] = FALSE]
          /\ error' = [error EXCEPT ![t] = "ERROR"] /\ UNCHANGED wild
        BY <1>1, <1>5, <2>1 DEF FlushFirst, ResumeWithError
    <2>4. /\ stat' \in [Threads -> {"READY", "SUSPEND"}] /\ timer' \in [Threads -> BOOLEAN]
          /\ error' \in [Threads -> Errors]
          /\ \A u \in {t} : stat'[u] = "READY" /\ timer'[u] = FALSE /\ error'[u] = "ERROR"
          /\ \A u \in Threads \ {t} :
                stat'[u] = stat[u] /\ timer'[u] = timer[u] /\ error'[u] = error[u]
        BY <1>2, <2>2, <2>3 DEF ThreadTypeOK, Errors
    <2>5. {t} \in SUBSET Threads /\ set' \in {set, {}} /\ wild' \in BOOLEAN
        BY <1>1, <1>2, <2>2, <2>3
    <2> QED BY <1>1, <1>3, <2>2, <2>4, <2>5, FlushInv
<1> QED BY <1>4, <1>5

LEMMA ReinitInv ==
    ASSUME IInv, Reinit
    PROVE  IInv'
<1>1. /\ obj = "gone" /\ obj' = "live" /\ set' = {} /\ suspend_thread' = <<>>
      /\ UNCHANGED <<stat, error, timer, event_set, event_info, pc, wanted, wild>>
    BY DEF Reinit, Detach, threadVars
<1>2. UNCHANGED suspend_thread
    BY <1>1 DEF IInv, NobodyLeftBehind
<1>3. wild' \in BOOLEAN /\ NobodyLeftBehind'
    BY <1>1 DEF IInv, TypeOK, NobodyLeftBehind
<1> QED BY <1>1, <1>2, <1>3, QuietInv

LEMMA StepInv == IInv /\ [Next]_vars => IInv'
<1> SUFFICES ASSUME IInv, [Next]_vars PROVE IInv'
    OBVIOUS
<1>0. NonEmpty \subseteq SUBSET Bits
    BY DEF NonEmpty
<1>1. CASE \E t \in Threads, want \in NonEmpty, option \in Options, time \in Times :
              Recv(t, want, option, time)
    BY <1>0, <1>1, RecvInv
<1>2. CASE \E t \in Threads : RecvReturn(t)
    BY <1>2, RecvReturnInv
<1>3. CASE \E new \in NonEmpty : Send(new)
    BY <1>0, <1>3, SendInv
<1>4. CASE \E t \in Threads : Timeout(t)
    BY <1>4, TimeoutInv
<1>5. CASE Reset
    BY <1>5, ResetInv
<1>6. CASE DetachBegin
    BY <1>6, DetachBeginInv
<1>7. CASE DetachCheck
    BY <1>7, DetachCheckInv
<1>8. CASE DetachResume
    BY <1>8, DetachResumeInv
<1>9. CASE Reinit
    BY <1>9, ReinitInv
<1>10. CASE UNCHANGED vars
    <2>1. UNCHANGED <<stat, error, timer, set, suspend_thread, event_set, event_info, pc,
                      wanted, obj, wild>>
        BY <1>10 DEF vars
    <2>2. NobodyLeftBehind' /\ obj' \in {"live", "check", "resume", "gone"} /\ wild' \in BOOLEAN
        BY <2>1 DEF IInv, TypeOK, NobodyLeftBehind
    <2> QED BY <2>1, <2>2, QuietInv
<1> QED BY <1>1, <1>2, <1>3, <1>4, <1>5, <1>6, <1>7, <1>8, <1>9, <1>10 DEF Next

(* rt_event_recv and rt_event_send always reach an inductive state. *)
LEMMA Inductive == Spec => []IInv
<1>1. Init => IInv
    BY InitInv
<1>2. IInv /\ [Next]_vars => IInv'
    BY StepInv
<1> QED BY <1>1, <1>2, PTL DEF Spec

-----------------------------------------------------------------------------
(* List and threads always agree, however many threads one rt_event_send   *)
(* resumes, and nobody is left in the list of an object that is gone.      *)
THEOREM EventConsistent == Spec => []Consistent
<1>1. IInv => Consistent
    BY DEF IInv, Consistent
<1> QED BY <1>1, Inductive, PTL

(* One walk over the suspend list is enough: after rt_event_send no thread *)
(* sleeps whose condition the event set satisfies, although each thread    *)
(* that is woken may take bits away.                                       *)
THEOREM NoLostWakeup == Spec => []NoSatisfiedSleeper
<1>1. IInv => NoSatisfiedSleeper
    BY DEF IInv
<1> QED BY <1>1, Inductive, PTL

(* rt_event_recv returns RT_EOK only with what the caller asked for. *)
THEOREM RecvDelivers == Spec => []ReceivedWhatWasWanted
<1>1. IInv => ReceivedWhatWasWanted
    BY DEF IInv
<1> QED BY <1>1, Inductive, PTL

LEMMA SendConsumesOnce ==
    ASSUME IInv, NEW new \in SUBSET Bits, Send(new)
    PROVE  ConsumedOnce
<1>1. PICK w : w = Walk(new)[Len(suspend_thread)]
    OBVIOUS
<1>2. /\ set' = w.set /\ event_set' = w.got
      /\ stat' = [t \in Threads |-> IF t \in w.woken THEN "READY" ELSE stat[t]]
    BY <1>1 DEF Send
<1>3. WalkOK(w, Len(suspend_thread))
    BY <1>1, WalkInv DEF IInv
<1>4. /\ \A t \in w.woken : event_info[t].clear => w.got[t] \cap w.set = {}
      /\ \A t, u \in w.woken :
            t # u /\ event_info[t].clear /\ event_info[u].clear => w.got[t] \cap w.got[u] = {}
    BY <1>3 DEF WalkOK
<1>5. \A t \in Threads : WokenInStep(t) => t \in w.woken
    BY <1>2 DEF WokenInStep
<1> QED BY <1>2, <1>4, <1>5 DEF ConsumedOnce

(* Only rt_event_send resumes a thread without an error. *)
LEMMA OnlySendWakes ==
    ASSUME IInv, [Next]_vars, ~\E new \in NonEmpty : Send(new)
    PROVE  \A t \in Threads : ~WokenInStep(t)
<1> SUFFICES ASSUME NEW u \in Threads, WokenInStep(u) PROVE FALSE
    OBVIOUS
<1>0. stat[u] = "SUSPEND" /\ stat'[u] = "READY" /\ error'[u] = "EOK"
    BY DEF WokenInStep
<1>t. ThreadTypeOK /\ suspend_thread \in Seq(Threads)
    BY DEF IInv, TypeOK
<1>1. ASSUME NEW t \in Threads, NEW want, NEW option, NEW time, Recv(t, want, option, time)
      PROVE  FALSE
    <2>1. stat' = stat \/ stat' = [stat EXCEPT ![t] = "SUSPEND"]
        BY <1>1 DEF Recv, RecvNow, RecvNoWait, RecvBlock, Suspend
    <2> QED BY <1>0, <1>t, <2>1 DEF ThreadTypeOK
<1>2. CASE \E t \in Threads : RecvReturn(t)
    BY <1>0, <1>2 DEF RecvReturn, threadVars
<1>3. ASSUME NEW t \in Threads, Timeout(t) PROVE FALSE
    <2>1. stat' = [stat EXCEPT ![t] = "READY"] /\ error' = [error EXCEPT ![t] = "ETIMEOUT"]
        BY <1>3 DEF Timeout, TimeoutThread
    <2> QED BY <1>0, <1>t, <2>1 DEF ThreadTypeOK
<1>4. CASE Reset
    <2>1. /\ stat' = [t \in Threads |-> IF t \in ToSet(suspend_thread) THEN "READY" ELSE stat[t]]
          /\ error' = [t \in Threads |-> IF t \in ToSet(suspend_thread) THEN "ERROR" ELSE error[t]]
        BY <1>4 DEF Reset, ResumeAll
    <2> QED BY <1>0, <2>1
<1>5. CASE DetachBegin \/ DetachCheck \/ Reinit \/ UNCHANGED vars
    BY <1>0, <1>5 DEF DetachBegin, DetachCheck, Reinit, vars, threadVars
<1>6. CASE DetachResume
    <2>1. CASE suspend_thread = <<>>
        BY <1>0, <1>6, <2>1 DEF DetachResume, FlushFirst, threadVars
    <2>2. CASE suspend_thread # <<>>
        <3>1. PICK t : t = Head(suspend_thread)
            OBVIOUS
        <3>2. stat' = [stat EXCEPT ![t] = "READY"] /\ error' = [error EXCEPT ![t] = "ERROR"]
            BY <1>6, <2>2, <3>1 DEF DetachResume, FlushFirst, ResumeWithError
        <3> QED BY <1>0, <1>t, <3>2 DEF ThreadTypeOK
    <2> QED BY <2>1, <2>2
<1> QED BY <1>1, <1>2, <1>3, <1>4, <1>5, <1>6 DEF Next

(* Events sent once are consumed once: of the threads one rt_event_send    *)
(* resumes, two that clear never receive the same bit, and no bit that a   *)
(* clearing thread received is still set.                                  *)
THEOREM ConsumedAtMostOnce == Spec => ClearedBitsConsumedOnce
<1>1. IInv /\ [Next]_vars => [ConsumedOnce]_vars
    <2> SUFFICES ASSUME IInv, [Next]_vars PROVE ConsumedOnce
        OBVIOUS
    <2>1. CASE \E new \in NonEmpty : Send(new)
        BY <2>1, SendConsumesOnce DEF NonEmpty
    <2>2. CASE ~\E new \in NonEmpty : Send(new)
        BY <2>2, OnlySendWakes DEF ConsumedOnce
    <2> QED BY <2>1, <2>2
<1> QED BY <1>1, Inductive, PTL DEF Spec, ClearedBitsConsumedOnce
=============================================================================
