--------------------------- MODULE SchedulerProofs ---------------------------
(***************************************************************************)
(* The theorems about the scheduler and the life cycle of threads, for any *)
(* set of threads, priorities, time slices and depth of rt_enter_critical. *)
(*                                                                         *)
(* They need the restrictions that Scheduler calls Careful.                *)
(***************************************************************************)
EXTENDS Scheduler, ListProofs

-----------------------------------------------------------------------------
(* The ready table and what else a thread may be linked in, as a record.   *)
Queues ==
    [stat    : [Threads -> Stats],
     prio    : [Threads -> Priorities],
     ready   : [Priorities -> Seq(Threads)],
     group   : SUBSET Priorities,
     current : Threads \cup {NoThread},
     waiting : SUBSET Threads,
     defunct : Seq(Threads)]

(* Every list of the table holds the ready threads of its priority, once,  *)
(* but for those of D, which are between two lists; the bits tell which    *)
(* lists are not empty.                                                    *)
Linked(q, D) ==
    /\ \A p \in Priorities : IsInjective(q.ready[p])
    /\ \A p \in Priorities, t \in Threads :
          t \in ToSet(q.ready[p]) <=> q.stat[t] = "READY" /\ q.prio[t] = p /\ t \notin D
    /\ \A p \in Priorities : p \in q.group <=> q.ready[p] # <<>>
    /\ IsInjective(q.defunct)
    /\ \A t \in Threads : /\ t \in q.waiting => q.stat[t] = "SUSPEND"
                          /\ t \in ToSet(q.defunct) => q.stat[t] = "CLOSE"

OneRuns(q) == \A t \in Threads : q.stat[t] = "RUNNING" => t = q.current

(* How far the threads are in their calls, and what they wait for. *)
CallStates ==
    [pc      : [Threads -> Pcs],
     arg     : [Threads -> Threads \cup {NoThread}],
     timer   : [Threads -> BOOLEAN],
     dynamic : SUBSET Threads,
     lock    : Nat]

Here == [pc |-> pc, arg |-> arg, timer |-> timer, dynamic |-> dynamic, lock |-> lock_nest]

(* The threads that a rt_thread_delete has unlinked and not yet closed. *)
Between(c) == {t \in Threads : \E m \in Managers : c.arg[m] = t /\ c.pc[m] \in {"timer", "close"}}

(* Where thread t is in a call, against the thread a that the call is      *)
(* about: nobody else brings that thread to life, or to death, meanwhile.  *)
CallOK(q, c, t) ==
    LET at == c.pc[t]
        a  == c.arg[t]
    IN  /\ at \in {"run", "sched"} <=> a = NoThread
        /\ at \in {"unlink", "insert"} => q.stat[a] = "SUSPEND"
        /\ at = "suspend" => q.stat[a] = "READY" /\ q.current = t /\ c.lock > 0
        /\ at \in {"timer", "close"} => q.stat[a] \in {"INIT", "READY", "SUSPEND"} /\ c.arg[a] = NoThread
        /\ at \in {"unlink", "insert", "timer", "close"} => ~c.timer[a] /\ a \notin q.waiting
        /\ at \in {"defunct", "free"} => q.stat[a] = "CLOSE" /\ a \notin ToSet(q.defunct)
        /\ at = "free" => t = Idle /\ a \in c.dynamic
        /\ at \notin {"run", "sched", "free"} => t \in Managers /\ a \in Managed
        /\ a # q.current

(* A thread whose timer runs is suspended; one that is dead is in no call, *)
(* and if it was created it is not forgotten.                              *)
LifeOK(q, c, t) ==
    /\ c.timer[t] => q.stat[t] = "SUSPEND"
    /\ q.stat[t] \in {"NONE", "INIT", "CLOSE"} => c.arg[t] = NoThread
    /\ t \in ToSet(q.defunct) => t \in c.dynamic
    /\ t \in c.dynamic /\ q.stat[t] = "CLOSE" =>
          t \in ToSet(q.defunct) \/ \E u \in Threads : c.arg[u] = t

(* At most one call is about a thread. *)
OneCall(c) ==
    \A t, u \in Threads : c.arg[t] = c.arg[u] /\ c.arg[t] # NoThread => t = u

Sound(q, c) ==
    /\ q \in Queues /\ c \in CallStates
    /\ Linked(q, Between(c)) /\ OneRuns(q) /\ OneCall(c)
    /\ \A t \in Threads : CallOK(q, c, t) /\ LifeOK(q, c, t)
    /\ q.current \in Threads
    /\ q.stat[q.current] \in {"RUNNING", "SUSPEND", "CLOSE"}
    /\ q.stat[Idle] \in {"READY", "RUNNING"}

(* The thread that has the processor: unless it is on its way to           *)
(* rt_schedule or has locked it, it is runnable and the highest.           *)
Deserved(q, c, l) ==
    /\ q.stat[q.current] = "CLOSE" => c.pc[q.current] = "sched" /\ c.lock = 0
    /\ c.lock = 0 /\ c.pc[q.current] # "sched" =>
          /\ q.stat[q.current] = "RUNNING"
          /\ ~l => \A p \in q.group : q.prio[q.current] <= p

Ranges ==
    /\ slice \in [Threads -> Nat] /\ \A t \in Threads : slice[t] \in 1..Slice[t]
    /\ lock_nest \in 0..MaxNest
    /\ lazy \in BOOLEAN

IInv ==
    /\ Sound(RunQueue, Here)
    /\ Deserved(RunQueue, Here, lazy)
    /\ Ranges

-----------------------------------------------------------------------------
(* The constants and names that the proofs use. *)
LEMMA Names ==
    /\ IsFiniteSet(Threads) /\ NoThread \notin Threads
    /\ Idle \in Threads /\ Idle \notin Managers /\ Idle \notin Managed
    /\ Managers \subseteq Threads /\ Managed \subseteq Threads
    /\ Priorities \subseteq Nat /\ NewPriorities \subseteq Priorities
    /\ Priority \in [Threads -> Priorities]
    /\ Slice \in [Threads -> Nat \ {0}] /\ MaxNest \in Nat
BY SchedAssumption

(* What is left of a list is a list of threads. *)
LEMMA ListRemoveType ==
    ASSUME NEW list \in Seq(Threads), NEW t
    PROVE  ListRemove(list, t) \in Seq(Threads)
<1>1. CASE t \in ToSet(list)
    <2> DEFINE i == CHOOSE j \in DOMAIN list : list[j] = t
    <2>1. i \in DOMAIN list
        BY <1>1 DEF ToSet
    <2>2. ListRemove(list, t) = SubSeq(list, 1, i - 1) \o SubSeq(list, i + 1, Len(list))
        BY <1>1 DEF ListRemove, RemoveAt
    <2> HIDE DEF i
    <2>3. Len(list) \in Nat /\ DOMAIN list = 1..Len(list)
        BY LenProperties
    <2>4. SubSeq(list, 1, i - 1) \in Seq(Threads) /\ SubSeq(list, i + 1, Len(list)) \in Seq(Threads)
        BY <2>1, <2>3, SubSeqProperties
    <2> QED BY <2>2, <2>4, ConcatProperties
<1>2. CASE t \notin ToSet(list)
    BY <1>2 DEF ListRemove
<1> QED BY <1>1, <1>2

(* A list that is not empty has a head. *)
LEMMA HeadListed ==
    ASSUME NEW list \in Seq(Threads), list # <<>>
    PROVE  Head(list) \in Threads /\ Head(list) \in ToSet(list)
<1>1. Len(list) \in Nat \ {0} /\ DOMAIN list = 1..Len(list) /\ Head(list) = list[1]
    BY LenProperties, EmptySeq
<1> QED BY <1>1, ElementOfSeq DEF ToSet

(* thread->stat is assigned, and nothing else. *)
LEMMA SetStatFields ==
    ASSUME NEW q \in Queues, NEW t \in Threads, NEW s \in Stats
    PROVE  LET r == SetStat(q, t, s)
           IN  /\ r \in Queues
               /\ r.stat = [q.stat EXCEPT ![t] = s]
               /\ r.prio = q.prio /\ r.ready = q.ready /\ r.group = q.group
               /\ r.current = q.current /\ r.waiting = q.waiting /\ r.defunct = q.defunct
BY DEF SetStat, Queues

(* What rt_list_remove leaves of the lists. *)
LEMMA UnlinkFields ==
    ASSUME NEW q \in Queues, NEW t \in Threads
    PROVE  LET r == Unlink(q, t)
           IN  /\ r \in Queues
               /\ r.stat = q.stat /\ r.prio = q.prio /\ r.group = q.group
               /\ r.current = q.current
               /\ r.ready = [p \in Priorities |-> ListRemove(q.ready[p], t)]
               /\ r.waiting = q.waiting \ {t}
               /\ r.defunct = ListRemove(q.defunct, t)
<1> DEFINE r == Unlink(q, t)
           lists == [p \in Priorities |-> ListRemove(q.ready[p], t)]
<1>1. /\ q.ready \in [Priorities -> Seq(Threads)]
      /\ q.defunct \in Seq(Threads)
    BY DEF Queues
<1>2. r = [q EXCEPT !.ready = lists, !.waiting = q.waiting \ {t}, !.defunct = ListRemove(q.defunct, t)]
    BY DEF Unlink
<1>3. /\ lists \in [Priorities -> Seq(Threads)]
      /\ ListRemove(q.defunct, t) \in Seq(Threads)
    BY <1>1, ListRemoveType
<1>4. /\ r \in Queues
      /\ r.stat = q.stat /\ r.prio = q.prio /\ r.group = q.group
      /\ r.current = q.current
      /\ r.ready = lists
      /\ r.waiting = q.waiting \ {t}
      /\ r.defunct = ListRemove(q.defunct, t)
    <2> HIDE DEF lists, r
    <2> QED BY <1>2, <1>3 DEF Queues
<1> QED BY <1>4

(* The bits, the lists and the running thread are assigned. *)
LEMMA RemoveThreadFields ==
    ASSUME NEW q \in Queues, NEW t \in Threads
    PROVE  LET r == RemoveThread(q, t)
           IN  /\ r \in Queues
               /\ r.stat = q.stat /\ r.prio = q.prio /\ r.current = q.current
               /\ r.group = IF ToSet(q.ready[q.prio[t]]) \subseteq {t}
                            THEN q.group \ {q.prio[t]} ELSE q.group
               /\ r.ready = [p \in Priorities |-> ListRemove(q.ready[p], t)]
               /\ r.waiting = q.waiting \ {t}
               /\ r.defunct = ListRemove(q.defunct, t)
<1> DEFINE u == Unlink(q, t)
           bits == IF ToSet(q.ready[q.prio[t]]) \subseteq {t}
                   THEN q.group \ {q.prio[t]} ELSE q.group
           r == RemoveThread(q, t)
<1>1. /\ u \in Queues
      /\ u.stat = q.stat /\ u.prio = q.prio /\ u.group = q.group
      /\ u.current = q.current
      /\ u.ready = [p \in Priorities |-> ListRemove(q.ready[p], t)]
      /\ u.waiting = q.waiting \ {t}
      /\ u.defunct = ListRemove(q.defunct, t)
    BY UnlinkFields
<1>2. bits \subseteq Priorities
    BY DEF Queues
<1>3. r = [u EXCEPT !.group = bits]
    BY <1>1 DEF RemoveThread
<1>4. /\ r \in Queues
      /\ r.stat = u.stat /\ r.prio = u.prio /\ r.current = u.current
      /\ r.group = bits /\ r.ready = u.ready
      /\ r.waiting = u.waiting /\ r.defunct = u.defunct
    <2> HIDE DEF bits, r, u
    <2> QED BY <1>1, <1>2, <1>3 DEF Queues
<1> QED
    <2> HIDE DEF u
    <2> QED BY <1>1, <1>4

LEMMA InsertThreadFields ==
    ASSUME NEW q \in Queues, NEW t \in Threads
    PROVE  LET r == InsertThread(q, t)
           IN  /\ r \in Queues
               /\ r.prio = q.prio /\ r.current = q.current
               /\ r.waiting = q.waiting /\ r.defunct = q.defunct
               /\ t = q.current => /\ r.stat = [q.stat EXCEPT ![t] = "RUNNING"]
                                   /\ r.ready = q.ready /\ r.group = q.group
               /\ t # q.current =>
                    /\ r.stat = [q.stat EXCEPT ![t] = "READY"]
                    /\ r.ready = [q.ready EXCEPT ![q.prio[t]] = Append(q.ready[q.prio[t]], t)]
                    /\ r.group = q.group \cup {q.prio[t]}
<1>1. CASE t = q.current
    BY <1>1, SetStatFields DEF InsertThread, Stats
<1>2. CASE t # q.current
    <2> DEFINE u == SetStat(q, t, "READY")
               list == Append(q.ready[q.prio[t]], t)
               r == [u EXCEPT !.ready[q.prio[t]] = Append(@, t),
                              !.group = @ \cup {q.prio[t]}]
    <2>1. /\ u \in Queues
          /\ u.stat = [q.stat EXCEPT ![t] = "READY"]
          /\ u.prio = q.prio /\ u.ready = q.ready /\ u.group = q.group
          /\ u.current = q.current /\ u.waiting = q.waiting /\ u.defunct = q.defunct
        BY SetStatFields DEF Stats
    <2>2. q.prio[t] \in Priorities /\ q.ready[q.prio[t]] \in Seq(Threads)
        BY DEF Queues
    <2>3. list \in Seq(Threads)
        BY <2>2, AppendProperties
    <2>4. InsertThread(q, t) = r
        BY <1>2 DEF InsertThread
    <2>5. r = [u EXCEPT !.ready = [u.ready EXCEPT ![q.prio[t]] = Append(u.ready[q.prio[t]], t)],
                        !.group = u.group \cup {q.prio[t]}]
        <3> HIDE DEF u
        <3> QED OBVIOUS
    <2>6. r = [u EXCEPT !.ready = [q.ready EXCEPT ![q.prio[t]] = list],
                        !.group = q.group \cup {q.prio[t]}]
        BY <2>1, <2>5
    <2>7. [q.ready EXCEPT ![q.prio[t]] = list] \in [Priorities -> Seq(Threads)]
        <3> HIDE DEF list
        <3> QED BY <2>2, <2>3 DEF Queues
    <2>8. /\ r \in Queues
          /\ r.stat = u.stat /\ r.prio = u.prio /\ r.current = u.current
          /\ r.ready = [q.ready EXCEPT ![q.prio[t]] = list]
          /\ r.group = q.group \cup {q.prio[t]}
          /\ r.waiting = u.waiting /\ r.defunct = u.defunct
        <3> DEFINE lists == [q.ready EXCEPT ![q.prio[t]] = list]
                   bits == q.group \cup {q.prio[t]}
        <3>1. bits \subseteq Priorities
            BY <2>2 DEF Queues
        <3>2. lists \in [Priorities -> Seq(Threads)] /\ r = [u EXCEPT !.ready = lists, !.group = bits]
            BY <2>6, <2>7
        <3> HIDE DEF lists, bits, r, u
        <3>3. /\ r \in Queues
              /\ r.stat = u.stat /\ r.prio = u.prio /\ r.current = u.current
              /\ r.ready = lists /\ r.group = bits
              /\ r.waiting = u.waiting /\ r.defunct = u.defunct
            BY <2>1, <3>1, <3>2 DEF Queues
        <3> QED BY <3>3 DEF lists, bits
    <2> HIDE DEF r, u
    <2> QED BY <1>2, <2>1, <2>4, <2>8
<1> QED BY <1>1, <1>2

-----------------------------------------------------------------------------
(* The operations keep the table in agreement with the threads.            *)

(* A thread in no ready list is out of none after rt_list_remove. *)
LEMMA UnlinkLinked ==
    ASSUME NEW q \in Queues, NEW D, Linked(q, D), NEW t \in Threads,
           q.stat[t] # "READY" \/ t \in D
    PROVE  Linked(Unlink(q, t), D) /\ Unlink(q, t).ready = q.ready
<1> DEFINE r == Unlink(q, t)
<1>1. /\ r \in Queues
      /\ r.stat = q.stat /\ r.prio = q.prio /\ r.group = q.group
      /\ r.ready = [p \in Priorities |-> ListRemove(q.ready[p], t)]
      /\ r.waiting = q.waiting \ {t}
      /\ r.defunct = ListRemove(q.defunct, t)
    BY UnlinkFields
<1>2. \A p \in Priorities : t \notin ToSet(q.ready[p])
    BY DEF Linked
<1>3. \A p \in Priorities : ListRemove(q.ready[p], t) = q.ready[p]
    BY <1>2 DEF ListRemove
<1>4. r.ready = q.ready
    BY <1>1, <1>3 DEF Queues
<1>5. q.defunct \in Seq(Threads) /\ IsInjective(q.defunct)
    BY DEF Queues, Linked
<1>6. IsInjective(r.defunct) /\ ToSet(r.defunct) = ToSet(q.defunct) \ {t}
    BY <1>1, <1>5, ListRemoveAny
<1> HIDE DEF r
<1>7. Linked(r, D)
    BY <1>1, <1>4, <1>6 DEF Linked
<1> QED BY <1>4, <1>7 DEF r

(* rt_schedule_remove_thread takes the thread out of the table. *)
LEMMA RemoveLinked ==
    ASSUME NEW q \in Queues, NEW D, Linked(q, D), NEW t \in Threads
    PROVE  Linked(RemoveThread(q, t), D \cup {t})
<1> DEFINE r == RemoveThread(q, t)
           pt == q.prio[t]
<1>1. /\ r \in Queues
      /\ r.stat = q.stat /\ r.prio = q.prio
      /\ r.group = IF ToSet(q.ready[pt]) \subseteq {t} THEN q.group \ {pt} ELSE q.group
      /\ r.ready = [p \in Priorities |-> ListRemove(q.ready[p], t)]
      /\ r.waiting = q.waiting \ {t}
      /\ r.defunct = ListRemove(q.defunct, t)
    BY RemoveThreadFields
<1>2. pt \in Priorities /\ \A p \in Priorities : q.ready[p] \in Seq(Threads) /\ IsInjective(q.ready[p])
    BY DEF Queues, Linked
<1>3. ASSUME NEW p \in Priorities
      PROVE  /\ IsInjective(r.ready[p]) /\ ToSet(r.ready[p]) = ToSet(q.ready[p]) \ {t}
             /\ q.ready[p] = <<>> => r.ready[p] = <<>>
             /\ r.ready[p] \in Seq(Threads)
    <2>1. r.ready[p] = ListRemove(q.ready[p], t)
        BY <1>1
    <2> QED BY <1>2, <2>1, ListRemoveAny
<1>4. q.defunct \in Seq(Threads) /\ IsInjective(q.defunct)
    BY DEF Queues, Linked
<1>5. IsInjective(r.defunct) /\ ToSet(r.defunct) = ToSet(q.defunct) \ {t}
    BY <1>1, <1>4, ListRemoveAny
<1>6. ASSUME NEW p \in Priorities, p # pt
      PROVE  p \in r.group <=> r.ready[p] # <<>>
    <2>1. t \notin ToSet(q.ready[p])
        BY <1>6 DEF Linked
    <2>2. r.ready[p] = q.ready[p]
        BY <1>1, <2>1 DEF ListRemove
    <2>3. p \in r.group <=> p \in q.group
        BY <1>1, <1>6
    <2> QED BY <2>2, <2>3 DEF Linked
<1>7. pt \in r.group <=> r.ready[pt] # <<>>
    <2>1. ToSet(r.ready[pt]) = ToSet(q.ready[pt]) \ {t} /\ r.ready[pt] \in Seq(Threads)
        BY <1>2, <1>3
    <2>2. r.ready[pt] = <<>> <=> ToSet(r.ready[pt]) = {}
        BY <2>1, EmptyList, HeadListed
    <2>3. CASE ToSet(q.ready[pt]) \subseteq {t}
        <3>1. r.ready[pt] = <<>>
            BY <2>1, <2>2, <2>3
        <3>2. pt \notin r.group
            BY <1>1, <2>3
        <3> QED BY <3>1, <3>2
    <2>4. CASE ~(ToSet(q.ready[pt]) \subseteq {t})
        <3>1. r.ready[pt] # <<>>
            BY <2>1, <2>2, <2>4
        <3>2. q.ready[pt] # <<>>
            BY <2>4, EmptyList
        <3>3. pt \in r.group
            BY <1>1, <1>2, <2>4, <3>2 DEF Linked
        <3> QED BY <3>1, <3>3
    <2> QED BY <2>3, <2>4
<1> HIDE DEF r
<1>8. \A p \in Priorities, u \in Threads :
         u \in ToSet(r.ready[p]) <=> r.stat[u] = "READY" /\ r.prio[u] = p /\ u \notin D \cup {t}
    BY <1>1, <1>3 DEF Linked
<1>9. \A u \in Threads : /\ u \in r.waiting => r.stat[u] = "SUSPEND"
                         /\ u \in ToSet(r.defunct) => r.stat[u] = "CLOSE"
    BY <1>1, <1>5 DEF Linked
<1>10. \A p \in Priorities : p \in r.group <=> r.ready[p] # <<>>
    BY <1>6, <1>7
<1>11. Linked(r, D \cup {t})
    BY <1>3, <1>5, <1>8, <1>9, <1>10 DEF Linked
<1> QED BY <1>11 DEF r

(* A thread that is in no list gets another state. *)
LEMMA SetStatLinked ==
    ASSUME NEW q \in Queues, NEW D, Linked(q, D), NEW t \in Threads, NEW s \in Stats,
           q.stat[t] # "READY" \/ t \in D, s # "READY",
           t \in q.waiting => s = "SUSPEND",
           t \in ToSet(q.defunct) => s = "CLOSE"
    PROVE  Linked(SetStat(q, t, s), D) /\ Linked(SetStat(q, t, s), D \ {t})
<1> DEFINE r == SetStat(q, t, s)
<1>1. /\ r \in Queues
      /\ r.stat = [q.stat EXCEPT ![t] = s]
      /\ r.prio = q.prio /\ r.ready = q.ready /\ r.group = q.group
      /\ r.current = q.current /\ r.waiting = q.waiting /\ r.defunct = q.defunct
    BY SetStatFields
<1>2. r.stat[t] = s /\ \A u \in Threads : u # t => r.stat[u] = q.stat[u]
    BY <1>1 DEF Queues
<1>3. \A p \in Priorities : t \notin ToSet(q.ready[p])
    BY DEF Linked
<1> HIDE DEF r
<1>4. \A p \in Priorities, u \in Threads :
         /\ u \in ToSet(r.ready[p]) <=> r.stat[u] = "READY" /\ r.prio[u] = p /\ u \notin D
         /\ u \in ToSet(r.ready[p]) <=> r.stat[u] = "READY" /\ r.prio[u] = p /\ u \notin D \ {t}
    BY <1>1, <1>2, <1>3 DEF Linked
<1>5. \A u \in Threads : /\ u \in r.waiting => r.stat[u] = "SUSPEND"
                         /\ u \in ToSet(r.defunct) => r.stat[u] = "CLOSE"
    BY <1>1, <1>2 DEF Linked
<1>6. Linked(r, D) /\ Linked(r, D \ {t})
    BY <1>1, <1>4, <1>5 DEF Linked
<1> QED BY <1>6 DEF r

(* Whether a thread that is not ready is between two lists is no matter. *)
LEMMA LinkedAgree ==
    ASSUME NEW q \in Queues, NEW D, NEW E, Linked(q, D),
           \A u \in Threads : q.stat[u] = "READY" => (u \in D <=> u \in E)
    PROVE  Linked(q, E)
<1>1. \A p \in Priorities, t \in Threads :
         t \in ToSet(q.ready[p]) <=> q.stat[t] = "READY" /\ q.prio[t] = p /\ t \notin E
    BY DEF Linked
<1> QED BY <1>1 DEF Linked

(* The table does not depend on who runs. *)
LEMMA CurrentFields ==
    ASSUME NEW q \in Queues, NEW t \in Threads
    PROVE  LET r == [q EXCEPT !.current = t]
           IN  /\ r \in Queues
               /\ r.stat = q.stat /\ r.prio = q.prio /\ r.ready = q.ready /\ r.group = q.group
               /\ r.current = t /\ r.waiting = q.waiting /\ r.defunct = q.defunct
               /\ \A D : Linked(q, D) => Linked(r, D)
<1> DEFINE r == [q EXCEPT !.current = t]
<1>1. /\ r \in Queues
      /\ r.stat = q.stat /\ r.prio = q.prio /\ r.ready = q.ready /\ r.group = q.group
      /\ r.current = t /\ r.waiting = q.waiting /\ r.defunct = q.defunct
    BY DEF Queues
<1> HIDE DEF r
<1>2. ASSUME NEW D, Linked(q, D) PROVE Linked(r, D)
    BY <1>1, <1>2 DEF Linked
<1> QED BY <1>1, <1>2 DEF r

(* rt_schedule_insert_thread puts a thread that was in no list at the tail *)
(* of that of its priority.                                                *)
LEMMA InsertLinked ==
    ASSUME NEW q \in Queues, NEW D, Linked(q, D), NEW t \in Threads,
           q.stat[t] # "READY" \/ t \in D, t \notin q.waiting, t \notin ToSet(q.defunct)
    PROVE  Linked(InsertThread(q, t), D \ {t})
<1>1. CASE t = q.current
    <2>1. InsertThread(q, t) = SetStat(q, t, "RUNNING")
        BY <1>1 DEF InsertThread
    <2>2. "RUNNING" \in Stats /\ "RUNNING" # "READY"
        BY DEF Stats
    <2> QED BY <2>1, <2>2, SetStatLinked
<1>2. CASE t # q.current
    <2> DEFINE r == InsertThread(q, t)
               pt == q.prio[t]
    <2>1. /\ r \in Queues
          /\ r.prio = q.prio /\ r.waiting = q.waiting /\ r.defunct = q.defunct
          /\ r.stat = [q.stat EXCEPT ![t] = "READY"]
          /\ r.ready = [q.ready EXCEPT ![pt] = Append(q.ready[pt], t)]
          /\ r.group = q.group \cup {pt}
        BY <1>2, InsertThreadFields
    <2>2. pt \in Priorities /\ q.ready[pt] \in Seq(Threads) /\ IsInjective(q.ready[pt])
        BY DEF Queues, Linked
    <2>3. \A p \in Priorities : t \notin ToSet(q.ready[p])
        BY DEF Linked
    <2>4. /\ Append(q.ready[pt], t) # <<>>
          /\ ToSet(Append(q.ready[pt], t)) = ToSet(q.ready[pt]) \cup {t}
          /\ IsInjective(Append(q.ready[pt], t))
        BY <2>2, <2>3, AppendList, AppendProperties
    <2>5. r.ready[pt] = Append(q.ready[pt], t) /\ \A p \in Priorities : p # pt => r.ready[p] = q.ready[p]
        BY <2>1, <2>2 DEF Queues
    <2>6. r.stat[t] = "READY" /\ \A u \in Threads : u # t => r.stat[u] = q.stat[u]
        BY <2>1 DEF Queues
    <2> HIDE DEF r
    <2>7. ASSUME NEW p \in Priorities
          PROVE  /\ IsInjective(r.ready[p])
                 /\ p \in r.group <=> r.ready[p] # <<>>
        BY <2>1, <2>4, <2>5 DEF Linked
    <2>8. ASSUME NEW p \in Priorities, NEW u \in Threads
          PROVE  u \in ToSet(r.ready[p]) <=> r.stat[u] = "READY" /\ r.prio[u] = p /\ u \notin D \ {t}
        <3>1. CASE u = t
            BY <2>1, <2>3, <2>4, <2>5, <2>6, <3>1
        <3>2. CASE u # t
            <4>1. u \in ToSet(r.ready[p]) <=> u \in ToSet(q.ready[p])
                BY <2>4, <2>5, <3>2
            <4> QED BY <2>1, <2>6, <3>2, <4>1 DEF Linked
        <3> QED BY <3>1, <3>2
    <2>9. \A u \in Threads : /\ u \in r.waiting => r.stat[u] = "SUSPEND"
                             /\ u \in ToSet(r.defunct) => r.stat[u] = "CLOSE"
        BY <2>1, <2>6 DEF Linked
    <2>10. Linked(r, D \ {t})
        BY <2>1, <2>7, <2>8, <2>9 DEF Linked
    <2> QED BY <2>10 DEF r
<1> QED BY <1>1, <1>2

(* _get_highest_priority_thread finds a ready thread: a set bit has a list *)
(* that is not empty.                                                      *)
LEMMA HighestFacts ==
    ASSUME NEW q \in Queues, NEW D, Linked(q, D), q.group # {}
    PROVE  /\ Highest(q) \in Threads /\ q.stat[Highest(q)] = "READY" /\ Highest(q) \notin D
           /\ q.prio[Highest(q)] = Min(q.group)
           /\ Min(q.group) \in Priorities
           /\ \A p \in q.group : Min(q.group) <= p
<1>1. q.group \subseteq Nat /\ q.group \subseteq Priorities
    BY Names DEF Queues
<1>2. PICK p \in q.group : p = Min(q.group) /\ \A n \in q.group : p <= n
    BY <1>1, MinOfNat
<1>3. p \in Priorities /\ q.ready[p] \in Seq(Threads) /\ q.ready[p] # <<>>
    BY <1>1, <1>2 DEF Linked, Queues
<1>4. Highest(q) = Head(q.ready[p])
    BY <1>2, <1>3 DEF Highest
<1>5. Highest(q) \in Threads /\ Highest(q) \in ToSet(q.ready[p])
    BY <1>3, <1>4, HeadListed
<1>6. q.stat[Highest(q)] = "READY" /\ q.prio[Highest(q)] = p /\ Highest(q) \notin D
    BY <1>3, <1>5 DEF Linked
<1> QED BY <1>2, <1>3, <1>5, <1>6

(* rt_schedule switches to a ready thread. *)
LEMMA SwitchFacts ==
    ASSUME NEW q \in Queues, NEW D, Linked(q, D), NEW to \in Threads,
           q.stat[to] = "READY", to \notin D
    PROVE  LET r == SwitchTo(q, to)
           IN  /\ r \in Queues /\ Linked(r, D)
               /\ r.stat = [q.stat EXCEPT ![to] = "RUNNING"]
               /\ r.prio = q.prio /\ r.current = to
               /\ r.waiting = q.waiting /\ r.defunct = q.defunct
               /\ r.group \subseteq q.group
<1> DEFINE c == [q EXCEPT !.current = to]
           u == RemoveThread(c, to)
           r == SetStat(u, to, "RUNNING")
<1>1. /\ c \in Queues
      /\ c.stat = q.stat /\ c.prio = q.prio /\ c.ready = q.ready /\ c.group = q.group
      /\ c.current = to /\ c.waiting = q.waiting /\ c.defunct = q.defunct
      /\ Linked(c, D)
    BY CurrentFields
<1>2. /\ u \in Queues
      /\ u.stat = c.stat /\ u.prio = c.prio /\ u.current = c.current
      /\ u.group \subseteq c.group
      /\ u.waiting = c.waiting \ {to}
      /\ u.defunct = ListRemove(c.defunct, to)
      /\ Linked(u, D \cup {to})
    <2> HIDE DEF c
    <2>0. c \in Queues
        BY <1>1
    <2>1. /\ u \in Queues
          /\ u.stat = c.stat /\ u.prio = c.prio /\ u.current = c.current
          /\ u.group = IF ToSet(c.ready[c.prio[to]]) \subseteq {to}
                       THEN c.group \ {c.prio[to]} ELSE c.group
          /\ u.waiting = c.waiting \ {to}
          /\ u.defunct = ListRemove(c.defunct, to)
        BY <2>0, RemoveThreadFields
    <2>2. Linked(u, D \cup {to})
        BY <1>1, RemoveLinked
    <2>3. u.group \subseteq c.group
        BY <2>1
    <2> QED BY <2>1, <2>2, <2>3
<1>3. to \notin q.waiting /\ to \notin ToSet(q.defunct)
    BY DEF Linked
<1>4. u.waiting = q.waiting /\ u.defunct = q.defunct
    <2> HIDE DEF c, u
    <2> QED BY <1>1, <1>2, <1>3 DEF ListRemove
<1>5. "RUNNING" \in Stats /\ "RUNNING" # "READY"
    BY DEF Stats
<1>6. /\ r \in Queues
      /\ r.stat = [u.stat EXCEPT ![to] = "RUNNING"]
      /\ r.prio = u.prio /\ r.group = u.group
      /\ r.current = u.current /\ r.waiting = u.waiting /\ r.defunct = u.defunct
    <2> HIDE DEF u
    <2> QED BY <1>2, <1>5, SetStatFields
<1>7. Linked(r, (D \cup {to}) \ {to})
    <2> HIDE DEF u
    <2>1. to \in D \cup {to} /\ to \notin u.waiting /\ to \notin ToSet(u.defunct)
        BY <1>3, <1>4
    <2> QED BY <1>2, <1>5, <2>1, SetStatLinked
<1>8. (D \cup {to}) \ {to} = D
    OBVIOUS
<1>9. SwitchTo(q, to) = r
    BY Names DEF SwitchTo
<1> HIDE DEF c, u, r
<1> QED BY <1>1, <1>2, <1>4, <1>6, <1>7, <1>8, <1>9

(* A thread is taken out of the table. *)
LEMMA RemovedFacts ==
    ASSUME NEW q \in Queues, NEW D, Linked(q, D), NEW t \in Threads
    PROVE  LET u == RemoveThread(q, t)
           IN  /\ u \in Queues /\ Linked(u, D \cup {t})
               /\ u.stat = q.stat /\ u.prio = q.prio /\ u.current = q.current
               /\ u.group \subseteq q.group
               /\ u.waiting = q.waiting \ {t} /\ ToSet(u.defunct) = ToSet(q.defunct) \ {t}
<1> DEFINE u == RemoveThread(q, t)
<1>1. /\ u \in Queues
      /\ u.stat = q.stat /\ u.prio = q.prio /\ u.current = q.current
      /\ u.group = IF ToSet(q.ready[q.prio[t]]) \subseteq {t}
                   THEN q.group \ {q.prio[t]} ELSE q.group
      /\ u.waiting = q.waiting \ {t} /\ u.defunct = ListRemove(q.defunct, t)
    BY RemoveThreadFields
<1>2. Linked(u, D \cup {t})
    BY RemoveLinked
<1> HIDE DEF u
<1>3. u.group \subseteq q.group
    BY <1>1
<1>4. q.defunct \in Seq(Threads) /\ IsInjective(q.defunct)
    BY DEF Queues, Linked
<1>5. ToSet(u.defunct) = ToSet(q.defunct) \ {t}
    BY <1>1, <1>4, ListRemoveAny
<1> QED BY <1>1, <1>2, <1>3, <1>5 DEF u

(* A thread is taken out of the table and is ready no more. *)
LEMMA LeavesFacts ==
    ASSUME NEW q \in Queues, NEW D, Linked(q, D), NEW t \in Threads, NEW s \in Stats,
           s # "READY"
    PROVE  LET r == SetStat(RemoveThread(q, t), t, s)
           IN  /\ r \in Queues /\ Linked(r, D \ {t})
               /\ r.stat = [q.stat EXCEPT ![t] = s] /\ r.prio = q.prio
               /\ r.current = q.current /\ r.group \subseteq q.group
               /\ r.waiting = q.waiting \ {t} /\ ToSet(r.defunct) = ToSet(q.defunct) \ {t}
<1> DEFINE u == RemoveThread(q, t)
           r == SetStat(u, t, s)
<1>1. /\ u \in Queues /\ Linked(u, D \cup {t})
      /\ u.stat = q.stat /\ u.prio = q.prio /\ u.current = q.current
      /\ u.group \subseteq q.group
      /\ u.waiting = q.waiting \ {t} /\ ToSet(u.defunct) = ToSet(q.defunct) \ {t}
    BY RemovedFacts
<1> HIDE DEF u
<1>2. /\ r \in Queues
      /\ r.stat = [u.stat EXCEPT ![t] = s] /\ r.prio = u.prio /\ r.group = u.group
      /\ r.current = u.current /\ r.waiting = u.waiting /\ r.defunct = u.defunct
    BY <1>1, SetStatFields
<1>3. Linked(r, (D \cup {t}) \ {t})
    <2>1. t \in D \cup {t} /\ t \notin u.waiting /\ t \notin ToSet(u.defunct)
        BY <1>1
    <2> QED BY <1>1, <2>1, SetStatLinked
<1>4. (D \cup {t}) \ {t} = D \ {t}
    OBVIOUS
<1> HIDE DEF r
<1>5. /\ r \in Queues /\ Linked(r, D \ {t})
      /\ r.stat = [q.stat EXCEPT ![t] = s] /\ r.prio = q.prio
      /\ r.current = q.current /\ r.group \subseteq q.group
      /\ r.waiting = q.waiting \ {t} /\ ToSet(r.defunct) = ToSet(q.defunct) \ {t}
    BY <1>1, <1>2, <1>3, <1>4
<1> QED BY <1>5 DEF r, u

(* A closed thread is put into the defunct list. *)
LEMMA DefunctFacts ==
    ASSUME NEW q \in Queues, NEW D, Linked(q, D), NEW t \in Threads,
           q.stat[t] = "CLOSE", t \notin ToSet(q.defunct)
    PROVE  LET r == [q EXCEPT !.defunct = <<t>> \o @]
           IN  /\ r \in Queues /\ Linked(r, D)
               /\ r.stat = q.stat /\ r.prio = q.prio /\ r.ready = q.ready /\ r.group = q.group
               /\ r.current = q.current /\ r.waiting = q.waiting
               /\ ToSet(r.defunct) = ToSet(q.defunct) \cup {t}
<1> DEFINE list == <<t>> \o q.defunct
           r == [q EXCEPT !.defunct = <<t>> \o @]
<1>1. q.defunct \in Seq(Threads) /\ IsInjective(q.defunct)
    BY DEF Queues, Linked
<1>2. /\ list \in Seq(Threads) /\ IsInjective(list)
      /\ ToSet(list) = ToSet(q.defunct) \cup {t}
    BY <1>1, PrependList
<1>3. r = [q EXCEPT !.defunct = list]
    OBVIOUS
<1> HIDE DEF list
<1>4. /\ r \in Queues
      /\ r.stat = q.stat /\ r.prio = q.prio /\ r.ready = q.ready /\ r.group = q.group
      /\ r.current = q.current /\ r.waiting = q.waiting /\ r.defunct = list
    <2> HIDE DEF r
    <2> QED BY <1>2, <1>3 DEF Queues
<1> HIDE DEF r
<1>5. \A u \in Threads : /\ u \in r.waiting => r.stat[u] = "SUSPEND"
                         /\ u \in ToSet(r.defunct) => r.stat[u] = "CLOSE"
    BY <1>2, <1>4 DEF Linked
<1>6. Linked(r, D)
    BY <1>2, <1>4, <1>5 DEF Linked
<1> QED BY <1>2, <1>4, <1>6 DEF r

(* What rt_schedule is called with, and what it leaves: the threads it     *)
(* moves between READY and RUNNING, and the highest of them runs.          *)
Schedulable(q, D) ==
    /\ q \in Queues /\ Linked(q, D) /\ OneRuns(q)
    /\ q.current \in Threads \ D
    /\ q.stat[q.current] # "READY"
    /\ q.stat[Idle] \in {"READY", "RUNNING"} /\ Idle \notin D

HighestHere(q) ==
    /\ q.stat[q.current] = "RUNNING"
    /\ \A p \in q.group : q.prio[q.current] <= p

SameLife(q, r) ==
    \A u \in Threads : \/ r.stat[u] = q.stat[u]
                       \/ r.stat[u] \in {"READY", "RUNNING"} /\ q.stat[u] \in {"READY", "RUNNING"}

LEMMA ScheduledFacts ==
    ASSUME NEW q, NEW D, Schedulable(q, D)
    PROVE  LET r == Scheduled(q)
           IN  /\ r \in Queues /\ Linked(r, D) /\ OneRuns(r)
               /\ r.current \in Threads
               /\ r.prio = q.prio /\ r.waiting = q.waiting /\ r.defunct = q.defunct
               /\ SameLife(q, r)
               /\ r.current # q.current => q.stat[r.current] = "READY" /\ r.current \notin D
               /\ lock_nest # 0 => r = q
               /\ lock_nest = 0 => HighestHere(r)
<1> DEFINE from == q.current
           r == Scheduled(q)
           Good == /\ r \in Queues /\ Linked(r, D) /\ OneRuns(r)
                   /\ r.current \in Threads
                   /\ r.prio = q.prio /\ r.waiting = q.waiting /\ r.defunct = q.defunct
                   /\ SameLife(q, r)
                   /\ r.current # q.current => q.stat[r.current] = "READY" /\ r.current \notin D
                   /\ HighestHere(r)
<1>0. /\ q \in Queues /\ Linked(q, D) /\ OneRuns(q) /\ from \in Threads \ D
      /\ q.stat[from] # "READY" /\ q.stat[Idle] \in {"READY", "RUNNING"} /\ Idle \notin D
    BY DEF Schedulable
<1>1. CASE lock_nest # 0
    <2>1. r = q
        BY <1>1 DEF Scheduled
    <2>2. SameLife(q, q)
        BY DEF SameLife
    <2> QED BY <1>0, <1>1, <2>1, <2>2
<1>2. CASE lock_nest = 0 /\ q.group = {}
    <2>1. r = q
        BY <1>2 DEF Scheduled
    <2>2. SameLife(q, q)
        BY DEF SameLife
    <2>3. Idle \in Threads /\ q.prio[Idle] \in Priorities
        BY <1>0, Names DEF Queues
    <2>4. q.stat[Idle] # "READY"
        <3>1. SUFFICES ASSUME q.stat[Idle] = "READY" PROVE FALSE
            OBVIOUS
        <3>2. Idle \in ToSet(q.ready[q.prio[Idle]])
            BY <1>0, <2>3, <3>1 DEF Linked
        <3>3. q.ready[q.prio[Idle]] # <<>>
            BY <3>2, EmptyList
        <3> QED BY <1>0, <1>2, <2>3, <3>3 DEF Linked
    <2>5. q.stat[from] = "RUNNING"
        BY <1>0, <2>3, <2>4 DEF OneRuns
    <2>6. HighestHere(q)
        BY <1>2, <2>5 DEF HighestHere
    <2> QED BY <1>0, <1>2, <2>1, <2>2, <2>6
<1>3. CASE lock_nest = 0 /\ q.group # {}
    <2> DEFINE to == Highest(q)
    <2>1. /\ to \in Threads /\ q.stat[to] = "READY" /\ to \notin D
          /\ q.prio[to] = Min(q.group)
          /\ Min(q.group) \in Priorities
          /\ \A p \in q.group : q.prio[to] <= p
        BY <1>0, <1>3, HighestFacts
    <2>2. CASE q.stat[from] # "RUNNING"
        <3>1. r = SwitchTo(q, to)
            BY <1>3, <2>2 DEF Scheduled
        <3>2. /\ r \in Queues /\ Linked(r, D)
              /\ r.stat = [q.stat EXCEPT ![to] = "RUNNING"]
              /\ r.prio = q.prio /\ r.current = to
              /\ r.waiting = q.waiting /\ r.defunct = q.defunct
              /\ r.group \subseteq q.group
            <4> HIDE DEF to, r
            <4> QED BY <1>0, <2>1, <3>1, SwitchFacts
        <3> HIDE DEF r, to
        <3>3. r.stat[to] = "RUNNING" /\ \A u \in Threads : u # to => r.stat[u] = q.stat[u]
            BY <1>0, <2>1, <3>2 DEF Queues
        <3>4. OneRuns(r)
            BY <1>0, <2>2, <3>2, <3>3 DEF OneRuns
        <3>5. SameLife(q, r)
            BY <2>1, <3>3 DEF SameLife
        <3>6. HighestHere(r)
            BY <2>1, <3>2, <3>3 DEF HighestHere
        <3>7. Good
            BY <2>1, <3>2, <3>4, <3>5, <3>6
        <3> QED BY <1>3, <3>7 DEF r
    <2>3. CASE q.stat[from] = "RUNNING" /\ q.prio[from] < Min(q.group)
        <3>1. r = RemoveThread(q, from)
            BY <1>3, <2>3 DEF Scheduled
        <3>2. /\ r \in Queues
              /\ r.stat = q.stat /\ r.prio = q.prio /\ r.current = q.current
              /\ r.waiting = q.waiting \ {from}
              /\ r.defunct = ListRemove(q.defunct, from)
              /\ r.group \subseteq q.group
            <4>1. /\ r \in Queues
                  /\ r.stat = q.stat /\ r.prio = q.prio /\ r.current = q.current
                  /\ r.group = IF ToSet(q.ready[q.prio[from]]) \subseteq {from}
                               THEN q.group \ {q.prio[from]} ELSE q.group
                  /\ r.waiting = q.waiting \ {from}
                  /\ r.defunct = ListRemove(q.defunct, from)
                <5> HIDE DEF from, r
                <5> QED BY <1>0, <3>1, RemoveThreadFields
            <4>2. r.group \subseteq q.group
                <5> HIDE DEF r
                <5> QED BY <4>1
            <4> QED BY <4>1, <4>2
        <3>3. Linked(r, D \cup {from})
            <4> HIDE DEF r, from
            <4> QED BY <1>0, <3>1, RemoveLinked
        <3> HIDE DEF r, to
        <3>4. Linked(r, D)
            <4>1. \A u \in Threads : r.stat[u] = "READY" => (u \in D \cup {from} <=> u \in D)
                BY <1>0, <3>2
            <4> QED BY <3>2, <3>3, <4>1, LinkedAgree
        <3>5. from \notin q.waiting /\ from \notin ToSet(q.defunct)
            BY <1>0, <2>3 DEF Linked
        <3>6. r.waiting = q.waiting /\ r.defunct = q.defunct
            BY <3>2, <3>5 DEF ListRemove
        <3>7. OneRuns(r)
            BY <1>0, <3>2 DEF OneRuns
        <3>8. SameLife(q, r)
            BY <3>2 DEF SameLife
        <3>9. HighestHere(r)
            <4>1. q.prio[from] \in Nat /\ Min(q.group) \in Nat /\ q.group \subseteq Nat
                BY <1>0, <2>1, Names DEF Queues
            <4>2. \A p \in q.group : q.prio[from] <= p
                BY <2>1, <2>3, <4>1
            <4> QED BY <2>3, <3>2, <4>2 DEF HighestHere
        <3>10. Good
            BY <1>0, <3>2, <3>4, <3>6, <3>7, <3>8, <3>9
        <3> QED BY <1>3, <3>10 DEF r
    <2>4. CASE q.stat[from] = "RUNNING" /\ ~(q.prio[from] < Min(q.group))
        <3> DEFINE c == [q EXCEPT !.current = to]
                   i == InsertThread(c, from)
        <3>1. r = SwitchTo(i, to)
            BY <1>3, <2>4 DEF Scheduled
        <3>2. /\ c \in Queues
              /\ c.stat = q.stat /\ c.prio = q.prio /\ c.ready = q.ready /\ c.group = q.group
              /\ c.current = to /\ c.waiting = q.waiting /\ c.defunct = q.defunct
              /\ Linked(c, D)
            <4> HIDE DEF to
            <4> QED BY <1>0, <2>1, CurrentFields
        <3>3. from \notin q.waiting /\ from \notin ToSet(q.defunct) /\ from # to
            BY <1>0, <2>1, <2>4 DEF Linked
        <3> HIDE DEF r, to, from, c
        <3>4. /\ i \in Queues
              /\ i.stat = [c.stat EXCEPT ![from] = "READY"]
              /\ i.prio = c.prio /\ i.current = c.current
              /\ i.group = c.group \cup {c.prio[from]}
              /\ i.waiting = c.waiting /\ i.defunct = c.defunct
            BY <1>0, <3>2, <3>3, InsertThreadFields
        <3>5. Linked(i, D \ {from})
            BY <1>0, <2>4, <3>2, <3>3, InsertLinked
        <3> HIDE DEF i
        <3>6. /\ i.stat[from] = "READY"
              /\ \A u \in Threads : u # from => i.stat[u] = q.stat[u]
            BY <1>0, <3>2, <3>4 DEF Queues
        <3>7. i.stat[to] = "READY" /\ to \notin D \ {from}
            BY <2>1, <3>3, <3>6
        <3>a. i \in Queues /\ to \in Threads
            BY <2>1, <3>4
        <3>8. /\ r \in Queues /\ Linked(r, D \ {from})
              /\ r.stat = [i.stat EXCEPT ![to] = "RUNNING"]
              /\ r.prio = i.prio /\ r.current = to
              /\ r.waiting = i.waiting /\ r.defunct = i.defunct
              /\ r.group \subseteq i.group
            BY <3>1, <3>5, <3>7, <3>a, SwitchFacts
        <3>9. /\ r.stat[to] = "RUNNING" /\ r.stat[from] = "READY"
              /\ \A u \in Threads : u # from /\ u # to => r.stat[u] = q.stat[u]
            <4>1. i.stat \in [Threads -> Stats] /\ from \in Threads
                BY <1>0, <3>a DEF Queues
            <4> QED BY <3>3, <3>6, <3>8, <3>a, <4>1
        <3>10. D \ {from} = D
            BY <1>0
        <3>11. OneRuns(r)
            BY <1>0, <3>8, <3>9 DEF OneRuns, from
        <3>12. SameLife(q, r)
            BY <2>1, <2>4, <3>9 DEF SameLife
        <3>13. HighestHere(r)
            <4>1. q.prio[from] \in Nat /\ q.prio[to] \in Nat
                BY <1>0, <2>1, Names DEF Queues
            <4>2. q.prio[to] <= q.prio[from]
                BY <2>1, <2>4, <4>1
            <4>3. \A p \in q.group \cup {q.prio[from]} : q.prio[to] <= p
                BY <2>1, <4>2
            <4>4. r.group \subseteq q.group \cup {q.prio[from]} /\ r.prio[r.current] = q.prio[to]
                BY <3>2, <3>4, <3>8
            <4> QED BY <3>8, <3>9, <4>3, <4>4 DEF HighestHere
        <3>14. /\ r.prio = q.prio /\ r.waiting = q.waiting /\ r.defunct = q.defunct
               /\ r.current = to
            BY <3>2, <3>4, <3>8
        <3>15. Good
            BY <2>1, <3>8, <3>10, <3>11, <3>12, <3>13, <3>14
        <3> QED BY <1>3, <3>15 DEF r
    <2> QED BY <2>2, <2>3, <2>4
<1> QED BY <1>1, <1>2, <1>3

-----------------------------------------------------------------------------
(* A step that touches one thread, x, and the call of one thread, y, and   *)
(* nothing of the others.                                                  *)
OthersSame(q, c, r, d, x, y) ==
    /\ \A u \in Threads \ {x} :
          /\ r.stat[u] = q.stat[u] /\ d.timer[u] = c.timer[u]
          /\ u \in r.waiting <=> u \in q.waiting
          /\ u \in ToSet(r.defunct) <=> u \in ToSet(q.defunct)
          /\ u \in d.dynamic <=> u \in c.dynamic
    /\ \A u \in Threads \ {y} : d.pc[u] = c.pc[u] /\ d.arg[u] = c.arg[u]
    /\ r.current = q.current

(* The call of y is about x, before and after, or about nothing, and no    *)
(* other call is about x.                                                  *)
CallAbout(q, c, r, d, x, y) ==
    /\ \A u \in Threads \ {y} : c.arg[u] # x
    /\ y \in Threads =>
         /\ c.arg[y] \in {NoThread, x} /\ d.arg[y] \in {NoThread, x}
         /\ d.arg[y] = NoThread \/ (y = q.current /\ r.stat[y] \in {"RUNNING", "SUSPEND"})

(* What x may become. *)
StatFits(q, r, x) ==
    /\ r.stat[x] = "RUNNING" => x = q.current
    /\ x = q.current => r.stat[x] \in {"RUNNING", "SUSPEND", "CLOSE"}
    /\ x = Idle => r.stat[x] \in {"READY", "RUNNING"}

(* Who has been unlinked and not closed changes for x only. *)
LEMMA BetweenLocal ==
    ASSUME NEW q, NEW c \in CallStates, NEW r, NEW d \in CallStates,
           NEW x \in Threads, NEW y \in Threads \cup {NoThread},
           OthersSame(q, c, r, d, x, y), CallAbout(q, c, r, d, x, y)
    PROVE  /\ \A u \in Threads \ {x} : u \in Between(d) <=> u \in Between(c)
           /\ x \in Between(d) <=> y \in Managers /\ d.arg[y] = x /\ d.pc[y] \in {"timer", "close"}
<1>0. Managers \subseteq Threads /\ NoThread \notin Threads
    BY Names
<1>1. ASSUME NEW u \in Threads \ {x}, NEW m \in Managers
      PROVE  c.arg[m] = u /\ c.pc[m] \in {"timer", "close"}
                <=> d.arg[m] = u /\ d.pc[m] \in {"timer", "close"}
    <2>1. CASE m = y
        BY <1>0, <1>1, <2>1 DEF CallAbout
    <2>2. CASE m # y
        BY <1>0, <2>2 DEF OthersSame
    <2> QED BY <2>1, <2>2
<1>2. \A u \in Threads \ {x} : u \in Between(d) <=> u \in Between(c)
    BY <1>1 DEF Between
<1>3. \A m \in Managers \ {y} : d.arg[m] # x
    BY <1>0 DEF OthersSame, CallAbout
<1>4. x \in Between(d) <=> y \in Managers /\ d.arg[y] = x /\ d.pc[y] \in {"timer", "close"}
    BY <1>3 DEF Between
<1> QED BY <1>2, <1>4

LEMMA LocalStep ==
    ASSUME NEW q, NEW c, Sound(q, c), NEW r \in Queues, NEW d \in CallStates,
           NEW x \in Threads, NEW y \in Threads \cup {NoThread},
           OthersSame(q, c, r, d, x, y), CallAbout(q, c, r, d, x, y), StatFits(q, r, x),
           d.lock = c.lock \/ \A u \in Threads \ {y} : c.pc[u] # "suspend",
           NEW D, Linked(r, D), \A u \in Threads \ {x} : u \in D <=> u \in Between(c),
           r.stat[x] = "READY" =>
              (x \in D <=> y \in Managers /\ d.arg[y] = x /\ d.pc[y] \in {"timer", "close"}),
           y \in Threads => CallOK(r, d, y),
           LifeOK(r, d, x)
    PROVE  Sound(r, d)
<1>0. /\ q \in Queues /\ c \in CallStates
      /\ OneRuns(q) /\ OneCall(c) /\ q.current \in Threads
      /\ q.stat[q.current] \in {"RUNNING", "SUSPEND", "CLOSE"}
      /\ q.stat[Idle] \in {"READY", "RUNNING"}
      /\ \A t \in Threads : CallOK(q, c, t) /\ LifeOK(q, c, t)
    BY DEF Sound
<1>1. Linked(r, Between(d))
    <2>1. \A u \in Threads : r.stat[u] = "READY" => (u \in D <=> u \in Between(d))
        BY <1>0, BetweenLocal
    <2> QED BY <2>1, LinkedAgree
<1>2. OneRuns(r)
    BY <1>0 DEF OneRuns, OthersSame, StatFits
<1>3. OneCall(d)
    <2> SUFFICES ASSUME NEW t \in Threads, NEW u \in Threads,
                        d.arg[t] = d.arg[u], d.arg[t] # NoThread, t # u
                 PROVE  FALSE
        BY DEF OneCall
    <2>1. CASE t # y /\ u # y
        BY <1>0, <2>1 DEF OneCall, OthersSame
    <2>2. CASE t = y
        BY <2>2 DEF OthersSame, CallAbout
    <2>3. CASE u = y
        BY <2>3 DEF OthersSame, CallAbout
    <2> QED BY <2>1, <2>2, <2>3
<1>4. ASSUME NEW t \in Threads, t # y
      PROVE  CallOK(r, d, t)
    <2> DEFINE a == c.arg[t]
    <2>1. /\ d.pc[t] = c.pc[t] /\ d.arg[t] = a /\ r.current = q.current /\ a # x
          /\ a \in Threads \cup {NoThread}
        BY <1>0, <1>4 DEF OthersSame, CallAbout, CallStates
    <2>2. CallOK(q, c, t)
        BY <1>0
    <2>3. CASE a = NoThread
        <3>1. c.pc[t] \in {"run", "sched"}
            BY <2>2, <2>3 DEF CallOK
        <3>2. r.current # NoThread
            BY <1>0, <2>1, Names
        <3> HIDE DEF a
        <3> QED BY <2>1, <2>3, <3>1, <3>2 DEF CallOK
    <2>4. CASE a # NoThread
        <3>1. a \in Threads \ {x}
            BY <2>1, <2>4
        <3>2. /\ r.stat[a] = q.stat[a] /\ d.timer[a] = c.timer[a]
              /\ a \in r.waiting <=> a \in q.waiting
              /\ a \in ToSet(r.defunct) <=> a \in ToSet(q.defunct)
              /\ a \in d.dynamic <=> a \in c.dynamic
            <4> HIDE DEF a
            <4> QED BY <3>1 DEF OthersSame
        <3>3. c.arg[a] = NoThread => d.arg[a] = NoThread
            <4>1. a # q.current
                BY <2>2 DEF CallOK
            <4>2. CASE a = y
                BY <4>1, <4>2, <3>1 DEF CallAbout
            <4>3. CASE a # y
                BY <3>1, <4>3 DEF OthersSame
            <4> QED BY <4>2, <4>3
        <3>4. c.pc[t] = "suspend" => d.lock = c.lock
            BY <1>4
        <3> QED
            <4>1. /\ c.pc[t] \in {"run", "sched"} <=> a = NoThread
                  /\ c.pc[t] \in {"unlink", "insert"} => q.stat[a] = "SUSPEND"
                  /\ c.pc[t] = "suspend" => q.stat[a] = "READY" /\ q.current = t /\ c.lock > 0
                  /\ c.pc[t] \in {"timer", "close"} =>
                        q.stat[a] \in {"INIT", "READY", "SUSPEND"} /\ c.arg[a] = NoThread
                  /\ c.pc[t] \in {"unlink", "insert", "timer", "close"} => ~c.timer[a] /\ a \notin q.waiting
                  /\ c.pc[t] \in {"defunct", "free"} => q.stat[a] = "CLOSE" /\ a \notin ToSet(q.defunct)
                  /\ c.pc[t] = "free" => t = Idle /\ a \in c.dynamic
                  /\ c.pc[t] \notin {"run", "sched", "free"} => t \in Managers /\ a \in Managed
                  /\ a # q.current
                BY <2>2 DEF CallOK
            <4> HIDE DEF a
            <4> QED BY <2>1, <3>2, <3>3, <3>4, <4>1 DEF CallOK
    <2> QED BY <2>3, <2>4
<1>5. ASSUME NEW t \in Threads, t # x
      PROVE  LifeOK(r, d, t)
    <2>1. LifeOK(q, c, t)
        BY <1>0
    <2>2. /\ r.stat[t] = q.stat[t] /\ d.timer[t] = c.timer[t]
          /\ t \in ToSet(r.defunct) <=> t \in ToSet(q.defunct)
          /\ t \in d.dynamic <=> t \in c.dynamic
        BY <1>5 DEF OthersSame
    <2>3. r.stat[t] \in {"NONE", "INIT", "CLOSE"} => d.arg[t] = NoThread
        <3>1. CASE t = y
            BY <3>1 DEF CallAbout
        <3>2. CASE t # y
            BY <2>1, <2>2, <3>2 DEF LifeOK, OthersSame
        <3> QED BY <3>1, <3>2
    <2>4. ASSUME NEW u \in Threads, c.arg[u] = t
          PROVE  d.arg[u] = t
        <3>1. u # y
            BY <1>5, <2>4, Names DEF CallAbout
        <3> QED BY <2>4, <3>1 DEF OthersSame
    <2> QED BY <2>1, <2>2, <2>3, <2>4 DEF LifeOK
<1>6. r.current \in Threads /\ r.stat[r.current] \in {"RUNNING", "SUSPEND", "CLOSE"}
    BY <1>0 DEF OthersSame, StatFits
<1>7. r.stat[Idle] \in {"READY", "RUNNING"}
    BY <1>0, Names DEF OthersSame, StatFits
<1>8. \A t \in Threads : CallOK(r, d, t) /\ LifeOK(r, d, t)
    BY <1>4, <1>5
<1> QED BY <1>1, <1>2, <1>3, <1>6, <1>7, <1>8 DEF Sound

(* rt_schedule keeps what is sound, and gives the processor to whom it     *)
(* belongs; a locked scheduler leaves everything as it is.                 *)
LEMMA ScheduledSound ==
    ASSUME NEW q, NEW c, Sound(q, c), c.lock = lock_nest,
           lock_nest # 0 => q.stat[q.current] # "CLOSE", NEW l
    PROVE  LET r == Scheduled(q)
           IN  Sound(r, c) /\ Deserved(r, c, l /\ lock_nest # 0)
<1> DEFINE r == Scheduled(q)
<1>0. /\ q \in Queues /\ c \in CallStates
      /\ Linked(q, Between(c)) /\ OneRuns(q) /\ OneCall(c) /\ q.current \in Threads
      /\ q.stat[q.current] \in {"RUNNING", "SUSPEND", "CLOSE"}
      /\ q.stat[Idle] \in {"READY", "RUNNING"}
      /\ \A t \in Threads : CallOK(q, c, t) /\ LifeOK(q, c, t)
    BY DEF Sound
<1>1. q.current \notin Between(c) /\ Idle \notin Between(c)
    <2>1. ASSUME NEW m \in Managers, c.pc[m] \in {"timer", "close"}
          PROVE  c.arg[m] # q.current /\ c.arg[m] # Idle
        BY <1>0, <2>1, Names DEF CallOK
    <2> QED BY <2>1 DEF Between
<1>2. Schedulable(q, Between(c))
    BY <1>0, <1>1 DEF Schedulable
<1>3. /\ r \in Queues /\ Linked(r, Between(c)) /\ OneRuns(r)
      /\ r.current \in Threads
      /\ r.prio = q.prio /\ r.waiting = q.waiting /\ r.defunct = q.defunct
      /\ SameLife(q, r)
      /\ r.current # q.current => q.stat[r.current] = "READY" /\ r.current \notin Between(c)
      /\ lock_nest # 0 => r = q
      /\ lock_nest = 0 => HighestHere(r)
    BY <1>2, ScheduledFacts
<1> HIDE DEF r
<1>4. CASE lock_nest # 0
    <2>1. r = q
        BY <1>3, <1>4
    <2>2. c.lock # 0 /\ q.stat[q.current] # "CLOSE"
        BY <1>4
    <2> QED BY <2>1, <2>2 DEF Deserved, r
<1>5. CASE lock_nest = 0
    <2>1. r.stat[r.current] = "RUNNING" /\ \A p \in r.group : r.prio[r.current] <= p
        BY <1>3, <1>5 DEF HighestHere
    <2>2. Deserved(r, c, l /\ lock_nest # 0)
        BY <2>1 DEF Deserved
    <2>3. r.stat[Idle] \in {"READY", "RUNNING"}
        BY <1>0, <1>3, Names DEF SameLife
    <2>4. ASSUME NEW t \in Threads PROVE LifeOK(r, c, t)
        <3>1. LifeOK(q, c, t)
            BY <1>0
        <3>2. \/ r.stat[t] = q.stat[t]
              \/ r.stat[t] \in {"READY", "RUNNING"} /\ q.stat[t] \in {"READY", "RUNNING"}
            BY <1>3 DEF SameLife
        <3> QED BY <1>3, <3>1, <3>2 DEF LifeOK
    <2>5. ASSUME NEW t \in Threads PROVE CallOK(r, c, t)
        <3> DEFINE a == c.arg[t]
        <3>1. CallOK(q, c, t) /\ a \in Threads \cup {NoThread} /\ c.pc[t] \in Pcs
            BY <1>0 DEF CallStates
        <3>2. CASE a = NoThread
            <4>1. c.pc[t] \in {"run", "sched"}
                BY <3>1, <3>2 DEF CallOK
            <4>2. r.current # NoThread
                BY <1>3, Names
            <4> HIDE DEF a
            <4> QED BY <3>2, <4>1, <4>2 DEF CallOK, a
        <3>3. CASE a # NoThread
            <4>1. /\ c.pc[t] \notin {"run", "sched"}
                  /\ c.pc[t] \in {"unlink", "insert"} => q.stat[a] = "SUSPEND"
                  /\ c.pc[t] # "suspend"
                  /\ c.pc[t] \in {"timer", "close"} =>
                        q.stat[a] \in {"INIT", "READY", "SUSPEND"} /\ c.arg[a] = NoThread
                  /\ c.pc[t] \in {"unlink", "insert", "timer", "close"} => ~c.timer[a] /\ a \notin q.waiting
                  /\ c.pc[t] \in {"defunct", "free"} => q.stat[a] = "CLOSE" /\ a \notin ToSet(q.defunct)
                  /\ c.pc[t] = "free" => t = Idle /\ a \in c.dynamic
                  /\ c.pc[t] \notin {"run", "sched", "free"} => t \in Managers /\ a \in Managed
                  /\ a # q.current
                <5>1. c.pc[t] # "suspend"
                    BY <3>1, <1>5 DEF CallOK
                <5> QED BY <3>1, <3>3, <5>1 DEF CallOK
            <4>2. a \in Threads
                BY <3>1, <3>3
            <4>3. \/ r.stat[a] = q.stat[a]
                  \/ r.stat[a] \in {"READY", "RUNNING"} /\ q.stat[a] \in {"READY", "RUNNING"}
                BY <1>3, <4>2 DEF SameLife
            <4>4. c.pc[t] \in {"timer", "close"} => a \in Between(c)
                BY <4>1, <4>2 DEF Between
            <4>5. a # r.current
                <5>1. c.pc[t] \in {"unlink", "insert", "timer", "close", "defunct", "free"}
                    BY <3>1, <4>1 DEF Pcs
                <5>2. q.stat[a] = "READY" => a \in Between(c)
                    BY <4>1, <4>4, <5>1
                <5> QED BY <1>3, <4>1, <5>2
            <4>6. r.stat[a] # "RUNNING"
                BY <1>3, <4>2, <4>5 DEF OneRuns
            <4>7. c.pc[t] \in {"timer", "close"} => r.stat[a] \in {"INIT", "READY", "SUSPEND"}
                BY <4>1, <4>3, <4>6
            <4>8. /\ c.pc[t] \in {"unlink", "insert"} => r.stat[a] = "SUSPEND"
                  /\ c.pc[t] \in {"defunct", "free"} => r.stat[a] = "CLOSE"
                BY <4>1, <4>3
            <4> HIDE DEF a
            <4> QED BY <1>3, <3>3, <4>1, <4>5, <4>7, <4>8 DEF CallOK, a
        <3> QED BY <3>2, <3>3
    <2>6. Sound(r, c)
        BY <1>0, <1>3, <2>1, <2>3, <2>4, <2>5 DEF Sound
    <2> QED BY <2>2, <2>6 DEF r
<1> QED BY <1>0, <1>4, <1>5, Names

(* A thread in no ready list changes: the lists stay as they are. *)
LEMMA OutsideLinked ==
    ASSUME NEW q, NEW D, Linked(q, D), NEW r, NEW t \in Threads,
           r.ready = q.ready, r.group = q.group, r.waiting = q.waiting, r.defunct = q.defunct,
           \A u \in Threads \ {t} : r.stat[u] = q.stat[u] /\ r.prio[u] = q.prio[u],
           q.stat[t] # "READY" \/ t \in D, r.stat[t] # "READY" \/ t \in D,
           t \in r.waiting => r.stat[t] = "SUSPEND",
           t \in ToSet(r.defunct) => r.stat[t] = "CLOSE"
    PROVE  Linked(r, D)
<1>1. ASSUME NEW p \in Priorities, NEW u \in Threads
      PROVE  u \in ToSet(r.ready[p]) <=> r.stat[u] = "READY" /\ r.prio[u] = p /\ u \notin D
    BY DEF Linked
<1>2. \A u \in Threads : /\ u \in r.waiting => r.stat[u] = "SUSPEND"
                         /\ u \in ToSet(r.defunct) => r.stat[u] = "CLOSE"
    BY DEF Linked
<1> QED BY <1>1, <1>2 DEF Linked

(* A thread in its own code is in no call. *)
LEMMA FreeCall ==
    ASSUME NEW r, NEW d, NEW t, r.current \in Threads,
           d.pc[t] \in {"run", "sched"}, d.arg[t] = NoThread
    PROVE  CallOK(r, d, t)
BY Names DEF CallOK

(* The processor stays with a thread that deserves it. *)
LEMMA DeservedKept ==
    ASSUME NEW q, NEW c, NEW l, Deserved(q, c, l), NEW r, NEW d, NEW k,
           r.current = q.current, r.stat[q.current] = q.stat[q.current],
           ~k => ~l /\ r.prio[q.current] = q.prio[q.current] /\ r.group \subseteq q.group,
           d.lock = c.lock, c.pc[q.current] # "sched"
    PROVE  Deserved(r, d, k)
BY DEF Deserved

-----------------------------------------------------------------------------
(* What the invariant says of a state. *)
LEMMA Before ==
    ASSUME IInv
    PROVE  /\ Sound(RunQueue, Here) /\ Deserved(RunQueue, Here, lazy) /\ Ranges
           /\ RunQueue \in Queues /\ Here \in CallStates
           /\ Linked(RunQueue, Between(Here)) /\ OneRuns(RunQueue)
           /\ stat \in [Threads -> Stats] /\ prio \in [Threads -> Priorities]
           /\ ready \in [Priorities -> Seq(Threads)] /\ group \subseteq Priorities
           /\ current \in Threads /\ waiting \subseteq Threads /\ defunct \in Seq(Threads)
           /\ pc \in [Threads -> Pcs] /\ arg \in [Threads -> Threads \cup {NoThread}]
           /\ timer \in [Threads -> BOOLEAN] /\ dynamic \subseteq Threads /\ lock_nest \in Nat
           /\ \A t \in Threads : CallOK(RunQueue, Here, t) /\ LifeOK(RunQueue, Here, t)
           /\ stat[current] \in {"RUNNING", "SUSPEND", "CLOSE"}
<1>1. Sound(RunQueue, Here) /\ Deserved(RunQueue, Here, lazy) /\ Ranges
    BY DEF IInv
<1>2. /\ RunQueue \in Queues /\ Here \in CallStates
      /\ Linked(RunQueue, Between(Here)) /\ OneRuns(RunQueue)
    BY <1>1 DEF Sound
<1>3. \A t \in Threads : CallOK(RunQueue, Here, t) /\ LifeOK(RunQueue, Here, t)
    BY <1>1 DEF Sound
<1>4. current \in Threads /\ stat[current] \in {"RUNNING", "SUSPEND", "CLOSE"}
    BY <1>1 DEF Sound, RunQueue
<1>5. /\ stat \in [Threads -> Stats] /\ prio \in [Threads -> Priorities]
      /\ ready \in [Priorities -> Seq(Threads)] /\ group \subseteq Priorities
      /\ waiting \subseteq Threads /\ defunct \in Seq(Threads)
    BY <1>2 DEF Queues, RunQueue
<1>6. /\ pc \in [Threads -> Pcs] /\ arg \in [Threads -> Threads \cup {NoThread}]
      /\ timer \in [Threads -> BOOLEAN] /\ dynamic \subseteq Threads /\ lock_nest \in Nat
    BY <1>2 DEF CallStates, Here
<1> QED BY <1>1, <1>2, <1>3, <1>4, <1>5, <1>6

(* The state after a step is a state of a table, if the types are kept. *)
LEMMA QueuesNext ==
    ASSUME stat' \in [Threads -> Stats], prio' \in [Threads -> Priorities],
           ready' \in [Priorities -> Seq(Threads)], group' \subseteq Priorities,
           current' \in Threads, waiting' \subseteq Threads, defunct' \in Seq(Threads)
    PROVE  RunQueue' \in Queues
BY DEF RunQueue, Queues

LEMMA CallsNext ==
    ASSUME pc' \in [Threads -> Pcs], arg' \in [Threads -> Threads \cup {NoThread}],
           timer' \in [Threads -> BOOLEAN], dynamic' \subseteq Threads, lock_nest' \in Nat
    PROVE  Here' \in CallStates
BY DEF Here, CallStates

LEMMA After ==
    ASSUME Sound(RunQueue', Here'), Deserved(RunQueue', Here', lazy'), Ranges'
    PROVE  IInv'
BY DEF IInv

(* An operation on the table. *)
LEMMA BecomesIs ==
    ASSUME NEW s \in Queues, Becomes(s)
    PROVE  RunQueue' = s
<1>1. /\ stat' = s.stat /\ prio' = s.prio /\ ready' = s.ready /\ group' = s.group
      /\ current' = s.current /\ waiting' = s.waiting /\ defunct' = s.defunct
    BY DEF Becomes
<1>2. RunQueue' = [stat |-> s.stat, prio |-> s.prio, ready |-> s.ready, group |-> s.group,
                   current |-> s.current, waiting |-> s.waiting, defunct |-> s.defunct]
    BY <1>1 DEF RunQueue
<1> QED BY <1>2 DEF Queues

LEMMA RangesKept ==
    ASSUME Ranges, slice' = slice, lock_nest' = lock_nest, lazy' \in BOOLEAN
    PROVE  Ranges'
BY DEF Ranges

-----------------------------------------------------------------------------
(* Each operation keeps the invariant. *)

(* No call of somebody else is about a thread that a careful caller calls. *)
LEMMA CallFacts ==
    ASSUME IInv, Careful, NEW m, NEW t, Calls(m, t)
    PROVE  /\ m \in Managers /\ m \in Threads /\ t \in Managed /\ t \in Threads
           /\ t # m /\ t # Idle
           /\ current = m /\ pc[m] = "run" /\ arg[m] = NoThread
           /\ stat[m] \in {"RUNNING", "SUSPEND"}
           /\ \A u \in Threads : arg[u] # t
<1>2. m \in Managers /\ t \in Managed /\ t # m /\ current = m /\ pc[m] = "run"
    BY DEF Calls, Runs
<1>3. \A u \in Threads : arg[u] # t
    BY DEF Calls, Untouched
<1>4. CallOK(RunQueue, Here, m) /\ m \in Threads
    BY <1>2, Before, Names
<1>5. arg[m] = NoThread
    BY <1>2, <1>4 DEF CallOK, Here
<1>6. Deserved(RunQueue, Here, lazy) /\ stat[current] \in {"RUNNING", "SUSPEND", "CLOSE"}
    BY Before
<1>7. stat[m] # "CLOSE"
    BY <1>2, <1>6 DEF Deserved, RunQueue, Here
<1> QED BY <1>2, <1>3, <1>4, <1>5, <1>6, <1>7, Names

LEMMA CreateStep ==
    ASSUME IInv, Careful, NEW m, NEW t, NEW dyn, Create(m, t, dyn)
    PROVE  IInv'
<1>1. /\ m \in Managers /\ m \in Threads /\ t \in Managed /\ t \in Threads
      /\ t # m /\ t # Idle /\ current = m /\ pc[m] = "run"
      /\ \A u \in Threads : arg[u] # t
    BY CallFacts DEF Create
<1>2. /\ stat[t] = "NONE" \/ (stat[t] = "CLOSE" /\ t \notin dynamic)
      /\ stat' = [stat EXCEPT ![t] = "INIT"]
      /\ dynamic' = dynamic \cup {t} \/ dynamic' = dynamic \ {t}
      /\ prio' = [prio EXCEPT ![t] = Priority[t]]
      /\ slice' = [slice EXCEPT ![t] = Slice[t]]
      /\ timer' = [timer EXCEPT ![t] = FALSE]
      /\ pc' = [pc EXCEPT ![t] = "run"]
      /\ arg' = [arg EXCEPT ![t] = NoThread]
      /\ ready' = ready /\ group' = group /\ waiting' = waiting /\ defunct' = defunct
      /\ current' = current /\ lock_nest' = lock_nest /\ lazy' = lazy
    BY DEF Create, Goto, links
<1>3. /\ stat \in [Threads -> Stats] /\ prio \in [Threads -> Priorities]
      /\ pc \in [Threads -> Pcs] /\ arg \in [Threads -> Threads \cup {NoThread}]
      /\ timer \in [Threads -> BOOLEAN] /\ dynamic \subseteq Threads
      /\ current \in Threads
    BY Before
<1>4. RunQueue' \in Queues
    <2>1. stat' \in [Threads -> Stats] /\ prio' \in [Threads -> Priorities]
        BY <1>1, <1>2, <1>3, Names DEF Stats
    <2>2. /\ ready' \in [Priorities -> Seq(Threads)] /\ group' \subseteq Priorities
          /\ current' \in Threads
          /\ waiting' \subseteq Threads /\ defunct' \in Seq(Threads)
        BY <1>2, Before
    <2> QED BY <2>1, <2>2, QueuesNext
<1>5. Here' \in CallStates
    <2>1. /\ pc' \in [Threads -> Pcs] /\ arg' \in [Threads -> Threads \cup {NoThread}]
          /\ timer' \in [Threads -> BOOLEAN] /\ dynamic' \subseteq Threads
        BY <1>1, <1>2, <1>3 DEF Pcs
    <2>2. lock_nest' \in Nat
        BY <1>2, Before
    <2> QED BY <2>1, <2>2, CallsNext
<1>6. /\ Sound(RunQueue, Here) /\ Deserved(RunQueue, Here, lazy) /\ Ranges
      /\ LifeOK(RunQueue, Here, t) /\ Linked(RunQueue, Between(Here))
    BY <1>1, Before
<1>7. arg[t] = NoThread /\ t \notin ToSet(defunct) /\ t \notin waiting
    BY <1>1, <1>2, <1>6 DEF LifeOK, Linked, RunQueue, Here
<1>8. OthersSame(RunQueue, Here, RunQueue', Here', t, t)
    BY <1>1, <1>2, <1>3 DEF OthersSame, RunQueue, Here
<1>9. CallAbout(RunQueue, Here, RunQueue', Here', t, t) /\ StatFits(RunQueue, RunQueue', t)
    BY <1>1, <1>2, <1>3, <1>7 DEF CallAbout, StatFits, RunQueue, Here
<1>10. Linked(RunQueue', Between(Here)) /\ RunQueue'.stat[t] # "READY"
    <2>1. /\ RunQueue'.stat[t] = "INIT" /\ RunQueue.stat[t] # "READY"
          /\ RunQueue'.ready = RunQueue.ready /\ RunQueue'.group = RunQueue.group
          /\ RunQueue'.waiting = RunQueue.waiting /\ RunQueue'.defunct = RunQueue.defunct
          /\ t \notin RunQueue'.waiting /\ t \notin ToSet(RunQueue'.defunct)
        BY <1>1, <1>2, <1>3, <1>7 DEF RunQueue
    <2>2. \A u \in Threads \ {t} :
             RunQueue'.stat[u] = RunQueue.stat[u] /\ RunQueue'.prio[u] = RunQueue.prio[u]
        BY <1>1, <1>2, <1>3 DEF RunQueue
    <2> QED BY <1>1, <1>6, <2>1, <2>2, OutsideLinked
<1>11. CallOK(RunQueue', Here', t)
    <2>1. /\ RunQueue'.current \in Threads
          /\ Here'.pc[t] \in {"run", "sched"} /\ Here'.arg[t] = NoThread
        BY <1>1, <1>2, <1>3 DEF RunQueue, Here
    <2> QED BY <2>1, FreeCall
<1>12. LifeOK(RunQueue', Here', t)
    BY <1>1, <1>2, <1>3, <1>7 DEF LifeOK, RunQueue, Here
<1>13. Sound(RunQueue', Here')
    <2>1. Here'.lock = Here.lock
        BY <1>2 DEF Here
    <2> QED BY <1>1, <1>4, <1>5, <1>6, <1>8, <1>9, <1>10, <1>11, <1>12, <2>1, LocalStep
<1>14. Deserved(RunQueue', Here', lazy')
    BY <1>1, <1>2, <1>3, <1>6 DEF Deserved, RunQueue, Here
<1>15. Ranges'
    <2>1. t \in Threads
        BY <1>1
    <2> QED BY <1>2, <1>6, <2>1, Names DEF Ranges
<1> QED BY <1>13, <1>14, <1>15, After

(* A manager begins a call on a thread that it leaves as it is, or that it *)
(* starts.                                                                 *)
LEMMA CallBegins ==
    ASSUME IInv, Careful, NEW m, NEW t, Calls(m, t), NEW s \in Stats, NEW p \in Priorities,
           NEW label,
           stat' = [stat EXCEPT ![t] = s], prio' = [prio EXCEPT ![t] = p],
           pc' = [pc EXCEPT ![m] = label], arg' = [arg EXCEPT ![m] = t],
           links' = links, current' = current, timer' = timer, dynamic' = dynamic,
           lock_nest' = lock_nest, slice' = slice, lazy' = lazy,
           \/ /\ label = "unlink" /\ s = "SUSPEND" /\ stat[t] \in {"INIT", "SUSPEND"}
              /\ ~timer[t] /\ t \notin waiting
           \/ /\ label = "suspend" /\ s = "READY" /\ stat[t] = s /\ prio[t] = p
              /\ lock_nest > 0
    PROVE  IInv'
<1>1. /\ m \in Managers /\ m \in Threads /\ t \in Managed /\ t \in Threads
      /\ t # m /\ t # Idle /\ current = m /\ pc[m] = "run" /\ arg[m] = NoThread
      /\ stat[m] \in {"RUNNING", "SUSPEND"}
      /\ \A u \in Threads : arg[u] # t
    BY CallFacts
<1>2. /\ ready' = ready /\ group' = group /\ waiting' = waiting /\ defunct' = defunct
      /\ current' = current /\ timer' = timer /\ dynamic' = dynamic
      /\ lock_nest' = lock_nest /\ lazy' = lazy
    BY DEF links
<1>3. /\ stat \in [Threads -> Stats] /\ prio \in [Threads -> Priorities]
      /\ pc \in [Threads -> Pcs] /\ arg \in [Threads -> Threads \cup {NoThread}]
      /\ current \in Threads
    BY Before
<1>4. RunQueue' \in Queues
    <2>1. stat' \in [Threads -> Stats] /\ prio' \in [Threads -> Priorities]
        BY <1>3
    <2>2. /\ ready' \in [Priorities -> Seq(Threads)] /\ group' \subseteq Priorities
          /\ current' \in Threads
          /\ waiting' \subseteq Threads /\ defunct' \in Seq(Threads)
        BY <1>2, Before
    <2> QED BY <2>1, <2>2, QueuesNext
<1>5. Here' \in CallStates
    <2>1. pc' \in [Threads -> Pcs] /\ arg' \in [Threads -> Threads \cup {NoThread}]
        BY <1>1, <1>3 DEF Pcs
    <2>2. timer' \in [Threads -> BOOLEAN] /\ dynamic' \subseteq Threads /\ lock_nest' \in Nat
        BY <1>2, Before
    <2> QED BY <2>1, <2>2, CallsNext
<1>6. /\ Sound(RunQueue, Here) /\ Deserved(RunQueue, Here, lazy) /\ Ranges
      /\ LifeOK(RunQueue, Here, t) /\ Linked(RunQueue, Between(Here))
    BY <1>1, Before
<1>7. t \notin Between(Here)
    BY <1>1, Names DEF Between, Here
<1>8. OthersSame(RunQueue, Here, RunQueue', Here', t, m)
    BY <1>1, <1>2, <1>3 DEF OthersSame, RunQueue, Here
<1>9. CallAbout(RunQueue, Here, RunQueue', Here', t, m) /\ StatFits(RunQueue, RunQueue', t)
    BY <1>1, <1>2, <1>3 DEF CallAbout, StatFits, RunQueue, Here
<1>10. Linked(RunQueue', Between(Here))
    <2>1. CASE stat[t] = s /\ prio[t] = p
        <3>1. stat' = stat /\ prio' = prio
            BY <1>3, <2>1
        <3>2. RunQueue' = RunQueue
            BY <1>2, <3>1 DEF RunQueue
        <3> QED BY <1>6, <3>2
    <2>2. CASE stat[t] # "READY" /\ s = "SUSPEND"
        <3>1. /\ RunQueue'.stat[t] = "SUSPEND" /\ RunQueue.stat[t] # "READY"
              /\ RunQueue'.ready = RunQueue.ready /\ RunQueue'.group = RunQueue.group
              /\ RunQueue'.waiting = RunQueue.waiting /\ RunQueue'.defunct = RunQueue.defunct
            BY <1>1, <1>2, <1>3, <2>2 DEF RunQueue
        <3>2. t \notin ToSet(RunQueue'.defunct)
            BY <1>1, <1>2, <1>6 DEF Linked, RunQueue
        <3>3. \A u \in Threads \ {t} :
                 RunQueue'.stat[u] = RunQueue.stat[u] /\ RunQueue'.prio[u] = RunQueue.prio[u]
            BY <1>1, <1>2, <1>3 DEF RunQueue
        <3> QED BY <1>1, <1>6, <3>1, <3>2, <3>3, OutsideLinked
    <2> QED BY <2>1, <2>2
<1>11. CallOK(RunQueue', Here', m)
    BY <1>1, <1>2, <1>3 DEF CallOK, RunQueue, Here
<1>12. LifeOK(RunQueue', Here', t)
    <2>1. t \notin ToSet(defunct) /\ ~timer[t]
        BY <1>1, <1>6 DEF Linked, LifeOK, RunQueue, Here
    <2> QED BY <1>1, <1>2, <1>3, <2>1 DEF LifeOK, RunQueue, Here
<1>13. Sound(RunQueue', Here')
    <2>1. Here'.lock = Here.lock
        BY <1>2 DEF Here
    <2>2. ~(m \in Managers /\ Here'.arg[m] = t /\ Here'.pc[m] \in {"timer", "close"})
        BY <1>1, <1>3 DEF Here
    <2> QED BY <1>1, <1>4, <1>5, <1>6, <1>7, <1>8, <1>9, <1>10, <1>11, <1>12, <2>1, <2>2, LocalStep
<1>14. Deserved(RunQueue', Here', lazy')
    BY <1>1, <1>2, <1>3, <1>6 DEF Deserved, RunQueue, Here
<1>15. Ranges'
    BY <1>2, <1>6, RangesKept DEF Ranges
<1> QED BY <1>13, <1>14, <1>15, After

LEMMA StartupStep ==
    ASSUME IInv, Careful, NEW m, NEW t, Startup(m, t)
    PROVE  IInv'
<1>1. Calls(m, t) /\ stat[t] = "INIT"
    BY DEF Startup
<1>2. t \in Threads
    BY <1>1, CallFacts
<1>3. ~timer[t] /\ t \notin waiting
    <2>1. LifeOK(RunQueue, Here, t) /\ Linked(RunQueue, Between(Here))
        BY <1>2, Before
    <2> QED BY <1>1, <1>2, <2>1 DEF LifeOK, Linked, RunQueue, Here
<1>4. Priority[t] \in Priorities /\ "SUSPEND" \in Stats
    BY <1>2, Names DEF Stats
<1>5. /\ stat' = [stat EXCEPT ![t] = "SUSPEND"] /\ prio' = [prio EXCEPT ![t] = Priority[t]]
      /\ pc' = [pc EXCEPT ![m] = "unlink"] /\ arg' = [arg EXCEPT ![m] = t]
      /\ links' = links /\ current' = current /\ timer' = timer /\ dynamic' = dynamic
      /\ lock_nest' = lock_nest /\ slice' = slice /\ lazy' = lazy
    BY DEF Startup, Goto
<1> QED BY <1>1, <1>3, <1>4, <1>5, CallBegins

LEMMA ResumeCallStep ==
    ASSUME IInv, Careful, NEW m, NEW t, ResumeCall(m, t)
    PROVE  IInv'
<1>1. Calls(m, t) /\ stat[t] = "SUSPEND" /\ ~timer[t] /\ t \notin waiting
    BY DEF ResumeCall
<1>2. t \in Threads /\ stat \in [Threads -> Stats] /\ prio \in [Threads -> Priorities]
    BY <1>1, CallFacts, Before
<1>3. /\ pc' = [pc EXCEPT ![m] = "unlink"] /\ arg' = [arg EXCEPT ![m] = t]
      /\ links' = links /\ current' = current /\ timer' = timer /\ dynamic' = dynamic
      /\ lock_nest' = lock_nest /\ slice' = slice /\ lazy' = lazy
      /\ stat' = stat /\ prio' = prio
    BY DEF ResumeCall, Goto
<1>4. stat' = [stat EXCEPT ![t] = "SUSPEND"] /\ prio' = [prio EXCEPT ![t] = prio[t]]
    BY <1>1, <1>2, <1>3
<1>5. "SUSPEND" \in Stats /\ prio[t] \in Priorities
    BY <1>2 DEF Stats
<1> QED BY <1>1, <1>3, <1>4, <1>5, CallBegins

LEMMA SuspendCallStep ==
    ASSUME IInv, Careful, NEW m, NEW t, SuspendCall(m, t)
    PROVE  IInv'
<1>1. Calls(m, t) /\ stat[t] = "READY" /\ lock_nest > 0
    BY DEF SuspendCall
<1>2. t \in Threads /\ stat \in [Threads -> Stats] /\ prio \in [Threads -> Priorities]
    BY <1>1, CallFacts, Before
<1>3. /\ pc' = [pc EXCEPT ![m] = "suspend"] /\ arg' = [arg EXCEPT ![m] = t]
      /\ links' = links /\ current' = current /\ timer' = timer /\ dynamic' = dynamic
      /\ lock_nest' = lock_nest /\ slice' = slice /\ lazy' = lazy
      /\ stat' = stat /\ prio' = prio
    BY DEF SuspendCall, Goto
<1>4. stat' = [stat EXCEPT ![t] = "READY"] /\ prio' = [prio EXCEPT ![t] = prio[t]]
    BY <1>1, <1>2, <1>3
<1>5. "READY" \in Stats /\ prio[t] \in Priorities
    BY <1>2 DEF Stats
<1> QED BY <1>1, <1>3, <1>4, <1>5, CallBegins

(* The running thread m, in a call that is about x or in its own code,     *)
(* changes x and goes on.                                                  *)
ActsOn(m, x) ==
    /\ m \in Managers /\ m \in Threads /\ m = current /\ pc[m] # "sched"
    /\ stat[m] \in {"RUNNING", "SUSPEND"}
    /\ x \in Managed /\ x \in Threads /\ x # m /\ x # Idle
    /\ arg[m] \in {NoThread, x} /\ \A u \in Threads \ {m} : arg[u] # x

ChangesOnly(x, r) ==
    /\ r.prio = prio /\ r.current = current
    /\ \A u \in Threads \ {x} : /\ r.stat[u] = stat[u]
                                /\ u \in r.waiting <=> u \in waiting
                                /\ u \in ToSet(r.defunct) <=> u \in ToSet(defunct)

LEMMA CallAdvances ==
    ASSUME IInv, NEW m, NEW x, ActsOn(m, x),
           NEW r \in Queues, RunQueue' = r, ChangesOnly(x, r), r.stat[x] # "RUNNING",
           NEW label \in Pcs, NEW a \in {NoThread, x},
           pc' = [pc EXCEPT ![m] = label], arg' = [arg EXCEPT ![m] = a],
           timer' = timer \/ timer' = [timer EXCEPT ![x] = FALSE],
           dynamic' = dynamic, slice' = slice, lock_nest' = lock_nest, lazy' = lazy,
           label = "sched" \/ r.group \subseteq group,
           NEW D, Linked(r, D), \A u \in Threads \ {x} : u \in D <=> u \in Between(Here),
           r.stat[x] = "READY" => (x \in D <=> a = x /\ label \in {"timer", "close"}),
           CallOK(r, Here', m), LifeOK(r, Here', x)
    PROVE  IInv'
<1>1. /\ m \in Managers /\ m \in Threads /\ m = current /\ pc[m] # "sched"
      /\ stat[m] \in {"RUNNING", "SUSPEND"} /\ current \in Threads
      /\ x \in Managed /\ x \in Threads /\ x # m /\ x # Idle /\ x # NoThread
      /\ arg[m] \in {NoThread, x} /\ \A u \in Threads \ {m} : arg[u] # x
    BY Names DEF ActsOn
<1>2. /\ r.prio = prio /\ r.current = current
      /\ \A u \in Threads \ {x} : /\ r.stat[u] = stat[u]
                                  /\ u \in r.waiting <=> u \in waiting
                                  /\ u \in ToSet(r.defunct) <=> u \in ToSet(defunct)
    BY DEF ChangesOnly
<1>3. /\ pc \in [Threads -> Pcs] /\ arg \in [Threads -> Threads \cup {NoThread}]
      /\ timer \in [Threads -> BOOLEAN]
    BY Before
<1>4. Here' \in CallStates
    <2>1. pc' \in [Threads -> Pcs] /\ arg' \in [Threads -> Threads \cup {NoThread}]
        BY <1>1, <1>3
    <2>2. timer' \in [Threads -> BOOLEAN]
        BY <1>1, <1>3
    <2>3. dynamic' \subseteq Threads /\ lock_nest' \in Nat
        BY Before
    <2> QED BY <2>1, <2>2, <2>3, CallsNext
<1>5. Sound(RunQueue, Here) /\ Deserved(RunQueue, Here, lazy) /\ Ranges
    BY Before
<1>6. OthersSame(RunQueue, Here, r, Here', x, m)
    <2>1. \A u \in Threads \ {x} : timer'[u] = timer[u]
        BY <1>1, <1>3
    <2>2. \A u \in Threads \ {m} : pc'[u] = pc[u] /\ arg'[u] = arg[u]
        BY <1>1, <1>3
    <2> QED BY <1>2, <2>1, <2>2 DEF OthersSame, RunQueue, Here
<1>7. CallAbout(RunQueue, Here, r, Here', x, m) /\ StatFits(RunQueue, r, x)
    <2>1. arg'[m] = a
        BY <1>1, <1>3
    <2>2. r.stat[m] = stat[m]
        BY <1>1, <1>2
    <2> QED BY <1>1, <2>1, <2>2 DEF CallAbout, StatFits, RunQueue, Here
<1>8. Sound(r, Here')
    <2>1. Here'.lock = Here.lock
        BY DEF Here
    <2>2. r.stat[x] = "READY" =>
             (x \in D <=> m \in Managers /\ Here'.arg[m] = x /\ Here'.pc[m] \in {"timer", "close"})
        BY <1>1, <1>3 DEF Here
    <2> QED BY <1>1, <1>4, <1>5, <1>6, <1>7, <2>1, <2>2, LocalStep
<1>9. Deserved(r, Here', lazy')
    <2>1. r.current = m /\ r.stat[m] = stat[m] /\ r.prio[m] = prio[m] /\ pc'[m] = label
        BY <1>1, <1>2, <1>3
    <2> QED BY <1>1, <1>5, <2>1 DEF Deserved, RunQueue, Here
<1>10. Ranges'
    BY <1>5, RangesKept DEF Ranges
<1> QED BY <1>8, <1>9, <1>10, After

(* What holds in the midst of a call. *)
LEMMA InCall ==
    ASSUME IInv, NEW m, current = m, pc[m] \notin {"run", "sched", "free"}
    PROVE  /\ ActsOn(m, arg[m])
           /\ CallOK(RunQueue, Here, m) /\ LifeOK(RunQueue, Here, arg[m])
           /\ Linked(RunQueue, Between(Here))
<1>1. /\ m \in Threads /\ Sound(RunQueue, Here) /\ Deserved(RunQueue, Here, lazy)
      /\ stat[m] \in {"RUNNING", "SUSPEND", "CLOSE"}
      /\ arg \in [Threads -> Threads \cup {NoThread}]
      /\ CallOK(RunQueue, Here, m) /\ Linked(RunQueue, Between(Here))
    BY Before
<1>2. m \in Managers /\ arg[m] \in Managed /\ arg[m] # m /\ arg[m] # NoThread
    BY <1>1 DEF CallOK, RunQueue, Here
<1>3. arg[m] \in Threads /\ arg[m] # Idle
    BY <1>2, Names
<1>4. stat[m] # "CLOSE"
    BY <1>1 DEF Deserved, RunQueue, Here
<1>5. \A u \in Threads \ {m} : arg[u] # arg[m]
    BY <1>1, <1>2 DEF Sound, OneCall, Here
<1>6. LifeOK(RunQueue, Here, arg[m])
    BY <1>3, Before
<1> QED BY <1>1, <1>2, <1>3, <1>4, <1>5, <1>6 DEF ActsOn

LEMMA ResumeUnlinkStep ==
    ASSUME IInv, NEW m, ResumeUnlink(m)
    PROVE  IInv'
<1> DEFINE x == arg[m]
           r == Unlink(RunQueue, x)
<1>1. /\ current = m /\ pc[m] = "unlink" /\ Becomes(r)
      /\ timer' = [timer EXCEPT ![x] = FALSE] /\ pc' = [pc EXCEPT ![m] = "insert"]
      /\ arg' = arg /\ dynamic' = dynamic /\ slice' = slice /\ lock_nest' = lock_nest /\ lazy' = lazy
    BY DEF ResumeUnlink, Goto
<1>2. /\ ActsOn(m, x) /\ CallOK(RunQueue, Here, m) /\ LifeOK(RunQueue, Here, x)
      /\ Linked(RunQueue, Between(Here))
    BY <1>1, InCall
<1>3. /\ x \in Threads /\ x # m /\ m \in Threads /\ m \in Managers /\ x \in Managed /\ x # NoThread
      /\ stat[x] = "SUSPEND" /\ ~timer[x]
      /\ x \notin waiting /\ x # current
    BY <1>1, <1>2, Names DEF ActsOn, CallOK, RunQueue, Here
<1>4. /\ RunQueue \in Queues /\ timer \in [Threads -> BOOLEAN]
      /\ pc \in [Threads -> Pcs] /\ arg \in [Threads -> Threads \cup {NoThread}]
    BY Before
<1> HIDE DEF x
<1>5. /\ r \in Queues
      /\ r.stat = stat /\ r.prio = prio /\ r.group = group /\ r.current = current
      /\ r.waiting = waiting \ {x} /\ r.defunct = ListRemove(defunct, x)
    BY <1>3, <1>4, UnlinkFields DEF RunQueue
<1>6. Linked(r, Between(Here))
    <2>1. RunQueue.stat[x] # "READY"
        BY <1>3 DEF RunQueue
    <2> QED BY <1>2, <1>3, <1>4, <2>1, UnlinkLinked
<1>7. RunQueue' = r
    BY <1>1, <1>5, BecomesIs
<1>8. x \notin ToSet(defunct)
    BY <1>2, <1>3 DEF Linked, RunQueue
<1>9. r.defunct = defunct
    BY <1>5, <1>8 DEF ListRemove
<1> HIDE DEF r
<1>10. ChangesOnly(x, r)
    BY <1>5, <1>9 DEF ChangesOnly
<1>11. CallOK(r, Here', m)
    <2>1. Here'.pc[m] = "insert" /\ Here'.arg[m] = x /\ Here'.timer[x] = FALSE
        BY <1>1, <1>3, <1>4 DEF Here, x
    <2> QED BY <1>3, <1>5, <2>1 DEF CallOK
<1>12. LifeOK(r, Here', x)
    <2>1. Here'.timer[x] = FALSE
        BY <1>1, <1>3, <1>4 DEF Here
    <2> QED BY <1>3, <1>5, <1>8, <1>9, <2>1 DEF LifeOK
<1>13. /\ r.stat[x] = "SUSPEND" /\ "insert" \in Pcs /\ x \in {NoThread, x}
       /\ arg' = [arg EXCEPT ![m] = x] /\ r.group \subseteq group
    BY <1>1, <1>3, <1>4, <1>5 DEF Pcs, x
<1> QED BY <1>1, <1>2, <1>5, <1>6, <1>7, <1>10, <1>11, <1>12, <1>13, CallAdvances

LEMMA ResumeInsertStep ==
    ASSUME IInv, NEW m, ResumeInsert(m)
    PROVE  IInv'
<1> DEFINE x == arg[m]
           r == InsertThread(RunQueue, x)
<1>1. /\ current = m /\ pc[m] = "insert" /\ Becomes(r)
      /\ pc' = [pc EXCEPT ![m] = "sched"] /\ arg' = [arg EXCEPT ![m] = NoThread]
      /\ timer' = timer /\ dynamic' = dynamic /\ slice' = slice /\ lock_nest' = lock_nest
      /\ lazy' = lazy
    BY DEF ResumeInsert, Goto
<1>2. /\ ActsOn(m, x) /\ CallOK(RunQueue, Here, m) /\ LifeOK(RunQueue, Here, x)
      /\ Linked(RunQueue, Between(Here))
    BY <1>1, InCall
<1>3. /\ x \in Threads /\ x # m /\ m \in Threads /\ x # NoThread
      /\ stat[x] = "SUSPEND" /\ ~timer[x]
      /\ x \notin waiting /\ x # current
    BY <1>1, <1>2, Names DEF ActsOn, CallOK, RunQueue, Here
<1>4. /\ RunQueue \in Queues /\ timer \in [Threads -> BOOLEAN] /\ stat \in [Threads -> Stats]
      /\ pc \in [Threads -> Pcs] /\ arg \in [Threads -> Threads \cup {NoThread}]
      /\ current \in Threads
    BY Before
<1>5. RunQueue.stat[x] # "READY" /\ x \notin RunQueue.waiting /\ x \notin ToSet(RunQueue.defunct)
    BY <1>2, <1>3 DEF Linked, RunQueue
<1> HIDE DEF x
<1>6. /\ r \in Queues
      /\ r.prio = prio /\ r.current = current /\ r.waiting = waiting /\ r.defunct = defunct
      /\ r.stat = [stat EXCEPT ![x] = "READY"]
    BY <1>3, <1>4, InsertThreadFields DEF RunQueue
<1>7. Linked(r, Between(Here) \ {x})
    BY <1>2, <1>3, <1>4, <1>5, InsertLinked
<1>8. RunQueue' = r
    BY <1>1, <1>6, BecomesIs
<1> HIDE DEF r
<1>9. ChangesOnly(x, r)
    BY <1>4, <1>6 DEF ChangesOnly
<1>10. CallOK(r, Here', m)
    <2>1. Here'.pc[m] = "sched" /\ Here'.arg[m] = NoThread
        BY <1>1, <1>3, <1>4 DEF Here
    <2> QED BY <1>4, <1>6, <2>1, FreeCall
<1>11. r.stat[x] = "READY" /\ x \notin ToSet(r.defunct) /\ Here'.timer[x] = timer[x]
    BY <1>1, <1>3, <1>4, <1>5, <1>6 DEF Here, RunQueue
<1>12. LifeOK(r, Here', x)
    BY <1>3, <1>11 DEF LifeOK
<1>13. "sched" \in Pcs /\ NoThread \in {NoThread, x}
    BY DEF Pcs
<1>14. \A u \in Threads \ {x} : u \in Between(Here) \ {x} <=> u \in Between(Here)
    OBVIOUS
<1>15. r.stat[x] # "RUNNING" /\ x \notin Between(Here) \ {x} /\ NoThread # x
    BY <1>3, <1>11
<1> QED BY <1>1, <1>2, <1>6, <1>7, <1>8, <1>9, <1>10, <1>12, <1>13, <1>14, <1>15, CallAdvances

LEMMA SuspendDoStep ==
    ASSUME IInv, NEW m, SuspendDo(m)
    PROVE  IInv'
<1> DEFINE x == arg[m]
           r == SetStat(RemoveThread(RunQueue, x), x, "SUSPEND")
<1>1. /\ current = m /\ pc[m] = "suspend" /\ Becomes(r)
      /\ pc' = [pc EXCEPT ![m] = "run"] /\ arg' = [arg EXCEPT ![m] = NoThread]
      /\ timer' = [timer EXCEPT ![x] = FALSE]
      /\ dynamic' = dynamic /\ slice' = slice /\ lock_nest' = lock_nest
      /\ lazy' = lazy
    BY DEF SuspendDo, Goto
<1>2. /\ ActsOn(m, x) /\ CallOK(RunQueue, Here, m) /\ LifeOK(RunQueue, Here, x)
      /\ Linked(RunQueue, Between(Here))
    BY <1>1, InCall
<1>3. /\ x \in Threads /\ x # m /\ m \in Threads /\ x # NoThread
      /\ stat[x] = "READY" /\ x # current
    BY <1>1, <1>2, Names DEF ActsOn, CallOK, RunQueue, Here
<1>4. /\ RunQueue \in Queues /\ timer \in [Threads -> BOOLEAN] /\ stat \in [Threads -> Stats]
      /\ pc \in [Threads -> Pcs] /\ arg \in [Threads -> Threads \cup {NoThread}]
      /\ current \in Threads
    BY Before
<1> HIDE DEF x
<1>5. /\ r \in Queues /\ Linked(r, Between(Here) \ {x})
      /\ r.stat = [RunQueue.stat EXCEPT ![x] = "SUSPEND"] /\ r.prio = RunQueue.prio
      /\ r.current = RunQueue.current /\ r.group \subseteq RunQueue.group
      /\ r.waiting = RunQueue.waiting \ {x}
      /\ ToSet(r.defunct) = ToSet(RunQueue.defunct) \ {x}
    <2>1. "SUSPEND" \in Stats /\ "SUSPEND" # "READY"
        BY DEF Stats
    <2>2. RunQueue \in Queues /\ x \in Threads /\ Linked(RunQueue, Between(Here))
        BY <1>2, <1>3, <1>4
    <2> QED BY <2>1, <2>2, LeavesFacts
<1>6. RunQueue' = r
    BY <1>1, <1>5, BecomesIs
<1> HIDE DEF r
<1>7. /\ r.stat = [stat EXCEPT ![x] = "SUSPEND"] /\ r.prio = prio
      /\ r.current = current /\ r.group \subseteq group
      /\ r.waiting = waiting \ {x} /\ ToSet(r.defunct) = ToSet(defunct) \ {x}
    BY <1>5 DEF RunQueue
<1>8. ChangesOnly(x, r)
    BY <1>4, <1>7 DEF ChangesOnly
<1>9. CallOK(r, Here', m)
    <2>1. Here'.pc[m] = "run" /\ Here'.arg[m] = NoThread
        BY <1>1, <1>3, <1>4 DEF Here
    <2> QED BY <1>4, <1>7, <2>1, FreeCall
<1>10. r.stat[x] = "SUSPEND" /\ x \notin ToSet(r.defunct)
    BY <1>3, <1>4, <1>7
<1>11. LifeOK(r, Here', x)
    BY <1>10 DEF LifeOK
<1>12. "run" \in Pcs /\ NoThread \in {NoThread, x}
    BY DEF Pcs
<1>13. \A v \in Threads \ {x} : v \in Between(Here) \ {x} <=> v \in Between(Here)
    OBVIOUS
<1>14. r.stat[x] # "RUNNING" /\ r.stat[x] # "READY"
    BY <1>10
<1> QED BY <1>1, <1>2, <1>5, <1>6, <1>7, <1>8, <1>9, <1>11, <1>12, <1>13, <1>14, CallAdvances

LEMMA DeleteCallStep ==
    ASSUME IInv, Careful, NEW m, NEW t, DeleteCall(m, t)
    PROVE  IInv'
<1> DEFINE r == IF stat[t] = "INIT" THEN RunQueue ELSE RemoveThread(RunQueue, t)
           D == IF stat[t] = "INIT" THEN Between(Here) ELSE Between(Here) \cup {t}
<1>1. /\ Calls(m, t) /\ stat[t] \notin {"NONE", "CLOSE"} /\ ~timer[t] /\ arg[t] = NoThread
      /\ Becomes(r)
      /\ pc' = [pc EXCEPT ![m] = "timer"] /\ arg' = [arg EXCEPT ![m] = t]
      /\ timer' = timer /\ dynamic' = dynamic /\ slice' = slice /\ lock_nest' = lock_nest
      /\ lazy' = lazy
    BY DEF DeleteCall, Goto
<1>2. /\ m \in Managers /\ m \in Threads /\ t \in Managed /\ t \in Threads
      /\ t # m /\ t # Idle /\ current = m /\ pc[m] = "run" /\ arg[m] = NoThread
      /\ stat[m] \in {"RUNNING", "SUSPEND"} /\ \A u \in Threads : arg[u] # t
    BY <1>1, CallFacts
<1>3. ActsOn(m, t)
    BY <1>2 DEF ActsOn
<1>4. /\ RunQueue \in Queues /\ timer \in [Threads -> BOOLEAN] /\ stat \in [Threads -> Stats]
      /\ pc \in [Threads -> Pcs] /\ arg \in [Threads -> Threads \cup {NoThread}]
      /\ current \in Threads /\ OneRuns(RunQueue) /\ Linked(RunQueue, Between(Here))
    BY Before
<1>5. stat[t] \in {"INIT", "READY", "SUSPEND"}
    <2>1. stat[t] # "RUNNING"
        BY <1>2, <1>4 DEF OneRuns, RunQueue
    <2> QED BY <1>1, <1>2, <1>4, <2>1 DEF Stats
<1>6. t \notin ToSet(defunct) /\ (stat[t] = "INIT" => t \notin waiting)
    BY <1>2, <1>4, <1>5 DEF Linked, RunQueue
<1>7. /\ r \in Queues /\ Linked(r, D)
      /\ r.stat = stat /\ r.prio = prio /\ r.current = current /\ r.group \subseteq group
      /\ t \notin r.waiting /\ t \notin ToSet(r.defunct)
      /\ \A u \in Threads \ {t} : /\ u \in r.waiting <=> u \in waiting
                                  /\ u \in ToSet(r.defunct) <=> u \in ToSet(defunct)
    <2>1. CASE stat[t] = "INIT"
        <3>1. r = RunQueue /\ D = Between(Here)
            BY <2>1
        <3> HIDE DEF r, D
        <3>2. RunQueue \in Queues /\ Linked(RunQueue, Between(Here))
            BY <1>4
        <3>3. /\ r.stat = stat /\ r.prio = prio /\ r.current = current /\ r.group = group
              /\ r.waiting = waiting /\ r.defunct = defunct
            BY <3>1 DEF RunQueue
        <3> QED BY <1>6, <2>1, <3>1, <3>2, <3>3
    <2>2. CASE stat[t] # "INIT"
        <3>1. r = RemoveThread(RunQueue, t) /\ D = Between(Here) \cup {t}
            BY <2>2
        <3> HIDE DEF r, D
        <3>2. RunQueue \in Queues /\ Linked(RunQueue, Between(Here)) /\ t \in Threads
            BY <1>2, <1>4
        <3>3. /\ r \in Queues /\ Linked(r, D)
              /\ r.stat = RunQueue.stat /\ r.prio = RunQueue.prio /\ r.current = RunQueue.current
              /\ r.group \subseteq RunQueue.group
              /\ r.waiting = RunQueue.waiting \ {t} /\ ToSet(r.defunct) = ToSet(RunQueue.defunct) \ {t}
            BY <3>1, <3>2, RemovedFacts
        <3> QED BY <3>3 DEF RunQueue
    <2> QED BY <2>1, <2>2
<1>8. RunQueue' = r
    <2>1. Becomes(r) /\ r \in Queues
        BY <1>1, <1>7
    <2> HIDE DEF r
    <2> QED BY <2>1, BecomesIs
<1>9. /\ \A u \in Threads \ {t} : u \in D <=> u \in Between(Here)
      /\ stat[t] = "READY" => t \in D
    OBVIOUS
<1> HIDE DEF r, D
<1>10. ChangesOnly(t, r)
    BY <1>7 DEF ChangesOnly
<1>11. /\ Here'.pc[m] = "timer" /\ Here'.arg[m] = t /\ Here'.arg[t] = NoThread
       /\ Here'.timer[t] = FALSE
    BY <1>1, <1>2, <1>4 DEF Here
<1>12. CallOK(r, Here', m)
    <2>1. t # NoThread
        BY <1>2, Names
    <2> QED BY <1>2, <1>5, <1>7, <1>11, <2>1 DEF CallOK
<1>13. LifeOK(r, Here', t)
    BY <1>5, <1>7, <1>11 DEF LifeOK
<1>14. "timer" \in Pcs /\ t \in {NoThread, t} /\ r.stat[t] # "RUNNING"
    BY <1>5, <1>7 DEF Pcs
<1>15. r.stat[t] = "READY" => t \in D
    BY <1>7, <1>9
<1> QED BY <1>1, <1>3, <1>7, <1>8, <1>9, <1>10, <1>12, <1>13, <1>14, <1>15, CallAdvances

LEMMA DeleteTimerStep ==
    ASSUME IInv, NEW m, DeleteTimer(m)
    PROVE  IInv'
<1> DEFINE x == arg[m]
<1>1. /\ current = m /\ pc[m] = "timer"
      /\ timer' = [timer EXCEPT ![x] = FALSE] /\ pc' = [pc EXCEPT ![m] = "close"]
      /\ arg' = arg /\ dynamic' = dynamic /\ slice' = slice /\ lock_nest' = lock_nest /\ lazy' = lazy
      /\ RunQueue' = RunQueue
    BY DEF DeleteTimer, Goto, links, RunQueue
<1>2. /\ ActsOn(m, x) /\ CallOK(RunQueue, Here, m) /\ LifeOK(RunQueue, Here, x)
      /\ Linked(RunQueue, Between(Here))
    BY <1>1, InCall
<1>3. /\ x \in Threads /\ x # m /\ m \in Threads /\ m \in Managers /\ x \in Managed /\ x # NoThread
      /\ stat[x] \in {"INIT", "READY", "SUSPEND"} /\ ~timer[x] /\ arg[x] = NoThread
      /\ x \notin waiting /\ x # current
    BY <1>1, <1>2, Names DEF ActsOn, CallOK, RunQueue, Here
<1>4. /\ RunQueue \in Queues /\ timer \in [Threads -> BOOLEAN]
      /\ pc \in [Threads -> Pcs] /\ arg \in [Threads -> Threads \cup {NoThread}]
    BY Before
<1>5. x \notin ToSet(defunct) /\ x \in Between(Here)
    BY <1>1, <1>2, <1>3 DEF Linked, Between, RunQueue, Here
<1>6. arg' = [arg EXCEPT ![m] = x]
    BY <1>1, <1>3, <1>4
<1> HIDE DEF x
<1>7. ChangesOnly(x, RunQueue)
    BY DEF ChangesOnly, RunQueue
<1>8. /\ Here'.pc[m] = "close" /\ Here'.arg[m] = x /\ Here'.timer[x] = FALSE
      /\ Here'.arg[x] = NoThread
    BY <1>1, <1>3, <1>4 DEF Here, x
<1>9. /\ RunQueue.stat[x] \in {"INIT", "READY", "SUSPEND"} /\ x \notin RunQueue.waiting
      /\ x # RunQueue.current /\ x \notin ToSet(RunQueue.defunct) /\ RunQueue.group = group
    BY <1>3, <1>5 DEF RunQueue
<1>10. CallOK(RunQueue, Here', m)
    BY <1>3, <1>8, <1>9 DEF CallOK
<1>11. LifeOK(RunQueue, Here', x)
    BY <1>8, <1>9 DEF LifeOK
<1>12. "close" \in Pcs /\ x \in {NoThread, x}
    BY DEF Pcs
<1> QED BY <1>1, <1>2, <1>4, <1>5, <1>6, <1>7, <1>9, <1>10, <1>11, <1>12, CallAdvances

LEMMA DeleteCloseStep ==
    ASSUME IInv, NEW m, DeleteClose(m)
    PROVE  IInv'
<1> DEFINE x == arg[m]
           r == SetStat(RunQueue, x, "CLOSE")
<1>1. /\ current = m /\ pc[m] = "close"
      /\ pc' = [pc EXCEPT ![m] = "defunct"]
      /\ arg' = arg /\ timer' = timer
      /\ dynamic' = dynamic /\ slice' = slice /\ lock_nest' = lock_nest /\ lazy' = lazy
      /\ RunQueue' = r
    BY DEF DeleteClose, Goto, links, RunQueue, SetStat
<1>2. /\ ActsOn(m, x) /\ CallOK(RunQueue, Here, m) /\ LifeOK(RunQueue, Here, x)
      /\ Linked(RunQueue, Between(Here))
    BY <1>1, InCall
<1>3. /\ x \in Threads /\ x # m /\ m \in Threads /\ m \in Managers /\ x \in Managed /\ x # NoThread
      /\ stat[x] \in {"INIT", "READY", "SUSPEND"} /\ ~timer[x] /\ arg[x] = NoThread
      /\ x \notin waiting /\ x # current
    BY <1>1, <1>2, Names DEF ActsOn, CallOK, RunQueue, Here
<1>4. /\ RunQueue \in Queues /\ timer \in [Threads -> BOOLEAN] /\ stat \in [Threads -> Stats]
      /\ pc \in [Threads -> Pcs] /\ arg \in [Threads -> Threads \cup {NoThread}]
    BY Before
<1>5. x \notin ToSet(defunct) /\ x \in Between(Here)
    BY <1>1, <1>2, <1>3 DEF Linked, Between, RunQueue, Here
<1>6. arg' = [arg EXCEPT ![m] = x]
    BY <1>1, <1>3, <1>4
<1> HIDE DEF x
<1>7. "CLOSE" \in Stats /\ "CLOSE" # "READY"
    BY DEF Stats
<1>8. /\ r \in Queues
      /\ r.stat = [stat EXCEPT ![x] = "CLOSE"] /\ r.prio = prio /\ r.group = group
      /\ r.current = current /\ r.waiting = waiting /\ r.defunct = defunct
    <2>1. /\ r \in Queues
          /\ r.stat = [RunQueue.stat EXCEPT ![x] = "CLOSE"] /\ r.prio = RunQueue.prio
          /\ r.group = RunQueue.group /\ r.current = RunQueue.current
          /\ r.waiting = RunQueue.waiting /\ r.defunct = RunQueue.defunct
        BY <1>3, <1>4, <1>7, SetStatFields
    <2> HIDE DEF r
    <2> QED BY <2>1 DEF RunQueue
<1>9. Linked(r, Between(Here))
    <2>1. x \notin RunQueue.waiting /\ RunQueue \in Queues /\ Linked(RunQueue, Between(Here))
        BY <1>2, <1>3, <1>4 DEF RunQueue
    <2> QED BY <1>3, <1>5, <1>7, <2>1, SetStatLinked
<1> HIDE DEF r
<1>10. r.stat[x] = "CLOSE" /\ x \notin r.waiting /\ x \notin ToSet(r.defunct) /\ r.current # x
    BY <1>3, <1>4, <1>5, <1>8
<1>11. ChangesOnly(x, r)
    BY <1>4, <1>8 DEF ChangesOnly
<1>12. /\ Here'.pc[m] = "defunct" /\ Here'.arg[m] = x /\ Here'.timer[x] = FALSE
       /\ Here'.arg[x] = NoThread
    BY <1>1, <1>3, <1>4 DEF Here, x
<1>13. CallOK(r, Here', m)
    BY <1>3, <1>10, <1>12 DEF CallOK
<1>14. LifeOK(r, Here', x)
    BY <1>3, <1>10, <1>12 DEF LifeOK
<1>15. "defunct" \in Pcs /\ x \in {NoThread, x}
    BY DEF Pcs
<1>16. r.stat[x] # "RUNNING" /\ r.stat[x] # "READY" /\ r.group \subseteq group
    BY <1>8, <1>10
<1> QED BY <1>1, <1>2, <1>6, <1>8, <1>9, <1>11, <1>13, <1>14, <1>15, <1>16, CallAdvances

LEMMA DeleteDefunctStep ==
    ASSUME IInv, NEW m, DeleteDefunct(m)
    PROVE  IInv'
<1> DEFINE x == arg[m]
           r == IF x \in dynamic THEN [RunQueue EXCEPT !.defunct = <<x>> \o @] ELSE RunQueue
<1>1. /\ current = m /\ pc[m] = "defunct"
      /\ pc' = [pc EXCEPT ![m] = "run"] /\ arg' = [arg EXCEPT ![m] = NoThread]
      /\ timer' = timer
      /\ dynamic' = dynamic /\ slice' = slice /\ lock_nest' = lock_nest /\ lazy' = lazy
      /\ RunQueue' = r
    BY DEF DeleteDefunct, Goto, RunQueue
<1>2. /\ ActsOn(m, x) /\ CallOK(RunQueue, Here, m) /\ LifeOK(RunQueue, Here, x)
      /\ Linked(RunQueue, Between(Here))
    BY <1>1, InCall
<1>3. /\ x \in Threads /\ x # m /\ m \in Threads /\ x # NoThread
      /\ stat[x] = "CLOSE" /\ x \notin ToSet(defunct) /\ x # current
      /\ ~timer[x] /\ arg[x] = NoThread
    <2>1. /\ x \in Threads /\ x # m /\ m \in Threads /\ x # NoThread
          /\ stat[x] = "CLOSE" /\ x \notin ToSet(defunct) /\ x # current
        BY <1>1, <1>2, Names DEF ActsOn, CallOK, RunQueue, Here
    <2> HIDE DEF x
    <2> QED BY <1>2, <2>1 DEF LifeOK, RunQueue, Here
<1>4. /\ RunQueue \in Queues /\ timer \in [Threads -> BOOLEAN] /\ stat \in [Threads -> Stats]
      /\ pc \in [Threads -> Pcs] /\ arg \in [Threads -> Threads \cup {NoThread}]
      /\ current \in Threads
    BY Before
<1> HIDE DEF x
<1>5. /\ RunQueue \in Queues /\ Linked(RunQueue, Between(Here)) /\ RunQueue.stat[x] = "CLOSE"
      /\ x \notin ToSet(RunQueue.defunct)
    BY <1>2, <1>3, <1>4 DEF RunQueue
<1>6. /\ r \in Queues /\ Linked(r, Between(Here))
      /\ r.stat = RunQueue.stat /\ r.prio = RunQueue.prio /\ r.group = RunQueue.group
      /\ r.current = RunQueue.current /\ r.waiting = RunQueue.waiting
      /\ ToSet(r.defunct) = ToSet(RunQueue.defunct) \cup (IF x \in dynamic THEN {x} ELSE {})
    <2>1. CASE x \in dynamic
        <3>1. r = [RunQueue EXCEPT !.defunct = <<x>> \o @]
            BY <2>1
        <3> HIDE DEF r
        <3> QED BY <1>3, <1>5, <2>1, <3>1, DefunctFacts
    <2>2. CASE x \notin dynamic
        <3>1. r = RunQueue
            BY <2>2
        <3> HIDE DEF r
        <3> QED BY <1>5, <2>2, <3>1
    <2> QED BY <2>1, <2>2
<1> HIDE DEF r
<1>7. /\ r.stat = stat /\ r.prio = prio /\ r.group = group
      /\ r.current = current /\ r.waiting = waiting
      /\ ToSet(r.defunct) = ToSet(defunct) \cup (IF x \in dynamic THEN {x} ELSE {})
    BY <1>6 DEF RunQueue
<1>8. ChangesOnly(x, r)
    BY <1>7 DEF ChangesOnly
<1>9. /\ Here'.pc[m] = "run" /\ Here'.arg[m] = NoThread /\ Here'.timer[x] = FALSE
      /\ Here'.arg[x] = NoThread /\ Here'.dynamic = dynamic
    BY <1>1, <1>3, <1>4 DEF Here
<1>10. CallOK(r, Here', m)
    BY <1>4, <1>7, <1>9, FreeCall
<1>11. LifeOK(r, Here', x)
    BY <1>3, <1>7, <1>9 DEF LifeOK
<1>12. "run" \in Pcs /\ NoThread \in {NoThread, x}
    BY DEF Pcs
<1>13. r.stat[x] # "RUNNING" /\ r.stat[x] # "READY" /\ r.group \subseteq group
    BY <1>3, <1>7
<1> QED BY <1>1, <1>2, <1>6, <1>8, <1>10, <1>11, <1>12, <1>13, CallAdvances

(* No call is about the running thread; in its own code it is not closed. *)
LEMMA CurrentCalm ==
    ASSUME IInv, pc[current] \in {"run", "sched"}
    PROVE  /\ current \in Threads /\ arg[current] = NoThread /\ current \notin Between(Here)
           /\ \A u \in Threads : arg[u] # current
           /\ pc[current] = "run" => stat[current] \in {"RUNNING", "SUSPEND"}
           /\ lock_nest # 0 => stat[current] # "CLOSE"
<1>1. /\ current \in Threads /\ CallOK(RunQueue, Here, current)
      /\ stat[current] \in {"RUNNING", "SUSPEND", "CLOSE"}
      /\ Deserved(RunQueue, Here, lazy)
    BY Before
<1>2. \A u \in Threads : arg[u] # current
    <2>1. \A u \in Threads : CallOK(RunQueue, Here, u)
        BY Before
    <2> QED BY <2>1 DEF CallOK, RunQueue, Here
<1>3. arg[current] = NoThread
    BY <1>1 DEF CallOK, Here
<1>4. current \notin Between(Here)
    BY <1>2, Names DEF Between, Here
<1>5. /\ pc[current] = "run" => stat[current] # "CLOSE"
      /\ lock_nest # 0 => stat[current] # "CLOSE"
    BY <1>1 DEF Deserved, RunQueue, Here
<1> QED BY <1>1, <1>2, <1>3, <1>4, <1>5

(* The running thread changes itself on its way to rt_schedule. *)
LEMMA LeavesRun ==
    ASSUME IInv, NEW t, t = current, pc[t] = "run", t # Idle,
           NEW r \in Queues, RunQueue' = r, ChangesOnly(t, r), Linked(r, Between(Here)),
           r.stat[t] \in {"SUSPEND", "CLOSE"}, r.stat[t] = "CLOSE" => lock_nest = 0,
           pc' = [pc EXCEPT ![t] = "sched"], arg' = arg,
           NEW b \in BOOLEAN, timer' = [timer EXCEPT ![t] = b], b => r.stat[t] = "SUSPEND",
           dynamic' = dynamic, slice' = slice, lock_nest' = lock_nest, lazy' = lazy,
           t \in ToSet(r.defunct) => t \in dynamic,
           r.stat[t] = "CLOSE" /\ t \in dynamic => t \in ToSet(r.defunct)
    PROVE  IInv'
<1>1. /\ current \in Threads /\ arg[current] = NoThread /\ current \notin Between(Here)
      /\ \A u \in Threads : arg[u] # current
    BY CurrentCalm
<1>2. /\ r.prio = prio /\ r.current = current
      /\ \A u \in Threads \ {t} : /\ r.stat[u] = stat[u]
                                  /\ u \in r.waiting <=> u \in waiting
                                  /\ u \in ToSet(r.defunct) <=> u \in ToSet(defunct)
    BY DEF ChangesOnly
<1>3. /\ pc \in [Threads -> Pcs] /\ arg \in [Threads -> Threads \cup {NoThread}]
      /\ timer \in [Threads -> BOOLEAN]
    BY Before
<1>4. Here' \in CallStates
    <2>1. pc' \in [Threads -> Pcs] /\ arg' \in [Threads -> Threads \cup {NoThread}]
        BY <1>1, <1>3 DEF Pcs
    <2>2. timer' \in [Threads -> BOOLEAN]
        BY <1>1, <1>3
    <2>3. dynamic' \subseteq Threads /\ lock_nest' \in Nat
        BY Before
    <2> QED BY <2>1, <2>2, <2>3, CallsNext
<1>5. Sound(RunQueue, Here) /\ Ranges
    BY Before
<1>6. OthersSame(RunQueue, Here, r, Here', t, t)
    <2>1. \A u \in Threads \ {t} : timer'[u] = timer[u] /\ pc'[u] = pc[u]
        BY <1>1, <1>3
    <2> QED BY <1>2, <2>1 DEF OthersSame, RunQueue, Here
<1>7. CallAbout(RunQueue, Here, r, Here', t, t) /\ StatFits(RunQueue, r, t)
    BY <1>1 DEF CallAbout, StatFits, RunQueue, Here
<1>8. CallOK(r, Here', t)
    <2>1. Here'.pc[t] = "sched" /\ Here'.arg[t] = NoThread /\ r.current \in Threads
        BY <1>1, <1>2, <1>3 DEF Here
    <2> QED BY <2>1, FreeCall
<1>9. LifeOK(r, Here', t)
    <2>1. Here'.timer[t] = b /\ Here'.arg[t] = NoThread /\ Here'.dynamic = dynamic
        BY <1>1, <1>3 DEF Here
    <2> QED BY <2>1 DEF LifeOK
<1>10. Sound(r, Here')
    <2>1. Here'.lock = Here.lock /\ r.stat[t] # "READY" /\ t \in Threads
        BY <1>1 DEF Here
    <2> QED BY <1>4, <1>5, <1>6, <1>7, <1>8, <1>9, <2>1, LocalStep
<1>11. Deserved(r, Here', lazy')
    <2>1. r.current = t /\ pc'[t] = "sched"
        BY <1>1, <1>2, <1>3
    <2> QED BY <2>1 DEF Deserved, Here
<1>12. Ranges'
    BY <1>5, RangesKept DEF Ranges
<1> QED BY <1>10, <1>11, <1>12, After

LEMMA SuspendedFacts ==
    ASSUME IInv, NEW t, t = current, pc[t] = "run"
    PROVE  LET r == Suspended(t)
           IN  /\ r \in Queues /\ ChangesOnly(t, r) /\ Linked(r, Between(Here))
               /\ r.stat[t] = "SUSPEND" /\ t \notin ToSet(r.defunct)
<1> DEFINE r == Suspended(t)
<1>1. /\ t \in Threads /\ t \notin Between(Here) /\ stat[t] \in {"RUNNING", "SUSPEND"}
      /\ RunQueue \in Queues /\ Linked(RunQueue, Between(Here)) /\ stat \in [Threads -> Stats]
    BY CurrentCalm, Before
<1>2. CASE stat[t] = "RUNNING"
    <2> DEFINE w == SetStat(RemoveThread(RunQueue, t), t, "SUSPEND")
    <2>1. r = w
        BY <1>2 DEF Suspended
    <2>2. "SUSPEND" \in Stats /\ "SUSPEND" # "READY"
        BY DEF Stats
    <2>3. /\ w \in Queues /\ Linked(w, Between(Here) \ {t})
          /\ w.stat = [RunQueue.stat EXCEPT ![t] = "SUSPEND"] /\ w.prio = RunQueue.prio
          /\ w.current = RunQueue.current
          /\ w.waiting = RunQueue.waiting \ {t}
          /\ ToSet(w.defunct) = ToSet(RunQueue.defunct) \ {t}
        <3>1. RunQueue \in Queues /\ t \in Threads /\ Linked(RunQueue, Between(Here))
            BY <1>1
        <3> QED BY <2>2, <3>1, LeavesFacts
    <2> HIDE DEF w
    <2>4. Between(Here) \ {t} = Between(Here)
        BY <1>1
    <2>5. /\ w.stat = [stat EXCEPT ![t] = "SUSPEND"] /\ w.prio = prio
          /\ w.current = current /\ w.waiting = waiting \ {t}
          /\ ToSet(w.defunct) = ToSet(defunct) \ {t}
        BY <2>3 DEF RunQueue
    <2>6. ChangesOnly(t, w) /\ w.stat[t] = "SUSPEND" /\ t \notin ToSet(w.defunct)
        BY <1>1, <2>5 DEF ChangesOnly
    <2> QED BY <2>1, <2>3, <2>4, <2>6
<1>3. CASE stat[t] = "SUSPEND"
    <2>1. r = RunQueue
        BY <1>3 DEF Suspended
    <2> HIDE DEF r
    <2>2. ChangesOnly(t, RunQueue) /\ RunQueue.stat[t] = "SUSPEND"
        BY <1>3 DEF ChangesOnly, RunQueue
    <2>3. t \notin ToSet(RunQueue.defunct)
        BY <1>1, <2>2 DEF Linked
    <2> QED BY <1>1, <2>1, <2>2, <2>3 DEF r
<1> QED BY <1>1, <1>2, <1>3

LEMMA ParkStep ==
    ASSUME IInv, NEW t, Park(t)
    PROVE  IInv'
<1> DEFINE r == Suspended(t)
<1>1. /\ t = current /\ pc[t] = "run" /\ t \in Managed /\ Becomes(r)
      /\ timer' = [timer EXCEPT ![t] = FALSE] \/ timer' = timer
      /\ pc' = [pc EXCEPT ![t] = "sched"]
      /\ arg' = arg /\ dynamic' = dynamic /\ slice' = slice /\ lock_nest' = lock_nest /\ lazy' = lazy
    BY DEF Park, Runs, Goto
<1>2. /\ r \in Queues /\ ChangesOnly(t, r) /\ Linked(r, Between(Here))
      /\ r.stat[t] = "SUSPEND" /\ t \notin ToSet(r.defunct)
    BY <1>1, SuspendedFacts
<1> HIDE DEF r
<1>3. RunQueue' = r
    BY <1>1, <1>2, BecomesIs
<1>4. PICK b \in BOOLEAN : timer' = [timer EXCEPT ![t] = b]
    <2>1. timer \in [Threads -> BOOLEAN] /\ t \in Threads
        BY <1>1, Before
    <2>2. timer = [timer EXCEPT ![t] = timer[t]] /\ timer[t] \in BOOLEAN
        BY <2>1
    <2> QED BY <1>1, <2>2
<1>5. t # Idle
    BY <1>1, Names
<1> QED BY <1>1, <1>2, <1>3, <1>4, <1>5, LeavesRun

LEMMA SleepStep ==
    ASSUME IInv, NEW t, Sleep(t)
    PROVE  IInv'
<1> DEFINE r == Suspended(t)
<1>1. /\ t = current /\ pc[t] = "run" /\ t # Idle /\ Becomes(r)
      /\ timer' = [timer EXCEPT ![t] = TRUE]
      /\ pc' = [pc EXCEPT ![t] = "sched"]
      /\ arg' = arg /\ dynamic' = dynamic /\ slice' = slice /\ lock_nest' = lock_nest /\ lazy' = lazy
    BY DEF Sleep, Runs, Goto
<1>2. /\ r \in Queues /\ ChangesOnly(t, r) /\ Linked(r, Between(Here))
      /\ r.stat[t] = "SUSPEND" /\ t \notin ToSet(r.defunct)
    BY <1>1, SuspendedFacts
<1> HIDE DEF r
<1>3. RunQueue' = r
    BY <1>1, <1>2, BecomesIs
<1> QED BY <1>1, <1>2, <1>3, LeavesRun

LEMMA BlockStep ==
    ASSUME IInv, NEW t, NEW timed \in BOOLEAN, Block(t, timed)
    PROVE  IInv'
<1> DEFINE q == Suspended(t)
           r == [q EXCEPT !.waiting = @ \cup {t}]
<1>1. /\ t = current /\ pc[t] = "run" /\ t # Idle /\ Becomes(r)
      /\ timer' = [timer EXCEPT ![t] = timed]
      /\ pc' = [pc EXCEPT ![t] = "sched"]
      /\ arg' = arg /\ dynamic' = dynamic /\ slice' = slice /\ lock_nest' = lock_nest /\ lazy' = lazy
    BY DEF Block, Runs, Goto
<1>2. /\ q \in Queues /\ ChangesOnly(t, q) /\ Linked(q, Between(Here))
      /\ q.stat[t] = "SUSPEND" /\ t \notin ToSet(q.defunct)
    BY <1>1, SuspendedFacts
<1>3. t \in Threads
    BY <1>1, Before
<1> HIDE DEF q
<1>4. /\ r \in Queues /\ r.stat = q.stat /\ r.prio = q.prio /\ r.ready = q.ready
      /\ r.group = q.group /\ r.current = q.current /\ r.waiting = q.waiting \cup {t}
      /\ r.defunct = q.defunct
    BY <1>2, <1>3 DEF Queues
<1> HIDE DEF r
<1>5. RunQueue' = r
    BY <1>1, <1>4, BecomesIs
<1>6. Linked(r, Between(Here))
    <2>1. \A u \in Threads : /\ u \in r.waiting => r.stat[u] = "SUSPEND"
                             /\ u \in ToSet(r.defunct) => r.stat[u] = "CLOSE"
        BY <1>2, <1>4 DEF Linked
    <2> QED BY <1>2, <1>4, <2>1 DEF Linked
<1>7. ChangesOnly(t, r)
    BY <1>2, <1>4 DEF ChangesOnly
<1>8. r.stat[t] = "SUSPEND" /\ t \notin ToSet(r.defunct)
    BY <1>2, <1>4
<1> QED BY <1>1, <1>4, <1>5, <1>6, <1>7, <1>8, LeavesRun

LEMMA ThreadExitStep ==
    ASSUME IInv, NEW t, ThreadExit(t)
    PROVE  IInv'
<1> DEFINE q == SetStat(RemoveThread(RunQueue, t), t, "CLOSE")
           r == IF t \in dynamic THEN [q EXCEPT !.defunct = <<t>> \o @] ELSE q
<1>1. /\ t = current /\ pc[t] = "run" /\ t \in Managed /\ Becomes(r) /\ lock_nest = 0
      /\ timer' = [timer EXCEPT ![t] = FALSE]
      /\ pc' = [pc EXCEPT ![t] = "sched"]
      /\ arg' = arg /\ dynamic' = dynamic /\ slice' = slice /\ lock_nest' = lock_nest /\ lazy' = lazy
    BY DEF ThreadExit, Runs, Goto
<1>2. /\ t \in Threads /\ t \notin Between(Here) /\ stat \in [Threads -> Stats]
      /\ RunQueue \in Queues /\ Linked(RunQueue, Between(Here)) /\ t # Idle
    BY <1>1, CurrentCalm, Before, Names
<1>3. /\ q \in Queues /\ Linked(q, Between(Here) \ {t})
      /\ q.stat = [RunQueue.stat EXCEPT ![t] = "CLOSE"] /\ q.prio = RunQueue.prio
      /\ q.current = RunQueue.current /\ q.waiting = RunQueue.waiting \ {t}
      /\ ToSet(q.defunct) = ToSet(RunQueue.defunct) \ {t}
    <2>1. "CLOSE" \in Stats /\ "CLOSE" # "READY"
        BY DEF Stats
    <2>2. RunQueue \in Queues /\ t \in Threads /\ Linked(RunQueue, Between(Here))
        BY <1>2
    <2> QED BY <2>1, <2>2, LeavesFacts
<1> HIDE DEF q
<1>4. /\ q.stat = [stat EXCEPT ![t] = "CLOSE"] /\ q.prio = prio /\ q.current = current
      /\ q.waiting = waiting \ {t} /\ ToSet(q.defunct) = ToSet(defunct) \ {t}
    BY <1>3 DEF RunQueue
<1>5. Between(Here) \ {t} = Between(Here)
    BY <1>2
<1>6. /\ r \in Queues /\ Linked(r, Between(Here))
      /\ r.stat = q.stat /\ r.prio = q.prio /\ r.current = q.current /\ r.waiting = q.waiting
      /\ ToSet(r.defunct) = ToSet(q.defunct) \cup (IF t \in dynamic THEN {t} ELSE {})
    <2>1. /\ q \in Queues /\ Linked(q, Between(Here)) /\ q.stat[t] = "CLOSE"
          /\ t \notin ToSet(q.defunct)
        BY <1>2, <1>3, <1>4, <1>5
    <2>2. CASE t \in dynamic
        <3>1. r = [q EXCEPT !.defunct = <<t>> \o @]
            BY <2>2
        <3> HIDE DEF r
        <3> QED BY <1>2, <2>1, <2>2, <3>1, DefunctFacts
    <2>3. CASE t \notin dynamic
        <3>1. r = q
            BY <2>3
        <3> HIDE DEF r
        <3> QED BY <2>1, <2>3, <3>1
    <2> QED BY <2>2, <2>3
<1>7. RunQueue' = r
    <2> HIDE DEF r
    <2> QED BY <1>1, <1>6, BecomesIs
<1> HIDE DEF r
<1>8. ChangesOnly(t, r)
    BY <1>2, <1>4, <1>6 DEF ChangesOnly
<1>9. r.stat[t] = "CLOSE" /\ (t \in ToSet(r.defunct) <=> t \in dynamic)
    BY <1>2, <1>4, <1>6
<1> QED BY <1>1, <1>2, <1>6, <1>7, <1>8, <1>9, LeavesRun

(* The running thread goes into rt_schedule or out of it, or it locks or   *)
(* unlocks the scheduler.                                                  *)
LEMMA Unmoved ==
    ASSUME IInv, pc[current] \in {"run", "sched"},
           NEW label \in {"run", "sched"}, pc' = [pc EXCEPT ![current] = label],
           arg' = arg, timer' = timer, dynamic' = dynamic, lock_nest' \in Nat
    PROVE  Sound(RunQueue, Here')
<1>1. /\ current \in Threads /\ arg[current] = NoThread /\ current \notin Between(Here)
      /\ \A u \in Threads : arg[u] # current
    BY CurrentCalm
<1>2. /\ pc \in [Threads -> Pcs] /\ arg \in [Threads -> Threads \cup {NoThread}]
      /\ timer \in [Threads -> BOOLEAN] /\ dynamic \subseteq Threads
      /\ Sound(RunQueue, Here) /\ RunQueue \in Queues /\ Linked(RunQueue, Between(Here))
      /\ LifeOK(RunQueue, Here, current) /\ stat[current] \in {"RUNNING", "SUSPEND", "CLOSE"}
    BY <1>1, Before
<1>3. Here' \in CallStates
    <2>1. pc' \in [Threads -> Pcs]
        BY <1>1, <1>2 DEF Pcs
    <2> QED BY <1>2, <2>1, CallsNext
<1>4. \A u \in Threads \ {current} : Here.pc[u] # "suspend"
    <2>1. \A u \in Threads : CallOK(RunQueue, Here, u)
        BY Before
    <2> QED BY <2>1 DEF CallOK, RunQueue, Here
<1>5. OthersSame(RunQueue, Here, RunQueue, Here', current, current)
    <2>1. \A u \in Threads \ {current} : pc'[u] = pc[u]
        BY <1>1, <1>2
    <2> QED BY <2>1 DEF OthersSame, Here
<1>6. CallAbout(RunQueue, Here, RunQueue, Here', current, current)
    BY <1>1 DEF CallAbout, Here
<1>7. StatFits(RunQueue, RunQueue, current) /\ RunQueue.stat[current] # "READY"
    <2>1. RunQueue.stat[Idle] \in {"READY", "RUNNING"}
        BY <1>2 DEF Sound
    <2> QED BY <1>2, <2>1 DEF StatFits, RunQueue
<1>8. CallOK(RunQueue, Here', current)
    <2>1. Here'.pc[current] \in {"run", "sched"} /\ Here'.arg[current] = NoThread
        BY <1>1, <1>2 DEF Here
    <2>2. RunQueue.current \in Threads
        BY <1>1 DEF RunQueue
    <2> QED BY <2>1, <2>2, FreeCall
<1>9. LifeOK(RunQueue, Here', current)
    BY <1>2 DEF LifeOK, Here
<1> QED BY <1>1, <1>2, <1>3, <1>4, <1>5, <1>6, <1>7, <1>8, <1>9, LocalStep

LEMMA EnterCriticalStep ==
    ASSUME IInv, NEW t, EnterCritical(t)
    PROVE  IInv'
<1>1. /\ t = current /\ pc[current] = "run" /\ lock_nest < MaxNest
      /\ lock_nest' = lock_nest + 1
      /\ pc' = pc /\ arg' = arg /\ timer' = timer /\ dynamic' = dynamic /\ slice' = slice
      /\ lazy' = lazy /\ RunQueue' = RunQueue
    BY DEF EnterCritical, Runs, links, RunQueue
<1>2. /\ current \in Threads /\ pc \in [Threads -> Pcs] /\ lock_nest \in Nat /\ Ranges
      /\ stat[current] # "CLOSE"
    BY <1>1, Before, CurrentCalm
<1>3. pc' = [pc EXCEPT ![current] = "run"]
    BY <1>1, <1>2
<1>4. lock_nest' \in Nat /\ lock_nest' # 0 /\ lock_nest' \in 0..MaxNest
    BY <1>1, <1>2, Names
<1>5. Sound(RunQueue', Here')
    BY <1>1, <1>3, <1>4, Unmoved
<1>6. Deserved(RunQueue', Here', lazy')
    <2>1. RunQueue'.stat[RunQueue'.current] # "CLOSE" /\ Here'.lock # 0
        BY <1>1, <1>2, <1>4 DEF RunQueue, Here
    <2> QED BY <2>1 DEF Deserved
<1>7. Ranges'
    BY <1>1, <1>2, <1>4 DEF Ranges
<1> QED BY <1>5, <1>6, <1>7, After

LEMMA ExitCriticalStep ==
    ASSUME IInv, NEW t, ExitCritical(t)
    PROVE  IInv'
<1>1. /\ t = current /\ pc[current] = "run" /\ lock_nest > 0
      /\ lock_nest' = lock_nest - 1
      /\ IF lock_nest = 1 THEN pc' = [pc EXCEPT ![current] = "sched"] ELSE pc' = pc
      /\ arg' = arg /\ timer' = timer /\ dynamic' = dynamic /\ slice' = slice
      /\ lazy' = lazy /\ RunQueue' = RunQueue
    BY DEF ExitCritical, Runs, Goto, links, RunQueue
<1>2. /\ current \in Threads /\ pc \in [Threads -> Pcs] /\ lock_nest \in Nat /\ Ranges
      /\ stat[current] # "CLOSE"
    BY <1>1, Before, CurrentCalm
<1>3. PICK label \in {"run", "sched"} :
         pc' = [pc EXCEPT ![current] = label] /\ (lock_nest = 1 => label = "sched")
    <2>1. CASE lock_nest = 1
        BY <1>1, <2>1
    <2>2. CASE lock_nest # 1
        <3>1. pc' = [pc EXCEPT ![current] = "run"]
            BY <1>1, <1>2, <2>2
        <3> QED BY <2>2, <3>1
    <2> QED BY <2>1, <2>2
<1>4. lock_nest' \in Nat /\ lock_nest' \in 0..MaxNest /\ (lock_nest' = 0 => lock_nest = 1)
    <2>1. lock_nest \in 0..MaxNest
        BY <1>2 DEF Ranges
    <2> QED BY <1>1, <1>2, <2>1, Names
<1>5. Sound(RunQueue', Here')
    BY <1>1, <1>3, <1>4, Unmoved
<1>6. Deserved(RunQueue', Here', lazy')
    <2>1. RunQueue'.stat[RunQueue'.current] # "CLOSE" /\ RunQueue'.current = current
        BY <1>1, <1>2 DEF RunQueue
    <2>2. lock_nest' = 0 => pc'[current] = "sched"
        BY <1>2, <1>3, <1>4
    <2>3. Here'.lock = lock_nest' /\ Here'.pc = pc'
        BY DEF Here
    <2> QED BY <2>1, <2>2, <2>3 DEF Deserved
<1>7. Ranges'
    BY <1>1, <1>2, <1>4 DEF Ranges
<1> QED BY <1>5, <1>6, <1>7, After

(* rt_schedule. *)
LEMMA RescheduleStep ==
    ASSUME NEW q, Sound(q, Here'), Reschedule(q), lock_nest' = lock_nest,
           lock_nest # 0 => q.stat[q.current] # "CLOSE", Ranges'
    PROVE  IInv'
<1> DEFINE r == Scheduled(q)
<1>1. Becomes(r) /\ lazy' = (lazy /\ lock_nest # 0)
    BY DEF Reschedule
<1>2. Here'.lock = lock_nest
    BY DEF Here
<1>3. Sound(r, Here') /\ Deserved(r, Here', lazy /\ lock_nest # 0)
    BY <1>2, ScheduledSound
<1>4. Deserved(r, Here', lazy')
    BY <1>1, <1>3
<1> HIDE DEF r
<1>5. r \in Queues
    BY <1>3 DEF Sound
<1>6. RunQueue' = r
    BY <1>1, <1>5, BecomesIs
<1> QED BY <1>3, <1>4, <1>6, After

LEMMA YieldStep ==
    ASSUME IInv, NEW t, Yield(t)
    PROVE  IInv'
<1>1. /\ pc[current] = "run" /\ Reschedule(RunQueue) /\ Here' = Here
      /\ slice' = slice /\ lock_nest' = lock_nest
    BY DEF Yield, Runs, Here
<1>2. Sound(RunQueue, Here) /\ Ranges /\ (lock_nest # 0 => stat[current] # "CLOSE")
    BY <1>1, Before, CurrentCalm
<1>3. Ranges'
    <2>1. lazy' \in BOOLEAN
        BY <1>1 DEF Reschedule
    <2> QED BY <1>1, <1>2, <2>1, RangesKept
<1>4. lock_nest # 0 => RunQueue.stat[RunQueue.current] # "CLOSE"
    BY <1>2 DEF RunQueue
<1> QED BY <1>1, <1>2, <1>3, <1>4, RescheduleStep

LEMMA ScheduleStep ==
    ASSUME IInv, NEW t, Schedule(t)
    PROVE  IInv'
<1>1. /\ pc[current] = "sched" /\ Reschedule(RunQueue)
      /\ pc' = [pc EXCEPT ![current] = "run"] /\ arg' = arg /\ timer' = timer
      /\ dynamic' = dynamic /\ slice' = slice /\ lock_nest' = lock_nest
    BY DEF Schedule, Goto
<1>2. Ranges /\ (lock_nest # 0 => stat[current] # "CLOSE") /\ lock_nest \in Nat
    BY <1>1, Before, CurrentCalm
<1>3. Sound(RunQueue, Here')
    BY <1>1, <1>2, Unmoved
<1>4. Ranges'
    <2>1. lazy' \in BOOLEAN
        BY <1>1 DEF Reschedule
    <2> QED BY <1>1, <1>2, <2>1, RangesKept
<1>5. lock_nest # 0 => RunQueue.stat[RunQueue.current] # "CLOSE"
    BY <1>2 DEF RunQueue
<1> QED BY <1>1, <1>3, <1>4, <1>5, RescheduleStep

LEMMA TickStep ==
    ASSUME IInv, Tick
    PROVE  IInv'
<1>1. /\ Here' = Here /\ lock_nest' = lock_nest
      /\ \/ /\ slice' = [slice EXCEPT ![current] = Slice[current]]
            /\ Reschedule(RunQueue)
         \/ /\ slice[current] # 1
            /\ slice' = [slice EXCEPT ![current] = slice[current] - 1]
            /\ RunQueue' = RunQueue /\ lazy' = lazy
    BY DEF Tick, links, Here, RunQueue
<1>2. /\ Sound(RunQueue, Here) /\ Deserved(RunQueue, Here, lazy) /\ Ranges
      /\ current \in Threads
    BY Before
<1>3. Ranges'
    <2>1. slice'[current] \in 1..Slice[current]
        <3>1. Slice[current] \in Nat \ {0} /\ slice[current] \in 1..Slice[current]
            BY <1>2, Names DEF Ranges
        <3>2. slice \in [Threads -> Nat]
            BY <1>2 DEF Ranges
        <3> QED BY <1>1, <1>2, <3>1, <3>2
    <2>2. lazy' \in BOOLEAN
        BY <1>1, <1>2 DEF Reschedule, Ranges
    <2>3. slice \in [Threads -> Nat] /\ \A t \in Threads : slice[t] \in 1..Slice[t]
        BY <1>2 DEF Ranges
    <2>4. \A t \in Threads \ {current} : slice'[t] = slice[t]
        BY <1>1, <2>3
    <2>5. slice' \in [Threads -> Nat]
        <3>1. Slice[current] \in Nat /\ slice[current] - 1 \in Int /\ slice'[current] \in Nat
            BY <1>2, <2>1, <2>3, Names
        <3>2. PICK n : slice' = [slice EXCEPT ![current] = n]
            BY <1>1
        <3>3. n = slice'[current]
            BY <1>2, <2>3, <3>2
        <3> QED BY <2>3, <3>1, <3>2, <3>3
    <2> QED BY <1>1, <1>2, <2>1, <2>2, <2>3, <2>4, <2>5 DEF Ranges
<1>4. CASE Reschedule(RunQueue)
    <2>1. lock_nest # 0 => RunQueue.stat[RunQueue.current] # "CLOSE"
        BY <1>2 DEF Deserved, RunQueue, Here
    <2> QED BY <1>1, <1>2, <1>3, <1>4, <2>1, RescheduleStep
<1>5. CASE RunQueue' = RunQueue /\ lazy' = lazy
    BY <1>1, <1>2, <1>3, <1>5, After
<1> QED BY <1>1, <1>4, <1>5

(* A suspended thread that no call is about is made ready. *)
LEMMA WakeStep ==
    ASSUME IInv, NEW t \in Threads, stat[t] = "SUSPEND", \A u \in Threads : arg[u] # t,
           timer' = [timer EXCEPT ![t] = FALSE],
           Reschedule(InsertThread(Unlink(RunQueue, t), t)),
           dynamic' = dynamic, slice' = slice, lock_nest' = lock_nest, pc' = pc, arg' = arg
    PROVE  IInv'
<1> DEFINE q == Unlink(RunQueue, t)
           r == InsertThread(q, t)
<1>1. /\ RunQueue \in Queues /\ timer \in [Threads -> BOOLEAN] /\ stat \in [Threads -> Stats]
      /\ pc \in [Threads -> Pcs] /\ arg \in [Threads -> Threads \cup {NoThread}]
      /\ dynamic \subseteq Threads /\ lock_nest \in Nat
      /\ current \in Threads /\ Linked(RunQueue, Between(Here))
      /\ Sound(RunQueue, Here) /\ Deserved(RunQueue, Here, lazy) /\ Ranges
    BY Before
<1>2. RunQueue.stat[t] = "SUSPEND" /\ t \notin ToSet(RunQueue.defunct) /\ t \notin Between(Here)
    <2>1. RunQueue.stat[t] = "SUSPEND"
        BY DEF RunQueue
    <2>2. t \notin Between(Here)
        BY Names DEF Between, Here
    <2> QED BY <1>1, <2>1, <2>2 DEF Linked
<1>3. Linked(q, Between(Here))
    BY <1>1, <1>2, UnlinkLinked
<1>4. /\ q \in Queues
      /\ q.stat = RunQueue.stat /\ q.prio = RunQueue.prio /\ q.current = RunQueue.current
      /\ q.waiting = RunQueue.waiting \ {t} /\ q.defunct = ListRemove(RunQueue.defunct, t)
    BY <1>1, UnlinkFields
<1> HIDE DEF q
<1>5. q.defunct = RunQueue.defunct /\ t \notin q.waiting /\ q.stat[t] # "READY"
    BY <1>2, <1>4 DEF ListRemove
<1>6. Linked(r, Between(Here) \ {t})
    BY <1>2, <1>3, <1>4, <1>5, InsertLinked
<1>7. /\ r \in Queues
      /\ r.prio = q.prio /\ r.current = q.current
      /\ r.waiting = q.waiting /\ r.defunct = q.defunct
      /\ t = q.current => r.stat = [q.stat EXCEPT ![t] = "RUNNING"]
      /\ t # q.current => r.stat = [q.stat EXCEPT ![t] = "READY"]
    BY <1>4, InsertThreadFields
<1> HIDE DEF r
<1>8. /\ r.current = current /\ r.waiting = waiting \ {t} /\ r.defunct = defunct
      /\ \A u \in Threads \ {t} : r.stat[u] = stat[u]
      /\ r.stat[t] = IF t = current THEN "RUNNING" ELSE "READY"
    <2>1. /\ r.current = current /\ r.waiting = waiting \ {t} /\ r.defunct = defunct
          /\ t = current => r.stat = [stat EXCEPT ![t] = "RUNNING"]
          /\ t # current => r.stat = [stat EXCEPT ![t] = "READY"]
        BY <1>4, <1>5, <1>7 DEF RunQueue
    <2> QED BY <1>1, <2>1
<1>9. Here' \in CallStates
    <2>1. timer' \in [Threads -> BOOLEAN]
        BY <1>1
    <2> QED BY <1>1, <2>1, CallsNext
<1>10. OthersSame(RunQueue, Here, r, Here', t, NoThread)
    <2>1. \A u \in Threads \ {t} : timer'[u] = timer[u]
        BY <1>1
    <2> QED BY <1>8, <2>1 DEF OthersSame, RunQueue, Here
<1>11. CallAbout(RunQueue, Here, r, Here', t, NoThread)
    BY Names DEF CallAbout, Here
<1>12. StatFits(RunQueue, r, t)
    <2>1. Idle # t
        BY <1>1, <1>2 DEF Sound
    <2> QED BY <1>8, <2>1 DEF StatFits, RunQueue
<1>13. LifeOK(r, Here', t)
    <2>1. r.stat[t] \in {"READY", "RUNNING"} /\ t \notin ToSet(r.defunct) /\ Here'.timer[t] = FALSE
        BY <1>1, <1>2, <1>8 DEF RunQueue, Here
    <2> QED BY <2>1 DEF LifeOK
<1>14. Sound(r, Here')
    <2>1. /\ Here'.lock = Here.lock /\ NoThread \notin Managers /\ NoThread \notin Threads
          /\ t \notin Between(Here) \ {t}
          /\ \A u \in Threads \ {t} : u \in Between(Here) \ {t} <=> u \in Between(Here)
        BY Names DEF Here
    <2>2. r \in Queues
        BY <1>7
    <2> QED BY <1>1, <1>6, <1>9, <1>10, <1>11, <1>12, <1>13, <2>1, <2>2, LocalStep
<1>15. lock_nest # 0 => r.stat[r.current] # "CLOSE"
    <2>1. lock_nest # 0 => stat[current] # "CLOSE"
        BY <1>1 DEF Deserved, RunQueue, Here
    <2> QED BY <1>1, <1>8, <2>1
<1>16. Reschedule(r)
    BY DEF r, q
<1>17. Ranges'
    <2>1. lazy' \in BOOLEAN
        BY <1>16 DEF Reschedule
    <2> QED BY <1>1, <2>1, RangesKept
<1> QED BY <1>14, <1>15, <1>16, <1>17, RescheduleStep

LEMMA ThreadTimeoutStep ==
    ASSUME IInv, NEW t \in Threads, ThreadTimeout(t)
    PROVE  IInv'
<1>1. /\ timer[t] /\ timer' = [timer EXCEPT ![t] = FALSE]
      /\ Reschedule(InsertThread(Unlink(RunQueue, t), t))
      /\ dynamic' = dynamic /\ slice' = slice /\ lock_nest' = lock_nest /\ pc' = pc /\ arg' = arg
    BY DEF ThreadTimeout
<1>2. LifeOK(RunQueue, Here, t) /\ \A u \in Threads : CallOK(RunQueue, Here, u)
    BY Before
<1>3. stat[t] = "SUSPEND"
    BY <1>1, <1>2 DEF LifeOK, RunQueue, Here
<1>4. ASSUME NEW u \in Threads, arg[u] = t PROVE FALSE
    <2>1. pc[u] \in Pcs /\ t # NoThread
        BY Before, Names
    <2> QED BY <1>1, <1>2, <1>3, <1>4, <2>1 DEF CallOK, RunQueue, Here, Pcs
<1> QED BY <1>1, <1>3, <1>4, WakeStep

LEMMA IsrResumeStep ==
    ASSUME IInv, NEW t \in Threads, IsrResume(t)
    PROVE  IInv'
<1>1. /\ t \in waiting /\ stat[t] = "SUSPEND" /\ timer' = [timer EXCEPT ![t] = FALSE]
      /\ Reschedule(InsertThread(Unlink(RunQueue, t), t))
      /\ dynamic' = dynamic /\ slice' = slice /\ lock_nest' = lock_nest /\ pc' = pc /\ arg' = arg
    BY DEF IsrResume
<1>2. \A u \in Threads : CallOK(RunQueue, Here, u)
    BY Before
<1>3. ASSUME NEW u \in Threads, arg[u] = t PROVE FALSE
    <2>1. pc[u] \in Pcs /\ t # NoThread
        BY Before, Names
    <2> QED BY <1>1, <1>2, <1>3, <2>1 DEF CallOK, RunQueue, Here, Pcs
<1> QED BY <1>1, <1>3, WakeStep

LEMMA IdleReapStep ==
    ASSUME IInv, IdleReap
    PROVE  IInv'
<1> DEFINE x == Head(defunct)
           r == [RunQueue EXCEPT !.defunct = Tail(@)]
<1>1. /\ current = Idle /\ pc[Idle] = "run" /\ defunct # <<>> /\ Reschedule(r)
      /\ pc' = [pc EXCEPT ![Idle] = "free"] /\ arg' = [arg EXCEPT ![Idle] = x]
      /\ timer' = timer /\ dynamic' = dynamic /\ slice' = slice /\ lock_nest' = lock_nest
    BY DEF IdleReap, Runs, Goto
<1>2. /\ RunQueue \in Queues /\ timer \in [Threads -> BOOLEAN] /\ stat \in [Threads -> Stats]
      /\ pc \in [Threads -> Pcs] /\ arg \in [Threads -> Threads \cup {NoThread}]
      /\ dynamic \subseteq Threads /\ lock_nest \in Nat /\ defunct \in Seq(Threads)
      /\ current \in Threads /\ Linked(RunQueue, Between(Here))
      /\ Sound(RunQueue, Here) /\ Deserved(RunQueue, Here, lazy) /\ Ranges
      /\ \A u \in Threads : CallOK(RunQueue, Here, u)
    BY Before
<1>3. arg[Idle] = NoThread /\ stat[Idle] \in {"RUNNING", "SUSPEND"}
    BY <1>1, CurrentCalm
<1>4. /\ x \in Threads /\ x \in ToSet(defunct)
      /\ Tail(defunct) \in Seq(Threads) /\ IsInjective(Tail(defunct))
      /\ ToSet(Tail(defunct)) = ToSet(defunct) \ {x}
    <2>1. IsInjective(defunct)
        BY <1>2 DEF Linked, RunQueue
    <2> QED BY <1>1, <1>2, <2>1, TailList
<1> HIDE DEF x
<1>5. stat[x] = "CLOSE" /\ x # Idle /\ x # NoThread
    BY <1>2, <1>3, <1>4, Names DEF Linked, RunQueue
<1>6. LifeOK(RunQueue, Here, x)
    BY <1>4, Before
<1>7. x \in dynamic /\ ~timer[x] /\ arg[x] = NoThread
    BY <1>4, <1>5, <1>6 DEF LifeOK, RunQueue, Here
<1>8. ASSUME NEW u \in Threads, arg[u] = x PROVE FALSE
    <2>1. pc[u] \in Pcs
        BY <1>2
    <2> QED BY <1>2, <1>4, <1>5, <1>8, <2>1 DEF CallOK, RunQueue, Here, Pcs
<1>9. /\ r \in Queues
      /\ r.stat = stat /\ r.prio = prio /\ r.ready = ready /\ r.group = group
      /\ r.current = current /\ r.waiting = waiting /\ r.defunct = Tail(defunct)
    <2> DEFINE list == Tail(defunct)
    <2>1. r = [RunQueue EXCEPT !.defunct = list]
        BY DEF RunQueue
    <2>2. list \in Seq(Threads)
        BY <1>4
    <2> HIDE DEF list, r
    <2>3. /\ r \in Queues
          /\ r.stat = RunQueue.stat /\ r.prio = RunQueue.prio /\ r.ready = RunQueue.ready
          /\ r.group = RunQueue.group /\ r.current = RunQueue.current
          /\ r.waiting = RunQueue.waiting /\ r.defunct = list
        BY <1>2, <2>1, <2>2 DEF Queues
    <2> QED BY <2>3 DEF RunQueue, list
<1> HIDE DEF r
<1>10. Linked(r, Between(Here))
    <2>1. \A u \in Threads : /\ u \in r.waiting => r.stat[u] = "SUSPEND"
                             /\ u \in ToSet(r.defunct) => r.stat[u] = "CLOSE"
        BY <1>2, <1>4, <1>9 DEF Linked, RunQueue
    <2> QED BY <1>2, <1>4, <1>9, <2>1 DEF Linked, RunQueue
<1>11. Here' \in CallStates
    <2>1. pc' \in [Threads -> Pcs] /\ arg' \in [Threads -> Threads \cup {NoThread}]
        BY <1>1, <1>2, <1>4 DEF Pcs
    <2> QED BY <1>1, <1>2, <2>1, CallsNext
<1>12. OthersSame(RunQueue, Here, r, Here', x, Idle)
    <2>1. \A u \in Threads \ {Idle} : pc'[u] = pc[u] /\ arg'[u] = arg[u]
        BY <1>1, <1>2
    <2> QED BY <1>1, <1>4, <1>9, <2>1 DEF OthersSame, RunQueue, Here
<1>13. /\ Here'.pc[Idle] = "free" /\ Here'.arg[Idle] = x /\ Here'.timer[x] = FALSE
       /\ Here'.arg[x] = NoThread /\ Here'.dynamic = dynamic
    BY <1>1, <1>2, <1>4, <1>5, <1>7, Names DEF Here
<1>14. CallAbout(RunQueue, Here, r, Here', x, Idle)
    <2>1. \A u \in Threads : Here.arg[u] # x
        BY <1>8 DEF Here
    <2>2. Here.arg[Idle] = NoThread /\ Idle = RunQueue.current
        BY <1>1, <1>3 DEF Here, RunQueue
    <2> QED BY <1>3, <1>9, <1>13, <2>1, <2>2 DEF CallAbout
<1>15. StatFits(RunQueue, r, x)
    BY <1>1, <1>5, <1>9 DEF StatFits, RunQueue
<1>16. CallOK(r, Here', Idle)
    BY <1>1, <1>4, <1>5, <1>7, <1>9, <1>13 DEF CallOK
<1>17. LifeOK(r, Here', x)
    BY <1>1, <1>2, <1>4, <1>7, <1>9, <1>13 DEF LifeOK
<1>18. Sound(r, Here')
    <2>1. Here'.lock = Here.lock /\ r.stat[x] # "READY" /\ Idle \in Threads
        BY <1>1, <1>5, <1>9, Names DEF Here
    <2> QED BY <1>2, <1>4, <1>9, <1>10, <1>11, <1>12, <1>14, <1>15, <1>16, <1>17, <2>1, LocalStep
<1>19. lock_nest # 0 => r.stat[r.current] # "CLOSE"
    BY <1>1, <1>3, <1>9
<1>20. Ranges'
    <2>1. lazy' \in BOOLEAN
        BY <1>1 DEF Reschedule
    <2> QED BY <1>1, <1>2, <2>1, RangesKept
<1> QED BY <1>1, <1>18, <1>19, <1>20, RescheduleStep

LEMMA IdleFreeStep ==
    ASSUME IInv, IdleFree
    PROVE  IInv'
<1> DEFINE x == arg[Idle]
           r == SetStat(RunQueue, x, "NONE")
<1>1. /\ current = Idle /\ pc[Idle] = "free"
      /\ pc' = [pc EXCEPT ![Idle] = "run"] /\ arg' = [arg EXCEPT ![Idle] = NoThread]
      /\ timer' = timer /\ dynamic' = dynamic /\ slice' = slice /\ lock_nest' = lock_nest
      /\ lazy' = lazy /\ RunQueue' = r
    BY DEF IdleFree, Goto, links, RunQueue, SetStat
<1>2. /\ RunQueue \in Queues /\ timer \in [Threads -> BOOLEAN] /\ stat \in [Threads -> Stats]
      /\ pc \in [Threads -> Pcs] /\ arg \in [Threads -> Threads \cup {NoThread}]
      /\ dynamic \subseteq Threads /\ lock_nest \in Nat
      /\ current \in Threads /\ Linked(RunQueue, Between(Here))
      /\ Sound(RunQueue, Here) /\ Deserved(RunQueue, Here, lazy) /\ Ranges
      /\ CallOK(RunQueue, Here, Idle)
    BY Before, Names
<1>3. /\ x # NoThread /\ stat[x] = "CLOSE" /\ x \notin ToSet(defunct) /\ x # current
    BY <1>1, <1>2 DEF CallOK, RunQueue, Here
<1>4. x \in Threads /\ \A u \in Threads \ {Idle} : arg[u] # x
    BY <1>1, <1>2, <1>3 DEF Sound, OneCall, Here
<1> HIDE DEF x
<1>5. LifeOK(RunQueue, Here, x)
    BY <1>4, Before
<1>6. ~timer[x] /\ arg[x] = NoThread /\ x \notin waiting
    BY <1>2, <1>3, <1>4, <1>5 DEF LifeOK, Linked, RunQueue, Here
<1>7. "NONE" \in Stats /\ "NONE" # "READY"
    BY DEF Stats
<1>8. /\ r \in Queues
      /\ r.stat = [stat EXCEPT ![x] = "NONE"] /\ r.prio = prio /\ r.group = group
      /\ r.current = current /\ r.waiting = waiting /\ r.defunct = defunct
    <2>1. /\ r \in Queues
          /\ r.stat = [RunQueue.stat EXCEPT ![x] = "NONE"] /\ r.prio = RunQueue.prio
          /\ r.group = RunQueue.group /\ r.current = RunQueue.current
          /\ r.waiting = RunQueue.waiting /\ r.defunct = RunQueue.defunct
        BY <1>2, <1>4, <1>7, SetStatFields
    <2> HIDE DEF r
    <2> QED BY <2>1 DEF RunQueue
<1>9. Linked(r, Between(Here))
    <2>1. /\ x \notin RunQueue.waiting /\ x \notin ToSet(RunQueue.defunct)
          /\ RunQueue.stat[x] # "READY" /\ RunQueue \in Queues /\ Linked(RunQueue, Between(Here))
        BY <1>2, <1>3, <1>6 DEF RunQueue
    <2> QED BY <1>4, <1>7, <2>1, SetStatLinked
<1> HIDE DEF r
<1>10. /\ r.stat[x] = "NONE" /\ \A u \in Threads \ {x} : r.stat[u] = stat[u]
    BY <1>2, <1>4, <1>8
<1>11. Here' \in CallStates
    <2>1. pc' \in [Threads -> Pcs] /\ arg' \in [Threads -> Threads \cup {NoThread}]
        BY <1>1, <1>2 DEF Pcs
    <2> QED BY <1>1, <1>2, <2>1, CallsNext
<1>12. /\ Here'.pc[Idle] = "run" /\ Here'.arg[Idle] = NoThread /\ Here'.timer = timer
       /\ Here'.arg[x] = NoThread /\ Here'.lock = lock_nest
    BY <1>1, <1>2, <1>3, <1>4, <1>6 DEF Here
<1>13. OthersSame(RunQueue, Here, r, Here', x, Idle)
    <2>1. \A u \in Threads \ {Idle} : pc'[u] = pc[u] /\ arg'[u] = arg[u]
        BY <1>1, <1>2
    <2> QED BY <1>1, <1>8, <1>10, <2>1 DEF OthersSame, RunQueue, Here
<1>14. CallAbout(RunQueue, Here, r, Here', x, Idle)
    <2>1. Here.arg[Idle] = x /\ \A u \in Threads \ {Idle} : Here.arg[u] # x
        BY <1>4 DEF Here, x
    <2> QED BY <1>12, <2>1 DEF CallAbout
<1>15. StatFits(RunQueue, r, x)
    BY <1>1, <1>3, <1>10 DEF StatFits, RunQueue
<1>16. CallOK(r, Here', Idle)
    BY <1>2, <1>8, <1>12, FreeCall
<1>17. LifeOK(r, Here', x)
    BY <1>3, <1>6, <1>8, <1>10, <1>12 DEF LifeOK
<1>18. Sound(r, Here')
    <2>1. Here'.lock = Here.lock /\ r.stat[x] # "READY" /\ Idle \in Threads
        BY <1>1, <1>10, Names DEF Here
    <2> QED BY <1>2, <1>4, <1>8, <1>9, <1>11, <1>13, <1>14, <1>15, <1>16, <1>17, <2>1, LocalStep
<1>19. Deserved(r, Here', lazy')
    <2>1. r.stat[current] = stat[current]
        BY <1>2, <1>3, <1>10
    <2> QED BY <1>1, <1>2, <1>8, <1>12, <2>1 DEF Deserved, RunQueue, Here
<1>20. Ranges'
    BY <1>1, <1>2, RangesKept DEF Ranges
<1> QED BY <1>1, <1>18, <1>19, <1>20, After

(* CHANGE_PRIORITY moves a ready thread to the tail of another list. *)
LEMMA ReprioritizedFacts ==
    ASSUME NEW q \in Queues, NEW D, Linked(q, D), NEW t \in Threads, NEW p \in Priorities,
           t # q.current, q.stat[t] = "READY", t \notin D
    PROVE  LET r == InsertThread([RemoveThread(q, t) EXCEPT !.prio[t] = p], t)
           IN  /\ r \in Queues /\ Linked(r, D)
               /\ r.stat = q.stat /\ r.current = q.current
               /\ r.waiting = q.waiting /\ ToSet(r.defunct) = ToSet(q.defunct)
<1> DEFINE u == RemoveThread(q, t)
           v == [u EXCEPT !.prio[t] = p]
           r == InsertThread(v, t)
<1>1. /\ u \in Queues /\ Linked(u, D \cup {t})
      /\ u.stat = q.stat /\ u.prio = q.prio /\ u.current = q.current
      /\ u.waiting = q.waiting \ {t} /\ ToSet(u.defunct) = ToSet(q.defunct) \ {t}
    BY RemovedFacts
<1> HIDE DEF u
<1>2. /\ v \in Queues
      /\ v.stat = u.stat /\ v.prio = [u.prio EXCEPT ![t] = p] /\ v.ready = u.ready
      /\ v.group = u.group /\ v.current = u.current /\ v.waiting = u.waiting
      /\ v.defunct = u.defunct
    BY <1>1 DEF Queues
<1> HIDE DEF v
<1>3. t \notin v.waiting /\ t \notin ToSet(v.defunct) /\ v.current # t
    BY <1>1, <1>2
<1>4. Linked(v, D \cup {t})
    <2>1. \A w \in Threads \ {t} : v.stat[w] = u.stat[w] /\ v.prio[w] = u.prio[w]
        BY <1>1, <1>2 DEF Queues
    <2>2. t \in D \cup {t} /\ Linked(u, D \cup {t})
        BY <1>1
    <2> QED BY <1>2, <1>3, <2>1, <2>2, OutsideLinked
<1>5. Linked(r, (D \cup {t}) \ {t})
    BY <1>2, <1>3, <1>4, InsertLinked
<1>6. (D \cup {t}) \ {t} = D
    OBVIOUS
<1>7. /\ r \in Queues /\ r.current = v.current /\ r.waiting = v.waiting /\ r.defunct = v.defunct
      /\ r.stat = [v.stat EXCEPT ![t] = "READY"]
    BY <1>2, <1>3, InsertThreadFields
<1> HIDE DEF r
<1>8. r.stat = q.stat
    BY <1>1, <1>2, <1>7 DEF Queues
<1>9. t \notin q.waiting /\ t \notin ToSet(q.defunct)
    BY DEF Linked
<1>10. /\ r \in Queues /\ Linked(r, D)
       /\ r.stat = q.stat /\ r.current = q.current
       /\ r.waiting = q.waiting /\ ToSet(r.defunct) = ToSet(q.defunct)
    BY <1>1, <1>2, <1>5, <1>6, <1>7, <1>8, <1>9
<1> QED BY <1>10 DEF r, v, u

LEMMA ChangePriorityStep ==
    ASSUME IInv, Careful, NEW m, NEW t, NEW p \in NewPriorities, ChangePriority(m, t, p)
    PROVE  IInv'
<1> DEFINE moved == InsertThread([RemoveThread(RunQueue, t) EXCEPT !.prio[t] = p], t)
           other == [RunQueue EXCEPT !.prio[t] = p]
           r == IF stat[t] = "READY" THEN moved ELSE other
<1>1. /\ m = current /\ pc[m] = "run" /\ m \in Managers
      /\ t \in Managed \cup {m} /\ \A u \in Threads : arg[u] # t
      /\ stat[t] \notin {"NONE", "CLOSE"} /\ Becomes(r) /\ lazy' = TRUE
      /\ dynamic' = dynamic /\ timer' = timer /\ slice' = slice /\ lock_nest' = lock_nest
      /\ pc' = pc /\ arg' = arg
    BY DEF ChangePriority, Runs, Untouched
<1>2. /\ RunQueue \in Queues /\ current \in Threads
      /\ Linked(RunQueue, Between(Here)) /\ OneRuns(RunQueue)
      /\ Sound(RunQueue, Here) /\ Deserved(RunQueue, Here, lazy) /\ Ranges
      /\ stat[current] \in {"RUNNING", "SUSPEND", "CLOSE"}
    BY Before
<1>3. t \in Threads /\ p \in Priorities /\ t \notin Between(Here)
    BY <1>1, Names DEF Between, Here
<1>4. /\ r \in Queues /\ Linked(r, Between(Here))
      /\ r.stat = RunQueue.stat /\ r.current = RunQueue.current
      /\ r.waiting = RunQueue.waiting /\ ToSet(r.defunct) = ToSet(RunQueue.defunct)
    <2>1. CASE stat[t] = "READY"
        <3>1. r = moved
            BY <2>1
        <3>2. /\ RunQueue \in Queues /\ Linked(RunQueue, Between(Here)) /\ t # RunQueue.current
              /\ RunQueue.stat[t] = "READY"
            BY <1>2, <2>1 DEF RunQueue
        <3>3. /\ moved \in Queues /\ Linked(moved, Between(Here))
              /\ moved.stat = RunQueue.stat /\ moved.current = RunQueue.current
              /\ moved.waiting = RunQueue.waiting
              /\ ToSet(moved.defunct) = ToSet(RunQueue.defunct)
            BY <1>3, <3>2, ReprioritizedFacts
        <3> HIDE DEF r, moved
        <3> QED BY <3>1, <3>3
    <2>2. CASE stat[t] # "READY"
        <3>1. r = other
            BY <2>2
        <3>2. /\ other \in Queues
              /\ other.stat = RunQueue.stat /\ other.prio = [RunQueue.prio EXCEPT ![t] = p]
              /\ other.ready = RunQueue.ready /\ other.group = RunQueue.group
              /\ other.current = RunQueue.current
              /\ other.waiting = RunQueue.waiting /\ other.defunct = RunQueue.defunct
            <4>1. RunQueue \in Queues /\ p \in Priorities /\ t \in Threads
                BY <1>2, <1>3
            <4> QED BY <4>1 DEF Queues
        <3> HIDE DEF other, r
        <3>3. \A w \in Threads \ {t} :
                 other.stat[w] = RunQueue.stat[w] /\ other.prio[w] = RunQueue.prio[w]
            <4>1. RunQueue.prio \in [Threads -> Priorities]
                BY <1>2 DEF Queues
            <4> QED BY <3>2, <4>1
        <3>4. RunQueue.stat[t] # "READY" /\ other.stat[t] # "READY"
            BY <2>2, <3>2 DEF RunQueue
        <3>5. /\ t \in other.waiting => other.stat[t] = "SUSPEND"
              /\ t \in ToSet(other.defunct) => other.stat[t] = "CLOSE"
            BY <1>2, <1>3, <3>2 DEF Linked
        <3>6. Linked(other, Between(Here))
            BY <1>2, <1>3, <3>2, <3>3, <3>4, <3>5, OutsideLinked
        <3> QED BY <3>1, <3>2, <3>6
    <2> QED BY <2>1, <2>2
<1>5. RunQueue' = r
    <2> HIDE DEF r
    <2> QED BY <1>1, <1>4, BecomesIs
<1> HIDE DEF r
<1>6. Here' = Here
    BY <1>1 DEF Here
<1>7. OthersSame(RunQueue, Here, r, Here, t, NoThread)
    BY <1>4 DEF OthersSame
<1>8. CallAbout(RunQueue, Here, r, Here, t, NoThread)
    BY <1>1, Names DEF CallAbout, Here
<1>9. StatFits(RunQueue, r, t)
    BY <1>2, <1>3, <1>4 DEF StatFits, Sound, OneRuns
<1>10. LifeOK(r, Here, t)
    <2>1. LifeOK(RunQueue, Here, t)
        BY <1>3, Before
    <2> QED BY <1>4, <2>1 DEF LifeOK
<1>11. Sound(r, Here)
    <2>1. Here \in CallStates /\ NoThread \notin Managers /\ NoThread \notin Threads
        BY Before, Names
    <2> QED BY <1>2, <1>3, <1>4, <1>7, <1>8, <1>9, <1>10, <2>1, LocalStep
<1>12. Deserved(r, Here, lazy')
    BY <1>1, <1>2, <1>4 DEF Deserved, RunQueue, Here
<1>13. Ranges'
    BY <1>1, <1>2, RangesKept
<1> QED BY <1>5, <1>6, <1>11, <1>12, <1>13, After

-----------------------------------------------------------------------------
(* rt_system_scheduler_start: the first of the highest threads runs. *)
LEMMA InitInv ==
    ASSUME Init
    PROVE  IInv
<1> DEFINE started == Threads \ Managed
           lists == [p \in Priorities |-> SetToSeq({t \in started : Priority[t] = p})]
           q == [stat |-> [t \in Threads |-> IF t \in started THEN "READY" ELSE "NONE"],
                 prio |-> Priority, ready |-> lists,
                 group |-> {p \in Priorities : lists[p] # <<>>},
                 current |-> NoThread, waiting |-> {}, defunct |-> <<>>]
           first == SwitchTo(q, Highest(q))
<1>1. /\ stat = first.stat /\ dynamic = {} /\ prio = Priority /\ ready = first.ready
      /\ group = first.group /\ current = first.current /\ waiting = {} /\ defunct = <<>>
      /\ timer = [t \in Threads |-> FALSE] /\ slice = Slice /\ lock_nest = 0
      /\ pc = [t \in Threads |-> "run"] /\ arg = [t \in Threads |-> NoThread] /\ lazy = FALSE
    BY DEF Init
<1>2. ASSUME NEW p \in Priorities
      PROVE  /\ lists[p] \in Seq(Threads) /\ IsInjective(lists[p])
             /\ ToSet(lists[p]) = {t \in started : Priority[t] = p}
    <2> DEFINE S == {t \in started : Priority[t] = p}
    <2>1. IsFiniteSet(S) /\ S \subseteq Threads
        BY Names, FS_Subset
    <2> HIDE DEF S
    <2>2. /\ SetToSeq(S) \in Seq(S) /\ ToSet(SetToSeq(S)) = S /\ IsInjective(SetToSeq(S))
        BY <2>1, SetToSeqFacts
    <2>3. SetToSeq(S) \in Seq(Threads)
        BY <2>1, <2>2, SeqDef
    <2>4. lists[p] = SetToSeq(S)
        BY DEF S
    <2> QED BY <2>2, <2>3, <2>4 DEF S
<1>3. /\ q.stat = [t \in Threads |-> IF t \in started THEN "READY" ELSE "NONE"]
      /\ q.prio = Priority /\ q.ready = lists
      /\ q.group = {p \in Priorities : lists[p] # <<>>}
      /\ q.current = NoThread /\ q.waiting = {} /\ q.defunct = <<>>
      /\ q = [stat |-> q.stat, prio |-> q.prio, ready |-> q.ready, group |-> q.group,
              current |-> q.current, waiting |-> q.waiting, defunct |-> q.defunct]
    <2> HIDE DEF lists, started
    <2> QED OBVIOUS
<1>4. lists \in [Priorities -> Seq(Threads)]
    BY <1>2
<1> HIDE DEF lists, q
<1>5. q \in Queues
    <2>1. q.stat \in [Threads -> Stats]
        BY <1>3 DEF Stats
    <2>2. /\ q.prio \in [Threads -> Priorities] /\ q.ready \in [Priorities -> Seq(Threads)]
          /\ q.group \subseteq Priorities /\ q.current \in Threads \cup {NoThread}
          /\ q.waiting \subseteq Threads /\ q.defunct \in Seq(Threads)
        BY <1>3, <1>4, Names, EmptyList
    <2> QED BY <1>3, <2>1, <2>2 DEF Queues
<1>6. \A t \in Threads : q.stat[t] = IF t \in started THEN "READY" ELSE "NONE"
    BY <1>3
<1>7. Linked(q, {})
    <2>1. \A p \in Priorities, t \in Threads :
             t \in ToSet(q.ready[p]) <=> q.stat[t] = "READY" /\ q.prio[t] = p /\ t \notin {}
        BY <1>2, <1>3, <1>6
    <2>2. /\ \A p \in Priorities : p \in q.group <=> q.ready[p] # <<>>
          /\ \A p \in Priorities : IsInjective(q.ready[p])
        BY <1>2, <1>3
    <2>3. /\ IsInjective(q.defunct)
          /\ \A t \in Threads : t \notin q.waiting /\ t \notin ToSet(q.defunct)
        BY <1>3, EmptyList
    <2> QED BY <2>1, <2>2, <2>3 DEF Linked
<1>8. q.group # {}
    <2>1. Idle \in started /\ Idle \in Threads /\ Priority[Idle] \in Priorities
        BY Names
    <2>2. Idle \in ToSet(q.ready[Priority[Idle]])
        BY <1>2, <1>3, <2>1
    <2>3. q.ready[Priority[Idle]] # <<>>
        BY <2>2, EmptyList
    <2> QED BY <1>3, <2>1, <2>3
<1> DEFINE to == Highest(q)
<1>9. /\ to \in Threads /\ q.stat[to] = "READY" /\ q.prio[to] = Min(q.group)
      /\ \A p \in q.group : Min(q.group) <= p
    BY <1>5, <1>7, <1>8, HighestFacts
<1> HIDE DEF to
<1>10. /\ first \in Queues /\ Linked(first, {})
       /\ first.stat = [q.stat EXCEPT ![to] = "RUNNING"]
       /\ first.prio = q.prio /\ first.current = to
       /\ first.waiting = q.waiting /\ first.defunct = q.defunct
       /\ first.group \subseteq q.group
    <2>1. to \notin {} /\ first = SwitchTo(q, to)
        BY DEF to
    <2> HIDE DEF first
    <2> QED BY <1>5, <1>7, <1>9, <2>1, SwitchFacts
<1> HIDE DEF first
<1>11. RunQueue = first
    <2>1. RunQueue = [stat |-> first.stat, prio |-> first.prio, ready |-> first.ready,
                      group |-> first.group, current |-> first.current,
                      waiting |-> first.waiting, defunct |-> first.defunct]
        BY <1>1, <1>3, <1>10 DEF RunQueue
    <2> QED BY <1>10, <2>1 DEF Queues
<1>12. /\ first.stat[to] = "RUNNING"
       /\ \A t \in Threads \ {to} : first.stat[t] = IF t \in started THEN "READY" ELSE "NONE"
    BY <1>5, <1>6, <1>9, <1>10 DEF Queues
<1>13. /\ Here \in CallStates /\ Here.lock = 0
       /\ \A t \in Threads : Here.pc[t] = "run" /\ Here.arg[t] = NoThread /\ Here.timer[t] = FALSE
       /\ Here.dynamic = {}
    BY <1>1 DEF Here, CallStates, Pcs
<1>14. Between(Here) = {}
    BY <1>13, Names DEF Between
<1>15. ASSUME NEW t \in Threads
       PROVE  CallOK(first, Here, t) /\ LifeOK(first, Here, t)
    <2>1. first.current \in Threads
        BY <1>9, <1>10
    <2>2. CallOK(first, Here, t)
        BY <1>13, <2>1, FreeCall
    <2>3. t \notin ToSet(first.defunct)
        BY <1>3, <1>10, EmptyList
    <2>4. LifeOK(first, Here, t)
        BY <1>13, <2>3 DEF LifeOK
    <2> QED BY <2>2, <2>4
<1>16. Sound(first, Here)
    <2>1. OneRuns(first)
        BY <1>10, <1>12 DEF OneRuns
    <2>2. OneCall(Here)
        BY <1>13 DEF OneCall
    <2>3. first.stat[Idle] \in {"READY", "RUNNING"}
        BY <1>12, Names
    <2>4. first.current \in Threads /\ first.stat[first.current] = "RUNNING"
        BY <1>9, <1>10, <1>12
    <2> QED BY <1>10, <1>13, <1>14, <1>15, <2>1, <2>2, <2>3, <2>4 DEF Sound
<1>17. Deserved(first, Here, lazy)
    BY <1>9, <1>10, <1>12 DEF Deserved
<1>18. Ranges
    <2>1. \A t \in Threads : Slice[t] \in Nat /\ Slice[t] \in 1..Slice[t]
        BY Names
    <2>2. slice = Slice /\ Slice \in [Threads -> Nat \ {0}]
        BY <1>1, Names
    <2>3. slice \in [Threads -> Nat] /\ \A t \in Threads : slice[t] \in 1..Slice[t]
        <3>1. \A t \in Threads : slice[t] \in 1..Slice[t]
            BY <2>1, <2>2
        <3>2. slice \in [Threads -> Nat]
            BY <2>1, <2>2
        <3> QED BY <3>1, <3>2
    <2>4. lock_nest \in 0..MaxNest
        BY <1>1, Names
    <2>5. lazy \in BOOLEAN
        BY <1>1, Zenon
    <2> QED BY <2>3, <2>4, <2>5 DEF Ranges
<1> QED BY <1>11, <1>16, <1>17, <1>18 DEF IInv

-----------------------------------------------------------------------------
(* Every step of the scheduler, of a thread, or of an interrupt handler    *)
(* keeps the invariant.                                                    *)
LEMMA StepInv ==
    ASSUME Careful, IInv, [Next]_vars
    PROVE  IInv'
<1>1. CASE \E m \in Managers, t \in Managed :
              \/ Create(m, t, TRUE) \/ Create(m, t, FALSE) \/ Startup(m, t) \/ ResumeCall(m, t)
              \/ SuspendCall(m, t) \/ DeleteCall(m, t)
    BY <1>1, CreateStep, StartupStep, ResumeCallStep, SuspendCallStep, DeleteCallStep
<1>2. CASE \E m \in Managers : \E t \in Managed \cup {m}, p \in NewPriorities : ChangePriority(m, t, p)
    BY <1>2, ChangePriorityStep
<1>3. CASE \E m \in Managers : ManagerStep(m)
    BY <1>3, ResumeUnlinkStep, ResumeInsertStep, SuspendDoStep, DeleteTimerStep,
       DeleteCloseStep, DeleteDefunctStep DEF ManagerStep
<1>4. CASE \E t \in Threads :
              \/ Park(t) \/ Sleep(t) \/ Block(t, TRUE) \/ Block(t, FALSE)
              \/ Yield(t) \/ Schedule(t) \/ EnterCritical(t) \/ ExitCritical(t)
    BY <1>4, ParkStep, SleepStep, BlockStep, YieldStep, ScheduleStep, EnterCriticalStep,
       ExitCriticalStep
<1>5. CASE \E t \in Threads : ThreadExit(t) \/ ThreadTimeout(t) \/ IsrResume(t)
    BY <1>5, ThreadExitStep, ThreadTimeoutStep, IsrResumeStep
<1>6. CASE IdleReap \/ IdleFree \/ Tick
    BY <1>6, IdleReapStep, IdleFreeStep, TickStep
<1>7. CASE UNCHANGED vars
    <2>1. RunQueue' = RunQueue /\ Here' = Here /\ lazy' = lazy
        BY <1>7 DEF vars, RunQueue, Here
    <2>2. Ranges'
        BY <1>7 DEF vars, IInv, Ranges
    <2> QED BY <2>1, <2>2 DEF IInv
<1> QED BY <1>1, <1>2, <1>3, <1>4, <1>5, <1>6, <1>7 DEF Next, ManagerCall

LEMMA Invariance ==
    ASSUME Careful
    PROVE  Spec => []IInv
<1>1. IInv /\ [Next]_vars => IInv'
    BY StepInv
<1> QED BY <1>1, InitInv, PTL DEF Spec

(* The threads that are unlinked and not closed. *)
LEMMA DyingBetween ==
    ASSUME NEW t \in Threads
    PROVE  Dying(t) <=> t \in Between(Here)
BY DEF Dying, Between, Here

LEMMA InvConsistent ==
    ASSUME IInv
    PROVE  Consistent
<1>1. /\ Linked(RunQueue, Between(Here)) /\ OneRuns(RunQueue) /\ Ranges
      /\ stat \in [Threads -> Stats] /\ prio \in [Threads -> Priorities]
      /\ ready \in [Priorities -> Seq(Threads)] /\ group \subseteq Priorities
      /\ current \in Threads /\ waiting \subseteq Threads /\ defunct \in Seq(Threads)
      /\ pc \in [Threads -> Pcs] /\ arg \in [Threads -> Threads \cup {NoThread}]
      /\ timer \in [Threads -> BOOLEAN] /\ dynamic \subseteq Threads
      /\ \A t \in Threads : LifeOK(RunQueue, Here, t)
    BY Before
<1>2. TypeOK
    BY <1>1 DEF TypeOK, Ranges
<1>3. ASSUME NEW p \in Priorities
      PROVE  /\ IsInjective(ready[p])
             /\ {t \in Threads : stat[t] = "READY" /\ prio[t] = p /\ ~Dying(t)} = ToSet(ready[p])
    <2>1. IsInjective(ready[p])
        BY <1>1 DEF Linked, RunQueue
    <2>2. ToSet(ready[p]) \subseteq Threads
        <3>1. ready[p] \in Seq(Threads)
            BY <1>1
        <3> QED BY <3>1, ElementOfSeq DEF ToSet
    <2>3. \A t \in Threads :
             t \in ToSet(ready[p]) <=> stat[t] = "READY" /\ prio[t] = p /\ t \notin Between(Here)
        BY <1>1 DEF Linked, RunQueue
    <2> QED BY <2>1, <2>2, <2>3, DyingBetween
<1>4. group = {p \in Priorities : ready[p] # <<>>} /\ IsInjective(defunct)
    BY <1>1 DEF Linked, RunQueue
<1>5. ASSUME NEW t \in Threads
      PROVE  /\ stat[t] = "RUNNING" => t = current
             /\ t \in waiting => stat[t] = "SUSPEND"
             /\ t \in ToSet(defunct) => stat[t] = "CLOSE"
             /\ timer[t] => stat[t] = "SUSPEND"
    BY <1>1 DEF Linked, OneRuns, LifeOK, RunQueue, Here
<1> QED BY <1>2, <1>3, <1>4, <1>5 DEF Consistent

LEMMA InvHighestRuns ==
    ASSUME IInv
    PROVE  HighestRuns
<1> SUFFICES ASSUME lock_nest = 0, ~lazy, pc[current] # "sched"
             PROVE  /\ stat[current] = "RUNNING"
                    /\ \A t \in Threads : stat[t] = "READY" /\ ~Dying(t) => prio[current] <= prio[t]
    BY DEF HighestRuns
<1>1. /\ Linked(RunQueue, Between(Here)) /\ Deserved(RunQueue, Here, lazy)
      /\ prio \in [Threads -> Priorities]
    BY Before
<1>2. stat[current] = "RUNNING" /\ \A p \in group : prio[current] <= p
    BY <1>1 DEF Deserved, RunQueue, Here
<1>3. ASSUME NEW t \in Threads, stat[t] = "READY", ~Dying(t)
      PROVE  prio[t] \in group
    <2>1. prio[t] \in Priorities /\ t \notin Between(Here)
        BY <1>1, <1>3, DyingBetween
    <2>2. t \in ToSet(ready[prio[t]])
        BY <1>1, <1>3, <2>1 DEF Linked, RunQueue
    <2>3. ready[prio[t]] # <<>>
        BY <2>2, EmptyList
    <2> QED BY <1>1, <2>1, <2>3 DEF Linked, RunQueue
<1> QED BY <1>2, <1>3

LEMMA InvDeadStayDead ==
    ASSUME IInv
    PROVE  DeadStayDead
<1>1. /\ Linked(RunQueue, Between(Here)) /\ Deserved(RunQueue, Here, lazy)
      /\ Sound(RunQueue, Here)
      /\ stat[current] \in {"RUNNING", "SUSPEND", "CLOSE"}
      /\ pc \in [Threads -> Pcs]
      /\ \A u \in Threads : CallOK(RunQueue, Here, u) /\ LifeOK(RunQueue, Here, u)
    BY Before
<1> SUFFICES ASSUME NEW t \in Threads, stat[t] \in {"NONE", "INIT", "CLOSE"}
             PROVE  /\ ~timer[t] /\ t \notin waiting
                    /\ \A p \in Priorities : t \notin ToSet(ready[p])
                    /\ current = t => stat[t] = "CLOSE" /\ pc[t] = "sched"
                    /\ t \in dynamic /\ stat[t] = "CLOSE" =>
                          Cardinality({u \in Threads : arg[u] = t}) =
                              (IF t \in ToSet(defunct) THEN 0 ELSE 1)
    BY DEF DeadStayDead
<1>2. ~timer[t] /\ t \notin waiting
    BY <1>1 DEF Linked, LifeOK, RunQueue, Here
<1>3. \A p \in Priorities : t \notin ToSet(ready[p])
    BY <1>1 DEF Linked, RunQueue
<1>4. current = t => stat[t] = "CLOSE" /\ pc[t] = "sched"
    BY <1>1 DEF Deserved, RunQueue, Here
<1>5. ASSUME t \in dynamic, stat[t] = "CLOSE"
      PROVE  Cardinality({u \in Threads : arg[u] = t}) = (IF t \in ToSet(defunct) THEN 0 ELSE 1)
    <2> DEFINE U == {u \in Threads : arg[u] = t}
    <2>1. CASE t \in ToSet(defunct)
        <3>1. ASSUME NEW u \in Threads, arg[u] = t PROVE FALSE
            <4>1. pc[u] \in Pcs /\ t # NoThread
                BY <1>1, Names
            <4> QED BY <1>1, <1>5, <2>1, <3>1, <4>1 DEF CallOK, RunQueue, Here, Pcs
        <3>2. U = {}
            BY <3>1
        <3> QED BY <2>1, <3>2, FS_EmptySet
    <2>2. CASE t \notin ToSet(defunct)
        <3>1. PICK u \in Threads : arg[u] = t
            BY <1>1, <1>5, <2>2 DEF LifeOK, RunQueue, Here
        <3>2. \A v \in Threads : arg[v] = t => v = u
            BY <1>1, <3>1, Names DEF Sound, OneCall, Here
        <3>3. U = {u}
            BY <3>1, <3>2
        <3> QED BY <2>2, <3>3, FS_Singleton
    <2> QED BY <2>1, <2>2
<1> QED BY <1>2, <1>3, <1>4, <1>5

(* Between any two sections with interrupts off of rt_schedule, the calls  *)
(* of thread.c, the tick and the handlers, the list of each priority holds *)
(* the ready threads of that priority once and its bit is set exactly when *)
(* the list is not empty (rt_schedule takes the head of the list of the    *)
(* highest bit without a test); only rt_current_thread is RUNNING, a       *)
(* thread is linked in one list at most, and whoever has a timer running   *)
(* is suspended, as rt_thread_timeout asserts.                             *)
THEOREM TableConsistent ==
    ASSUME Careful
    PROVE  Spec => []Consistent
<1>1. IInv => Consistent
    BY InvConsistent
<1> QED BY <1>1, Invariance, PTL

(* No ready thread waits for a lower one: after rt_schedule and until the  *)
(* next one is due, the running thread is runnable and no ready thread has *)
(* a higher priority, through interrupts that make threads ready, resume,  *)
(* suspend and delete in several steps, and nested critical sections;      *)
(* except after RT_THREAD_CTRL_CHANGE_PRIORITY, which schedules nothing.   *)
THEOREM HighestAlwaysRuns ==
    ASSUME Careful
    PROVE  Spec => []HighestRuns
<1>1. IInv => HighestRuns
    BY InvHighestRuns
<1> QED BY <1>1, Invariance, PTL

(* A thread that exited, or that rt_thread_delete closed, is in no ready   *)
(* or suspend list, has no timer running and is current only until its     *)
(* last rt_schedule; and one made by rt_thread_create is never forgotten   *)
(* nor freed twice: it is in rt_thread_defunct or in one call's hands.     *)
THEOREM DeadAreReaped ==
    ASSUME Careful
    PROVE  Spec => []DeadStayDead
<1>1. IInv => DeadStayDead
    BY InvDeadStayDead
<1> QED BY <1>1, Invariance, PTL
=============================================================================
