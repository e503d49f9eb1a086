-------------------------- MODULE MessageQueueProofs --------------------------
(***************************************************************************)
(* The safety of RT-Thread message queues for any number of senders,       *)
(* receivers and nodes, and that a queue implements a bounded FIFO with an *)
(* urgent lane.  The proofs assume Patient: who deletes a queue goes on    *)
(* only while no caller is ready inside a call, which rt_mq_delete itself  *)
(* does not see to.                                                        *)
(***************************************************************************)
EXTENDS MessageQueue, ListProofs

(* The pointers nx link the nodes of q, in that order, from start on. *)
Links(nx, q, start) ==
    /\ q \in Seq(Nodes) /\ IsInjective(q)
    /\ start = IF q = <<>> THEN Null ELSE q[1]
    /\ \A i \in 1..Len(q) : nx[q[i]] = IF i = Len(q) THEN Null ELSE q[i + 1]

(* The receivers on their way back to the queue. *)
Woken == {r \in Receivers : pc[r] = "wait" /\ stat[r] = "READY" /\ error[r] = "EOK"}

(* The queue q and the free list f are linked, and every node is in one of *)
(* them or with the one caller whose msg points to it.                     *)
Lists(q, f) ==
    /\ Links(next, q, msg_queue_head) /\ Links(next, f, msg_queue_free)
    /\ msg_queue_tail = IF q = <<>> THEN Null ELSE q[Len(q)]
    /\ entry = Len(q)
    /\ ToSet(q) \cap ToSet(f) = {}
    /\ \A c \in Callers : msg[c] # Null => msg[c] \notin ToSet(q) /\ msg[c] \notin ToSet(f)
    /\ \A c, d \in Callers : msg[c] = msg[d] /\ msg[c] # Null => c = d
    /\ \A n \in Nodes : n \in ToSet(q) \/ n \in ToSet(f) \/ \E c \in Callers : msg[c] = n

ListsInv == Lists(Chain(next, msg_queue_head), Chain(next, msg_queue_free))

(* A caller has a node in its hands between its two critical sections. *)
CallersHold ==
    /\ \A s \in Senders : pc[s] \in {"idle", "copy", "link"}
    /\ \A r \in Receivers : pc[r] \in {"idle", "wait", "copy", "free"}
    /\ \A c \in Callers : msg[c] # Null <=> pc[c] \in {"copy", "link", "free"}

(* What a sender has copied is in its node until it is linked, and a node  *)
(* that will be the tail has been ended.                                   *)
CopiesKept ==
    \A s \in Senders :
        /\ pc[s] \in {"copy", "link"} => arg[s].value \in Values
        /\ pc[s] = "link" => body[msg[s]] = arg[s].value
        /\ pc[s] = "link" /\ ~arg[s].urgent => next[msg[s]] = Null

(* While a detach is under way nobody has a node or is on its way back. *)
DetachedQuiet ==
    obj # "live" => Woken = {} /\ \A c \in Callers : pc[c] \in {"idle", "wait"}

(* The list that a detach has found empty stays empty. *)
DetachedEmpty == obj \in {"remove", "gone"} => suspend_thread = <<>>

ThreadTypes ==
    /\ ThreadTypeOK
    /\ suspend_thread \in Seq(Receivers)
    /\ left \in [Receivers -> TimeKinds]
    /\ obj \in {"live", "check", "resume", "remove", "gone"}
    /\ wild \in BOOLEAN

NodeTypes ==
    /\ next \in [Nodes -> Nodes \cup {Null}]
    /\ body \in [Nodes -> Values \cup {NoValue}]
    /\ pc \in [Callers -> {"idle", "copy", "link", "wait", "free"}]
    /\ msg \in [Callers -> Nodes \cup {Null}]
    /\ arg \in [Senders -> [value : Values \cup {NoValue}, urgent : BOOLEAN]]
    /\ got \in [Receivers -> Values \cup {NoValue}]

(* The inductive invariant: one half is about sleeping and waking, the     *)
(* other about nodes.  They meet in entry, and in a detach, which leaves   *)
(* neither sleepers nor nodes in somebody's hands when the queue is        *)
(* initialised again.                                                      *)
ThreadInv ==
    /\ ThreadTypes
    /\ WaitersConsistent
    /\ NoMessageWasted
    /\ DetachedQuiet
    /\ DetachedEmpty

NodeInv ==
    /\ NodeTypes
    /\ CallersHold
    /\ ListsInv
    /\ CopiesKept

IInv == ThreadInv /\ NodeInv

-----------------------------------------------------------------------------
(* A list without doubles has as many nodes as it has places. *)
LEMMA SeqCardinality ==
    ASSUME NEW S, IsFiniteSet(S), NEW q \in Seq(S), IsInjective(q)
    PROVE  /\ IsFiniteSet(ToSet(q)) /\ Cardinality(ToSet(q)) = Len(q)
           /\ Len(q) \in 0..Cardinality(S) /\ Cardinality(S) \in Nat
<1>1. Len(q) \in Nat /\ DOMAIN q = 1..Len(q) /\ q \in [1..Len(q) -> ToSet(q)]
    BY LenProperties DEF ToSet
<1>2. q \in Bijection(1..Len(q), ToSet(q))
    BY <1>1 DEF Bijection, Injection, Surjection, ToSet, IsInjective
<1>3. Cardinality(1..Len(q)) = Len(q) /\ IsFiniteSet(1..Len(q))
    BY <1>1, FS_Interval
<1>4. IsFiniteSet(ToSet(q)) /\ Cardinality(ToSet(q)) = Len(q)
    BY <1>2, <1>3, FS_Bijection DEF ExistsBijection
<1>5. ToSet(q) \subseteq S
    BY <1>1, ElementOfSeq DEF ToSet
<1> QED BY <1>1, <1>4, <1>5, FS_Subset, FS_CardinalityType

(* The nodes that are reached are those that are linked. *)
LEMMA ChainIs ==
    ASSUME NEW nx, NEW q, NEW start, Links(nx, q, start)
    PROVE  Chain(nx, start) = q
<1> DEFINE N == Cardinality(Nodes)
           f == [i \in 0..N |-> IF i < Len(q) THEN q[i + 1] ELSE Null]
           Walked(g) == g = [i \in 0..N |-> IF i = 0 THEN start
                                            ELSE IF g[i - 1] = Null THEN Null ELSE nx[g[i - 1]]]
<1>1. /\ N \in Nat /\ Len(q) \in 0..N /\ q \in Seq(Nodes) /\ IsInjective(q)
      /\ DOMAIN q = 1..Len(q) /\ \A i \in 1..Len(q) : q[i] \in Nodes /\ q[i] # Null
    BY QueueAssumption, SeqCardinality, LenProperties, ElementOfSeq DEF Links
<1>l. Len(q) \in Nat /\ Len(q) - 1 \in Int /\ Len(q) <= N
    BY <1>1
<1> HIDE DEF N
<1>a. f[0] = start
    <2>1. q = <<>> <=> Len(q) = 0
        BY <1>1, EmptySeq
    <2>2. start = IF Len(q) = 0 THEN Null ELSE q[1]
        BY <2>1 DEF Links
    <2>3. 0 \in 0..N /\ (0 < Len(q) <=> Len(q) # 0) /\ 0 + 1 = 1
        BY <1>1
    <2>4. f[0] = IF 0 < Len(q) THEN q[0 + 1] ELSE Null
        BY <2>3, Zenon
    <2> QED BY <2>2, <2>3, <2>4
<1>b. ASSUME NEW i \in 1..N PROVE f[i] = IF f[i - 1] = Null THEN Null ELSE nx[f[i - 1]]
    <2>0. i - 1 \in 0..N /\ i \in 0..N /\ (i - 1) + 1 = i
        BY <1>1
    <2>1. CASE i - 1 < Len(q)
        <3>1. i \in 1..Len(q) /\ f[i - 1] = q[i] /\ f[i - 1] # Null
            BY <1>1, <2>0, <2>1
        <3>2. nx[q[i]] = IF i = Len(q) THEN Null ELSE q[i + 1]
            BY <3>1 DEF Links
        <3>3. f[i] = IF i < Len(q) THEN q[i + 1] ELSE Null
            BY <2>0, Zenon
        <3>4. i < Len(q) <=> i # Len(q)
            <4>1. \A k \in Nat : i \in 1..k => (i < k <=> i # k)
                OBVIOUS
            <4> QED BY <1>l, <3>1, <4>1
        <3> HIDE DEF f
        <3> QED BY <3>1, <3>2, <3>3, <3>4
    <2>2. CASE ~(i - 1 < Len(q))
        BY <1>1, <2>0, <2>2
    <2> QED BY <2>1, <2>2
<1>2. Walked(f)
    <2>1. \A i \in 0..N : f[i] = IF i = 0 THEN start
                                 ELSE IF f[i - 1] = Null THEN Null ELSE nx[f[i - 1]]
        <3>1. \A i \in 0..N : i = 0 \/ (i # 0 /\ i \in 1..N)
            BY <1>1
        <3> HIDE DEF f
        <3> QED BY <1>a, <1>b, <3>1, Zenon
    <2>2. f = [i \in 0..N |-> f[i]]
        OBVIOUS
    <2> HIDE DEF f
    <2> QED BY <2>1, <2>2
<1> DEFINE g == CHOOSE h : Walked(h)
<1>3. Walked(g)
    <2>1. \E h : Walked(h)
        BY <1>2
    <2> HIDE DEF Walked
    <2> QED BY <2>1
<1>4. Chain(nx, start) = [i \in 1..Cardinality({j \in 0..N : g[j] # Null}) |-> g[i - 1]]
    BY DEF Chain, N
<1> HIDE DEF g
<1>5. \A i \in 0..N : g[i] = f[i]
    <2> DEFINE S == {i \in 0..N : g[i] = f[i]}
    <2>1. 0 \in S
        BY <1>1, <1>3, <1>a
    <2>2. ASSUME NEW i \in 1..N, i - 1 \in S PROVE i \in S
        <3>1. g[i - 1] = f[i - 1]
            BY <2>2
        <3>2. i \in 0..N /\ i # 0
            BY <1>1
        <3>3. g[i] = IF g[i - 1] = Null THEN Null ELSE nx[g[i - 1]]
            BY <1>3, <3>2
        <3> QED BY <1>b, <3>1, <3>2, <3>3
    <2>3. 0..N \subseteq S
        <3> HIDE DEF S
        <3> QED BY <1>1, <2>1, <2>2, UpTo
    <2> QED BY <2>3
<1>6. {j \in 0..N : g[j] # Null} = 0..(Len(q) - 1)
    BY <1>1, <1>5
<1>7. Cardinality(0..(Len(q) - 1)) = Len(q)
    <2>1. PICK m \in Int : m = Len(q) - 1
        BY <1>l
    <2>2. Cardinality(0..m) = IF 0 > m THEN 0 ELSE m - 0 + 1
        BY FS_Interval
    <2> QED BY <1>l, <2>1, <2>2
<1>8. \A i \in 1..Len(q) : g[i - 1] = q[i]
    BY <1>1, <1>5
<1>9. Chain(nx, start) = [i \in 1..Len(q) |-> q[i]]
    BY <1>4, <1>6, <1>7, <1>8
<1>10. q = [i \in 1..Len(q) |-> q[i]]
    BY <1>1
<1> QED BY <1>9, <1>10

(* What Links says of places, and of the node behind one. *)
LEMMA LinksFacts ==
    ASSUME NEW nx, NEW q, NEW start, Links(nx, q, start)
    PROVE  /\ Len(q) \in Nat /\ DOMAIN q = 1..Len(q) /\ (q = <<>> <=> Len(q) = 0)
           /\ \A i \in 1..Len(q) : q[i] \in Nodes /\ q[i] \in ToSet(q) /\ q[i] # Null
           /\ ToSet(q) \subseteq Nodes
           /\ start = Null <=> q = <<>>
           /\ q # <<>> => start = q[1] /\ start \in Nodes /\ start \in ToSet(q)
<1>1. q \in Seq(Nodes) /\ start = IF q = <<>> THEN Null ELSE q[1]
    BY DEF Links
<1>2. Len(q) \in Nat /\ DOMAIN q = 1..Len(q) /\ (q = <<>> <=> Len(q) = 0)
    BY <1>1, LenProperties, EmptySeq
<1>3. \A i \in 1..Len(q) : q[i] \in Nodes /\ q[i] \in ToSet(q) /\ q[i] # Null
    BY <1>1, <1>2, ElementOfSeq, QueueAssumption DEF ToSet
<1>4. ToSet(q) \subseteq Nodes
    BY <1>2, <1>3 DEF ToSet
<1>5. q # <<>> => 1 \in 1..Len(q)
    BY <1>2
<1> QED BY <1>1, <1>2, <1>3, <1>4, <1>5

(* A list does not notice pointers of nodes that are not in it. *)
LEMMA LinksFrame ==
    ASSUME NEW nx, NEW q, NEW start, Links(nx, q, start),
           NEW nx2, \A n \in ToSet(q) : nx2[n] = nx[n]
    PROVE  Links(nx2, q, start)
<1>1. \A i \in 1..Len(q) : nx2[q[i]] = nx[q[i]]
    BY LinksFacts
<1> QED BY <1>1 DEF Links

(* The first node is unlinked. *)
LEMMA LinksTail ==
    ASSUME NEW nx, NEW q, NEW start, Links(nx, q, start), q # <<>>
    PROVE  /\ Links(nx, Tail(q), nx[start])
           /\ Len(Tail(q)) = Len(q) - 1
           /\ ToSet(Tail(q)) = ToSet(q) \ {start}
           /\ \A i \in 1..(Len(q) - 1) : Tail(q)[i] = q[i + 1]
<1>1. /\ q \in Seq(Nodes) /\ IsInjective(q) /\ start = q[1] /\ Head(q) = q[1]
      /\ \A i \in 1..Len(q) : nx[q[i]] = IF i = Len(q) THEN Null ELSE q[i + 1]
    BY DEF Links
<1>2. Len(q) \in Nat /\ Len(q) # 0
    BY LinksFacts
<1>3. PICK r : r = Tail(q)
    OBVIOUS
<1>4. /\ r \in Seq(Nodes) /\ Len(r) = Len(q) - 1 /\ ToSet(r) = ToSet(q) \ {Head(q)}
      /\ IsInjective(r)
    BY <1>1, <1>3, TailList
<1>5. \A i \in 1..(Len(q) - 1) : r[i] = q[i + 1]
    BY <1>1, <1>2, <1>3, HeadTailProperties
<1>6. nx[start] = IF r = <<>> THEN Null ELSE r[1]
    <2>0. 1 \in 1..Len(q)
        BY <1>2
    <2>1. nx[q[1]] = IF 1 = Len(q) THEN Null ELSE q[1 + 1]
        BY <1>1, <2>0, Zenon
    <2>2. r = <<>> <=> Len(q) = 1
        BY <1>2, <1>4, EmptySeq
    <2>3. Len(q) # 1 => 1 \in 1..(Len(q) - 1)
        BY <1>2
    <2> QED BY <1>1, <1>5, <2>1, <2>2, <2>3
<1>7. ASSUME NEW i \in 1..Len(r) PROVE nx[r[i]] = IF i = Len(r) THEN Null ELSE r[i + 1]
    <2>1. i \in 1..(Len(q) - 1) /\ i + 1 \in 1..Len(q) /\ (i + 1 = Len(q) <=> i = Len(r))
        BY <1>2, <1>4
    <2>2. nx[q[i + 1]] = IF i + 1 = Len(q) THEN Null ELSE q[(i + 1) + 1]
        BY <1>1, <2>1
    <2>3. i # Len(r) => i + 1 \in 1..(Len(q) - 1)
        BY <1>2, <1>4
    <2> QED BY <1>5, <2>1, <2>2, <2>3
<1>8. Links(nx, r, nx[start])
    BY <1>4, <1>6, <1>7 DEF Links
<1> QED BY <1>1, <1>3, <1>4, <1>5, <1>8

(* A node is linked in front of the first. *)
LEMMA LinksPush ==
    ASSUME NEW nx, NEW q, NEW start, Links(nx, q, start),
           NEW n \in Nodes, n \notin ToSet(q),
           NEW nx2, nx2[n] = start, \A m \in ToSet(q) : nx2[m] = nx[m]
    PROVE  \E q2 : /\ Links(nx2, q2, n) /\ q2 = <<n>> \o q
                  /\ Len(q2) = Len(q) + 1 /\ ToSet(q2) = ToSet(q) \cup {n}
                  /\ q2[1] = n /\ \A i \in 1..Len(q) : q2[i + 1] = q[i]
<1>1. /\ q \in Seq(Nodes) /\ IsInjective(q) /\ start = IF q = <<>> THEN Null ELSE q[1]
      /\ \A i \in 1..Len(q) : nx[q[i]] = IF i = Len(q) THEN Null ELSE q[i + 1]
    BY DEF Links
<1>2. Len(q) \in Nat /\ (q = <<>> <=> Len(q) = 0) /\ \A i \in 1..Len(q) : q[i] \in ToSet(q)
    BY LinksFacts
<1>3. PICK r : r = <<n>> \o q
    OBVIOUS
<1>4. /\ r \in Seq(Nodes) /\ Len(r) = Len(q) + 1 /\ ToSet(r) = ToSet(q) \cup {n}
      /\ IsInjective(r)
    BY <1>1, <1>3, PrependList
<1>5. r[1] = n /\ \A i \in 1..Len(q) : r[i + 1] = q[i]
    <2>1. <<n>> \in Seq(Nodes) /\ Len(<<n>>) = 1 /\ <<n>>[1] = n
        OBVIOUS
    <2>2. \A j \in 1..(1 + Len(q)) : r[j] = IF j <= 1 THEN <<n>>[j] ELSE q[j - 1]
        BY <1>1, <1>3, <2>1, ConcatProperties
    <2>3. 1 \in 1..(1 + Len(q)) /\ 1 <= 1
        BY <1>2
    <2>4. \A j \in 1..Len(q) : j + 1 \in 1..(1 + Len(q)) /\ ~(j + 1 <= 1) /\ (j + 1) - 1 = j
        BY <1>2
    <2> QED BY <2>1, <2>2, <2>3, <2>4
<1>6. r # <<>> /\ n = r[1]
    BY <1>2, <1>4, <1>5, EmptySeq
<1>7. ASSUME NEW i \in 1..Len(r) PROVE nx2[r[i]] = IF i = Len(r) THEN Null ELSE r[i + 1]
    <2>1. CASE i = 1
        <3>1. 1 = Len(r) <=> q = <<>>
            BY <1>2, <1>4
        <3>2. q # <<>> => 1 \in 1..Len(q)
            BY <1>2
        <3> QED BY <1>1, <1>5, <2>1, <3>1, <3>2
    <2>2. CASE i # 1
        <3>1. PICK j \in 1..Len(q) : j + 1 = i
            <4>1. i - 1 \in 1..Len(q) /\ (i - 1) + 1 = i
                BY <1>2, <1>4, <2>2
            <4> QED BY <4>1
        <3>2. i = Len(r) <=> j = Len(q)
            BY <1>2, <1>4, <3>1
        <3>3. nx2[q[j]] = IF j = Len(q) THEN Null ELSE q[j + 1]
            BY <1>1, <1>2
        <3>4. j # Len(q) => j + 1 \in 1..Len(q)
            BY <1>2
        <3> QED BY <1>5, <3>1, <3>2, <3>3, <3>4
    <2> QED BY <2>1, <2>2
<1>8. Links(nx2, r, n)
    BY <1>4, <1>6, <1>7 DEF Links
<1> QED BY <1>3, <1>4, <1>5, <1>8

(* A node is linked behind the last. *)
LEMMA LinksAppend ==
    ASSUME NEW nx, NEW q, NEW start, Links(nx, q, start),
           NEW n \in Nodes, n \notin ToSet(q),
           NEW nx2, nx2[n] = Null, q # <<>> => nx2[q[Len(q)]] = n,
           \A m \in ToSet(q) : m # q[Len(q)] => nx2[m] = nx[m]
    PROVE  \E r : /\ Links(nx2, r, IF start = Null THEN n ELSE start) /\ r = Append(q, n)
                  /\ Len(r) = Len(q) + 1 /\ ToSet(r) = ToSet(q) \cup {n}
                  /\ r[Len(q) + 1] = n /\ \A i \in 1..Len(q) : r[i] = q[i]
<1>1. /\ q \in Seq(Nodes) /\ IsInjective(q) /\ start = IF q = <<>> THEN Null ELSE q[1]
      /\ \A i \in 1..Len(q) : nx[q[i]] = IF i = Len(q) THEN Null ELSE q[i + 1]
    BY DEF Links
<1>2. /\ Len(q) \in Nat /\ DOMAIN q = 1..Len(q) /\ (q = <<>> <=> Len(q) = 0)
      /\ \A i \in 1..Len(q) : q[i] \in ToSet(q)
      /\ start = Null <=> q = <<>>
    BY LinksFacts
<1>3. PICK r : r = Append(q, n)
    OBVIOUS
<1>4. r \in Seq(Nodes) /\ ToSet(r) = ToSet(q) \cup {n} /\ IsInjective(r)
    BY <1>1, <1>3, AppendList
<1>5. /\ Len(r) = Len(q) + 1 /\ r[Len(q) + 1] = n
      /\ \A i \in 1..Len(q) : r[i] = q[i]
    BY <1>1, <1>3, AppendProperties
<1>6. r # <<>> /\ r[1] = IF start = Null THEN n ELSE start
    <2>1. q # <<>> => 1 \in 1..Len(q)
        BY <1>2
    <2>2. q = <<>> => Len(q) + 1 = 1
        BY <1>2
    <2>3. r # <<>>
        BY <1>2, <1>4, <1>5, EmptySeq
    <2> QED BY <1>1, <1>2, <1>5, <2>1, <2>2, <2>3
<1>a. Len(q) \in Nat /\ Len(r) = Len(q) + 1 /\ (q = <<>> <=> Len(q) = 0)
    BY <1>2, <1>5
<1>7. ASSUME NEW i \in 1..Len(r) PROVE nx2[r[i]] = IF i = Len(r) THEN Null ELSE r[i + 1]
    <2>1. CASE i = Len(r)
        BY <1>5, <2>1
    <2>2. CASE i # Len(r) /\ i = Len(q)
        <3>1. q # <<>> /\ i \in 1..Len(q)
            BY <1>a, <2>2
        <3> QED BY <1>5, <2>2, <3>1
    <2>3. CASE i # Len(r) /\ i # Len(q)
        <3>1. i \in 1..Len(q) /\ i + 1 \in 1..Len(q) /\ Len(q) \in 1..Len(q)
            BY <1>a, <2>3
        <3>2. q[i] # q[Len(q)]
            BY <1>1, <1>2, <2>3, <3>1 DEF IsInjective
        <3>3. nx2[q[i]] = q[i + 1]
            BY <1>1, <1>2, <2>3, <3>1, <3>2
        <3> QED BY <1>5, <2>3, <3>1, <3>3
    <2> QED BY <2>1, <2>2, <2>3
<1>8. Links(nx2, r, IF start = Null THEN n ELSE start)
    BY <1>4, <1>6, <1>7 DEF Links
<1> QED BY <1>3, <1>4, <1>5, <1>8

(* The place of a node of a list without doubles. *)
LEMMA PositionIs ==
    ASSUME NEW q, IsInjective(q), NEW i \in DOMAIN q
    PROVE  Position(q, q[i]) = i
<1>1. \A j \in DOMAIN q : q[j] = q[i] => j = i
    BY DEF IsInjective
<1> QED BY <1>1 DEF Position

(* All nodes of one list are pushed on another, first to last. *)
LEMMA LinksReverse ==
    ASSUME NEW nx, NEW q, NEW start, Links(nx, q, start),
           NEW f, NEW free, Links(nx, f, free), ToSet(q) \cap ToSet(f) = {},
           NEW nx2, \A n \in ToSet(f) : nx2[n] = nx[n],
           \A i \in 1..Len(q) : nx2[q[i]] = IF i = 1 THEN free ELSE q[i - 1]
    PROVE  \E r : /\ Links(nx2, r, IF q = <<>> THEN free ELSE q[Len(q)])
                  /\ ToSet(r) = ToSet(q) \cup ToSet(f)
<1>1. /\ Len(q) \in Nat /\ DOMAIN q = 1..Len(q) /\ (q = <<>> <=> Len(q) = 0)
      /\ \A i \in 1..Len(q) : q[i] \in Nodes /\ q[i] \in ToSet(q)
    BY LinksFacts
<1>2. /\ Len(f) \in Nat /\ DOMAIN f = 1..Len(f) /\ (f = <<>> <=> Len(f) = 0)
      /\ \A i \in 1..Len(f) : f[i] \in Nodes /\ f[i] \in ToSet(f)
    BY LinksFacts
<1>3. /\ IsInjective(q) /\ IsInjective(f) /\ free = IF f = <<>> THEN Null ELSE f[1]
      /\ \A i \in 1..Len(f) : nx[f[i]] = IF i = Len(f) THEN Null ELSE f[i + 1]
    BY DEF Links
<1>4. PICK k \in Nat, l \in Nat : k = Len(q) /\ l = Len(f)
    BY <1>1, <1>2
<1> DEFINE at(i) == IF i <= k THEN q[k + 1 - i] ELSE f[i - k]
<1>5. PICK r : r = [i \in 1..(k + l) |-> at(i)]
    OBVIOUS
<1>6. \A i \in 1..k : i \in 1..(k + l) /\ k + 1 - i \in 1..k /\ k + 1 - (k + 1 - i) = i
    BY <1>4
<1>7. \A i \in 1..l : k + i \in 1..(k + l) /\ ~(k + i <= k) /\ (k + i) - k = i
    BY <1>4
<1>8. \A i \in 1..(k + l) :
         \/ i \in 1..k /\ i <= k
         \/ ~(i <= k) /\ i - k \in 1..l /\ k + (i - k) = i
    BY <1>4
<1>9. \A i \in 1..k : i <= k
    BY <1>4
<1>10. (\A i \in 1..k : r[i] = q[k + 1 - i]) /\ (\A i \in 1..l : r[k + i] = f[i])
    <2>1. \A i \in 1..k : r[i] = q[k + 1 - i]
        BY <1>5, <1>6, <1>9
    <2>2. \A i \in 1..l : r[k + i] = f[i]
        BY <1>5, <1>7
    <2> QED BY <2>1, <2>2
<1>11. r \in Seq(Nodes) /\ Len(r) = k + l /\ DOMAIN r = 1..(k + l)
    <2>1. \A i \in 1..(k + l) : at(i) \in Nodes
        BY <1>1, <1>2, <1>4, <1>6, <1>8
    <2>2. r \in [1..(k + l) -> Nodes] /\ k + l \in Nat
        <3> HIDE DEF at
        <3> QED BY <1>4, <1>5, <2>1
    <2> QED BY <2>2, FunctionIsSeq
<1> HIDE DEF at
<1>a. ASSUME NEW i \in 1..(k + l)
      PROVE  (i <= k => r[i] \in ToSet(q)) /\ (~(i <= k) => r[i] \in ToSet(f))
    <2>1. CASE i <= k
        <3>1. k + 1 - i \in 1..Len(q) /\ r[i] = q[k + 1 - i]
            BY <1>4, <1>6, <1>8, <1>10, <2>1
        <3> QED BY <1>1, <2>1, <3>1
    <2>2. CASE ~(i <= k)
        <3>1. PICK j \in 1..l : i = k + j
            BY <1>8, <2>2
        <3>2. j \in 1..Len(f) /\ r[i] = f[j]
            BY <1>4, <1>10, <3>1
        <3> QED BY <1>2, <2>2, <3>2
    <2> QED BY <2>1, <2>2
<1>12. ToSet(r) = ToSet(q) \cup ToSet(f)
    <2>1. ASSUME NEW i \in 1..(k + l) PROVE r[i] \in ToSet(q) \cup ToSet(f)
        BY <1>a
    <2>2. ASSUME NEW i \in 1..k PROVE q[i] \in ToSet(r)
        <3>1. r[k + 1 - i] = q[i] /\ k + 1 - i \in DOMAIN r
            BY <1>6, <1>10, <1>11
        <3> QED BY <3>1 DEF ToSet
    <2>3. ASSUME NEW i \in 1..l PROVE f[i] \in ToSet(r)
        BY <1>7, <1>10, <1>11 DEF ToSet
    <2>4. ToSet(r) \subseteq ToSet(q) \cup ToSet(f)
        BY <1>11, <2>1 DEF ToSet
    <2>5. DOMAIN q = 1..k /\ DOMAIN f = 1..l
        BY <1>1, <1>2, <1>4
    <2>6. \A x \in ToSet(q) : \E i \in 1..k : q[i] = x
        BY <2>5 DEF ToSet
    <2>7. \A x \in ToSet(f) : \E i \in 1..l : f[i] = x
        BY <2>5 DEF ToSet
    <2> QED BY <2>2, <2>3, <2>4, <2>6, <2>7
<1>13. IsInjective(r)
    <2> SUFFICES ASSUME NEW i \in 1..(k + l), NEW j \in 1..(k + l), r[i] = r[j]
                 PROVE  i = j
        BY <1>11 DEF IsInjective
    <2>1. CASE i <= k /\ j <= k
        <3>1. i \in 1..k /\ j \in 1..k /\ q[k + 1 - i] = q[k + 1 - j]
            BY <1>8, <1>10, <2>1
        <3>2. k + 1 - i = k + 1 - j
            BY <1>1, <1>3, <1>4, <1>6, <3>1 DEF IsInjective
        <3> QED BY <1>4, <3>1, <3>2
    <2>2. CASE ~(i <= k) /\ ~(j <= k)
        <3>1. i - k \in 1..l /\ j - k \in 1..l /\ f[i - k] = f[j - k]
            BY <1>8, <1>10, <2>2
        <3>2. i - k = j - k
            BY <1>2, <1>3, <1>4, <3>1 DEF IsInjective
        <3> QED BY <1>4, <3>2
    <2>3. CASE i <= k /\ ~(j <= k)
        <3>1. r[i] \in ToSet(q) /\ r[j] \in ToSet(f)
            BY <1>a, <2>3
        <3> QED BY <3>1
    <2>4. CASE ~(i <= k) /\ j <= k
        <3>1. r[j] \in ToSet(q) /\ r[i] \in ToSet(f)
            BY <1>a, <2>4
        <3> QED BY <3>1
    <2> QED BY <2>1, <2>2, <2>3, <2>4
<1>14. (IF q = <<>> THEN free ELSE q[Len(q)]) = IF r = <<>> THEN Null ELSE r[1]
    <2>1. r = <<>> <=> k = 0 /\ l = 0
        BY <1>4, <1>11, EmptySeq
    <2>2. CASE k = 0
        <3>1. l # 0 => 1 \in 1..l /\ k + 1 = 1
            BY <1>4, <2>2
        <3> QED BY <1>1, <1>2, <1>3, <1>4, <1>10, <2>1, <2>2, <3>1
    <2>3. CASE k # 0
        <3>1. 1 \in 1..k /\ k + 1 - 1 = k
            BY <1>4, <2>3
        <3> QED BY <1>1, <1>4, <1>10, <2>1, <2>3, <3>1
    <2> QED BY <2>2, <2>3
<1>15. ASSUME NEW i \in 1..Len(r) PROVE nx2[r[i]] = IF i = Len(r) THEN Null ELSE r[i + 1]
    <2>0. i \in 1..(k + l)
        BY <1>11
    <2>1. CASE i <= k
        <3>0. i \in 1..k /\ k + 1 - i \in 1..k /\ r[i] = q[k + 1 - i]
            BY <1>6, <1>8, <1>10, <2>0, <2>1
        <3>1. nx2[r[i]] = IF k + 1 - i = 1 THEN free ELSE q[(k + 1 - i) - 1]
            BY <1>4, <3>0
        <3>2. CASE i = k
            <4>1. k + 1 - i = 1 /\ (l # 0 => 1 \in 1..l)
                BY <1>4, <3>2
            <4>2. i = Len(r) <=> l = 0
                BY <1>4, <1>11, <3>2
            <4> QED BY <1>2, <1>3, <1>4, <1>10, <3>1, <3>2, <4>1, <4>2
        <3>3. CASE i # k
            <4>1. i + 1 \in 1..k /\ k + 1 - i # 1 /\ (k + 1 - i) - 1 = k + 1 - (i + 1)
                BY <1>4, <3>0, <3>3
            <4>2. i # Len(r)
                BY <1>4, <1>11, <3>0, <3>3
            <4> QED BY <1>10, <3>1, <4>1, <4>2
        <3> QED BY <3>2, <3>3
    <2>2. CASE ~(i <= k)
        <3>1. PICK j \in 1..l : i = k + j
            BY <1>8, <2>0, <2>2
        <3>2. r[i] = f[j] /\ nx2[f[j]] = nx[f[j]]
            BY <1>2, <1>4, <1>10, <3>1
        <3>3. nx[f[j]] = IF j = l THEN Null ELSE f[j + 1]
            BY <1>3, <1>4, <3>1
        <3>4. i = Len(r) <=> j = l
            BY <1>4, <1>11, <3>1
        <3>5. j # l => j + 1 \in 1..l /\ k + (j + 1) = i + 1
            BY <1>4, <3>1
        <3> QED BY <1>10, <3>2, <3>3, <3>4, <3>5
    <2> QED BY <2>1, <2>2
<1>16. Links(nx2, r, IF q = <<>> THEN free ELSE q[Len(q)])
    BY <1>11, <1>13, <1>14, <1>15 DEF Links
<1> QED BY <1>12, <1>16

(* The list that rt_mq_init links has every node. *)
LEMMA LinkedFacts ==
    LET order == SetToSeq(Nodes)
    IN  /\ Linked(order) \in [Nodes -> Nodes \cup {Null}]
        /\ Links(Linked(order), order, order[1])
        /\ ToSet(order) = Nodes
<1>1. PICK q : q = SetToSeq(Nodes)
    OBVIOUS
<1>2. q \in Seq(Nodes) /\ ToSet(q) = Nodes /\ IsInjective(q)
    BY <1>1, QueueAssumption, SetToSeqFacts
<1>3. /\ Len(q) \in Nat /\ DOMAIN q = 1..Len(q)
      /\ \A i \in 1..Len(q) : q[i] \in Nodes
    BY <1>2, LenProperties, ElementOfSeq
<1>4. q # <<>>
    BY <1>2, QueueAssumption, EmptyList
<1>5. ASSUME NEW i \in 1..Len(q)
      PROVE  Linked(q)[q[i]] = IF i = Len(q) THEN Null ELSE q[i + 1]
    <2>1. Position(q, q[i]) = i
        BY <1>2, <1>3, PositionIs
    <2> QED BY <1>3, <2>1 DEF Linked
<1>6. ASSUME NEW n \in Nodes PROVE Linked(q)[n] \in Nodes \cup {Null}
    <2>1. PICK i \in 1..Len(q) : q[i] = n
        BY <1>2, <1>3 DEF ToSet
    <2>2. Len(q) \in Nat
        BY <1>3
    <2>3. i # Len(q) => i + 1 \in 1..Len(q)
        BY <2>2
    <2> QED BY <1>3, <1>5, <2>1, <2>3
<1>7. Linked(q) = [n \in Nodes |-> Linked(q)[n]]
    BY DEF Linked
<1>8. Linked(q) \in [Nodes -> Nodes \cup {Null}]
    BY <1>6, <1>7
<1>9. Links(Linked(q), q, q[1])
    BY <1>2, <1>4, <1>5 DEF Links
<1> QED BY <1>1, <1>2, <1>8, <1>9

-----------------------------------------------------------------------------
(* The number of receivers on their way, before and after a step. *)
LEMMA WokenCount ==
    ASSUME NEW x
    PROVE  /\ Cardinality(Woken) \in Nat /\ Cardinality(Woken') \in Nat
           /\ Woken \subseteq Woken' => Cardinality(Woken) <= Cardinality(Woken')
           /\ Woken \ {x} \subseteq Woken' => Cardinality(Woken) - 1 <= Cardinality(Woken')
           /\ Woken \cup {x} \subseteq Woken' /\ x \notin Woken =>
                 Cardinality(Woken) + 1 <= Cardinality(Woken')
<1>1. Woken \in SUBSET Receivers /\ Woken' \in SUBSET Receivers
    BY DEF Woken
<1> QED BY <1>1, QueueAssumption, CardinalityCompare

LEMMA WastedIs ==
    /\ NoMessageWasted <=> (suspend_thread # <<>> => entry <= Cardinality(Woken))
    /\ NoMessageWasted' <=> (suspend_thread' # <<>> => entry' <= Cardinality(Woken'))
BY DEF NoMessageWasted, Woken

(* entry counts the queued nodes. *)
LEMMA EntryType ==
    ASSUME ListsInv
    PROVE  entry \in Nat /\ entry \in 0..Cardinality(Nodes)
<1>1. PICK q : q = Chain(next, msg_queue_head)
    OBVIOUS
<1>2. q \in Seq(Nodes) /\ IsInjective(q) /\ entry = Len(q)
    BY <1>1 DEF ListsInv, Lists, Links
<1>3. Len(q) \in 0..Cardinality(Nodes) /\ Cardinality(Nodes) \in Nat
    BY <1>2, QueueAssumption, SeqCardinality
<1> QED BY <1>2, <1>3

(* A step of a caller c that is awake, leaves nobody asleep or woken but   *)
(* itself, and does not wait.                                              *)
LEMMA CallerThreads ==
    ASSUME ThreadInv, NodeTypes, entry \in Nat, entry' \in Nat,
           NEW c \in Callers, c \in Receivers => stat[c] = "READY",
           UNCHANGED <<stat, timer, suspend_thread, obj, wild>>,
           error' \in [Threads -> Errors], \A u \in Threads : u # c => error'[u] = error[u],
           left' \in [Receivers -> TimeKinds],
           \A d \in Callers : d # c => pc'[d] = pc[d],
           pc'[c] # "wait", obj # "live" => pc'[c] = "idle",
           \/ entry' <= entry /\ c \notin Woken
           \/ entry' <= entry - 1
           \/ entry' = 0
    PROVE  ThreadInv'
<1> USE DEF ThreadInv
<1>0. Threads = Receivers /\ Receivers \subseteq Callers
    BY QueueAssumption DEF Callers
<1>1. ThreadTypes'
    BY DEF ThreadTypes, ThreadTypeOK
<1>2. WaitersConsistent'
    BY <1>0 DEF ThreadTypes, ThreadTypeOK, WaitersConsistent
<1>3. Woken' = Woken \ {c}
    BY <1>0 DEF Woken
<1>4. NoMessageWasted'
    <2>1. entry' = 0 \/ c \notin Woken \/ entry' <= entry - 1
        OBVIOUS
    <2>2. CASE entry' = 0
        BY <2>2, WokenCount, WastedIs
    <2>3. CASE c \notin Woken
        <3>1. entry' <= entry \/ entry' = 0
            BY <1>3, <2>3
        <3>2. Woken \subseteq Woken'
            BY <1>3, <2>3
        <3>3. Cardinality(Woken) <= Cardinality(Woken') /\ Cardinality(Woken) \in Nat
              /\ Cardinality(Woken') \in Nat
            BY <3>2, WokenCount
        <3>4. suspend_thread # <<>> => entry <= Cardinality(Woken)
            BY WastedIs
        <3> QED BY <3>1, <3>3, <3>4, WastedIs
    <2>4. CASE entry' <= entry - 1
        <3>1. Cardinality(Woken) - 1 <= Cardinality(Woken') /\ Cardinality(Woken) \in Nat
              /\ Cardinality(Woken') \in Nat
            BY <1>3, WokenCount
        <3>2. suspend_thread # <<>> => entry <= Cardinality(Woken)
            BY WastedIs
        <3> QED BY <2>4, <3>1, <3>2, WastedIs
    <2> QED BY <2>1, <2>2, <2>3, <2>4
<1>5. DetachedQuiet' /\ DetachedEmpty'
    BY <1>3 DEF DetachedQuiet, DetachedEmpty
<1> QED BY <1>1, <1>2, <1>4, <1>5

(* A step that resumes the receivers of a set W with an error, or nobody,  *)
(* and leaves the callers where they are.                                  *)
LEMMA FlushThreads ==
    ASSUME ThreadInv, NodeTypes, entry \in Nat, NEW W \in SUBSET Receivers,
           NEW e \in {"ERROR", "ETIMEOUT"},
           suspend_thread' \in Seq(Receivers), IsInjective(suspend_thread'),
           ToSet(suspend_thread') = ToSet(suspend_thread) \ W,
           \A r \in W : stat[r] = "SUSPEND",
           stat' \in [Threads -> {"READY", "SUSPEND"}], timer' \in [Threads -> BOOLEAN],
           error' \in [Threads -> Errors],
           \A r \in W : stat'[r] = "READY" /\ timer'[r] = FALSE /\ error'[r] = e,
           \A r \in Receivers \ W :
               stat'[r] = stat[r] /\ timer'[r] = timer[r] /\ error'[r] = error[r],
           UNCHANGED <<pc, left>>,
           suspend_thread' = <<>> \/ entry' = entry \/ entry' = 0,
           suspend_thread = <<>> => suspend_thread' = <<>>,
           obj' \in {"live", "check", "resume", "remove", "gone"}, wild' \in BOOLEAN,
           obj' # "live" => Woken = {} /\ \A c \in Callers : pc[c] \in {"idle", "wait"},
           DetachedEmpty'
    PROVE  ThreadInv'
<1> USE DEF ThreadInv
<1>0. Threads = Receivers
    BY QueueAssumption
<1>1. ThreadTypes'
    BY DEF ThreadTypes, ThreadTypeOK
<1>2. WaitersConsistent'
    <2>1. ASSUME NEW r \in W
          PROVE  /\ r \in ToSet(suspend_thread') <=> stat'[r] = "SUSPEND"
                 /\ stat'[r] = "SUSPEND" => pc'[r] = "wait" /\ error'[r] = "EOK"
                 /\ timer'[r] => stat'[r] = "SUSPEND"
        BY <2>1
    <2>2. ASSUME NEW r \in Receivers \ W
          PROVE  /\ r \in ToSet(suspend_thread') <=> stat'[r] = "SUSPEND"
                 /\ stat'[r] = "SUSPEND" => pc'[r] = "wait" /\ error'[r] = "EOK"
                 /\ timer'[r] => stat'[r] = "SUSPEND"
        BY <2>2 DEF WaitersConsistent
    <2> QED BY <2>1, <2>2 DEF WaitersConsistent
<1>3. Woken' = Woken
    <2>1. ASSUME NEW r \in W PROVE r \notin Woken /\ r \notin Woken'
        BY <2>1 DEF Woken
    <2>2. ASSUME NEW r \in Receivers \ W PROVE r \in Woken <=> r \in Woken'
        BY <2>2 DEF Woken
    <2>3. Woken \subseteq Receivers /\ Woken' \subseteq Receivers
        BY DEF Woken
    <2> QED BY <2>1, <2>2, <2>3
<1>4. NoMessageWasted'
    <2>1. Cardinality(Woken') = Cardinality(Woken) /\ Cardinality(Woken) \in Nat
        BY <1>3, WokenCount
    <2>2. suspend_thread # <<>> => entry <= Cardinality(Woken)
        BY WastedIs
    <2> QED BY <2>1, <2>2, WastedIs
<1>5. DetachedQuiet'
    BY <1>3 DEF DetachedQuiet
<1> QED BY <1>1, <1>2, <1>4, <1>5

(* A receiver goes to sleep, for the first time or again. *)
LEMMA BlockThreads ==
    ASSUME ThreadInv, NodeTypes, NEW r \in Receivers, stat[r] = "READY", obj = "live",
           NEW time \in TimeKinds, Block(r, time)
    PROVE  ThreadInv'
<1> USE DEF ThreadInv
<1>0. Threads = Receivers /\ Receivers \subseteq Callers
    BY QueueAssumption DEF Callers
<1>1. /\ entry = 0 /\ suspend_thread' \in SuspendLists(suspend_thread, r, Flag)
      /\ stat' = [stat EXCEPT ![r] = "SUSPEND"] /\ error' = [error EXCEPT ![r] = "EOK"]
      /\ timer' = [timer EXCEPT ![r] = (time = "timed")]
      /\ left' = [left EXCEPT ![r] = time] /\ pc' = [pc EXCEPT ![r] = "wait"]
      /\ UNCHANGED <<entry, obj, wild>>
    BY DEF Block, Suspend, queueVars, objVars
<1>2. /\ suspend_thread' \in Seq(Receivers)
      /\ ToSet(suspend_thread') = ToSet(suspend_thread) \cup {r}
      /\ IsInjective(suspend_thread')
    <2>1. /\ suspend_thread \in Seq(Threads) /\ IsInjective(suspend_thread)
          /\ r \in Threads /\ r \notin ToSet(suspend_thread)
        BY <1>0 DEF ThreadTypes, WaitersConsistent
    <2>2. PICK prio \in [Threads -> Priorities] :
                suspend_thread' = SuspendList(suspend_thread, r, Flag, prio)
        BY <1>1 DEF SuspendLists
    <2>3. prio \in [Threads -> Nat]
        BY PrioAssumption
    <2> QED BY <1>0, <2>1, <2>2, <2>3, SuspendListFacts
<1>3. ThreadTypes'
    BY <1>0, <1>1, <1>2 DEF ThreadTypes, ThreadTypeOK, Errors
<1>4. WaitersConsistent'
    BY <1>0, <1>1, <1>2 DEF ThreadTypes, ThreadTypeOK, NodeTypes, WaitersConsistent
<1>5. NoMessageWasted'
    BY <1>1, WokenCount, WastedIs
<1> QED BY <1>1, <1>3, <1>4, <1>5 DEF DetachedQuiet, DetachedEmpty

(* A sender that has linked its node resumes the first receiver. *)
LEMMA WakeThreads ==
    ASSUME ThreadInv, NodeTypes, entry \in Nat, WakeFirst, entry' = entry + 1, obj = "live",
           NEW s \in Senders, pc' = [pc EXCEPT ![s] = "idle"], UNCHANGED <<left, obj, wild>>
    PROVE  ThreadInv'
<1> USE DEF ThreadInv
<1>0. Threads = Receivers /\ \A r \in Receivers : r # s /\ r \in Callers
    BY QueueAssumption DEF Callers
<1>a. \A r \in Receivers : pc'[r] = pc[r]
    <2>1. pc \in [Callers -> {"idle", "copy", "link", "wait", "free"}]
        BY DEF NodeTypes
    <2> QED BY <1>0, <2>1
<1>1. DetachedQuiet' /\ DetachedEmpty'
    BY DEF DetachedQuiet, DetachedEmpty
<1>2. CASE suspend_thread = <<>>
    <2>1. UNCHANGED <<stat, error, timer, suspend_thread>>
        BY <1>2 DEF WakeFirst, threadVars
    <2>2. ThreadTypes'
        BY <2>1 DEF ThreadTypes, ThreadTypeOK
    <2>3. WaitersConsistent'
        BY <1>a, <2>1 DEF WaitersConsistent
    <2> QED BY <1>1, <1>2, <2>1, <2>2, <2>3 DEF NoMessageWasted
<1>3. CASE suspend_thread # <<>>
    <2>1. PICK h : h = Head(suspend_thread)
        OBVIOUS
    <2>2. /\ stat' = [stat EXCEPT ![h] = "READY"] /\ timer' = [timer EXCEPT ![h] = FALSE]
          /\ error' = error /\ suspend_thread' = Tail(suspend_thread)
        BY <1>3, <2>1 DEF WakeFirst, Resume
    <2>3. /\ h \in Receivers /\ h \in ToSet(suspend_thread)
          /\ suspend_thread' \in Seq(Receivers) /\ IsInjective(suspend_thread')
          /\ ToSet(suspend_thread') = ToSet(suspend_thread) \ {h}
        BY <1>3, <2>1, <2>2, TailList DEF ThreadTypes, WaitersConsistent
    <2>4. ThreadTypes'
        BY <1>0, <2>2, <2>3 DEF ThreadTypes, ThreadTypeOK
    <2>5. WaitersConsistent'
        BY <1>0, <1>a, <2>2, <2>3 DEF ThreadTypes, ThreadTypeOK, WaitersConsistent
    <2>6. h \notin Woken /\ Woken \cup {h} \subseteq Woken'
        BY <1>0, <1>a, <2>2, <2>3 DEF ThreadTypes, ThreadTypeOK, WaitersConsistent, Woken
    <2>7. /\ Cardinality(Woken) \in Nat /\ Cardinality(Woken') \in Nat
          /\ Cardinality(Woken) + 1 <= Cardinality(Woken')
        BY <2>6, WokenCount
    <2>8. entry <= Cardinality(Woken)
        BY <1>3, WastedIs
    <2>9. NoMessageWasted'
        BY <2>7, <2>8, WastedIs
    <2> QED BY <1>1, <2>4, <2>5, <2>9
<1> QED BY <1>2, <1>3

-----------------------------------------------------------------------------
(* Lists that satisfy the invariant are the ones that Chain finds. *)
LEMMA ListsFound ==
    ASSUME NEW q, NEW f, Lists(q, f)'
    PROVE  ListsInv' /\ Chain(next', msg_queue_head') = q
<1>1. Links(next', q, msg_queue_head') /\ Links(next', f, msg_queue_free')
    BY DEF Lists
<1>2. Chain(next', msg_queue_head') = q /\ Chain(next', msg_queue_free') = f
    BY <1>1, ChainIs
<1> QED BY <1>2 DEF ListsInv, Lists

(* Nothing happens to the nodes and to what senders have in hand. *)
LEMMA SameNodes ==
    ASSUME NodeInv,
           UNCHANGED <<next, body, msg_queue_head, msg_queue_tail, msg_queue_free, entry, msg, arg>>,
           got' \in [Receivers -> Values \cup {NoValue}],
           pc' \in [Callers -> {"idle", "copy", "link", "wait", "free"}], CallersHold',
           \A s \in Senders : pc'[s] = pc[s]
    PROVE  NodeInv'
<1> USE DEF NodeInv
<1>1. NodeTypes'
    BY DEF NodeTypes
<1>2. ListsInv'
    BY DEF ListsInv, Lists
<1>3. CopiesKept'
    BY DEF CopiesKept
<1> QED BY <1>1, <1>2, <1>3

(* A free node goes into the hands of a sender. *)
LEMMA AllocNodes ==
    ASSUME NodeInv, NEW s \in Senders, NEW v \in Values, NEW urgent \in BOOLEAN,
           pc[s] = "idle", msg_queue_free # Null,
           msg' = [msg EXCEPT ![s] = msg_queue_free],
           msg_queue_free' = next[msg_queue_free],
           arg' = [arg EXCEPT ![s] = [value |-> v, urgent |-> urgent]],
           pc' = [pc EXCEPT ![s] = "copy"],
           UNCHANGED <<next, body, msg_queue_head, msg_queue_tail, entry, got>>
    PROVE  NodeInv' /\ Chain(next', msg_queue_head') = Chain(next, msg_queue_head)
<1> USE DEF NodeInv
<1>0. s \in Callers /\ Senders \subseteq Callers /\ Null \notin Nodes
      /\ \A r \in Receivers : r # s /\ r \in Callers
    BY QueueAssumption DEF Callers
<1>1. PICK q, f : Lists(q, f) /\ q = Chain(next, msg_queue_head)
    BY DEF ListsInv
<1>2. PICK n : n = msg_queue_free
    OBVIOUS
<1>3. f # <<>> /\ n \in Nodes /\ n \in ToSet(f)
    BY <1>1, <1>2, LinksFacts DEF Lists
<1>4. PICK f2 : f2 = Tail(f)
    OBVIOUS
<1>5. Links(next, f2, next[n]) /\ ToSet(f2) = ToSet(f) \ {n}
    BY <1>1, <1>2, <1>3, <1>4, LinksTail DEF Lists
<1>6. /\ msg' \in [Callers -> Nodes \cup {Null}] /\ msg'[s] = n
      /\ \A c \in Callers : c # s => msg'[c] = msg[c]
      /\ pc' \in [Callers -> {"idle", "copy", "link", "wait", "free"}] /\ pc'[s] = "copy"
      /\ \A c \in Callers : c # s => pc'[c] = pc[c]
      /\ msg[s] = Null
    BY <1>0, <1>2, <1>3 DEF NodeTypes, CallersHold
<1>7. /\ arg' \in [Senders -> [value : Values \cup {NoValue}, urgent : BOOLEAN]]
      /\ arg'[s].value = v /\ \A t \in Senders : t # s => arg'[t] = arg[t]
    BY DEF NodeTypes
<1>8. NodeTypes' /\ CallersHold'
    BY <1>0, <1>3, <1>6, <1>7 DEF NodeTypes, CallersHold
<1>9. CopiesKept'
    BY <1>0, <1>6, <1>7 DEF CopiesKept
<1>10. Lists(q, f2)'
    <2>1. /\ Links(next', q, msg_queue_head') /\ Links(next', f2, msg_queue_free')
          /\ msg_queue_tail' = (IF q = <<>> THEN Null ELSE q[Len(q)]) /\ entry' = Len(q)
        BY <1>1, <1>2, <1>5 DEF Lists
    <2>2. ToSet(q) \cap ToSet(f2) = {} /\ n \notin ToSet(q) /\ n \notin ToSet(f2)
        BY <1>1, <1>3, <1>5 DEF Lists
    <2>3. \A c \in Callers : msg'[c] # Null => msg'[c] \notin ToSet(q) /\ msg'[c] \notin ToSet(f2)
        BY <1>1, <1>5, <1>6, <2>2 DEF Lists
    <2>4. \A c, d \in Callers : msg'[c] = msg'[d] /\ msg'[c] # Null => c = d
        BY <1>1, <1>3, <1>6 DEF Lists
    <2>5. \A m \in Nodes : m \in ToSet(q) \/ m \in ToSet(f2) \/ \E c \in Callers : msg'[c] = m
        <3> SUFFICES ASSUME NEW m \in Nodes, m \notin ToSet(q), m \notin ToSet(f2)
                     PROVE  \E c \in Callers : msg'[c] = m
            OBVIOUS
        <3>1. CASE m = n
            BY <1>0, <1>6, <3>1
        <3>2. CASE m # n
            <4>1. PICK c \in Callers : msg[c] = m
                BY <1>1, <1>5, <3>2 DEF Lists
            <4>2. c # s
                BY <1>0, <1>6, <4>1
            <4> QED BY <1>6, <4>1, <4>2
        <3> QED BY <3>1, <3>2
    <2> QED BY <2>1, <2>2, <2>3, <2>4, <2>5 DEF Lists
<1>11. ListsInv' /\ Chain(next', msg_queue_head') = q
    BY <1>10, ListsFound
<1> QED BY <1>1, <1>8, <1>9, <1>11

(* The sender fills the node in its hands. *)
LEMMA CopyNodes ==
    ASSUME NodeInv, NEW s \in Senders, pc[s] = "copy",
           body' = [body EXCEPT ![msg[s]] = arg[s].value],
           next' = IF arg[s].urgent THEN next ELSE [next EXCEPT ![msg[s]] = Null],
           pc' = [pc EXCEPT ![s] = "link"],
           UNCHANGED <<msg_queue_head, msg_queue_tail, msg_queue_free, entry, msg, arg, got>>
    PROVE  /\ NodeInv' /\ Chain(next', msg_queue_head') = Chain(next, msg_queue_head)
           /\ \A i \in 1..entry : body'[Chain(next, msg_queue_head)[i]] =
                                  body[Chain(next, msg_queue_head)[i]]
<1> USE DEF NodeInv
<1>0. s \in Callers /\ Senders \subseteq Callers /\ Null \notin Nodes
      /\ \A r \in Receivers : r # s /\ r \in Callers
    BY QueueAssumption DEF Callers
<1>1. PICK q, f : Lists(q, f) /\ q = Chain(next, msg_queue_head)
    BY DEF ListsInv
<1>2. PICK n : n = msg[s]
    OBVIOUS
<1>3. n \in Nodes /\ n # Null
    BY <1>0, <1>2 DEF NodeTypes, CallersHold
<1>4. n \notin ToSet(q) /\ n \notin ToSet(f) /\ \A c \in Callers : c # s => msg[c] # n
    BY <1>0, <1>1, <1>2, <1>3 DEF Lists
<1>5. arg[s].value \in Values
    BY DEF CopiesKept
<1>6. /\ body' \in [Nodes -> Values \cup {NoValue}] /\ body'[n] = arg[s].value
      /\ \A m \in Nodes : m # n => body'[m] = body[m]
    BY <1>2, <1>3, <1>5 DEF NodeTypes
<1>7. /\ next' \in [Nodes -> Nodes \cup {Null}] /\ (~arg[s].urgent => next'[n] = Null)
      /\ \A m \in Nodes : m # n => next'[m] = next[m]
    <2>1. next \in [Nodes -> Nodes \cup {Null}]
        BY DEF NodeTypes
    <2>2. CASE arg[s].urgent
        BY <2>1, <2>2
    <2>3. CASE ~arg[s].urgent
        BY <1>2, <1>3, <2>1, <2>3
    <2> QED BY <2>2, <2>3
<1>8. /\ pc' \in [Callers -> {"idle", "copy", "link", "wait", "free"}] /\ pc'[s] = "link"
      /\ \A c \in Callers : c # s => pc'[c] = pc[c]
    BY <1>0 DEF NodeTypes
<1>9. NodeTypes'
    BY <1>6, <1>7, <1>8 DEF NodeTypes
<1>10. CallersHold'
    BY <1>0, <1>8 DEF CallersHold
<1>11. CopiesKept'
    <2> SUFFICES ASSUME NEW t \in Senders
                 PROVE  /\ pc'[t] \in {"copy", "link"} => arg[t].value \in Values
                        /\ pc'[t] = "link" => body'[msg[t]] = arg[t].value
                        /\ pc'[t] = "link" /\ ~arg[t].urgent => next'[msg[t]] = Null
        BY DEF CopiesKept
    <2>1. CASE t = s
        BY <1>2, <1>5, <1>6, <1>7, <2>1
    <2>2. CASE t # s
        <3>1. pc'[t] = pc[t] /\ t \in Callers /\ msg[t] # n
            BY <1>0, <1>4, <1>8, <2>2
        <3>2. pc[t] = "link" => msg[t] \in Nodes
            BY <3>1 DEF NodeTypes, CallersHold
        <3> QED BY <1>6, <1>7, <3>1, <3>2 DEF CopiesKept
    <2> QED BY <2>1, <2>2
<1>12. ToSet(q) \subseteq Nodes /\ ToSet(f) \subseteq Nodes
       /\ \A i \in 1..Len(q) : q[i] \in ToSet(q)
    BY <1>1, LinksFacts DEF Lists
<1>13. Links(next', q, msg_queue_head) /\ Links(next', f, msg_queue_free)
    <2>1. (\A m \in ToSet(q) : next'[m] = next[m]) /\ (\A m \in ToSet(f) : next'[m] = next[m])
        BY <1>4, <1>7, <1>12
    <2> QED BY <1>1, <2>1, LinksFrame DEF Lists
<1>14. Lists(q, f)'
    BY <1>1, <1>13 DEF Lists
<1>15. ListsInv' /\ Chain(next', msg_queue_head') = q
    BY <1>14, ListsFound
<1>16. \A i \in 1..entry : body'[q[i]] = body[q[i]]
    BY <1>1, <1>4, <1>6, <1>12 DEF Lists
<1> QED BY <1>1, <1>9, <1>10, <1>11, <1>15, <1>16

(* A caller gives the node in its hands to one of the lists. *)
LEMMA GiveNode ==
    ASSUME NodeInv, NEW c \in Callers, NEW n \in Nodes, msg[c] = n,
           NEW q, NEW f, Lists(q, f), NEW q2, NEW f2,
           Links(next', q2, msg_queue_head'), Links(next', f2, msg_queue_free'),
           msg_queue_tail' = IF q2 = <<>> THEN Null ELSE q2[Len(q2)], entry' = Len(q2),
           ToSet(q2) \cap ToSet(f2) = {},
           ToSet(q2) \cup ToSet(f2) = ToSet(q) \cup ToSet(f) \cup {n},
           msg' = [msg EXCEPT ![c] = Null]
    PROVE  ListsInv' /\ Chain(next', msg_queue_head') = q2
<1>1. /\ \A d \in Callers : msg[d] # Null => msg[d] \notin ToSet(q) /\ msg[d] \notin ToSet(f)
      /\ \A d, e \in Callers : msg[d] = msg[e] /\ msg[d] # Null => d = e
      /\ \A m \in Nodes : m \in ToSet(q) \/ m \in ToSet(f) \/ \E d \in Callers : msg[d] = m
    BY DEF Lists
<1>2. msg'[c] = Null /\ (\A d \in Callers : d # c => msg'[d] = msg[d]) /\ n # Null
    BY QueueAssumption DEF NodeInv, NodeTypes
<1>3. ASSUME NEW d \in Callers, msg'[d] # Null
      PROVE  msg'[d] \notin ToSet(q2) /\ msg'[d] \notin ToSet(f2)
    <2>1. d # c /\ msg'[d] = msg[d]
        BY <1>2, <1>3
    <2>2. msg[d] \notin ToSet(q) /\ msg[d] \notin ToSet(f) /\ msg[d] # n
        BY <1>1, <1>2, <1>3, <2>1
    <2> QED BY <2>1, <2>2
<1>4. \A d, e \in Callers : msg'[d] = msg'[e] /\ msg'[d] # Null => d = e
    BY <1>1, <1>2
<1>5. ASSUME NEW m \in Nodes
      PROVE  m \in ToSet(q2) \/ m \in ToSet(f2) \/ \E d \in Callers : msg'[d] = m
    <2>1. CASE m \in ToSet(q) \/ m \in ToSet(f) \/ m = n
        BY <2>1
    <2>2. CASE \E d \in Callers : msg[d] = m /\ m # n
        BY <1>2, <2>2
    <2> QED BY <1>1, <2>1, <2>2
<1>6. Lists(q2, f2)'
    BY <1>3, <1>4, <1>5 DEF Lists
<1> QED BY <1>6, ListsFound

(* The sender links its node: behind the last one, or in front of the      *)
(* first.                                                                  *)
LEMMA LinkNodes ==
    ASSUME NodeInv, NEW s \in Senders, pc[s] = "link",
           IF arg[s].urgent THEN LinkHead(msg[s]) ELSE LinkTail(msg[s]),
           entry' = entry + 1,
           pc' = [pc EXCEPT ![s] = "idle"], msg' = [msg EXCEPT ![s] = Null],
           arg' = [arg EXCEPT ![s] = NoArg],
           UNCHANGED <<body, msg_queue_free, got>>
    PROVE  /\ NodeInv' /\ entry' \in 1..Cardinality(Nodes) /\ msg[s] \in Nodes
           /\ Chain(next', msg_queue_head') =
                 IF arg[s].urgent THEN <<msg[s]>> \o Chain(next, msg_queue_head)
                 ELSE Append(Chain(next, msg_queue_head), msg[s])
<1> USE DEF NodeInv
<1>0. s \in Callers /\ Senders \subseteq Callers /\ Null \notin Nodes
      /\ \A r \in Receivers : r # s /\ r \in Callers
    BY QueueAssumption DEF Callers
<1>1. PICK q, f : Lists(q, f) /\ q = Chain(next, msg_queue_head)
    BY DEF ListsInv
<1>2. PICK n : n = msg[s]
    OBVIOUS
<1>3. n \in Nodes /\ n # Null
    BY <1>0, <1>2 DEF NodeTypes, CallersHold
<1>4. /\ n \notin ToSet(q) /\ n \notin ToSet(f) /\ \A c \in Callers : c # s => msg[c] # n
      /\ \A c \in Callers : msg[c] # Null => msg[c] \notin ToSet(q)
    BY <1>0, <1>1, <1>2, <1>3 DEF Lists
<1>5. /\ Links(next, q, msg_queue_head) /\ Links(next, f, msg_queue_free)
      /\ msg_queue_tail = (IF q = <<>> THEN Null ELSE q[Len(q)]) /\ entry = Len(q)
      /\ ToSet(q) \cap ToSet(f) = {}
    BY <1>1 DEF Lists
<1>6. /\ Len(q) \in Nat /\ (q = <<>> <=> Len(q) = 0) /\ (msg_queue_head = Null <=> q = <<>>)
      /\ ToSet(q) \subseteq Nodes /\ ToSet(f) \subseteq Nodes
      /\ q # <<>> => Len(q) \in 1..Len(q)
    <2>1. Len(q) \in Nat /\ (q = <<>> <=> Len(q) = 0)
        BY <1>5, LinksFacts
    <2>2. q # <<>> => Len(q) \in 1..Len(q)
        BY <2>1
    <2> QED BY <1>5, <2>1, <2>2, LinksFacts
<1>7. msg_queue_tail = Null <=> q = <<>>
    <2>1. q # <<>> => q[Len(q)] # Null
        BY <1>5, <1>6, LinksFacts
    <2> QED BY <1>5, <2>1
<1>a. q # <<>> => msg_queue_tail \in ToSet(q) /\ msg_queue_tail \in Nodes
    BY <1>5, <1>6, LinksFacts
<1>8. /\ pc' \in [Callers -> {"idle", "copy", "link", "wait", "free"}] /\ pc'[s] = "idle"
      /\ \A c \in Callers : c # s => pc'[c] = pc[c]
      /\ msg' \in [Callers -> Nodes \cup {Null}] /\ msg'[s] = Null
      /\ \A c \in Callers : c # s => msg'[c] = msg[c]
    BY <1>0 DEF NodeTypes
<1>9. /\ arg' \in [Senders -> [value : Values \cup {NoValue}, urgent : BOOLEAN]]
      /\ \A t \in Senders : t # s => arg'[t] = arg[t]
    BY DEF NodeTypes, NoArg
<1>10. CallersHold'
    BY <1>0, <1>8 DEF CallersHold
(* What both ways of linking have to show. *)
<1> DEFINE Linking(q2) ==
        /\ next' \in [Nodes -> Nodes \cup {Null}]
        /\ \A m \in Nodes : m \notin ToSet(q) /\ m # n => next'[m] = next[m]
        /\ Links(next', q2, msg_queue_head')
        /\ msg_queue_tail' = (IF q2 = <<>> THEN Null ELSE q2[Len(q2)])
        /\ Len(q2) = Len(q) + 1 /\ ToSet(q2) = ToSet(q) \cup {n}
<1>11. ASSUME NEW q2, Linking(q2)
       PROVE  /\ NodeInv' /\ entry' \in 1..Cardinality(Nodes)
              /\ Chain(next', msg_queue_head') = q2
    <2>1. NodeTypes'
        BY <1>8, <1>9, <1>11 DEF NodeTypes
    <2>2. CopiesKept'
        <3> SUFFICES ASSUME NEW t \in Senders, t # s
                     PROVE  /\ pc[t] \in {"copy", "link"} => arg[t].value \in Values
                            /\ pc[t] = "link" => body[msg[t]] = arg[t].value
                            /\ pc[t] = "link" /\ ~arg[t].urgent => next'[msg[t]] = Null
            BY <1>0, <1>8, <1>9 DEF CopiesKept
        <3>1. pc[t] = "link" => msg[t] \in Nodes /\ msg[t] # Null
            BY <1>0 DEF NodeTypes, CallersHold
        <3>2. pc[t] = "link" => next'[msg[t]] = next[msg[t]]
            BY <1>0, <1>4, <1>11, <3>1
        <3> QED BY <3>2 DEF CopiesKept
    <2>3. Links(next', f, msg_queue_free)
        <3>1. \A m \in ToSet(f) : next'[m] = next[m]
            BY <1>4, <1>5, <1>6, <1>11
        <3> QED BY <1>5, <3>1, LinksFrame
    <2>4. /\ ToSet(q2) \cap ToSet(f) = {}
          /\ ToSet(q2) \cup ToSet(f) = ToSet(q) \cup ToSet(f) \cup {n}
          /\ entry' = Len(q2)
        BY <1>4, <1>5, <1>11
    <2>5. ListsInv' /\ Chain(next', msg_queue_head') = q2
        <3>1. Links(next', q2, msg_queue_head') /\ Links(next', f, msg_queue_free')
            BY <1>11, <2>3
        <3>2. msg_queue_tail' = IF q2 = <<>> THEN Null ELSE q2[Len(q2)]
            BY <1>11
        <3> HIDE DEF Linking
        <3> QED BY <1>0, <1>1, <1>2, <1>3, <2>4, <3>1, <3>2, GiveNode
    <2>6. entry' \in 1..Cardinality(Nodes)
        <3>1. q2 \in Seq(Nodes) /\ IsInjective(q2)
            BY <1>11 DEF Links
        <3>2. Len(q2) \in 0..Cardinality(Nodes) /\ Cardinality(Nodes) \in Nat
            BY <3>1, QueueAssumption, SeqCardinality
        <3>3. entry' = Len(q) + 1 /\ Len(q) \in Nat /\ entry' = Len(q2)
            BY <1>5, <1>6, <2>4
        <3> QED BY <3>2, <3>3
    <2> QED BY <1>10, <2>1, <2>2, <2>5, <2>6
<1>12. CASE arg[s].urgent
    <2>1. /\ next' = [next EXCEPT ![n] = msg_queue_head] /\ msg_queue_head' = n
          /\ msg_queue_tail' = IF msg_queue_tail = Null THEN n ELSE msg_queue_tail
        BY <1>2, <1>12 DEF LinkHead
    <2>2. next \in [Nodes -> Nodes \cup {Null}] /\ msg_queue_head \in Nodes \cup {Null}
        BY <1>5, LinksFacts DEF NodeTypes
    <2>3. /\ next' \in [Nodes -> Nodes \cup {Null}] /\ next'[n] = msg_queue_head
          /\ \A m \in Nodes : m # n => next'[m] = next[m]
        BY <1>3, <2>1, <2>2
    <2>4. \A m \in ToSet(q) : next'[m] = next[m]
        BY <1>4, <1>6, <2>3
    <2>5. PICK q2 : /\ Links(next', q2, n) /\ q2 = <<n>> \o q
                    /\ Len(q2) = Len(q) + 1 /\ ToSet(q2) = ToSet(q) \cup {n}
                    /\ q2[1] = n /\ \A i \in 1..Len(q) : q2[i + 1] = q[i]
        BY <1>3, <1>4, <1>5, <2>3, <2>4, LinksPush
    <2>6. q2 # <<>> /\ (q # <<>> => q2[Len(q2)] = q[Len(q)]) /\ (q = <<>> => q2[Len(q2)] = n)
        <3>1. q2 \in Seq(Nodes) /\ Len(q2) # 0
            BY <1>6, <2>5 DEF Links
        <3>2. q # <<>> => q2[Len(q) + 1] = q[Len(q)]
            BY <1>6, <2>5
        <3>3. q = <<>> => Len(q2) = 1
            BY <1>6, <2>5
        <3> QED BY <2>5, <3>1, <3>2, <3>3
    <2>7. msg_queue_tail' = IF q2 = <<>> THEN Null ELSE q2[Len(q2)]
        BY <1>5, <1>7, <2>1, <2>6
    <2>8. Linking(q2)
        BY <2>1, <2>3, <2>5, <2>7
    <2> HIDE DEF Linking
    <2> QED BY <1>1, <1>2, <1>3, <1>11, <1>12, <2>5, <2>8
<1>13. CASE ~arg[s].urgent
    <2>1. /\ next' = (IF msg_queue_tail # Null THEN [next EXCEPT ![msg_queue_tail] = n] ELSE next)
          /\ msg_queue_tail' = n
          /\ msg_queue_head' = IF msg_queue_head = Null THEN n ELSE msg_queue_head
        BY <1>2, <1>13 DEF LinkTail
    <2>2. next \in [Nodes -> Nodes \cup {Null}] /\ next[n] = Null
        BY <1>2, <1>13 DEF NodeTypes, CopiesKept
    <2>3. /\ next' \in [Nodes -> Nodes \cup {Null}]
          /\ q # <<>> => next'[msg_queue_tail] = n
          /\ \A m \in Nodes : q = <<>> \/ m # msg_queue_tail => next'[m] = next[m]
        <3>1. CASE q = <<>>
            BY <1>7, <2>1, <2>2, <3>1
        <3>2. CASE q # <<>>
            BY <1>3, <1>7, <1>a, <2>1, <2>2, <3>2
        <3> QED BY <3>1, <3>2
    <2>4. /\ next'[n] = Null /\ (q # <<>> => next'[q[Len(q)]] = n)
          /\ \A m \in ToSet(q) : m # q[Len(q)] => next'[m] = next[m]
        <3>1. next'[n] = Null
            BY <1>3, <1>4, <1>a, <2>2, <2>3
        <3>2. q # <<>> => msg_queue_tail = q[Len(q)]
            BY <1>5
        <3>3. \A m \in ToSet(q) : q # <<>>
            BY EmptyList
        <3> QED BY <1>6, <2>3, <3>1, <3>2, <3>3
    <2>5. PICK q2 : /\ Links(next', q2, IF msg_queue_head = Null THEN n ELSE msg_queue_head)
                    /\ q2 = Append(q, n)
                    /\ Len(q2) = Len(q) + 1 /\ ToSet(q2) = ToSet(q) \cup {n}
                    /\ q2[Len(q) + 1] = n /\ \A i \in 1..Len(q) : q2[i] = q[i]
        BY <1>3, <1>4, <1>5, <2>4, LinksAppend
    <2>6. q2 # <<>>
        <3>1. q2 \in Seq(Nodes) /\ Len(q2) # 0
            BY <1>6, <2>5 DEF Links
        <3> QED BY <3>1
    <2>7. msg_queue_tail' = IF q2 = <<>> THEN Null ELSE q2[Len(q2)]
        BY <2>1, <2>5, <2>6
    <2>8. \A m \in Nodes : m \notin ToSet(q) /\ m # n => next'[m] = next[m]
        BY <1>a, <2>3
    <2>9. Linking(q2)
        BY <2>1, <2>3, <2>5, <2>7, <2>8
    <2> HIDE DEF Linking
    <2> QED BY <1>1, <1>2, <1>3, <1>11, <1>13, <2>5, <2>9
<1> QED BY <1>12, <1>13

(* The first message goes into the hands of a receiver. *)
LEMMA UnlinkNodes ==
    ASSUME NodeInv, NEW r \in Receivers, pc[r] \in {"idle", "wait"}, Unlink(r)
    PROVE  /\ NodeInv' /\ entry' = entry - 1 /\ entry' \in Nat
           /\ Chain(next, msg_queue_head) # <<>> /\ Chain(next, msg_queue_head) \in Seq(Nodes)
           /\ msg'[r] = Chain(next, msg_queue_head)[1] /\ msg'[r] \in Nodes
           /\ Chain(next', msg_queue_head') = Tail(Chain(next, msg_queue_head))
<1> USE DEF NodeInv
<1>0. r \in Callers /\ Senders \subseteq Callers /\ Null \notin Nodes
      /\ \A s \in Senders : s # r
    BY QueueAssumption DEF Callers
<1>a. /\ entry # 0 /\ msg' = [msg EXCEPT ![r] = msg_queue_head]
      /\ msg_queue_head' = next[msg_queue_head]
      /\ msg_queue_tail' = (IF msg_queue_tail = msg_queue_head THEN Null ELSE msg_queue_tail)
      /\ entry' = entry - 1 /\ pc' = [pc EXCEPT ![r] = "copy"]
      /\ UNCHANGED <<next, body, msg_queue_free, arg, got>>
    BY DEF Unlink, nodeVars
<1>1. PICK q, f : Lists(q, f) /\ q = Chain(next, msg_queue_head)
    BY DEF ListsInv
<1>2. PICK n : n = msg_queue_head
    OBVIOUS
<1>5. /\ Links(next, q, n) /\ Links(next, f, msg_queue_free) /\ entry = Len(q)
      /\ msg_queue_tail = (IF q = <<>> THEN Null ELSE q[Len(q)])
      /\ ToSet(q) \cap ToSet(f) = {}
    BY <1>1, <1>2 DEF Lists
<1>3. /\ q # <<>> /\ n \in Nodes /\ n \in ToSet(q) /\ n = q[1] /\ Len(q) \in Nat /\ Len(q) # 0
      /\ DOMAIN q = 1..Len(q) /\ q \in Seq(Nodes) /\ IsInjective(q)
    <2>1. Len(q) \in Nat /\ (q = <<>> <=> Len(q) = 0) /\ DOMAIN q = 1..Len(q)
        BY <1>5, LinksFacts
    <2>2. q # <<>>
        BY <1>a, <1>5, <2>1
    <2> QED BY <1>5, <2>1, <2>2, LinksFacts DEF Links
<1>4. PICK q2 : q2 = Tail(q)
    OBVIOUS
<1>b. /\ Links(next, q2, next[n]) /\ ToSet(q2) = ToSet(q) \ {n} /\ Len(q2) = Len(q) - 1
      /\ \A i \in 1..(Len(q) - 1) : q2[i] = q[i + 1]
    BY <1>3, <1>4, <1>5, LinksTail
<1>6. /\ msg' \in [Callers -> Nodes \cup {Null}] /\ msg'[r] = n
      /\ \A c \in Callers : c # r => msg'[c] = msg[c]
      /\ pc' \in [Callers -> {"idle", "copy", "link", "wait", "free"}] /\ pc'[r] = "copy"
      /\ \A c \in Callers : c # r => pc'[c] = pc[c]
      /\ msg[r] = Null
    BY <1>0, <1>2, <1>3, <1>a DEF NodeTypes, CallersHold
<1>7. NodeTypes' /\ CallersHold'
    BY <1>0, <1>3, <1>6, <1>a DEF NodeTypes, CallersHold
<1>8. CopiesKept'
    BY <1>0, <1>6, <1>a DEF CopiesKept
<1>9. msg_queue_tail' = IF q2 = <<>> THEN Null ELSE q2[Len(q2)]
    <2>1. q2 = <<>> <=> Len(q) = 1
        <3>1. Len(q2) = 0 <=> q2 = <<>>
            BY <1>b, LinksFacts
        <3> QED BY <1>3, <1>b, <3>1
    <2>2. q[Len(q)] = q[1] <=> Len(q) = 1
        <3>1. 1 \in DOMAIN q /\ Len(q) \in DOMAIN q
            BY <1>3
        <3> QED BY <1>3, <3>1 DEF IsInjective
    <2>3. CASE Len(q) = 1
        BY <1>2, <1>3, <1>5, <1>a, <2>1, <2>2, <2>3
    <2>4. CASE Len(q) # 1
        <3>1. Len(q2) \in 1..(Len(q) - 1) /\ Len(q2) + 1 = Len(q)
            BY <1>3, <1>b, <2>4
        <3>2. q2[Len(q2)] = q[Len(q)]
            BY <1>b, <3>1
        <3> QED BY <1>2, <1>3, <1>5, <1>a, <2>1, <2>2, <2>4, <3>2
    <2> QED BY <2>3, <2>4
<1>10. Lists(q2, f)'
    <2>1. /\ Links(next', q2, msg_queue_head') /\ Links(next', f, msg_queue_free')
          /\ entry' = Len(q2)
        BY <1>2, <1>5, <1>a, <1>b
    <2>2. ToSet(q2) \cap ToSet(f) = {} /\ n \notin ToSet(q2) /\ n \notin ToSet(f)
        BY <1>3, <1>5, <1>b
    <2>3. \A c \in Callers : msg'[c] # Null => msg'[c] \notin ToSet(q2) /\ msg'[c] \notin ToSet(f)
        BY <1>1, <1>6, <1>b, <2>2 DEF Lists
    <2>4. \A c, d \in Callers : msg'[c] = msg'[d] /\ msg'[c] # Null => c = d
        BY <1>1, <1>3, <1>6 DEF Lists
    <2>5. \A m \in Nodes : m \in ToSet(q2) \/ m \in ToSet(f) \/ \E c \in Callers : msg'[c] = m
        <3> SUFFICES ASSUME NEW m \in Nodes, m \notin ToSet(q2), m \notin ToSet(f)
                     PROVE  \E c \in Callers : msg'[c] = m
            OBVIOUS
        <3>1. CASE m = n
            BY <1>0, <1>6, <3>1
        <3>2. CASE m # n
            <4>1. PICK c \in Callers : msg[c] = m
                BY <1>1, <1>b, <3>2 DEF Lists
            <4>2. c # r
                BY <1>0, <1>6, <4>1
            <4> QED BY <1>6, <4>1, <4>2
        <3> QED BY <3>1, <3>2
    <2> QED BY <1>9, <2>1, <2>2, <2>3, <2>4, <2>5 DEF Lists
<1>11. ListsInv' /\ Chain(next', msg_queue_head') = q2
    BY <1>10, ListsFound
<1>12. entry' \in Nat
    BY <1>3, <1>5, <1>a
<1> QED BY <1>1, <1>3, <1>4, <1>6, <1>7, <1>8, <1>11, <1>12, <1>a

(* A receiver gives its node to the free list. *)
LEMMA FreeNodes ==
    ASSUME NodeInv, NEW r \in Receivers, pc[r] = "free",
           next' = [next EXCEPT ![msg[r]] = msg_queue_free], msg_queue_free' = msg[r],
           msg' = [msg EXCEPT ![r] = Null], pc' = [pc EXCEPT ![r] = "idle"],
           UNCHANGED <<body, msg_queue_head, msg_queue_tail, entry, arg, got>>
    PROVE  NodeInv' /\ Chain(next', msg_queue_head') = Chain(next, msg_queue_head)
<1> USE DEF NodeInv
<1>0. r \in Callers /\ Senders \subseteq Callers /\ Null \notin Nodes
      /\ \A s \in Senders : s # r
    BY QueueAssumption DEF Callers
<1>1. PICK q, f : Lists(q, f) /\ q = Chain(next, msg_queue_head)
    BY DEF ListsInv
<1>2. PICK n : n = msg[r]
    OBVIOUS
<1>3. n \in Nodes /\ n # Null
    BY <1>0, <1>2 DEF NodeTypes, CallersHold
<1>4. n \notin ToSet(q) /\ n \notin ToSet(f) /\ \A c \in Callers : c # r => msg[c] # n
    BY <1>0, <1>1, <1>2, <1>3 DEF Lists
<1>5. /\ Links(next, q, msg_queue_head) /\ Links(next, f, msg_queue_free)
      /\ msg_queue_tail = (IF q = <<>> THEN Null ELSE q[Len(q)]) /\ entry = Len(q)
      /\ ToSet(q) \cap ToSet(f) = {}
    BY <1>1 DEF Lists
<1>6. ToSet(q) \subseteq Nodes /\ ToSet(f) \subseteq Nodes /\ msg_queue_free \in Nodes \cup {Null}
    BY <1>5, LinksFacts
<1>7. /\ next' \in [Nodes -> Nodes \cup {Null}] /\ next'[n] = msg_queue_free
      /\ \A m \in Nodes : m # n => next'[m] = next[m]
    BY <1>2, <1>3, <1>6 DEF NodeTypes
<1>8. /\ pc' \in [Callers -> {"idle", "copy", "link", "wait", "free"}] /\ pc'[r] = "idle"
      /\ \A c \in Callers : c # r => pc'[c] = pc[c]
      /\ msg' \in [Callers -> Nodes \cup {Null}] /\ msg'[r] = Null
      /\ \A c \in Callers : c # r => msg'[c] = msg[c]
    BY <1>0 DEF NodeTypes
<1>9. NodeTypes' /\ CallersHold'
    BY <1>0, <1>7, <1>8 DEF NodeTypes, CallersHold
<1>10. CopiesKept'
    <2> SUFFICES ASSUME NEW t \in Senders
                 PROVE  /\ pc[t] \in {"copy", "link"} => arg[t].value \in Values
                        /\ pc[t] = "link" => body[msg[t]] = arg[t].value
                        /\ pc[t] = "link" /\ ~arg[t].urgent => next'[msg[t]] = Null
        BY <1>0, <1>8 DEF CopiesKept
    <2>1. pc[t] = "link" => msg[t] \in Nodes /\ msg[t] # n
        BY <1>0, <1>4 DEF NodeTypes, CallersHold
    <2> QED BY <1>7, <2>1 DEF CopiesKept
<1>11. \A m \in ToSet(f) : next'[m] = next[m]
    BY <1>4, <1>6, <1>7
<1>12. PICK f2 : /\ Links(next', f2, n) /\ f2 = <<n>> \o f
                 /\ Len(f2) = Len(f) + 1 /\ ToSet(f2) = ToSet(f) \cup {n}
                 /\ f2[1] = n /\ \A i \in 1..Len(f) : f2[i + 1] = f[i]
    <2>1. next'[n] = msg_queue_free
        BY <1>7
    <2>2. PICK nx2 : nx2 = next'
        OBVIOUS
    <2>3. /\ nx2[n] = msg_queue_free /\ (\A m \in ToSet(f) : nx2[m] = next[m])
          /\ Links(next, f, msg_queue_free) /\ n \notin ToSet(f)
        BY <1>4, <1>5, <1>11, <2>1, <2>2
    <2>4. \E f2 : /\ Links(nx2, f2, n) /\ f2 = <<n>> \o f
                  /\ Len(f2) = Len(f) + 1 /\ ToSet(f2) = ToSet(f) \cup {n}
                  /\ f2[1] = n /\ \A i \in 1..Len(f) : f2[i + 1] = f[i]
        BY <1>3, <2>3, LinksPush, SMTT(60)
    <2> QED BY <2>2, <2>4
<1>13. Links(next', q, msg_queue_head)
    <2>1. \A m \in ToSet(q) : next'[m] = next[m]
        BY <1>4, <1>6, <1>7
    <2> QED BY <1>5, <2>1, LinksFrame
<1>14. /\ ToSet(q) \cap ToSet(f2) = {}
       /\ ToSet(q) \cup ToSet(f2) = ToSet(q) \cup ToSet(f) \cup {n}
    BY <1>4, <1>5, <1>12
<1>15. /\ Links(next', q, msg_queue_head') /\ Links(next', f2, msg_queue_free')
       /\ msg_queue_tail' = (IF q = <<>> THEN Null ELSE q[Len(q)]) /\ entry' = Len(q)
    BY <1>2, <1>5, <1>12, <1>13
<1>16. ListsInv' /\ Chain(next', msg_queue_head') = q
    BY <1>0, <1>1, <1>2, <1>3, <1>14, <1>15, GiveNode
<1> QED BY <1>1, <1>9, <1>10, <1>16

(* rt_mq_control(RT_IPC_CMD_RESET) gives all queued nodes to the free list. *)
LEMMA ResetNodes ==
    ASSUME NodeInv, Reset
    PROVE  NodeInv' /\ entry' = 0 /\ Chain(next', msg_queue_head') = <<>>
<1> USE DEF NodeInv
<1>1. PICK q, f : Lists(q, f) /\ q = Chain(next, msg_queue_head)
    BY DEF ListsInv
<1>2. /\ next' = [n \in Nodes |-> IF n \in ToSet(q)
                                  THEN IF Position(q, n) = 1 THEN msg_queue_free
                                       ELSE q[Position(q, n) - 1]
                                  ELSE next[n]]
      /\ msg_queue_free' = (IF q = <<>> THEN msg_queue_free ELSE Last(q))
      /\ msg_queue_head' = Null
      /\ msg_queue_tail' = (IF msg_queue_tail \in ToSet(q) THEN Null ELSE msg_queue_tail)
      /\ entry' = 0
      /\ UNCHANGED <<body, pc, msg, arg, got>>
    BY <1>1 DEF Reset, callVars
<1>3. /\ Links(next, q, msg_queue_head) /\ Links(next, f, msg_queue_free)
      /\ msg_queue_tail = (IF q = <<>> THEN Null ELSE q[Len(q)])
      /\ ToSet(q) \cap ToSet(f) = {}
    BY <1>1 DEF Lists
<1>4. /\ Len(q) \in Nat /\ DOMAIN q = 1..Len(q) /\ (q = <<>> <=> Len(q) = 0)
      /\ \A i \in 1..Len(q) : q[i] \in Nodes /\ q[i] \in ToSet(q)
      /\ ToSet(q) \subseteq Nodes /\ ToSet(f) \subseteq Nodes
      /\ msg_queue_free \in Nodes \cup {Null} /\ IsInjective(q)
    BY <1>3, LinksFacts DEF Links
<1>5. ASSUME NEW i \in 1..Len(q) PROVE next'[q[i]] = IF i = 1 THEN msg_queue_free ELSE q[i - 1]
    <2>1. Position(q, q[i]) = i
        BY <1>4, PositionIs
    <2>2. q[i] \in Nodes /\ q[i] \in ToSet(q)
        BY <1>4
    <2> QED BY <1>2, <2>1, <2>2
<1>6. \A n \in Nodes : n \notin ToSet(q) => next'[n] = next[n]
    BY <1>2
<1>7. next' \in [Nodes -> Nodes \cup {Null}]
    <2>1. ASSUME NEW n \in Nodes PROVE next'[n] \in Nodes \cup {Null}
        <3>1. CASE n \notin ToSet(q)
            BY <1>6, <3>1 DEF NodeTypes
        <3>2. CASE n \in ToSet(q)
            <4>1. PICK i \in 1..Len(q) : q[i] = n
                BY <1>4, <3>2 DEF ToSet
            <4>2. i # 1 => i - 1 \in 1..Len(q)
                <5>1. Len(q) \in Nat
                    BY <1>4
                <5> QED BY <5>1
            <4> QED BY <1>4, <1>5, <4>1, <4>2
        <3> QED BY <3>1, <3>2
    <2>2. next' = [n \in Nodes |-> next'[n]]
        BY <1>2
    <2> QED BY <2>1, <2>2
<1>8. NodeTypes' /\ CallersHold'
    BY <1>2, <1>7 DEF NodeTypes, CallersHold
<1>9. CopiesKept'
    <2> SUFFICES ASSUME NEW t \in Senders
                 PROVE  pc[t] = "link" /\ ~arg[t].urgent => next'[msg[t]] = Null
        BY <1>2 DEF CopiesKept
    <2>1. t \in Callers
        BY DEF Callers
    <2>2. pc[t] = "link" => msg[t] \in Nodes /\ msg[t] \notin ToSet(q)
        BY <1>1, <2>1 DEF NodeTypes, CallersHold, Lists
    <2> QED BY <1>6, <2>2 DEF CopiesKept
<1>10. \A n \in ToSet(f) : next'[n] = next[n]
    BY <1>3, <1>4, <1>6
<1>11. PICK f2 : /\ Links(next', f2, IF q = <<>> THEN msg_queue_free ELSE q[Len(q)])
                 /\ ToSet(f2) = ToSet(q) \cup ToSet(f)
    BY <1>3, <1>5, <1>10, LinksReverse
<1>12. Links(next', f2, msg_queue_free')
    <2>1. q # <<>> => Last(q) = q[Len(q)]
        BY DEF Last
    <2> QED BY <1>2, <1>11, <2>1
<1>13. msg_queue_tail' = Null
    <2>1. q # <<>> => Len(q) \in 1..Len(q)
        BY <1>4
    <2> QED BY <1>2, <1>3, <1>4, <2>1
<1>14. Links(next', <<>>, msg_queue_head')
    <2>1. \A i \in 1..0 : FALSE
        OBVIOUS
    <2>2. <<>> \in Seq(Nodes) /\ Len(<<>>) = 0 /\ IsInjective(<<>>)
        BY EmptyList
    <2> QED BY <1>2, <2>1, <2>2 DEF Links
<1>15. Lists(<<>>, f2)'
    BY <1>1, <1>2, <1>11, <1>12, <1>13, <1>14, EmptyList DEF Lists
<1> QED BY <1>2, <1>8, <1>9, <1>15, ListsFound

(* rt_mq_init links all nodes in the free list, when nobody has one. *)
LEMMA InitNodes ==
    ASSUME NodeTypes, CallersHold, \A c \in Callers : pc[c] \in {"idle", "wait"},
           next' = Linked(SetToSeq(Nodes)), msg_queue_free' = SetToSeq(Nodes)[1],
           msg_queue_head' = Null, msg_queue_tail' = Null, entry' = 0,
           UNCHANGED <<body, pc, msg, arg, got>>
    PROVE  NodeInv' /\ Chain(next', msg_queue_head') = <<>>
<1>1. PICK f : f = SetToSeq(Nodes)
    OBVIOUS
<1>2. /\ next' \in [Nodes -> Nodes \cup {Null}]
      /\ Links(next', f, msg_queue_free') /\ ToSet(f) = Nodes
    BY <1>1, LinkedFacts
<1>3. \A c \in Callers : msg'[c] = Null
    BY DEF CallersHold
<1>4. Links(next', <<>>, msg_queue_head')
    <2>1. \A i \in 1..0 : FALSE
        OBVIOUS
    <2>2. <<>> \in Seq(Nodes) /\ Len(<<>>) = 0 /\ IsInjective(<<>>)
        BY EmptyList
    <2> QED BY <2>1, <2>2 DEF Links
<1>5. Lists(<<>>, f)'
    BY <1>2, <1>3, <1>4, EmptyList DEF Lists
<1>6. NodeTypes' /\ CallersHold'
    BY <1>2 DEF NodeTypes, CallersHold
<1>7. CopiesKept'
    <2>1. \A s \in Senders : pc[s] # "copy" /\ pc[s] # "link"
        BY DEF Callers
    <2> QED BY <2>1 DEF CopiesKept
<1> QED BY <1>5, <1>6, <1>7, ListsFound DEF NodeInv

-----------------------------------------------------------------------------
LEMMA InitInv == Init => IInv
<1> SUFFICES ASSUME Init PROVE IInv
    OBVIOUS
<1> USE DEF Init
<1>0. Threads = Receivers /\ Senders \subseteq Callers
    BY QueueAssumption DEF Callers
<1>1. PICK f : f = SetToSeq(Nodes)
    OBVIOUS
<1>2. /\ next \in [Nodes -> Nodes \cup {Null}]
      /\ Links(next, f, msg_queue_free) /\ ToSet(f) = Nodes
    BY <1>1, LinkedFacts
<1>3. /\ suspend_thread = <<>> /\ entry = 0 /\ msg_queue_head = Null /\ msg_queue_tail = Null
      /\ pc = [c \in Callers |-> "idle"] /\ msg = [c \in Callers |-> Null]
      /\ arg = [t \in Senders |-> NoArg] /\ body = [n \in Nodes |-> NoValue]
      /\ left = [r \in Receivers |-> "none"] /\ got = [r \in Receivers |-> NoValue]
      /\ stat = [t \in Threads |-> "READY"] /\ error = [t \in Threads |-> "EOK"]
      /\ timer = [t \in Threads |-> FALSE] /\ obj = "live" /\ wild = FALSE
    BY DEF ThreadInit, ObjInit
<1> HIDE DEF Init
<1>4. ThreadInv
    <2>1. ThreadTypes
        BY <1>0, <1>3, EmptyList DEF ThreadTypes, ThreadTypeOK, Errors, TimeKinds
    <2>2. WaitersConsistent
        BY <1>0, <1>3, EmptyList DEF WaitersConsistent
    <2> QED BY <1>3, <2>1, <2>2 DEF ThreadInv, NoMessageWasted, DetachedQuiet, DetachedEmpty
<1>5. NodeTypes
    BY <1>2, <1>3 DEF NodeTypes, NoArg
<1>6. CallersHold
    BY <1>0, <1>3 DEF CallersHold, Callers
<1>7. CopiesKept
    BY <1>0, <1>3 DEF CopiesKept
<1>8. Links(next, <<>>, msg_queue_head)
    <2>1. \A i \in 1..0 : FALSE
        OBVIOUS
    <2>2. <<>> \in Seq(Nodes) /\ Len(<<>>) = 0 /\ IsInjective(<<>>)
        BY EmptyList
    <2> QED BY <1>3, <2>1, <2>2 DEF Links
<1>9. Lists(<<>>, f)
    BY <1>2, <1>3, <1>8, EmptyList DEF Lists
<1>10. Chain(next, msg_queue_head) = <<>> /\ Chain(next, msg_queue_free) = f
    BY <1>2, <1>8, ChainIs
<1>11. ListsInv
    BY <1>9, <1>10 DEF ListsInv
<1> QED BY <1>4, <1>5, <1>6, <1>7, <1>11 DEF IInv, NodeInv

(* A sender is never on its way back to the queue; a receiver that is not  *)
(* waiting is awake; who has a node, or is on its way, finds a live queue. *)
LEMMA Standing ==
    ASSUME IInv
    PROVE  /\ \A s \in Senders : s \in Callers /\ s \notin Receivers /\ s \notin Woken
           /\ \A r \in Receivers : /\ r \in Callers /\ r \notin Senders
                                   /\ pc[r] # "wait" => stat[r] = "READY" /\ r \notin Woken
           /\ \A c \in Callers : pc[c] \in {"copy", "link", "free"} => obj = "live"
           /\ \A r \in Woken : obj = "live" /\ stat[r] = "READY"
           /\ entry \in Nat
<1> USE DEF IInv, ThreadInv, NodeInv
<1>0. Threads = Receivers /\ Senders \cap Receivers = {}
    BY QueueAssumption
<1>1. \A s \in Senders : s \in Callers /\ s \notin Receivers /\ s \notin Woken
    BY <1>0 DEF Callers, Woken
<1>2. \A r \in Receivers : /\ r \in Callers /\ r \notin Senders
                           /\ pc[r] # "wait" => stat[r] = "READY" /\ r \notin Woken
    BY <1>0 DEF Callers, Woken, ThreadTypes, ThreadTypeOK, WaitersConsistent
<1>3. \A c \in Callers : pc[c] \in {"copy", "link", "free"} => obj = "live"
    BY DEF DetachedQuiet
<1>4. \A r \in Woken : obj = "live" /\ stat[r] = "READY"
    BY DEF DetachedQuiet, Woken
<1> QED BY <1>1, <1>2, <1>3, <1>4, EntryType

LEMMA SendAllocInv ==
    ASSUME IInv, NEW s \in Senders, NEW v \in Values, NEW urgent \in BOOLEAN,
           SendAlloc(s, v, urgent)
    PROVE  IInv'
<1>0. ThreadInv /\ NodeInv /\ NodeTypes /\ ThreadTypes /\ CallersHold
    BY DEF IInv, ThreadInv, NodeInv
<1>1. /\ obj = "live" /\ pc[s] = "idle"
      /\ UNCHANGED <<stat, error, timer, next, body, msg_queue_head, msg_queue_tail, entry,
                     suspend_thread, left, got, obj, wild>>
    BY DEF SendAlloc, Usable, threadVars, nodeVars, objVars
<1>2. /\ s \in Callers /\ s \notin Receivers /\ s \notin Woken /\ entry \in Nat
    BY Standing
<1>3. /\ error \in [Threads -> Errors] /\ left \in [Receivers -> TimeKinds]
      /\ pc \in [Callers -> {"idle", "copy", "link", "wait", "free"}]
      /\ got \in [Receivers -> Values \cup {NoValue}]
    BY <1>0 DEF ThreadTypes, ThreadTypeOK, NodeTypes
<1>4. CASE UNCHANGED <<msg_queue_free, msg, arg, pc>>
    <2>1. NodeInv'
        BY <1>0, <1>1, <1>3, <1>4, SameNodes DEF CallersHold
    <2>2. ThreadInv'
        BY <1>0, <1>1, <1>2, <1>3, <1>4, CallerThreads
    <2> QED BY <2>1, <2>2 DEF IInv
<1>5. CASE /\ msg_queue_free # Null
           /\ msg' = [msg EXCEPT ![s] = msg_queue_free]
           /\ msg_queue_free' = next[msg_queue_free]
           /\ arg' = [arg EXCEPT ![s] = [value |-> v, urgent |-> urgent]]
           /\ pc' = [pc EXCEPT ![s] = "copy"]
    <2>1. NodeInv'
        BY <1>0, <1>1, <1>5, AllocNodes
    <2>2. pc'[s] = "copy" /\ \A d \in Callers : d # s => pc'[d] = pc[d]
        BY <1>2, <1>3, <1>5
    <2>3. ThreadInv'
        BY <1>0, <1>1, <1>2, <1>3, <2>2, CallerThreads
    <2> QED BY <2>1, <2>3 DEF IInv
<1> QED BY <1>4, <1>5 DEF SendAlloc

LEMMA SendCopyInv ==
    ASSUME IInv, NEW s \in Senders, SendCopy(s)
    PROVE  IInv'
<1>0. ThreadInv /\ NodeInv /\ NodeTypes /\ ThreadTypes
    BY DEF IInv, ThreadInv, NodeInv
<1>1. /\ pc[s] = "copy" /\ body' = [body EXCEPT ![msg[s]] = arg[s].value]
      /\ next' = (IF arg[s].urgent THEN next ELSE [next EXCEPT ![msg[s]] = Null])
      /\ pc' = [pc EXCEPT ![s] = "link"]
      /\ UNCHANGED <<stat, error, timer, msg_queue_head, msg_queue_tail, msg_queue_free, entry,
                     suspend_thread, msg, arg, left, got, obj, wild>>
    BY DEF SendCopy, MayGoOn, threadVars, queueVars, callVars, objVars
<1>2. s \in Callers /\ s \notin Receivers /\ s \notin Woken /\ entry \in Nat /\ obj = "live"
    BY <1>1, Standing
<1>3. /\ error \in [Threads -> Errors] /\ left \in [Receivers -> TimeKinds]
      /\ pc \in [Callers -> {"idle", "copy", "link", "wait", "free"}]
    BY <1>0 DEF ThreadTypes, ThreadTypeOK, NodeTypes
<1>4. NodeInv'
    BY <1>0, <1>1, CopyNodes
<1>5. pc'[s] = "link" /\ \A d \in Callers : d # s => pc'[d] = pc[d]
    BY <1>1, <1>2, <1>3
<1>6. ThreadInv'
    BY <1>0, <1>1, <1>2, <1>3, <1>5, CallerThreads
<1> QED BY <1>4, <1>6 DEF IInv

LEMMA SendLinkInv ==
    ASSUME IInv, NEW s \in Senders, SendLink(s)
    PROVE  IInv'
<1>0. ThreadInv /\ NodeInv /\ NodeTypes
    BY DEF IInv, NodeInv
<1>1. /\ pc[s] = "link" /\ (IF arg[s].urgent THEN LinkHead(msg[s]) ELSE LinkTail(msg[s]))
      /\ entry' = entry + 1 /\ WakeFirst
      /\ pc' = [pc EXCEPT ![s] = "idle"] /\ msg' = [msg EXCEPT ![s] = Null]
      /\ arg' = [arg EXCEPT ![s] = NoArg]
      /\ UNCHANGED <<body, msg_queue_free, left, got, obj, wild>>
    BY DEF SendLink, MayGoOn, objVars
<1>2. s \in Callers /\ entry \in Nat /\ obj = "live"
    BY <1>1, Standing
<1>3. NodeInv'
    BY <1>0, <1>1, LinkNodes
<1>4. ThreadInv'
    BY <1>0, <1>1, <1>2, WakeThreads
<1> QED BY <1>3, <1>4 DEF IInv

(* A receiver that is awake takes the first message. *)
LEMMA UnlinkInv ==
    ASSUME IInv, NEW r \in Receivers, pc[r] \in {"idle", "wait"}, stat[r] = "READY",
           obj = "live", Unlink(r)
    PROVE  IInv'
<1>0. ThreadInv /\ NodeInv /\ NodeTypes /\ ThreadTypes
    BY DEF IInv, ThreadInv, NodeInv
<1>1. /\ pc' = [pc EXCEPT ![r] = "copy"] /\ left' = [left EXCEPT ![r] = "none"]
      /\ UNCHANGED <<stat, error, timer, suspend_thread, obj, wild>>
    BY DEF Unlink, threadVars, objVars
<1>2. r \in Callers /\ entry \in Nat
    BY Standing
<1>3. /\ error \in [Threads -> Errors] /\ left \in [Receivers -> TimeKinds]
      /\ pc \in [Callers -> {"idle", "copy", "link", "wait", "free"}]
    BY <1>0 DEF ThreadTypes, ThreadTypeOK, NodeTypes
<1>4. NodeInv' /\ entry' = entry - 1 /\ entry' \in Nat
    BY <1>0, UnlinkNodes
<1>5. /\ pc'[r] = "copy" /\ \A d \in Callers : d # r => pc'[d] = pc[d]
      /\ left' \in [Receivers -> TimeKinds]
    BY <1>1, <1>2, <1>3 DEF TimeKinds
<1>6. entry' <= entry - 1
    BY <1>2, <1>4
<1>7. ThreadInv'
    BY <1>0, <1>1, <1>2, <1>3, <1>4, <1>5, <1>6, CallerThreads
<1> QED BY <1>4, <1>7 DEF IInv

(* A receiver that is awake goes to sleep. *)
LEMMA BlockInv ==
    ASSUME IInv, NEW r \in Receivers, pc[r] \in {"idle", "wait"}, stat[r] = "READY",
           obj = "live", NEW time \in TimeKinds, Block(r, time)
    PROVE  IInv'
<1>0. ThreadInv /\ NodeInv /\ NodeTypes /\ CallersHold
    BY DEF IInv, NodeInv
<1>1. /\ pc' = [pc EXCEPT ![r] = "wait"]
      /\ UNCHANGED <<next, body, msg_queue_head, msg_queue_tail, msg_queue_free, entry, msg,
                     arg, got>>
    BY DEF Block, nodeVars, queueVars
<1>2. r \in Callers /\ r \notin Senders /\ \A s \in Senders : s \in Callers
    BY Standing
<1>3. /\ pc \in [Callers -> {"idle", "copy", "link", "wait", "free"}]
      /\ got \in [Receivers -> Values \cup {NoValue}]
    BY <1>0 DEF NodeTypes
<1>4. /\ pc' \in [Callers -> {"idle", "copy", "link", "wait", "free"}]
      /\ pc'[r] = "wait" /\ \A d \in Callers : d # r => pc'[d] = pc[d]
    BY <1>1, <1>2, <1>3
<1>5. CallersHold' /\ \A s \in Senders : pc'[s] = pc[s]
    BY <1>0, <1>1, <1>2, <1>4, QueueAssumption DEF CallersHold, Callers
<1>6. NodeInv'
    BY <1>0, <1>1, <1>3, <1>4, <1>5, SameNodes
<1>7. ThreadInv'
    BY <1>0, BlockThreads
<1> QED BY <1>6, <1>7 DEF IInv

LEMMA RecvInv ==
    ASSUME IInv, NEW r \in Receivers, NEW time \in Times, Recv(r, time)
    PROVE  IInv'
<1>1. pc[r] = "idle" /\ obj = "live" /\ time \in TimeKinds
    BY QueueAssumption DEF Recv, Usable
<1>2. stat[r] = "READY"
    BY <1>1, Standing
<1>3. CASE Unlink(r)
    BY <1>1, <1>2, <1>3, UnlinkInv
<1>4. CASE Block(r, time)
    BY <1>1, <1>2, <1>4, BlockInv
<1>5. CASE UNCHANGED vars
    <2>1. ThreadInv'
        BY <1>5 DEF IInv, vars, ThreadInv, ThreadTypes, ThreadTypeOK, WaitersConsistent,
                    NoMessageWasted, DetachedQuiet, DetachedEmpty, Woken
    <2>2. NodeInv'
        BY <1>5 DEF IInv, vars, NodeInv, NodeTypes, CallersHold, ListsInv, Lists, CopiesKept
    <2> QED BY <2>1, <2>2 DEF IInv
<1> QED BY <1>3, <1>4, <1>5 DEF Recv

(* A receiver returns from rt_mq_recv without a message. *)
LEMMA ReturnInv ==
    ASSUME IInv, NEW r \in Receivers, pc[r] = "wait", stat[r] = "READY",
           entry = 0 \/ r \notin Woken,
           pc' = [pc EXCEPT ![r] = "idle"], left' = [left EXCEPT ![r] = "none"],
           error' \in [Threads -> Errors], \A u \in Threads : u # r => error'[u] = error[u],
           UNCHANGED <<stat, timer, next, body, msg_queue_head, msg_queue_tail, msg_queue_free,
                       entry, suspend_thread, msg, arg, got, obj, wild>>
    PROVE  IInv'
<1>0. ThreadInv /\ NodeInv /\ NodeTypes /\ CallersHold /\ ThreadTypes
    BY DEF IInv, ThreadInv, NodeInv
<1>2. r \in Callers /\ r \notin Senders /\ entry \in Nat /\ \A s \in Senders : s \in Callers
    BY Standing
<1>3. /\ pc \in [Callers -> {"idle", "copy", "link", "wait", "free"}]
      /\ got \in [Receivers -> Values \cup {NoValue}] /\ left \in [Receivers -> TimeKinds]
    BY <1>0 DEF NodeTypes, ThreadTypes
<1>4. /\ pc' \in [Callers -> {"idle", "copy", "link", "wait", "free"}]
      /\ pc'[r] = "idle" /\ \A d \in Callers : d # r => pc'[d] = pc[d]
      /\ left' \in [Receivers -> TimeKinds]
    BY <1>2, <1>3 DEF TimeKinds
<1>5. CallersHold' /\ \A s \in Senders : pc'[s] = pc[s]
    BY <1>0, <1>2, <1>4, QueueAssumption DEF CallersHold, Callers
<1>6. NodeInv'
    BY <1>0, <1>3, <1>4, <1>5, SameNodes
<1>7. entry' \in Nat /\ entry' <= entry /\ (entry = 0 => entry' = 0)
    BY <1>2
<1>8. ThreadInv'
    BY <1>0, <1>2, <1>4, <1>7, CallerThreads
<1> QED BY <1>6, <1>8 DEF IInv

LEMMA RecvRetryInv ==
    ASSUME IInv, NEW r \in Receivers, NEW time \in TimeKinds, RecvRetry(r, time)
    PROVE  IInv'
<1>1. pc[r] = "wait" /\ stat[r] = "READY" /\ error[r] = "EOK"
    BY DEF RecvRetry, MayGoOn
<1>2. obj = "live"
    BY <1>1, Standing DEF Woken
<1>3. CASE Unlink(r)
    BY <1>1, <1>2, <1>3, UnlinkInv
<1>4. CASE Block(r, time)
    BY <1>1, <1>2, <1>4, BlockInv
<1>5. CASE /\ entry = 0 /\ error' = [error EXCEPT ![r] = "ETIMEOUT"]
           /\ pc' = [pc EXCEPT ![r] = "idle"] /\ left' = [left EXCEPT ![r] = "none"]
           /\ UNCHANGED <<stat, timer, nodeVars, queueVars, suspend_thread, msg, arg, got,
                          objVars>>
    <2>1. error \in [Threads -> Errors] /\ r \in Threads
        BY QueueAssumption DEF IInv, ThreadInv, ThreadTypes, ThreadTypeOK
    <2>2. error' \in [Threads -> Errors] /\ \A u \in Threads : u # r => error'[u] = error[u]
        BY <1>5, <2>1 DEF Errors
    <2>3. UNCHANGED <<stat, timer, next, body, msg_queue_head, msg_queue_tail, msg_queue_free,
                      entry, suspend_thread, msg, arg, got, obj, wild>>
        BY <1>5 DEF nodeVars, queueVars, objVars
    <2> QED BY <1>1, <1>5, <2>2, <2>3, ReturnInv
<1> QED BY <1>3, <1>4, <1>5 DEF RecvRetry

LEMMA RecvErrorInv ==
    ASSUME IInv, NEW r \in Receivers, RecvError(r)
    PROVE  IInv'
<1>1. /\ pc[r] = "wait" /\ stat[r] = "READY" /\ error[r] # "EOK"
      /\ pc' = [pc EXCEPT ![r] = "idle"] /\ left' = [left EXCEPT ![r] = "none"]
      /\ UNCHANGED <<stat, error, timer, next, body, msg_queue_head, msg_queue_tail,
                     msg_queue_free, entry, suspend_thread, msg, arg, got, obj, wild>>
    BY DEF RecvError, threadVars, nodeVars, queueVars, objVars
<1>2. r \notin Woken
    BY <1>1 DEF Woken
<1>3. error' \in [Threads -> Errors] /\ \A u \in Threads : u # r => error'[u] = error[u]
    BY <1>1 DEF IInv, ThreadInv, ThreadTypes, ThreadTypeOK
<1> QED BY <1>1, <1>2, <1>3, ReturnInv

LEMMA RecvCopyInv ==
    ASSUME IInv, NEW r \in Receivers, RecvCopy(r)
    PROVE  IInv'
<1>0. ThreadInv /\ NodeInv /\ NodeTypes /\ CallersHold /\ ThreadTypes
    BY DEF IInv, ThreadInv, NodeInv
<1>1. /\ pc[r] = "copy" /\ got' = [got EXCEPT ![r] = body[msg[r]]]
      /\ pc' = [pc EXCEPT ![r] = "free"]
      /\ UNCHANGED <<stat, error, timer, next, body, msg_queue_head, msg_queue_tail,
                     msg_queue_free, entry, suspend_thread, msg, arg, left, obj, wild>>
    BY DEF RecvCopy, MayGoOn, threadVars, nodeVars, queueVars, objVars
<1>2. /\ r \in Callers /\ r \notin Senders /\ r \notin Woken /\ entry \in Nat /\ obj = "live"
      /\ stat[r] = "READY" /\ \A s \in Senders : s \in Callers
    BY <1>1, Standing
<1>3. /\ pc \in [Callers -> {"idle", "copy", "link", "wait", "free"}]
      /\ got \in [Receivers -> Values \cup {NoValue}] /\ left \in [Receivers -> TimeKinds]
      /\ error \in [Threads -> Errors]
      /\ body \in [Nodes -> Values \cup {NoValue}] /\ msg[r] \in Nodes
    BY <1>0, <1>1, <1>2 DEF NodeTypes, ThreadTypes, ThreadTypeOK, CallersHold
<1>4. /\ pc' \in [Callers -> {"idle", "copy", "link", "wait", "free"}]
      /\ pc'[r] = "free" /\ \A d \in Callers : d # r => pc'[d] = pc[d]
      /\ got' \in [Receivers -> Values \cup {NoValue}]
    BY <1>1, <1>2, <1>3
<1>5. CallersHold' /\ \A s \in Senders : pc'[s] = pc[s]
    BY <1>0, <1>1, <1>2, <1>4, QueueAssumption DEF CallersHold, Callers
<1>6. NodeInv'
    BY <1>0, <1>1, <1>4, <1>5, SameNodes
<1>7. ThreadInv'
    BY <1>0, <1>1, <1>2, <1>3, <1>4, CallerThreads
<1> QED BY <1>6, <1>7 DEF IInv

LEMMA RecvFreeInv ==
    ASSUME IInv, NEW r \in Receivers, RecvFree(r)
    PROVE  IInv'
<1>0. ThreadInv /\ NodeInv /\ NodeTypes /\ ThreadTypes
    BY DEF IInv, ThreadInv, NodeInv
<1>1. /\ pc[r] = "free" /\ next' = [next EXCEPT ![msg[r]] = msg_queue_free]
      /\ msg_queue_free' = msg[r] /\ msg' = [msg EXCEPT ![r] = Null]
      /\ pc' = [pc EXCEPT ![r] = "idle"]
      /\ UNCHANGED <<stat, error, timer, body, msg_queue_head, msg_queue_tail, entry,
                     suspend_thread, arg, left, got, obj, wild>>
    BY DEF RecvFree, MayGoOn, threadVars, objVars
<1>2. r \in Callers /\ r \notin Woken /\ entry \in Nat /\ obj = "live" /\ stat[r] = "READY"
    BY <1>1, Standing
<1>3. /\ pc \in [Callers -> {"idle", "copy", "link", "wait", "free"}]
      /\ left \in [Receivers -> TimeKinds] /\ error \in [Threads -> Errors]
    BY <1>0 DEF NodeTypes, ThreadTypes, ThreadTypeOK
<1>4. pc'[r] = "idle" /\ \A d \in Callers : d # r => pc'[d] = pc[d]
    BY <1>1, <1>2, <1>3
<1>5. NodeInv'
    BY <1>0, <1>1, FreeNodes
<1>6. ThreadInv'
    BY <1>0, <1>1, <1>2, <1>3, <1>4, CallerThreads
<1> QED BY <1>5, <1>6 DEF IInv

(* A step that is about threads only. *)
LEMMA NodesUntouched ==
    ASSUME NodeInv,
           UNCHANGED <<next, body, msg_queue_head, msg_queue_tail, msg_queue_free, entry, pc,
                       msg, arg, got>>
    PROVE  NodeInv'
<1>1. /\ got' \in [Receivers -> Values \cup {NoValue}] /\ CallersHold'
      /\ pc' \in [Callers -> {"idle", "copy", "link", "wait", "free"}]
      /\ \A s \in Senders : pc'[s] = pc[s]
    BY DEF NodeInv, NodeTypes, CallersHold
<1> QED BY <1>1, SameNodes

LEMMA TimeoutInv ==
    ASSUME IInv, NEW r \in Receivers, Timeout(r)
    PROVE  IInv'
<1>0. ThreadInv /\ NodeInv /\ NodeTypes /\ ThreadTypes /\ WaitersConsistent /\ DetachedEmpty
      /\ DetachedQuiet
    BY DEF IInv, ThreadInv, NodeInv
<1>1. /\ timer[r] /\ stat' = [stat EXCEPT ![r] = "READY"] /\ timer' = [timer EXCEPT ![r] = FALSE]
      /\ error' = [error EXCEPT ![r] = "ETIMEOUT"]
      /\ suspend_thread' = ListRemove(suspend_thread, r)
      /\ UNCHANGED <<next, body, msg_queue_head, msg_queue_tail, msg_queue_free, entry, pc,
                     msg, arg, left, got, obj, wild>>
    BY DEF Timeout, TimeoutThread, nodeVars, queueVars, callVars, objVars
<1>2. Threads = Receivers /\ entry \in Nat
    BY QueueAssumption, Standing
<1>3. stat[r] = "SUSPEND" /\ suspend_thread \in Seq(Threads) /\ IsInjective(suspend_thread)
    BY <1>0, <1>1, <1>2 DEF WaitersConsistent, ThreadTypes
<1>4. /\ suspend_thread' \in Seq(Receivers) /\ IsInjective(suspend_thread')
      /\ ToSet(suspend_thread') = ToSet(suspend_thread) \ {r}
      /\ suspend_thread = <<>> => suspend_thread' = <<>>
    BY <1>1, <1>2, <1>3, ListRemoveAny
<1>5. /\ stat' \in [Threads -> {"READY", "SUSPEND"}] /\ timer' \in [Threads -> BOOLEAN]
      /\ error' \in [Threads -> Errors]
      /\ stat'[r] = "READY" /\ timer'[r] = FALSE /\ error'[r] = "ETIMEOUT"
      /\ \A u \in Receivers \ {r} :
             stat'[u] = stat[u] /\ timer'[u] = timer[u] /\ error'[u] = error[u]
    BY <1>0, <1>1, <1>2 DEF ThreadTypes, ThreadTypeOK, Errors
<1>6. /\ obj' \in {"live", "check", "resume", "remove", "gone"} /\ wild' \in BOOLEAN
      /\ obj' # "live" => Woken = {} /\ \A c \in Callers : pc[c] \in {"idle", "wait"}
    BY <1>0, <1>1 DEF ThreadTypes, DetachedQuiet
<1>7. DetachedEmpty'
    BY <1>0, <1>1, <1>4 DEF DetachedEmpty
<1>8. PICK W \in SUBSET Receivers : W = {r}
    OBVIOUS
<1>9. /\ ToSet(suspend_thread') = ToSet(suspend_thread) \ W
      /\ \A u \in W : stat[u] = "SUSPEND"
      /\ \A u \in W : stat'[u] = "READY" /\ timer'[u] = FALSE /\ error'[u] = "ETIMEOUT"
      /\ \A u \in Receivers \ W :
             stat'[u] = stat[u] /\ timer'[u] = timer[u] /\ error'[u] = error[u]
    BY <1>3, <1>4, <1>5, <1>8
<1>a. UNCHANGED <<pc, left>> /\ entry' = entry
    BY <1>1
<1>10. ThreadInv'
    BY <1>0, <1>2, <1>4, <1>5, <1>6, <1>7, <1>9, <1>a, FlushThreads
<1>11. NodeInv'
    BY <1>0, <1>1, NodesUntouched
<1> QED BY <1>10, <1>11 DEF IInv

LEMMA ResetInv ==
    ASSUME IInv, Reset
    PROVE  IInv'
<1>0. ThreadInv /\ NodeInv /\ NodeTypes /\ ThreadTypes /\ WaitersConsistent
    BY DEF IInv, ThreadInv, NodeInv
<1>1. PICK W : W = ToSet(suspend_thread)
    OBVIOUS
<1>2. /\ obj = "live" /\ suspend_thread' = <<>> /\ entry' = 0
      /\ stat' = [t \in Threads |-> IF t \in W THEN "READY" ELSE stat[t]]
      /\ timer' = [t \in Threads |-> IF t \in W THEN FALSE ELSE timer[t]]
      /\ error' = [t \in Threads |-> IF t \in W THEN "ERROR" ELSE error[t]]
      /\ UNCHANGED <<pc, left, obj, wild>>
    BY <1>1 DEF Reset, Usable, ResumeAll, callVars, objVars
<1>3. Threads = Receivers /\ entry \in Nat
    BY QueueAssumption, Standing
<1>4. W \in SUBSET Receivers /\ \A r \in W : stat[r] = "SUSPEND"
    <2>1. suspend_thread \in Seq(Receivers)
        BY <1>0 DEF ThreadTypes
    <2>2. W \subseteq Receivers
        BY <1>1, <2>1, ElementOfSeq DEF ToSet
    <2> QED BY <1>0, <1>1, <2>2 DEF WaitersConsistent
<1>5. /\ stat' \in [Threads -> {"READY", "SUSPEND"}] /\ timer' \in [Threads -> BOOLEAN]
      /\ error' \in [Threads -> Errors]
      /\ \A u \in W : stat'[u] = "READY" /\ timer'[u] = FALSE /\ error'[u] = "ERROR"
      /\ \A u \in Receivers \ W :
             stat'[u] = stat[u] /\ timer'[u] = timer[u] /\ error'[u] = error[u]
    BY <1>0, <1>2, <1>3, <1>4 DEF ThreadTypes, ThreadTypeOK, Errors
<1>6. /\ suspend_thread' \in Seq(Receivers) /\ IsInjective(suspend_thread')
      /\ ToSet(suspend_thread') = ToSet(suspend_thread) \ W
    BY <1>1, <1>2, <1>3, EmptyList
<1>7. /\ obj' \in {"live", "check", "resume", "remove", "gone"} /\ wild' \in BOOLEAN
      /\ obj' = "live" /\ DetachedEmpty'
    BY <1>0, <1>2 DEF ThreadTypes, DetachedEmpty
<1>8. ThreadInv'
    BY <1>0, <1>2, <1>3, <1>4, <1>5, <1>6, <1>7, FlushThreads
<1>9. NodeInv'
    BY <1>0, ResetNodes
<1> QED BY <1>8, <1>9 DEF IInv

(* A detach that is patient goes on when nobody has a node or is on its    *)
(* way back to the queue.                                                  *)
LEMMA NobodyBusy ==
    ASSUME IInv, Busy = {}
    PROVE  Woken = {} /\ \A c \in Callers : pc[c] \in {"idle", "wait"}
<1>0. WaitersConsistent /\ ThreadTypeOK /\ CallersHold
    BY DEF IInv, ThreadInv, NodeInv, ThreadTypes
<1>1. Threads = Receivers /\ Callers = Senders \cup Receivers /\ Senders \cap Receivers = {}
    BY QueueAssumption DEF Callers
<1>2. ASSUME NEW s \in Senders PROVE pc[s] = "idle"
    BY <1>1, <1>2 DEF Busy
<1>3. ASSUME NEW r \in Receivers PROVE pc[r] \in {"idle", "wait"} /\ r \notin Woken
    <2>1. CASE stat[r] = "READY"
        BY <1>1, <1>3, <2>1 DEF Busy, Woken
    <2>2. CASE stat[r] # "READY"
        BY <1>0, <1>1, <1>3, <2>2 DEF Woken, WaitersConsistent, ThreadTypeOK
    <2> QED BY <2>1, <2>2
<1> QED BY <1>1, <1>2, <1>3 DEF Woken

(* A step of a detach that resumes nobody, and a queue that is initialised *)
(* again.                                                                  *)
LEMMA QuietThreads ==
    ASSUME IInv, UNCHANGED <<stat, error, timer, pc, left, wild>>,
           suspend_thread' = suspend_thread \/ (suspend_thread = <<>> /\ suspend_thread' = <<>>),
           entry' = entry \/ entry' = 0,
           obj' \in {"live", "check", "resume", "remove", "gone"},
           obj' # "live" => Woken = {} /\ \A c \in Callers : pc[c] \in {"idle", "wait"},
           DetachedEmpty'
    PROVE  ThreadInv'
<1>0. ThreadInv /\ NodeTypes /\ ThreadTypes /\ WaitersConsistent
    BY DEF IInv, ThreadInv, NodeInv
<1>1. Threads = Receivers /\ entry \in Nat
    BY QueueAssumption, Standing
<1>2. PICK W \in SUBSET Receivers : W = {}
    OBVIOUS
<1>3. suspend_thread' = suspend_thread
    OBVIOUS
<1>4. /\ suspend_thread' \in Seq(Receivers) /\ IsInjective(suspend_thread')
      /\ ToSet(suspend_thread') = ToSet(suspend_thread) \ W
    BY <1>0, <1>2, <1>3 DEF ThreadTypes, WaitersConsistent
<1>5. /\ stat' \in [Threads -> {"READY", "SUSPEND"}] /\ timer' \in [Threads -> BOOLEAN]
      /\ error' \in [Threads -> Errors] /\ wild' \in BOOLEAN
      /\ \A u \in Receivers \ W :
             stat'[u] = stat[u] /\ timer'[u] = timer[u] /\ error'[u] = error[u]
    BY <1>0 DEF ThreadTypes, ThreadTypeOK
<1>6. \A u \in W : FALSE
    BY <1>2
<1> QED BY <1>0, <1>1, <1>3, <1>4, <1>5, <1>6, FlushThreads

LEMMA DetachMoveInv ==
    ASSUME Patient, IInv, DetachBegin \/ DetachCheck \/ DetachRemove
    PROVE  IInv'
<1>1. /\ Busy = {} /\ obj' \in {"check", "resume", "remove", "gone"}
      /\ obj' = "remove" => suspend_thread = <<>>
      /\ obj' = "gone" => obj = "remove"
      /\ UNCHANGED <<stat, error, timer, next, body, msg_queue_head, msg_queue_tail,
                     msg_queue_free, entry, suspend_thread, pc, msg, arg, left, got, wild>>
    BY DEF DetachBegin, DetachCheck, DetachRemove, DetachStep, Detach, threadVars, nodeVars,
           queueVars, callVars
<1>2. DetachedEmpty'
    BY <1>1 DEF IInv, ThreadInv, DetachedEmpty
<1>3. ThreadInv'
    <2>1. obj' # "live" => Woken = {} /\ \A c \in Callers : pc[c] \in {"idle", "wait"}
        BY <1>1, NobodyBusy
    <2>2. UNCHANGED <<stat, error, timer, pc, left, wild>> /\ suspend_thread' = suspend_thread
        BY <1>1
    <2>3. entry' = entry /\ obj' \in {"live", "check", "resume", "remove", "gone"}
        BY <1>1
    <2>4. entry' = entry \/ entry' = 0
        BY <2>3
    <2>5. suspend_thread' = suspend_thread \/ (suspend_thread = <<>> /\ suspend_thread' = <<>>)
        BY <2>2
    <2> QED BY <1>2, <2>1, <2>2, <2>3, <2>4, <2>5, QuietThreads
<1>4. NodeInv'
    BY <1>1, NodesUntouched DEF IInv
<1> QED BY <1>3, <1>4 DEF IInv

LEMMA DetachResumeInv ==
    ASSUME Patient, IInv, DetachResume
    PROVE  IInv'
<1>0. ThreadInv /\ NodeInv /\ NodeTypes /\ ThreadTypes /\ WaitersConsistent
    BY DEF IInv, ThreadInv, NodeInv
<1>1. /\ Busy = {} /\ obj' = "check" /\ FlushFirst(suspend_thread)
      /\ suspend_thread' = Flushed(suspend_thread)
      /\ UNCHANGED <<next, body, msg_queue_head, msg_queue_tail, msg_queue_free, entry, pc,
                     msg, arg, left, got>>
    BY DEF DetachResume, DetachStep, Detach, nodeVars, queueVars, callVars
<1>2. Woken = {} /\ \A c \in Callers : pc[c] \in {"idle", "wait"}
    BY <1>1, NobodyBusy
<1>3. DetachedEmpty' /\ obj' \in {"live", "check", "resume", "remove", "gone"}
    BY <1>1 DEF DetachedEmpty
<1>4. Threads = Receivers /\ entry \in Nat /\ UNCHANGED <<pc, left>> /\ entry' = entry
    BY <1>1, QueueAssumption, Standing
<1>5. PICK W \in SUBSET Receivers :
          /\ W = IF suspend_thread = <<>> THEN {} ELSE {Head(suspend_thread)}
    <2>1. suspend_thread # <<>> => Head(suspend_thread) \in Receivers
        BY <1>0, TailList DEF ThreadTypes, WaitersConsistent
    <2> QED BY <2>1
<1>6. CASE suspend_thread = <<>>
    <2>1. wild' = TRUE /\ UNCHANGED <<stat, error, timer>> /\ suspend_thread' = <<>> /\ W = {}
        BY <1>1, <1>5, <1>6 DEF FlushFirst, Flushed, threadVars
    <2>2. /\ suspend_thread' \in Seq(Receivers) /\ IsInjective(suspend_thread')
          /\ ToSet(suspend_thread') = ToSet(suspend_thread) \ W /\ wild' \in BOOLEAN
        BY <1>4, <1>6, <2>1, EmptyList
    <2>3. /\ stat' \in [Threads -> {"READY", "SUSPEND"}] /\ timer' \in [Threads -> BOOLEAN]
          /\ error' \in [Threads -> Errors]
          /\ \A u \in Receivers \ W :
                 stat'[u] = stat[u] /\ timer'[u] = timer[u] /\ error'[u] = error[u]
          /\ \A u \in W : /\ stat[u] = "SUSPEND" /\ stat'[u] = "READY" /\ timer'[u] = FALSE
                          /\ error'[u] = "ERROR"
        BY <1>0, <2>1 DEF ThreadTypes, ThreadTypeOK
    <2>4. ThreadInv'
        BY <1>0, <1>2, <1>3, <1>4, <2>1, <2>2, <2>3, FlushThreads
    <2>5. NodeInv'
        BY <1>0, <1>1, NodesUntouched
    <2> QED BY <2>4, <2>5 DEF IInv
<1>7. CASE suspend_thread # <<>>
    <2>1. PICK h : h = Head(suspend_thread)
        OBVIOUS
    <2>2. /\ stat' = [stat EXCEPT ![h] = "READY"] /\ timer' = [timer EXCEPT ![h] = FALSE]
          /\ error' = [error EXCEPT ![h] = "ERROR"] /\ wild' = wild
          /\ suspend_thread' = Tail(suspend_thread) /\ W = {h}
        BY <1>1, <1>5, <1>7, <2>1 DEF FlushFirst, Flushed, ResumeWithError
    <2>3. /\ h \in Receivers /\ h \in ToSet(suspend_thread)
          /\ suspend_thread' \in Seq(Receivers) /\ IsInjective(suspend_thread')
          /\ ToSet(suspend_thread') = ToSet(suspend_thread) \ W
        BY <1>0, <1>7, <2>1, <2>2, TailList DEF ThreadTypes, WaitersConsistent
    <2>4. \A u \in W : stat[u] = "SUSPEND"
        BY <1>0, <2>2, <2>3 DEF WaitersConsistent
    <2>5. /\ stat' \in [Threads -> {"READY", "SUSPEND"}] /\ timer' \in [Threads -> BOOLEAN]
          /\ error' \in [Threads -> Errors] /\ wild' \in BOOLEAN
          /\ \A u \in W : stat'[u] = "READY" /\ timer'[u] = FALSE /\ error'[u] = "ERROR"
          /\ \A u \in Receivers \ W :
                 stat'[u] = stat[u] /\ timer'[u] = timer[u] /\ error'[u] = error[u]
        BY <1>0, <1>4, <2>2, <2>3 DEF ThreadTypes, ThreadTypeOK, Errors
    <2>6. ThreadInv'
        BY <1>0, <1>2, <1>3, <1>4, <1>7, <2>3, <2>4, <2>5, FlushThreads
    <2>7. NodeInv'
        BY <1>0, <1>1, NodesUntouched
    <2> QED BY <2>6, <2>7 DEF IInv
<1> QED BY <1>6, <1>7

LEMMA ReinitInv ==
    ASSUME IInv, Reinit
    PROVE  IInv'
<1>0. NodeTypes /\ CallersHold /\ DetachedQuiet /\ DetachedEmpty
    BY DEF IInv, ThreadInv, NodeInv
<1>1. /\ obj = "gone" /\ obj' = "live" /\ suspend_thread' = <<>>
      /\ next' = Linked(SetToSeq(Nodes)) /\ msg_queue_free' = SetToSeq(Nodes)[1]
      /\ msg_queue_head' = Null /\ msg_queue_tail' = Null /\ entry' = 0
      /\ UNCHANGED <<stat, error, timer, body, pc, msg, arg, left, got, wild>>
    BY DEF Reinit, Detach, threadVars, callVars
<1>2. suspend_thread = <<>> /\ \A c \in Callers : pc[c] \in {"idle", "wait"}
    BY <1>0, <1>1 DEF DetachedQuiet, DetachedEmpty
<1>3. DetachedEmpty'
    BY <1>1 DEF DetachedEmpty
<1>4. ThreadInv'
    BY <1>1, <1>2, <1>3, QuietThreads
<1>5. NodeInv'
    BY <1>0, <1>1, <1>2, InitNodes
<1> QED BY <1>4, <1>5 DEF IInv

LEMMA NextInv ==
    ASSUME Patient, IInv, [Next]_vars
    PROVE  IInv'
<1>1. CASE UNCHANGED vars
    <2>1. ThreadInv'
        BY <1>1 DEF IInv, vars, ThreadInv, ThreadTypes, ThreadTypeOK, WaitersConsistent,
                    NoMessageWasted, DetachedQuiet, DetachedEmpty, Woken
    <2>2. NodeInv'
        BY <1>1, NodesUntouched DEF IInv, vars
    <2> QED BY <2>1, <2>2 DEF IInv
<1>2. CASE Next
    BY <1>2, SendAllocInv, SendCopyInv, SendLinkInv, RecvInv, RecvRetryInv, RecvErrorInv,
       RecvCopyInv, RecvFreeInv, TimeoutInv, ResetInv, DetachMoveInv, DetachResumeInv,
       ReinitInv DEF Next
<1> QED BY <1>1, <1>2

LEMMA Invariance ==
    ASSUME Patient
    PROVE  Spec => []IInv
<1>1. IInv /\ [Next]_vars => IInv'
    BY NextInv
<1> QED BY <1>1, InitInv, PTL DEF Spec

(* As many nodes are in somebody's hands as there are callers that have    *)
(* one, and with those of the two lists they are all.                      *)
LEMMA NodesCounted ==
    ASSUME NodeInv
    PROVE  NodesPartitioned
<1> DEFINE held == {msg[c] : c \in Held}
<1>1. PICK q, f : /\ Lists(q, f) /\ q = Chain(next, msg_queue_head)
                  /\ f = Chain(next, msg_queue_free)
    BY DEF NodeInv, ListsInv
<1>2. /\ q \in Seq(Nodes) /\ IsInjective(q) /\ f \in Seq(Nodes) /\ IsInjective(f)
      /\ ToSet(q) \cap ToSet(f) = {}
    BY <1>1 DEF Lists, Links
<1>3. /\ IsFiniteSet(ToSet(q)) /\ Cardinality(ToSet(q)) = Len(q)
      /\ IsFiniteSet(ToSet(f)) /\ Cardinality(ToSet(f)) = Len(f)
    BY <1>2, QueueAssumption, SeqCardinality
<1>4. ToSet(q) \subseteq Nodes /\ ToSet(f) \subseteq Nodes
    BY <1>1, LinksFacts DEF Lists
<1>5. \A c \in Held : msg[c] \in Nodes /\ msg[c] \notin ToSet(q) /\ msg[c] \notin ToSet(f)
    BY <1>1 DEF NodeInv, NodeTypes, Held, Lists
<1>6. held \subseteq Nodes /\ held \cap ToSet(q) = {} /\ held \cap ToSet(f) = {}
    BY <1>5
<1>7. IsFiniteSet(held) /\ Cardinality(held) \in Nat
    BY <1>6, QueueAssumption, FS_Subset, FS_CardinalityType
<1>8. \A c, d \in Held : msg[c] = msg[d] => c = d
    BY <1>1 DEF Held, Lists
<1>9. Cardinality(held) = Cardinality(Held)
    <2>1. PICK g : g = [n \in held |-> CHOOSE c \in Held : msg[c] = n]
        OBVIOUS
    <2>2. \A n \in held : g[n] \in Held /\ msg[g[n]] = n
        BY <2>1
    <2>3. \A c \in Held : msg[c] \in held /\ g[msg[c]] = c
        BY <1>8, <2>2
    <2>4. g \in [held -> Held]
        BY <2>1, <2>2
    <2>5. g \in Bijection(held, Held)
        <3> HIDE DEF held
        <3>1. \A m, n \in held : g[m] = g[n] => m = n
            BY <2>2
        <3> QED BY <2>3, <2>4, <3>1 DEF Bijection, Injection, Surjection, IsInjective
    <2> HIDE DEF held
    <2> QED BY <1>7, <2>5, FS_Bijection DEF ExistsBijection
<1>10. ToSet(q) \cup ToSet(f) \cup held = Nodes
    <2>1. ASSUME NEW n \in Nodes PROVE n \in ToSet(q) \/ n \in ToSet(f) \/ n \in held
        <3>1. \A c \in Callers : msg[c] = n => c \in Held
            BY QueueAssumption DEF Held
        <3> QED BY <1>1, <3>1 DEF Lists
    <2> HIDE DEF held
    <2> QED BY <1>4, <1>6, <2>1
<1> HIDE DEF held
<1>11. Len(q) + Len(f) + Cardinality(held) = Cardinality(Nodes)
    <2>1. PICK A : A = ToSet(q) \cup ToSet(f)
        OBVIOUS
    <2>0. Cardinality({}) = 0 /\ Len(q) \in Nat /\ Len(f) \in Nat
        BY <1>2, FS_EmptySet, LenProperties
    <2>2. IsFiniteSet(A) /\ Cardinality(A) = Len(q) + Len(f)
        <3>1. /\ IsFiniteSet(A)
              /\ Cardinality(A) = Cardinality(ToSet(q)) + Cardinality(ToSet(f))
                                  - Cardinality(ToSet(q) \cap ToSet(f))
            BY <1>3, <2>1, FS_Union, Zenon
        <3>2. Cardinality(ToSet(q) \cap ToSet(f)) = 0
            BY <1>2, <2>0, Zenon
        <3> QED BY <1>3, <2>0, <3>1, <3>2
    <2>3. A \cap held = {} /\ A \cup held = Nodes
        BY <1>6, <1>10, <2>1
    <2>4. Cardinality(A \cup held) = Cardinality(A) + Cardinality(held)
        <3>1. Cardinality(A \cup held) =
                 Cardinality(A) + Cardinality(held) - Cardinality(A \cap held)
            BY <1>7, <2>2, FS_Union, Zenon
        <3>2. Cardinality(A \cap held) = 0
            BY <2>0, <2>3, Zenon
        <3>3. Cardinality(A) \in Nat
            BY <2>0, <2>2
        <3> QED BY <1>7, <3>1, <3>2, <3>3
    <2> QED BY <2>2, <2>3, <2>4
<1>12. /\ IsInjective(q) /\ IsInjective(f) /\ Cardinality(held) = Cardinality(Held)
       /\ ToSet(q) \cup ToSet(f) \cup held = Nodes
       /\ Len(q) + Len(f) + Cardinality(held) = Cardinality(Nodes)
    BY <1>2, <1>9, <1>10, <1>11
<1> QED BY <1>1, <1>12 DEF NodesPartitioned, held

LEMMA InvConsistent ==
    ASSUME IInv
    PROVE  Consistent
<1> USE DEF IInv, ThreadInv, NodeInv
<1>1. PICK q, f : Lists(q, f) /\ q = Chain(next, msg_queue_head)
    BY DEF ListsInv
<1>2. /\ q \in Seq(Nodes) /\ entry = Len(q)
      /\ msg_queue_tail = (IF q = <<>> THEN Null ELSE q[Len(q)])
    BY <1>1 DEF Lists, Links
<1>3. TypeOK
    <2>1. msg_queue_head \in Nodes \cup {Null} /\ msg_queue_free \in Nodes \cup {Null}
        BY <1>1, LinksFacts DEF Lists
    <2>2. msg_queue_tail \in Nodes \cup {Null}
        <3>1. Len(q) \in Nat /\ (q = <<>> <=> Len(q) = 0)
            BY <1>2, LenProperties, EmptySeq
        <3>2. q # <<>> => Len(q) \in 1..Len(q)
            BY <3>1
        <3>3. q # <<>> => q[Len(q)] \in Nodes
            BY <1>2, <3>2, ElementOfSeq
        <3> QED BY <1>2, <3>3
    <2>3. entry \in 0..Cardinality(Nodes)
        BY EntryType
    <2> QED BY <2>1, <2>2, <2>3 DEF TypeOK, ThreadTypes, NodeTypes
<1>4. TailReached
    <2>1. q # <<>> => Last(q) = q[Len(q)]
        BY DEF Last
    <2> QED BY <1>1, <1>2, <2>1 DEF TailReached
<1>5. NobodyLeftBehind
    <2> SUFFICES ASSUME obj = "gone", NEW c \in Busy
                 PROVE  pc[c] = "wait" /\ error[c] # "EOK"
        BY DEF NobodyLeftBehind, DetachedEmpty
    <2>1. /\ c \in Callers /\ pc[c] # "idle" /\ (c \in Receivers => stat[c] = "READY")
          /\ Woken = {} /\ pc[c] \in {"idle", "wait"}
        BY DEF Busy, DetachedQuiet
    <2>2. c \in Receivers
        BY <2>1 DEF CallersHold, Callers
    <2> QED BY <2>1, <2>2 DEF Woken
<1> QED BY <1>3, <1>4, <1>5, NodesCounted DEF Consistent

(* Through all its critical sections, with the copies of any number of     *)
(* senders and receivers between them, and through timeouts, resets and    *)
(* detaches, a message queue loses no node, has none in two places, keeps  *)
(* its tail and its count right, and sleeps nobody in a queue that is gone *)
(* (rt_mq_send, rt_mq_urgent, rt_mq_recv, rt_mq_control, rt_mq_detach).    *)
THEOREM QueueConsistent ==
    ASSUME Patient
    PROVE  Spec => []Consistent
<1>1. IInv => Consistent
    BY InvConsistent
<1> QED BY <1>1, Invariance, PTL

(* rt_mq_send resumes one receiver per message, whatever is in the queue   *)
(* already: nobody sleeps beside a message that no resumed receiver is on  *)
(* its way to take.                                                        *)
THEOREM OneWakeupPerMessage ==
    ASSUME Patient
    PROVE  Spec => []NoMessageWasted
<1>1. IInv => NoMessageWasted
    BY DEF IInv, ThreadInv
<1> QED BY <1>1, Invariance, PTL

-----------------------------------------------------------------------------
(* The bodies b of the nodes of q, in that order. *)
Bodies(b, q) == [i \in 1..Len(q) |-> b[q[i]]]

LEMMA BodiesIsSeq ==
    ASSUME NEW q \in Seq(Nodes), NEW V, NEW b \in [Nodes -> V]
    PROVE  /\ Bodies(b, q) \in Seq(V) /\ Len(Bodies(b, q)) = Len(q)
           /\ \A i \in 1..Len(q) : Bodies(b, q)[i] = b[q[i]]
<1>1. Len(q) \in Nat /\ \A i \in 1..Len(q) : q[i] \in Nodes
    BY LenProperties, ElementOfSeq
<1>2. Bodies(b, q) \in [1..Len(q) -> V]
    BY <1>1 DEF Bodies
<1> QED BY <1>1, <1>2, FunctionIsSeq DEF Bodies

LEMMA BodiesAppend ==
    ASSUME NEW q \in Seq(Nodes), NEW n \in Nodes, NEW V, NEW b \in [Nodes -> V]
    PROVE  Bodies(b, Append(q, n)) = Append(Bodies(b, q), b[n])
<1>1. PICK r : r = Append(q, n)
    OBVIOUS
<1>2. PICK c : c = Bodies(b, q)
    OBVIOUS
<1>3. /\ c \in Seq(V) /\ Len(c) = Len(q) /\ \A i \in 1..Len(q) : c[i] = b[q[i]]
    BY <1>2, BodiesIsSeq
<1>4. Len(q) \in Nat /\ b[n] \in V
    BY LenProperties
<1>5. /\ r \in Seq(Nodes) /\ Len(r) = Len(q) + 1 /\ r[Len(q) + 1] = n
      /\ \A i \in 1..Len(q) : r[i] = q[i]
    BY <1>1, AppendProperties
<1>6. PICK d : d = Append(c, b[n])
    OBVIOUS
<1>7. /\ d \in Seq(V) /\ Len(d) = Len(q) + 1 /\ d[Len(q) + 1] = b[n]
      /\ \A i \in 1..Len(q) : d[i] = c[i]
    BY <1>3, <1>4, <1>6, AppendProperties
<1>8. /\ Bodies(b, r) \in Seq(V) /\ Len(Bodies(b, r)) = Len(q) + 1
      /\ \A i \in 1..(Len(q) + 1) : Bodies(b, r)[i] = b[r[i]]
    <2>1. r \in Seq(Nodes) /\ Len(r) = Len(q) + 1
        BY <1>5
    <2>2. /\ Bodies(b, r) \in Seq(V) /\ Len(Bodies(b, r)) = Len(r)
          /\ \A i \in 1..Len(r) : Bodies(b, r)[i] = b[r[i]]
        BY <2>1, BodiesIsSeq
    <2> QED BY <2>1, <2>2, Zenon
<1>9. ASSUME NEW i \in 1..(Len(q) + 1) PROVE Bodies(b, r)[i] = d[i]
    <2>1. i \in 1..Len(q) \/ i = Len(q) + 1
        BY <1>4
    <2> QED BY <1>3, <1>5, <1>7, <1>8, <2>1
<1>10. Bodies(b, r) = d
    BY <1>7, <1>8, <1>9, SeqEqual
<1> QED BY <1>1, <1>2, <1>6, <1>10

(* An element in front of a sequence. *)
LEMMA FrontOf ==
    ASSUME NEW S, NEW e \in S, NEW q \in Seq(S)
    PROVE  /\ <<e>> \o q \in Seq(S) /\ Len(<<e>> \o q) = Len(q) + 1 /\ (<<e>> \o q)[1] = e
           /\ \A i \in 1..Len(q) : (<<e>> \o q)[i + 1] = q[i]
<1>1. PICK r : r = <<e>> \o q
    OBVIOUS
<1>2. <<e>> \in Seq(S) /\ Len(<<e>>) = 1 /\ <<e>>[1] = e /\ Len(q) \in Nat
    BY LenProperties
<1>3. /\ r \in Seq(S) /\ Len(r) = 1 + Len(q)
      /\ \A j \in 1..(1 + Len(q)) : r[j] = IF j <= 1 THEN <<e>>[j] ELSE q[j - 1]
    BY <1>1, <1>2, ConcatProperties
<1>4. 1 \in 1..(1 + Len(q)) /\ 1 <= 1
    BY <1>2
<1>5. \A j \in 1..Len(q) : j + 1 \in 1..(1 + Len(q)) /\ ~(j + 1 <= 1) /\ (j + 1) - 1 = j
    BY <1>2
<1>6. Len(r) = Len(q) + 1 /\ r[1] = e /\ \A i \in 1..Len(q) : r[i + 1] = q[i]
    BY <1>2, <1>3, <1>4, <1>5
<1> QED BY <1>1, <1>3, <1>6

LEMMA BodiesPrepend ==
    ASSUME NEW q \in Seq(Nodes), NEW n \in Nodes, NEW V, NEW b \in [Nodes -> V]
    PROVE  Bodies(b, <<n>> \o q) = <<b[n]>> \o Bodies(b, q)
<1>1. PICK r : r = <<n>> \o q
    OBVIOUS
<1>2. PICK c : c = Bodies(b, q)
    OBVIOUS
<1>3. /\ c \in Seq(V) /\ Len(c) = Len(q) /\ \A i \in 1..Len(q) : c[i] = b[q[i]]
    BY <1>2, BodiesIsSeq
<1>4. Len(q) \in Nat /\ b[n] \in V
    BY LenProperties
<1>5. r \in Seq(Nodes) /\ Len(r) = Len(q) + 1 /\ r[1] = n
      /\ \A i \in 1..Len(q) : r[i + 1] = q[i]
    BY <1>1, <1>4, FrontOf
<1>6. PICK d : d = <<b[n]>> \o c
    OBVIOUS
<1>7. /\ d \in Seq(V) /\ Len(d) = Len(q) + 1 /\ d[1] = b[n]
      /\ \A i \in 1..Len(q) : d[i + 1] = c[i]
    BY <1>3, <1>4, <1>6, FrontOf
<1>8. /\ Bodies(b, r) \in Seq(V) /\ Len(Bodies(b, r)) = Len(q) + 1
      /\ \A i \in 1..(Len(q) + 1) : Bodies(b, r)[i] = b[r[i]]
    <2>1. r \in Seq(Nodes) /\ Len(r) = Len(q) + 1
        BY <1>5
    <2>2. /\ Bodies(b, r) \in Seq(V) /\ Len(Bodies(b, r)) = Len(r)
          /\ \A i \in 1..Len(r) : Bodies(b, r)[i] = b[r[i]]
        BY <2>1, BodiesIsSeq
    <2> QED BY <2>1, <2>2, Zenon
<1>9. ASSUME NEW i \in 1..(Len(q) + 1) PROVE Bodies(b, r)[i] = d[i]
    <2>1. CASE i = 1
        BY <1>5, <1>7, <1>8, <2>1
    <2>2. CASE i # 1
        <3>1. PICK j \in 1..Len(q) : i = j + 1
            <4>1. i - 1 \in 1..Len(q) /\ i = (i - 1) + 1
                BY <1>4, <2>2
            <4> QED BY <4>1
        <3> QED BY <1>3, <1>5, <1>7, <1>8, <3>1
    <2> QED BY <2>1, <2>2
<1>10. Bodies(b, r) = d
    BY <1>7, <1>8, <1>9, SeqEqual
<1> QED BY <1>1, <1>2, <1>6, <1>10

LEMMA BodiesTail ==
    ASSUME NEW q \in Seq(Nodes), q # <<>>, NEW V, NEW b \in [Nodes -> V]
    PROVE  /\ Bodies(b, Tail(q)) = Tail(Bodies(b, q)) /\ Bodies(b, q) # <<>>
           /\ Head(Bodies(b, q)) = b[q[1]]
<1>1. PICK r : r = Tail(q)
    OBVIOUS
<1>2. PICK c : c = Bodies(b, q)
    OBVIOUS
<1>3. /\ c \in Seq(V) /\ Len(c) = Len(q) /\ \A i \in 1..Len(q) : c[i] = b[q[i]]
    BY <1>2, BodiesIsSeq
<1>4. Len(q) \in Nat /\ Len(q) # 0
    BY LenProperties, EmptySeq
<1>5. /\ r \in Seq(Nodes) /\ Len(r) = Len(q) - 1
      /\ \A i \in 1..(Len(q) - 1) : r[i] = q[i + 1]
    BY <1>1, HeadTailProperties
<1>6. c # <<>> /\ c[1] = b[q[1]]
    <2>1. 1 \in 1..Len(q)
        BY <1>4
    <2> QED BY <1>3, <1>4, <2>1, EmptySeq
<1>7. PICK d : d = Tail(c)
    OBVIOUS
<1>8. /\ d \in Seq(V) /\ Len(d) = Len(q) - 1
      /\ \A i \in 1..(Len(q) - 1) : d[i] = c[i + 1]
    BY <1>3, <1>6, <1>7, HeadTailProperties
<1>9. /\ Bodies(b, r) \in Seq(V) /\ Len(Bodies(b, r)) = Len(q) - 1
      /\ \A i \in 1..(Len(q) - 1) : Bodies(b, r)[i] = b[r[i]]
    BY <1>5, BodiesIsSeq
<1>10. ASSUME NEW i \in 1..(Len(q) - 1) PROVE Bodies(b, r)[i] = d[i]
    <2>1. i + 1 \in 1..Len(q)
        BY <1>4
    <2> QED BY <1>3, <1>5, <1>8, <1>9, <2>1
<1>11. Bodies(b, r) = d
    BY <1>8, <1>9, <1>10, SeqEqual
<1>12. Head(c) = c[1]
    BY <1>3, <1>6, HeadTailProperties
<1> QED BY <1>1, <1>2, <1>6, <1>7, <1>11, <1>12

(* The contents of the queue, before and after a step. *)
LEMMA ContentsAre ==
    /\ ListsInv => /\ Contents = Bodies(body, Chain(next, msg_queue_head))
                   /\ Chain(next, msg_queue_head) \in Seq(Nodes)
                   /\ Len(Chain(next, msg_queue_head)) = entry
    /\ ListsInv' => Contents' = Bodies(body', Chain(next', msg_queue_head'))
<1>1. ListsInv => /\ Len(Chain(next, msg_queue_head)) = entry
                  /\ Chain(next, msg_queue_head) \in Seq(Nodes)
    BY DEF ListsInv, Lists, Links
<1>2. ListsInv' => Len(Chain(next', msg_queue_head')) = entry'
    BY DEF ListsInv, Lists
<1> QED BY <1>1, <1>2 DEF Contents, Bodies

(* What a receiver will have got, before and after a step that changes     *)
(* neither its node nor where it is.                                       *)
LEMMA SameDelivered ==
    ASSUME \A r \in Receivers :
               \/ pc'[r] = "copy" /\ pc[r] = "copy" /\ body'[msg'[r]] = body[msg[r]]
               \/ pc'[r] # "copy" /\ pc[r] # "copy" /\ got'[r] = got[r]
    PROVE  Delivered' = Delivered
BY DEF Delivered

LEMMA SendAllocRefines ==
    ASSUME IInv, NEW s \in Senders, NEW v \in Values, NEW urgent \in BOOLEAN,
           SendAlloc(s, v, urgent)
    PROVE  UNCHANGED <<Contents, Delivered>>
<1>1. /\ UNCHANGED <<next, body, msg_queue_head, entry, got>>
      /\ \A r \in Receivers : pc'[r] = pc[r] /\ msg'[r] = msg[r]
    <2>1. \A r \in Receivers : r \in Callers /\ r # s
        BY Standing
    <2> QED BY <2>1 DEF SendAlloc, nodeVars, IInv, NodeInv, NodeTypes
<1>2. Contents' = Contents
    BY <1>1 DEF Contents
<1>3. Delivered' = Delivered
    BY <1>1, SameDelivered
<1> QED BY <1>2, <1>3

LEMMA SendCopyRefines ==
    ASSUME IInv, NEW s \in Senders, SendCopy(s)
    PROVE  UNCHANGED <<Contents, Delivered>>
<1>0. NodeInv /\ NodeTypes /\ CallersHold /\ ListsInv
    BY DEF IInv, NodeInv
<1>1. /\ pc[s] = "copy" /\ body' = [body EXCEPT ![msg[s]] = arg[s].value]
      /\ next' = (IF arg[s].urgent THEN next ELSE [next EXCEPT ![msg[s]] = Null])
      /\ pc' = [pc EXCEPT ![s] = "link"]
      /\ UNCHANGED <<msg_queue_head, msg_queue_tail, msg_queue_free, entry, msg, arg, got>>
    BY DEF SendCopy, MayGoOn, queueVars, callVars
<1>2. /\ Chain(next', msg_queue_head') = Chain(next, msg_queue_head)
      /\ \A i \in 1..entry : body'[Chain(next, msg_queue_head)[i]] =
                             body[Chain(next, msg_queue_head)[i]]
    BY <1>0, <1>1, CopyNodes
<1>3. Contents' = Contents
    BY <1>1, <1>2 DEF Contents
<1>4. ASSUME NEW r \in Receivers
      PROVE  \/ pc'[r] = "copy" /\ pc[r] = "copy" /\ body'[msg'[r]] = body[msg[r]]
             \/ pc'[r] # "copy" /\ pc[r] # "copy" /\ got'[r] = got[r]
    <2>1. r \in Callers /\ s \in Callers /\ r # s
        BY Standing
    <2>2. pc'[r] = pc[r]
        BY <1>0, <1>1, <2>1 DEF NodeTypes
    <2>3. pc[r] = "copy" => msg[r] \in Nodes /\ msg[s] \in Nodes /\ msg[r] # msg[s]
        BY <1>0, <1>1, <2>1 DEF NodeTypes, CallersHold, ListsInv, Lists
    <2>4. pc[r] = "copy" => body'[msg[r]] = body[msg[r]]
        BY <1>0, <1>1, <2>3 DEF NodeTypes
    <2> QED BY <1>1, <2>2, <2>4
<1>5. Delivered' = Delivered
    BY <1>4, SameDelivered
<1> QED BY <1>3, <1>5

LEMMA SendLinkRefines ==
    ASSUME IInv, NEW s \in Senders, SendLink(s)
    PROVE  \E v \in Values : Fifo!Enqueue(v) \/ Fifo!EnqueueFirst(v)
<1>0. NodeInv /\ NodeTypes /\ CopiesKept /\ ListsInv
    BY DEF IInv, NodeInv
<1>1. /\ pc[s] = "link" /\ (IF arg[s].urgent THEN LinkHead(msg[s]) ELSE LinkTail(msg[s]))
      /\ entry' = entry + 1
      /\ pc' = [pc EXCEPT ![s] = "idle"] /\ msg' = [msg EXCEPT ![s] = Null]
      /\ arg' = [arg EXCEPT ![s] = NoArg]
      /\ UNCHANGED <<body, msg_queue_free, got>>
    BY DEF SendLink, MayGoOn
<1>2. PICK v \in Values : v = arg[s].value /\ body[msg[s]] = v
    BY <1>0, <1>1 DEF CopiesKept
<1>3. PICK q, n : q = Chain(next, msg_queue_head) /\ n = msg[s]
    OBVIOUS
<1>4. /\ NodeInv' /\ entry' \in 1..Cardinality(Nodes) /\ n \in Nodes
      /\ Chain(next', msg_queue_head') = IF arg[s].urgent THEN <<n>> \o q ELSE Append(q, n)
    BY <1>0, <1>1, <1>3, LinkNodes
<1>5. /\ Contents = Bodies(body, q) /\ q \in Seq(Nodes) /\ Len(q) = entry
      /\ body \in [Nodes -> Values \cup {NoValue}]
    BY <1>0, <1>3, ContentsAre DEF NodeTypes
<1>6. Contents' = Bodies(body, Chain(next', msg_queue_head'))
    BY <1>1, <1>4, ContentsAre DEF NodeInv
<1>7. Len(Contents) < Cardinality(Nodes)
    <2>1. Len(Contents) = entry /\ entry \in Nat /\ Cardinality(Nodes) \in Nat
        BY <1>5, BodiesIsSeq, Standing, QueueAssumption, FS_CardinalityType
    <2> QED BY <1>1, <1>4, <2>1
<1>8. Delivered' = Delivered
    <2>1. \A r \in Receivers : r \in Callers /\ r # s
        BY Standing
    <2>2. \A r \in Receivers : pc'[r] = pc[r] /\ msg'[r] = msg[r]
        BY <1>0, <1>1, <2>1 DEF NodeTypes
    <2> QED BY <1>1, <2>2, SameDelivered
<1>9. CASE arg[s].urgent
    <2>1. Contents' = <<v>> \o Contents
        <3>1. Contents' = Bodies(body, <<n>> \o q)
            BY <1>4, <1>6, <1>9
        <3>2. Bodies(body, <<n>> \o q) = <<body[n]>> \o Bodies(body, q)
            BY <1>4, <1>5, BodiesPrepend
        <3> QED BY <1>2, <1>3, <1>5, <3>1, <3>2
    <2>2. Fifo!EnqueueFirst(v)
        BY <1>7, <1>8, <2>1 DEF Fifo!EnqueueFirst
    <2> QED BY <2>2
<1>10. CASE ~arg[s].urgent
    <2>1. Contents' = Append(Contents, v)
        <3>1. Contents' = Bodies(body, Append(q, n))
            BY <1>4, <1>6, <1>10
        <3>2. Bodies(body, Append(q, n)) = Append(Bodies(body, q), body[n])
            BY <1>4, <1>5, BodiesAppend
        <3> QED BY <1>2, <1>3, <1>5, <3>1, <3>2
    <2>2. Fifo!Enqueue(v)
        BY <1>7, <1>8, <2>1 DEF Fifo!Enqueue
    <2> QED BY <2>2
<1> QED BY <1>9, <1>10

LEMMA UnlinkRefines ==
    ASSUME IInv, NEW r \in Receivers, pc[r] \in {"idle", "wait"}, Unlink(r)
    PROVE  Fifo!Dequeue(r)
<1>0. NodeInv /\ NodeTypes /\ ListsInv
    BY DEF IInv, NodeInv
<1>1. /\ msg' = [msg EXCEPT ![r] = msg_queue_head] /\ pc' = [pc EXCEPT ![r] = "copy"]
      /\ UNCHANGED <<body, got>>
    BY DEF Unlink, nodeVars
<1>2. PICK q : q = Chain(next, msg_queue_head)
    OBVIOUS
<1>3. /\ NodeInv' /\ q # <<>> /\ q \in Seq(Nodes) /\ msg'[r] = q[1]
      /\ Chain(next', msg_queue_head') = Tail(q)
    BY <1>0, <1>2, UnlinkNodes
<1>4. Contents = Bodies(body, q) /\ body \in [Nodes -> Values \cup {NoValue}]
    BY <1>0, <1>2, ContentsAre DEF NodeTypes
<1>5. Contents' = Bodies(body, Tail(q))
    BY <1>1, <1>3, ContentsAre DEF NodeInv
<1>6. Contents # <<>> /\ Contents' = Tail(Contents) /\ Head(Contents) = body[q[1]]
    BY <1>3, <1>4, <1>5, BodiesTail
<1>7. r \in Callers /\ \A u \in Receivers : u \in Callers
    BY Standing
<1>8. /\ pc'[r] = "copy" /\ \A u \in Receivers : u # r => pc'[u] = pc[u] /\ msg'[u] = msg[u]
    BY <1>0, <1>1, <1>7 DEF NodeTypes
<1>9. PICK v : v = body[q[1]]
    OBVIOUS
<1>10. Delivered' = [Delivered EXCEPT ![r] = v]
    <2>1. Delivered'[r] = v
        BY <1>1, <1>3, <1>8, <1>9 DEF Delivered
    <2>2. \A u \in Receivers : u # r => Delivered'[u] = Delivered[u]
        BY <1>1, <1>8 DEF Delivered
    <2>3. /\ Delivered = [u \in Receivers |-> Delivered[u]]
          /\ Delivered' = [u \in Receivers |-> Delivered'[u]]
        BY DEF Delivered
    <2> QED BY <2>1, <2>2, <2>3
<1> QED BY <1>6, <1>9, <1>10 DEF Fifo!Dequeue

(* A receiver goes to sleep, or returns without a message. *)
LEMMA WaitRefines ==
    ASSUME IInv, NEW r \in Receivers, pc[r] \in {"idle", "wait"},
           pc' = [pc EXCEPT ![r] = "wait"] \/ pc' = [pc EXCEPT ![r] = "idle"] \/ pc' = pc,
           UNCHANGED <<next, body, msg_queue_head, entry, msg, got>>
    PROVE  UNCHANGED <<Contents, Delivered>>
<1>1. \A u \in Receivers : u \in Callers
    BY Standing
<1>2. pc \in [Callers -> {"idle", "copy", "link", "wait", "free"}]
    BY DEF IInv, NodeInv, NodeTypes
<1>3. pc'[r] # "copy" /\ \A u \in Receivers : u # r => pc'[u] = pc[u]
    BY <1>1, <1>2
<1>4. Delivered' = Delivered
    BY <1>3, SameDelivered
<1> QED BY <1>4 DEF Contents

LEMMA RecvRefines ==
    ASSUME IInv, NEW r \in Receivers,
           \/ \E time \in Times : Recv(r, time)
           \/ \E time \in TimeKinds : RecvRetry(r, time)
           \/ RecvError(r)
    PROVE  Fifo!Dequeue(r) \/ UNCHANGED <<Contents, Delivered>>
<1>1. pc[r] \in {"idle", "wait"}
    BY DEF Recv, RecvRetry, RecvError, MayGoOn
<1>2. CASE Unlink(r)
    BY <1>1, <1>2, UnlinkRefines
<1>3. CASE ~Unlink(r)
    <2>1. /\ pc' = [pc EXCEPT ![r] = "wait"] \/ pc' = [pc EXCEPT ![r] = "idle"] \/ pc' = pc
          /\ UNCHANGED <<next, body, msg_queue_head, entry, msg, got>>
        BY <1>3 DEF Recv, RecvRetry, RecvError, Block, vars, nodeVars, queueVars
    <2> QED BY <1>1, <2>1, WaitRefines
<1> QED BY <1>2, <1>3

LEMMA RecvCopyRefines ==
    ASSUME IInv, NEW r \in Receivers, RecvCopy(r)
    PROVE  UNCHANGED <<Contents, Delivered>>
<1>0. NodeTypes
    BY DEF IInv, NodeInv
<1>1. /\ pc[r] = "copy" /\ got' = [got EXCEPT ![r] = body[msg[r]]]
      /\ pc' = [pc EXCEPT ![r] = "free"]
      /\ UNCHANGED <<next, body, msg_queue_head, entry, msg>>
    BY DEF RecvCopy, MayGoOn, nodeVars, queueVars
<1>2. \A u \in Receivers : u \in Callers
    BY Standing
<1>3. /\ pc'[r] = "free" /\ got'[r] = body[msg[r]]
      /\ \A u \in Receivers : u # r => pc'[u] = pc[u] /\ got'[u] = got[u]
    BY <1>0, <1>1, <1>2 DEF NodeTypes
<1>4. Delivered' = Delivered
    BY <1>1, <1>3 DEF Delivered
<1> QED BY <1>1, <1>4 DEF Contents

LEMMA RecvFreeRefines ==
    ASSUME IInv, NEW r \in Receivers, RecvFree(r)
    PROVE  UNCHANGED <<Contents, Delivered>>
<1>0. NodeInv /\ NodeTypes
    BY DEF IInv, NodeInv
<1>1. /\ pc[r] = "free" /\ next' = [next EXCEPT ![msg[r]] = msg_queue_free]
      /\ msg_queue_free' = msg[r] /\ msg' = [msg EXCEPT ![r] = Null]
      /\ pc' = [pc EXCEPT ![r] = "idle"]
      /\ UNCHANGED <<body, msg_queue_head, msg_queue_tail, entry, arg, got>>
    BY DEF RecvFree, MayGoOn
<1>2. \A u \in Receivers : u \in Callers
    BY Standing
<1>3. /\ pc'[r] = "idle"
      /\ \A u \in Receivers : u # r => pc'[u] = pc[u] /\ msg'[u] = msg[u]
    BY <1>0, <1>1, <1>2 DEF NodeTypes
<1>4. Delivered' = Delivered
    BY <1>1, <1>3, SameDelivered
<1>5. Chain(next', msg_queue_head') = Chain(next, msg_queue_head)
    BY <1>0, <1>1, FreeNodes
<1>6. Contents' = Contents
    BY <1>1, <1>5 DEF Contents
<1> QED BY <1>4, <1>6

(* A reset, and a queue that is initialised again, are empty. *)
LEMMA ClearRefines ==
    ASSUME IInv, Reset \/ Reinit
    PROVE  Fifo!Clear
<1>1. entry' = 0 /\ UNCHANGED <<body, pc, msg, got>>
    BY DEF Reset, Reinit, callVars
<1>2. Contents' = <<>>
    <2>1. Contents' = [i \in 1..0 |-> body'[Chain(next', msg_queue_head')[i]]]
        BY <1>1 DEF Contents
    <2>2. DOMAIN Contents' = {}
        BY <2>1
    <2> QED BY <2>1, <2>2
<1>3. Delivered' = Delivered
    BY <1>1 DEF Delivered
<1> QED BY <1>2, <1>3 DEF Fifo!Clear

LEMMA StepRefines ==
    ASSUME IInv, [Next]_vars
    PROVE  [Fifo!Next]_<<Contents, Delivered>>
<1>1. CASE \E s \in Senders, v \in Values, urgent \in BOOLEAN : SendAlloc(s, v, urgent)
    BY <1>1, SendAllocRefines
<1>2. CASE \E s \in Senders : SendCopy(s)
    BY <1>2, SendCopyRefines
<1>3. CASE \E s \in Senders : SendLink(s)
    BY <1>3, SendLinkRefines DEF Fifo!Next
<1>4. CASE \E r \in Receivers : \/ \E time \in Times : Recv(r, time)
                                \/ \E time \in TimeKinds : RecvRetry(r, time)
                                \/ RecvError(r)
    BY <1>4, RecvRefines DEF Fifo!Next
<1>5. CASE \E r \in Receivers : RecvCopy(r)
    BY <1>5, RecvCopyRefines
<1>6. CASE \E r \in Receivers : RecvFree(r)
    BY <1>6, RecvFreeRefines
<1>7. CASE Reset \/ Reinit
    BY <1>7, ClearRefines DEF Fifo!Next
<1>8. CASE UNCHANGED <<next, body, msg_queue_head, entry, pc, msg, got>>
    BY <1>8 DEF Contents, Delivered
<1>9. CASE \/ \E r \in Receivers : Timeout(r)
           \/ DetachBegin \/ DetachCheck \/ DetachResume \/ DetachRemove \/ UNCHANGED vars
    <2>1. UNCHANGED <<next, body, msg_queue_head, entry, pc, msg, got>>
        BY <1>9 DEF Timeout, DetachBegin, DetachCheck, DetachResume, DetachRemove, DetachStep,
                    nodeVars, queueVars, callVars, vars
    <2> QED BY <1>8, <2>1
<1> QED BY <1>1, <1>2, <1>3, <1>4, <1>5, <1>6, <1>7, <1>9 DEF Next

(* The linked nodes of rt_mq_send, rt_mq_urgent and rt_mq_recv implement a *)
(* bounded FIFO queue with an urgent lane, although each message is copied *)
(* in and out with interrupts enabled: what a receiver copies is what was  *)
(* sent, each message goes to one receiver, and in the order in which the  *)
(* senders linked them.                                                    *)
THEOREM QueueIsFifo ==
    ASSUME Patient
    PROVE  Spec => IsFifo
<1>1. Init => Fifo!Init
    <2> SUFFICES ASSUME Init PROVE Fifo!Init
        OBVIOUS
    <2>1. entry = 0 /\ pc = [c \in Callers |-> "idle"] /\ got = [r \in Receivers |-> NoValue]
        BY DEF Init
    <2>2. Contents = <<>>
        <3>1. Contents = [i \in 1..0 |-> body[Chain(next, msg_queue_head)[i]]]
            BY <2>1 DEF Contents
        <3>2. DOMAIN Contents = {}
            BY <3>1
        <3> QED BY <3>1, <3>2
    <2>3. Delivered = [r \in Receivers |-> NoValue]
        BY <2>1 DEF Delivered, Callers
    <2> QED BY <2>2, <2>3 DEF Fifo!Init
<1>2. IInv /\ [Next]_vars => [Fifo!Next]_<<Contents, Delivered>>
    BY StepRefines
<1> QED BY <1>1, <1>2, Invariance, PTL DEF Spec, IsFifo, Fifo!Spec
=============================================================================
