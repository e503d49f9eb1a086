----------------------------- MODULE ListProofs -----------------------------
(***************************************************************************)
(* What the operations of ThreadLists do to the set of threads in a list,  *)
(* that no thread is linked twice, and to the order of a list.  These      *)
(* lemmas carry the invariance proofs of the IPC objects and the scheduler.*)
(***************************************************************************)
EXTENDS ThreadLists, SequenceTheorems, FiniteSetTheorems, WellFoundedInduction, TLAPS

(* A non-empty set of naturals has the minimum that Min picks. *)
LEMMA MinOfNat ==
    ASSUME NEW T, T \subseteq Nat, T # {}
    PROVE  Min(T) \in T /\ \A m \in T : Min(T) <= m
<1> DEFINE R == OpToRel(<, Nat)
<1>1. \E x \in T : \A y \in T : ~(<<y, x>> \in R)
    <2> HIDE DEF R
    <2> QED BY NatLessThanWellFounded, WFMin DEF R
<1>2. \A x, y \in T : ~(<<y, x>> \in R) => x <= y
    BY DEF OpToRel
<1>3. \E x \in T : \A y \in T : x <= y
    <2> HIDE DEF R
    <2> QED BY <1>1, <1>2
<1> QED BY <1>3 DEF Min

(* Induction up to n: a set that has 0, and i with i - 1, has all of 0..n. *)
LEMMA UpTo ==
    ASSUME NEW n \in Nat, NEW S, 0 \in S, \A i \in 1..n : i - 1 \in S => i \in S
    PROVE  0..n \subseteq S
<1> SUFFICES ASSUME (0..n) \ S # {} PROVE FALSE
    OBVIOUS
<1> DEFINE T == (0..n) \ S
<1>1. T \subseteq Nat /\ T # {}
    OBVIOUS
<1>2. PICK m \in T : \A k \in T : m <= k
    <2> HIDE DEF T
    <2> QED BY <1>1, MinOfNat
<1>3. m # 0 /\ m \in 1..n
    BY <1>2
<1>4. m - 1 \in 0..n /\ ~(m <= m - 1)
    BY <1>3
<1> QED BY <1>2, <1>3, <1>4

(* How the number of threads in a set compares with that of a set that     *)
(* contains all of it, all but one of it, or one more.                     *)
LEMMA CardinalityCompare ==
    ASSUME NEW T, IsFiniteSet(T), NEW A \in SUBSET T, NEW B \in SUBSET T, NEW x
    PROVE  /\ Cardinality(A) \in Nat /\ Cardinality(B) \in Nat
           /\ A \subseteq B => Cardinality(A) <= Cardinality(B)
           /\ A \ {x} \subseteq B => Cardinality(A) - 1 <= Cardinality(B)
           /\ A \cup {x} \subseteq B /\ x \notin A => Cardinality(A) + 1 <= Cardinality(B)
<1>1. IsFiniteSet(A) /\ IsFiniteSet(B)
    BY FS_Subset
<1>2. Cardinality(A) \in Nat /\ Cardinality(B) \in Nat
    BY <1>1, FS_CardinalityType
<1>3. ASSUME A \subseteq B PROVE Cardinality(A) <= Cardinality(B)
    BY <1>1, <1>3, FS_Subset
<1>4. ASSUME A \ {x} \subseteq B PROVE Cardinality(A) - 1 <= Cardinality(B)
    <2>1. Cardinality(A \ {x}) = IF x \in A THEN Cardinality(A) - 1 ELSE Cardinality(A)
        BY <1>1, FS_RemoveElement
    <2>2. Cardinality(A \ {x}) <= Cardinality(B)
        BY <1>1, <1>4, FS_Subset
    <2> QED BY <1>2, <2>1, <2>2
<1>5. ASSUME A \cup {x} \subseteq B, x \notin A PROVE Cardinality(A) + 1 <= Cardinality(B)
    <2>1. Cardinality(A \cup {x}) = Cardinality(A) + 1
        BY <1>1, <1>5, FS_AddElement
    <2>2. Cardinality(A \cup {x}) <= Cardinality(B)
        BY <1>1, <1>5, FS_Subset
    <2> QED BY <2>1, <2>2
<1> QED BY <1>2, <1>3, <1>4, <1>5

(* A function on 1..n is a sequence of length n. *)
LEMMA FunctionIsSeq ==
    ASSUME NEW S, NEW n \in Nat, NEW f \in [1..n -> S]
    PROVE  f \in Seq(S) /\ Len(f) = n
BY SeqDef

(* An empty suspend list holds no thread, once or twice. *)
LEMMA EmptyList ==
    /\ <<>> \in Seq(Threads)
    /\ ToSet(<<>>) = {}
    /\ IsInjective(<<>>)
    /\ \A prio : PriorityOrdered(<<>>, prio)
BY DEF ToSet, IsInjective, PriorityOrdered

(* rt_list_insert_before(list, node): a thread is linked at the tail. *)
LEMMA AppendList ==
    ASSUME NEW S, NEW list \in Seq(S), NEW t \in S
    PROVE  /\ Append(list, t) \in Seq(S)
           /\ ToSet(Append(list, t)) = ToSet(list) \cup {t}
           /\ IsInjective(list) /\ t \notin ToSet(list) => IsInjective(Append(list, t))
<1> DEFINE new == Append(list, t)
<1>1. new \in Seq(S) /\ Len(new) = Len(list) + 1
    BY AppendProperties
<1>2. new[Len(list) + 1] = t /\ \A i \in 1..Len(list) : new[i] = list[i]
    BY AppendProperties
<1>3. DOMAIN list = 1..Len(list) /\ DOMAIN new = 1..(Len(list) + 1) /\ Len(list) \in Nat
    BY <1>1, LenProperties
<1>4. ToSet(new) = ToSet(list) \cup {t}
    BY <1>2, <1>3 DEF ToSet
<1>5. ASSUME IsInjective(list), t \notin ToSet(list) PROVE IsInjective(new)
    BY <1>2, <1>3, <1>5 DEF ToSet, IsInjective
<1> QED BY <1>1, <1>4, <1>5

(* rt_list_insert_after(list, node): an element is linked at the head. *)
LEMMA PrependList ==
    ASSUME NEW S, NEW list \in Seq(S), NEW t \in S
    PROVE  /\ <<t>> \o list \in Seq(S)
           /\ Len(<<t>> \o list) = Len(list) + 1
           /\ ToSet(<<t>> \o list) = ToSet(list) \cup {t}
           /\ IsInjective(list) /\ t \notin ToSet(list) => IsInjective(<<t>> \o list)
<1> DEFINE new == <<t>> \o list
<1>1. Len(list) \in Nat /\ DOMAIN list = 1..Len(list)
    BY LenProperties
<1>2. <<t>> \in Seq(S) /\ Len(<<t>>) = 1 /\ <<t>>[1] = t
    OBVIOUS
<1>3. /\ new \in Seq(S) /\ Len(new) = 1 + Len(list)
      /\ \A j \in 1..(1 + Len(list)) : new[j] = IF j <= 1 THEN <<t>>[j] ELSE list[j - 1]
    BY <1>2, ConcatProperties
<1> HIDE DEF new
<1>4. DOMAIN new = 1..(Len(list) + 1)
    BY <1>1, <1>3, LenProperties
<1>5. new[1] = t /\ \A j \in DOMAIN list : new[j + 1] = list[j]
    <2>1. 1 \in 1..(1 + Len(list)) /\ 1 <= 1
        BY <1>1
    <2>2. \A j \in DOMAIN list : j + 1 \in 1..(1 + Len(list)) /\ ~(j + 1 <= 1) /\ (j + 1) - 1 = j
        BY <1>1
    <2> QED BY <1>2, <1>3, <2>1, <2>2
<1>6. \A j \in DOMAIN new : j = 1 \/ (j - 1 \in DOMAIN list /\ new[j] = list[j - 1])
    <2>1. \A j \in DOMAIN new : j # 1 => j - 1 \in DOMAIN list /\ (j - 1) + 1 = j
        BY <1>1, <1>4
    <2> QED BY <1>5, <2>1
<1>7. 1 \in DOMAIN new /\ \A j \in DOMAIN list : j + 1 \in DOMAIN new
    BY <1>1, <1>4
<1>8. ToSet(new) = ToSet(list) \cup {t}
    <2>1. ToSet(new) \subseteq ToSet(list) \cup {t}
        BY <1>5, <1>6 DEF ToSet
    <2>2. ToSet(list) \cup {t} \subseteq ToSet(new)
        BY <1>5, <1>7 DEF ToSet
    <2> QED BY <2>1, <2>2
<1>9. ASSUME IsInjective(list), t \notin ToSet(list) PROVE IsInjective(new)
    <2> SUFFICES ASSUME NEW a \in DOMAIN new, NEW b \in DOMAIN new, new[a] = new[b]
                 PROVE  a = b
        BY DEF IsInjective
    <2>1. \A j \in DOMAIN list : list[j] # t
        BY <1>9 DEF ToSet
    <2>2. a = 1 <=> b = 1
        BY <1>5, <1>6, <2>1
    <2>3. a # 1 /\ b # 1 => a - 1 = b - 1
        BY <1>6, <1>9 DEF IsInjective
    <2> QED BY <1>1, <1>4, <2>2, <2>3
<1> QED BY <1>1, <1>3, <1>8, <1>9 DEF new

(* SetToSeq lists every element of a finite set once. *)
LEMMA SetToSeqFacts ==
    ASSUME NEW S, IsFiniteSet(S)
    PROVE  /\ SetToSeq(S) \in Seq(S)
           /\ Len(SetToSeq(S)) = Cardinality(S)
           /\ ToSet(SetToSeq(S)) = S
           /\ IsInjective(SetToSeq(S))
<1> DEFINE n == Cardinality(S)
           list == SetToSeq(S)
<1>1. n \in Nat /\ ExistsBijection(1..n, S)
    BY FS_CardinalityType
<1>2. \E f \in [1..n -> S] : IsInjective(f)
    BY <1>1 DEF ExistsBijection, Bijection, Injection
<1>3. list \in [1..n -> S] /\ IsInjective(list)
    BY <1>2 DEF SetToSeq
<1> HIDE DEF list
<1>4. Cardinality(1..n) = n
    BY <1>1, FS_Interval
<1>5. list \in Surjection(1..n, S)
    <2>1. list \in Injection(1..n, S)
        BY <1>3 DEF Injection
    <2> QED BY <1>4, <2>1, FS_Injection
<1>6. ToSet(list) = S
    BY <1>3, <1>5 DEF Surjection, ToSet
<1> QED BY <1>1, <1>3, <1>6, FunctionIsSeq DEF list

(* A thread is linked in front of the i-th one. *)
LEMMA InsertList ==
    ASSUME NEW S, NEW list \in Seq(S), NEW t \in S, NEW i \in DOMAIN list
    PROVE  /\ InsertAt(list, i, t) \in Seq(S)
           /\ Len(InsertAt(list, i, t)) = Len(list) + 1
           /\ \A j \in 1..(Len(list) + 1) :
                 InsertAt(list, i, t)[j] = IF j < i THEN list[j]
                                           ELSE IF j = i THEN t ELSE list[j - 1]
           /\ ToSet(InsertAt(list, i, t)) = ToSet(list) \cup {t}
           /\ IsInjective(list) /\ t \notin ToSet(list) => IsInjective(InsertAt(list, i, t))
<1> DEFINE new == InsertAt(list, i, t)
           front == SubSeq(list, 1, i - 1)
           back == SubSeq(list, i, Len(list))
<1>1. Len(list) \in Nat /\ DOMAIN list = 1..Len(list) /\ i \in 1..Len(list)
    BY LenProperties
<1>2. /\ front \in Seq(S) /\ Len(front) = i - 1
      /\ \A j \in 1..(i - 1) : front[j] = list[j]
    BY <1>1, SubSeqProperties, ElementOfSeq
<1>3. /\ back \in Seq(S) /\ Len(back) = Len(list) - i + 1
      /\ \A j \in 1..(Len(list) - i + 1) : back[j] = list[i + j - 1]
    BY <1>1, SubSeqProperties, ElementOfSeq
<1>a. /\ Append(front, t) \in Seq(S) /\ Len(Append(front, t)) = i
      /\ Append(front, t)[i] = t
      /\ \A j \in 1..(i - 1) : Append(front, t)[j] = list[j]
    <2> HIDE DEF front
    <2> QED BY <1>1, <1>2, AppendProperties
<1>b. new = Append(front, t) \o back
    <2>1. front \o <<t>> = Append(front, t)
        BY <1>2, AppendIsConcat
    <2> QED BY <2>1 DEF InsertAt
<1>c. /\ new \in Seq(S) /\ Len(new) = i + (Len(list) - i + 1)
      /\ \A j \in 1..(i + (Len(list) - i + 1)) :
            new[j] = IF j <= i THEN Append(front, t)[j] ELSE back[j - i]
    <2> HIDE DEF front, back, new
    <2>1. /\ Append(front, t) \o back \in Seq(S)
          /\ Len(Append(front, t) \o back) = Len(Append(front, t)) + Len(back)
          /\ \A j \in 1..(Len(Append(front, t)) + Len(back)) :
                (Append(front, t) \o back)[j] =
                   IF j <= Len(Append(front, t)) THEN Append(front, t)[j]
                   ELSE back[j - Len(Append(front, t))]
        BY <1>3, <1>a, ConcatProperties
    <2> QED BY <1>3, <1>a, <1>b, <2>1
<1>4. new \in Seq(S) /\ Len(new) = Len(list) + 1
    BY <1>1, <1>c
<1>5. \A j \in 1..(Len(list) + 1) :
         new[j] = IF j < i THEN list[j] ELSE IF j = i THEN t ELSE list[j - 1]
    <2> HIDE DEF front, back, new
    <2> SUFFICES ASSUME NEW j \in 1..(Len(list) + 1)
                 PROVE  new[j] = IF j < i THEN list[j] ELSE IF j = i THEN t ELSE list[j - 1]
        OBVIOUS
    <2>0. j \in 1..(i + (Len(list) - i + 1))
        BY <1>1
    <2>1. CASE j <= i
        <3>1. new[j] = Append(front, t)[j]
            BY <1>c, <2>0, <2>1
        <3>2. j < i => j \in 1..(i - 1)
            BY <1>1
        <3>3. ~(j < i) => j = i
            BY <1>1, <2>1
        <3> QED BY <1>a, <3>1, <3>2, <3>3
    <2>2. CASE j > i
        <3>1. j - i \in 1..(Len(list) - i + 1) /\ i + (j - i) - 1 = j - 1
            BY <1>1, <2>2
        <3>2. back[j - i] = list[j - 1]
            BY <1>3, <3>1
        <3> QED BY <1>1, <1>c, <2>0, <2>2, <3>2
    <2> QED BY <1>1, <2>1, <2>2
<1>6. DOMAIN new = 1..(Len(list) + 1)
    BY <1>4, LenProperties
<1>7. ToSet(new) = ToSet(list) \cup {t}
    <2>1. ToSet(new) \subseteq ToSet(list) \cup {t}
        BY <1>1, <1>5, <1>6 DEF ToSet
    <2>2. \A j \in DOMAIN list : list[j] = new[IF j < i THEN j ELSE j + 1]
        BY <1>1, <1>5
    <2>3. \A j \in DOMAIN list : (IF j < i THEN j ELSE j + 1) \in DOMAIN new
        BY <1>1, <1>6
    <2>4. t = new[i] /\ i \in DOMAIN new
        BY <1>1, <1>5, <1>6
    <2> QED BY <2>1, <2>2, <2>3, <2>4 DEF ToSet
<1>8. ASSUME IsInjective(list), t \notin ToSet(list) PROVE IsInjective(new)
    <2> SUFFICES ASSUME NEW a \in DOMAIN new, NEW b \in DOMAIN new, new[a] = new[b]
                 PROVE  a = b
        BY DEF IsInjective
    <2>1. \A j \in DOMAIN list : list[j] # t
        BY <1>8 DEF ToSet
    <2> QED BY <1>1, <1>5, <1>6, <1>8, <2>1 DEF IsInjective
<1> QED BY <1>4, <1>5, <1>7, <1>8

(* The i-th thread is unlinked. *)
LEMMA RemoveList ==
    ASSUME NEW S, NEW list \in Seq(S), NEW i \in DOMAIN list, IsInjective(list)
    PROVE  /\ RemoveAt(list, i) \in Seq(S)
           /\ Len(RemoveAt(list, i)) = Len(list) - 1
           /\ \A j \in 1..(Len(list) - 1) :
                 RemoveAt(list, i)[j] = IF j < i THEN list[j] ELSE list[j + 1]
           /\ ToSet(RemoveAt(list, i)) = ToSet(list) \ {list[i]}
           /\ IsInjective(RemoveAt(list, i))
<1> DEFINE new == RemoveAt(list, i)
           front == SubSeq(list, 1, i - 1)
           back == SubSeq(list, i + 1, Len(list))
<1>1. Len(list) \in Nat /\ DOMAIN list = 1..Len(list) /\ i \in 1..Len(list)
    BY LenProperties
<1>2. /\ front \in Seq(S) /\ Len(front) = i - 1
      /\ \A j \in 1..(i - 1) : front[j] = list[j]
    BY <1>1, SubSeqProperties, ElementOfSeq
<1>3. /\ back \in Seq(S) /\ Len(back) = Len(list) - i
      /\ \A j \in 1..(Len(list) - i) : back[j] = list[i + j]
    BY <1>1, SubSeqProperties, ElementOfSeq, SMTT(30)
<1>a. new = front \o back
    BY DEF RemoveAt
<1>b. /\ new \in Seq(S) /\ Len(new) = (i - 1) + (Len(list) - i)
      /\ \A j \in 1..((i - 1) + (Len(list) - i)) :
            new[j] = IF j <= i - 1 THEN front[j] ELSE back[j - (i - 1)]
    <2> HIDE DEF front, back, new
    <2>1. /\ front \o back \in Seq(S) /\ Len(front \o back) = Len(front) + Len(back)
          /\ \A j \in 1..(Len(front) + Len(back)) :
                (front \o back)[j] = IF j <= Len(front) THEN front[j] ELSE back[j - Len(front)]
        BY <1>2, <1>3, ConcatProperties
    <2> QED BY <1>2, <1>3, <1>a, <2>1
<1>4. new \in Seq(S) /\ Len(new) = Len(list) - 1
    BY <1>1, <1>b
<1>5. \A j \in 1..(Len(list) - 1) : new[j] = IF j < i THEN list[j] ELSE list[j + 1]
    <2> HIDE DEF front, back, new
    <2> SUFFICES ASSUME NEW j \in 1..(Len(list) - 1)
                 PROVE  new[j] = IF j < i THEN list[j] ELSE list[j + 1]
        OBVIOUS
    <2>0. j \in 1..((i - 1) + (Len(list) - i))
        BY <1>1
    <2>1. CASE j < i
        <3>1. j \in 1..(i - 1) /\ j <= i - 1
            BY <1>1, <2>1
        <3> QED BY <1>2, <1>b, <2>0, <2>1, <3>1
    <2>2. CASE ~(j < i)
        <3>1. j - (i - 1) \in 1..(Len(list) - i) /\ i + (j - (i - 1)) = j + 1 /\ ~(j <= i - 1)
            BY <1>1, <2>2
        <3>2. back[j - (i - 1)] = list[j + 1]
            BY <1>3, <3>1
        <3> QED BY <1>b, <2>0, <2>2, <3>1, <3>2
    <2> QED BY <2>1, <2>2
<1>6. DOMAIN new = 1..(Len(list) - 1)
    BY <1>4, LenProperties
<1>7. ToSet(new) = ToSet(list) \ {list[i]}
    <2>1. ToSet(new) \subseteq ToSet(list) \ {list[i]}
        BY <1>1, <1>5, <1>6 DEF ToSet, IsInjective
    <2>2. \A j \in DOMAIN list : j # i => list[j] = new[IF j < i THEN j ELSE j - 1]
        BY <1>1, <1>5
    <2>3. \A j \in DOMAIN list : j # i => (IF j < i THEN j ELSE j - 1) \in DOMAIN new
        BY <1>1, <1>6
    <2> QED BY <2>1, <2>2, <2>3 DEF ToSet
<1>8. IsInjective(new)
    <2> SUFFICES ASSUME NEW a \in DOMAIN new, NEW b \in DOMAIN new, new[a] = new[b]
                 PROVE  a = b
        BY DEF IsInjective
    <2> DEFINE old(j) == IF j < i THEN j ELSE j + 1
    <2>1. old(a) \in DOMAIN list /\ old(b) \in DOMAIN list /\ list[old(a)] = list[old(b)]
        BY <1>1, <1>5, <1>6
    <2>2. old(a) = old(b)
        BY <2>1 DEF IsInjective
    <2> QED BY <1>1, <1>6, <2>2
<1> QED BY <1>4, <1>5, <1>7, <1>8

(* The head of a non-empty list is unlinked, as rt_thread_resume does. *)
LEMMA TailList ==
    ASSUME NEW S, NEW list \in Seq(S), list # <<>>, IsInjective(list)
    PROVE  /\ Head(list) \in S
           /\ Head(list) \in ToSet(list)
           /\ Tail(list) \in Seq(S)
           /\ Len(Tail(list)) = Len(list) - 1
           /\ ToSet(Tail(list)) = ToSet(list) \ {Head(list)}
           /\ IsInjective(Tail(list))
<1>1. Len(list) \in Nat \ {0} /\ DOMAIN list = 1..Len(list) /\ Head(list) = list[1]
    BY LenProperties, EmptySeq
<1>2. /\ Tail(list) \in Seq(S) /\ Len(Tail(list)) = Len(list) - 1
      /\ \A j \in 1..(Len(list) - 1) : Tail(list)[j] = list[j + 1]
    BY HeadTailProperties
<1>3. DOMAIN Tail(list) = 1..(Len(list) - 1)
    BY <1>2, LenProperties
<1>4. ToSet(Tail(list)) = ToSet(list) \ {Head(list)}
    <2>1. ToSet(Tail(list)) \subseteq ToSet(list) \ {Head(list)}
        BY <1>1, <1>2, <1>3 DEF ToSet, IsInjective
    <2>2. \A j \in DOMAIN list : j # 1 => list[j] = Tail(list)[j - 1] /\ j - 1 \in DOMAIN Tail(list)
        BY <1>1, <1>2, <1>3
    <2>3. ASSUME NEW x \in ToSet(list), x # Head(list) PROVE x \in ToSet(Tail(list))
        <3>1. PICK j \in DOMAIN list : list[j] = x
            BY DEF ToSet
        <3> QED BY <1>1, <2>2, <2>3, <3>1 DEF ToSet
    <2> QED BY <2>1, <2>3
<1>5. IsInjective(Tail(list))
    BY <1>1, <1>2, <1>3 DEF IsInjective
<1>6. Head(list) \in S /\ Head(list) \in ToSet(list)
    BY <1>1, ElementOfSeq DEF ToSet
<1> QED BY <1>2, <1>4, <1>5, <1>6

(* rt_ipc_list_suspend links the thread once; with RT_IPC_FLAG_PRIO it     *)
(* keeps the list in priority order.                                       *)
LEMMA SuspendListFacts ==
    ASSUME NEW list \in Seq(Threads), NEW t \in Threads, NEW flag,
           NEW prio \in [Threads -> Nat]
    PROVE  LET new == SuspendList(list, t, flag, prio)
           IN  /\ new \in Seq(Threads)
               /\ ToSet(new) = ToSet(list) \cup {t}
               /\ IsInjective(list) /\ t \notin ToSet(list) => IsInjective(new)
               /\ flag # "FIFO" /\ PriorityOrdered(list, prio) => PriorityOrdered(new, prio)
<1> DEFINE lower == {i \in DOMAIN list : prio[t] < prio[list[i]]}
           new == SuspendList(list, t, flag, prio)
<1>1. Len(list) \in Nat /\ DOMAIN list = 1..Len(list)
    BY LenProperties
<1>2. \A i \in DOMAIN list : list[i] \in Threads /\ prio[list[i]] \in Nat
    BY ElementOfSeq
<1>3. CASE flag = "FIFO" \/ lower = {}
    <2>1. new = Append(list, t)
        BY <1>3 DEF SuspendList
    <2>2. ASSUME flag # "FIFO", PriorityOrdered(list, prio) PROVE PriorityOrdered(new, prio)
        <3>1. Len(new) = Len(list) + 1 /\ new[Len(list) + 1] = t
              /\ \A i \in 1..Len(list) : new[i] = list[i]
            BY <2>1, AppendProperties
        <3>2. DOMAIN new = 1..(Len(list) + 1)
            BY <2>1, <3>1, AppendProperties, LenProperties
        <3>3. \A i \in DOMAIN list : prio[list[i]] <= prio[t]
            BY <1>2, <1>3, <2>2
        <3>4. ASSUME NEW i \in DOMAIN new, NEW j \in DOMAIN new, i < j
              PROVE  prio[new[i]] <= prio[new[j]]
            <4>1. i \in DOMAIN list /\ new[i] = list[i]
                BY <1>1, <3>1, <3>2, <3>4
            <4>2. CASE j \in DOMAIN list
                BY <1>1, <2>2, <3>1, <3>4, <4>1, <4>2 DEF PriorityOrdered
            <4>3. CASE j = Len(list) + 1
                BY <3>1, <3>3, <4>1, <4>3
            <4> QED BY <1>1, <3>2, <4>2, <4>3
        <3> QED BY <3>4 DEF PriorityOrdered
    <2> QED BY <2>1, <2>2, AppendList
<1>4. CASE flag # "FIFO" /\ lower # {}
    <2>1. PICK k \in lower : k = Min(lower) /\ \A m \in lower : k <= m
        <3>1. lower \subseteq Nat
            BY <1>1
        <3> QED BY <1>4, <3>1, MinOfNat
    <2>2. new = InsertAt(list, k, t)
        BY <1>4, <2>1 DEF SuspendList
    <2>a. /\ k \in DOMAIN list /\ prio[t] < prio[list[k]]
          /\ \A m \in DOMAIN list : prio[t] < prio[list[m]] => k <= m
        BY <2>1
    <2>b. /\ InsertAt(list, k, t) \in Seq(Threads)
          /\ Len(InsertAt(list, k, t)) = Len(list) + 1
          /\ \A j \in 1..(Len(list) + 1) :
                InsertAt(list, k, t)[j] = IF j < k THEN list[j]
                                          ELSE IF j = k THEN t ELSE list[j - 1]
          /\ ToSet(InsertAt(list, k, t)) = ToSet(list) \cup {t}
          /\ IsInjective(list) /\ t \notin ToSet(list) => IsInjective(InsertAt(list, k, t))
        <3> HIDE DEF lower, new
        <3> QED BY <2>a, InsertList
    <2> HIDE DEF lower, new
    <2>3. ASSUME PriorityOrdered(list, prio) PROVE PriorityOrdered(new, prio)
        <3> SUFFICES ASSUME NEW i \in DOMAIN new, NEW j \in DOMAIN new, i < j
                     PROVE  prio[new[i]] <= prio[new[j]]
            BY DEF PriorityOrdered
        <3>1. /\ new \in Seq(Threads) /\ Len(new) = Len(list) + 1
              /\ \A n \in 1..(Len(list) + 1) :
                    new[n] = IF n < k THEN list[n] ELSE IF n = k THEN t ELSE list[n - 1]
            BY <2>2, <2>b
        <3>2. i \in 1..(Len(list) + 1) /\ j \in 1..(Len(list) + 1) /\ k \in 1..Len(list)
            BY <1>1, <2>a, <3>1, LenProperties
        <3>3. ASSUME NEW n \in DOMAIN list, n < k PROVE prio[list[n]] <= prio[t]
            <4>1. ~(prio[t] < prio[list[n]])
                BY <1>1, <2>a, <3>3
            <4> QED BY <1>2, <4>1
        <3>4. prio[t] < prio[list[k]]
            BY <2>a
        <3>5. \A n \in DOMAIN list : n >= k => prio[t] <= prio[list[n]]
            BY <1>1, <1>2, <2>a, <2>3 DEF PriorityOrdered
        <3>6. CASE j < k
            <4>1. new[i] = list[i] /\ new[j] = list[j]
                BY <1>1, <3>1, <3>2, <3>6
            <4>2. i \in DOMAIN list /\ j \in DOMAIN list
                BY <1>1, <3>2, <3>6
            <4> QED BY <2>3, <4>1, <4>2 DEF PriorityOrdered
        <3>7. CASE j = k
            BY <1>1, <3>1, <3>2, <3>3, <3>7
        <3>8. CASE j > k
            <4>1. new[j] = list[j - 1] /\ j - 1 \in DOMAIN list /\ j - 1 >= k
                <5>1. ~(j < k) /\ j # k
                    BY <3>2, <3>8
                <5>2. new[j] = list[j - 1]
                    BY <3>1, <3>2, <5>1
                <5>3. j - 1 \in DOMAIN list /\ j - 1 >= k
                    BY <1>1, <3>2, <3>8
                <5> QED BY <5>2, <5>3
            <4>2. CASE i < k
                <5>1. new[i] = list[i] /\ i \in DOMAIN list /\ i < j - 1
                    BY <1>1, <3>1, <3>2, <4>1, <4>2
                <5> QED BY <2>3, <4>1, <5>1 DEF PriorityOrdered
            <4>3. CASE i = k
                BY <3>1, <3>2, <3>5, <4>1, <4>3
            <4>4. CASE i > k
                <5>1. i - 1 \in DOMAIN list
                    BY <1>1, <3>2, <4>4
                <5>3. new[i] = list[i - 1]
                    <6>1. ~(i < k) /\ i # k /\ i \in 1..(Len(list) + 1)
                        BY <1>1, <3>2, <4>4
                    <6> QED BY <3>1, <6>1
                <5>2. i - 1 < j - 1
                    BY <3>2
                <5> QED BY <2>3, <4>1, <5>1, <5>2, <5>3 DEF PriorityOrdered
            <4> QED BY <1>1, <3>2, <4>2, <4>3, <4>4
        <3> QED BY <1>1, <3>2, <3>6, <3>7, <3>8
    <2>4. /\ new \in Seq(Threads)
          /\ ToSet(new) = ToSet(list) \cup {t}
          /\ IsInjective(list) /\ t \notin ToSet(list) => IsInjective(new)
        BY <2>2, <2>b
    <2> QED BY <2>3, <2>4 DEF new
<1> QED BY <1>3, <1>4

(* rt_list_remove unlinks the thread and nothing else, and keeps the order. *)
LEMMA ListRemoveFacts ==
    ASSUME NEW list \in Seq(Threads), NEW t \in ToSet(list), IsInjective(list),
           NEW prio \in [Threads -> Nat]
    PROVE  LET new == ListRemove(list, t)
           IN  /\ new \in Seq(Threads) /\ Len(new) = Len(list) - 1
               /\ ToSet(new) = ToSet(list) \ {t}
               /\ IsInjective(new)
               /\ PriorityOrdered(list, prio) => PriorityOrdered(new, prio)
<1> DEFINE i == CHOOSE j \in DOMAIN list : list[j] = t
           new == ListRemove(list, t)
<1>1. i \in DOMAIN list /\ list[i] = t
    BY DEF ToSet
<1>2. new = RemoveAt(list, i)
    BY DEF ListRemove
<1> HIDE DEF i
<1>a. /\ RemoveAt(list, i) \in Seq(Threads) /\ Len(RemoveAt(list, i)) = Len(list) - 1
      /\ \A j \in 1..(Len(list) - 1) :
            RemoveAt(list, i)[j] = IF j < i THEN list[j] ELSE list[j + 1]
      /\ ToSet(RemoveAt(list, i)) = ToSet(list) \ {list[i]}
      /\ IsInjective(RemoveAt(list, i))
    BY <1>1, RemoveList
<1> HIDE DEF new
<1>3. /\ new \in Seq(Threads) /\ Len(new) = Len(list) - 1
      /\ \A j \in 1..(Len(list) - 1) : new[j] = IF j < i THEN list[j] ELSE list[j + 1]
      /\ ToSet(new) = ToSet(list) \ {t} /\ IsInjective(new)
    BY <1>1, <1>2, <1>a
<1>4. ASSUME PriorityOrdered(list, prio) PROVE PriorityOrdered(new, prio)
    <2> DEFINE old(j) == IF j < i THEN j ELSE j + 1
    <2>1. DOMAIN list = 1..Len(list) /\ DOMAIN new = 1..(Len(list) - 1) /\ Len(list) \in Nat
        BY <1>3, LenProperties
    <2>2. ASSUME NEW j \in DOMAIN new
          PROVE  new[j] = list[old(j)] /\ old(j) \in DOMAIN list
        <3>1. new[j] = list[old(j)]
            BY <1>3, <2>1
        <3>2. old(j) \in DOMAIN list
            BY <1>1, <2>1
        <3> QED BY <3>1, <3>2
    <2>3. \A j, k \in DOMAIN new : j < k => old(j) < old(k)
        BY <1>1, <2>1
    <2> HIDE DEF old
    <2> QED BY <1>4, <2>2, <2>3 DEF PriorityOrdered
<1> QED BY <1>3, <1>4 DEF new

(* rt_list_remove of a thread that may be in this list or in another one. *)
LEMMA ListRemoveAny ==
    ASSUME NEW list \in Seq(Threads), NEW t, IsInjective(list)
    PROVE  LET new == ListRemove(list, t)
           IN  /\ new \in Seq(Threads) /\ Len(new) <= Len(list)
               /\ ToSet(new) = ToSet(list) \ {t}
               /\ IsInjective(new)
               /\ list = <<>> => new = <<>>
<1>0. Len(list) \in Nat
    BY LenProperties
<1>1. CASE t \in ToSet(list)
    <2>1. list # <<>>
        BY <1>1, EmptyList
    <2>2. [u \in Threads |-> 0] \in [Threads -> Nat]
        OBVIOUS
    <2>3. /\ ListRemove(list, t) \in Seq(Threads)
          /\ Len(ListRemove(list, t)) = Len(list) - 1
          /\ ToSet(ListRemove(list, t)) = ToSet(list) \ {t}
          /\ IsInjective(ListRemove(list, t))
        BY <1>1, <2>2, ListRemoveFacts
    <2> QED BY <1>0, <2>1, <2>3
<1>2. CASE t \notin ToSet(list)
    <2>1. ListRemove(list, t) = list
        BY <1>2 DEF ListRemove
    <2> QED BY <1>0, <1>2, <2>1
<1> QED BY <1>1, <1>2

(* The same for the head of the list. *)
LEMMA TailOrdered ==
    ASSUME NEW list \in Seq(Threads), list # <<>>, NEW prio \in [Threads -> Nat],
           PriorityOrdered(list, prio)
    PROVE  PriorityOrdered(Tail(list), prio)
<1>1. Len(list) \in Nat \ {0} /\ DOMAIN list = 1..Len(list)
    BY LenProperties, EmptySeq
<1>2. /\ Tail(list) \in Seq(Threads) /\ Len(Tail(list)) = Len(list) - 1
      /\ \A j \in 1..(Len(list) - 1) : Tail(list)[j] = list[j + 1]
    BY HeadTailProperties
<1>3. DOMAIN Tail(list) = 1..(Len(list) - 1)
    BY <1>2, LenProperties
<1>4. \A i, j \in 1..(Len(list) - 1) :
         i < j => i + 1 < j + 1 /\ i + 1 \in DOMAIN list /\ j + 1 \in DOMAIN list
    BY <1>1
<1> SUFFICES ASSUME NEW i \in DOMAIN Tail(list), NEW j \in DOMAIN Tail(list), i < j
             PROVE  prio[Tail(list)[i]] <= prio[Tail(list)[j]]
    BY DEF PriorityOrdered
<1>5. Tail(list)[i] = list[i + 1] /\ Tail(list)[j] = list[j + 1]
    BY <1>2, <1>3
<1> QED BY <1>3, <1>4, <1>5 DEF PriorityOrdered

(* Only the priorities of the listed threads matter for the order. *)
LEMMA OrderedAgree ==
    ASSUME NEW list, NEW p, NEW q, PriorityOrdered(list, p), \A u \in ToSet(list) : p[u] = q[u]
    PROVE  PriorityOrdered(list, q)
<1>1. \A i \in DOMAIN list : p[list[i]] = q[list[i]]
    BY DEF ToSet
<1> QED BY <1>1 DEF PriorityOrdered

(* The head of a sorted list has the highest priority of all. *)
LEMMA HeadFirst ==
    ASSUME NEW list \in Seq(Threads), list # <<>>, NEW prio \in [Threads -> Nat],
           PriorityOrdered(list, prio)
    PROVE  \A u \in ToSet(list) : prio[Head(list)] <= prio[u]
<1>1. Len(list) \in Nat \ {0} /\ DOMAIN list = 1..Len(list) /\ Head(list) = list[1]
    BY LenProperties, EmptySeq
<1> SUFFICES ASSUME NEW i \in DOMAIN list PROVE prio[Head(list)] <= prio[list[i]]
    BY DEF ToSet
<1>2. list[1] \in Threads /\ list[i] \in Threads /\ 1 \in DOMAIN list
    BY <1>1, ElementOfSeq
<1>3. CASE i = 1
    BY <1>1, <1>2, <1>3
<1>4. CASE i # 1
    <2>1. 1 < i
        BY <1>1, <1>4
    <2> QED BY <1>1, <1>2, <2>1 DEF PriorityOrdered
<1> QED BY <1>3, <1>4
=============================================================================
