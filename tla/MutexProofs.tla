----------------------------- MODULE MutexProofs -----------------------------
(***************************************************************************)
(* The safety of RT-Thread mutexes for any number of threads and mutexes,  *)
(* any priorities and nesting depths, past the wrap of hold too, and       *)
(* priority inheritance for a mutex that is alone.  The theorems assume    *)
(* Careful: a mutex is detached only by its owner, and before the owner    *)
(* has inherited a priority, which rt_mutex_detach does not see to.        *)
(***************************************************************************)
EXTENDS Mutex, ListProofs

(* t is asleep in the list of m. *)
Sleeps(t, m) == stat[t] = "SUSPEND" /\ wait[t] = m

(* t has been resumed as the owner of m and has not returned yet. *)
Granted(t, m) == stat[t] = "READY" /\ wait[t] = m /\ error[t] = "EOK"

(* Only a thread inside rt_mutex_take sleeps, and only a sleeper has its   *)
(* timer running.                                                          *)
ThreadOK(t) ==
    /\ stat[t] = "SUSPEND" => wait[t] # NoMutex /\ error[t] = "EOK"
    /\ timer[t] => stat[t] = "SUSPEND"

(* What connects a mutex with the threads: the owner is on its way back    *)
(* from rt_mutex_take or hold counts its takes modulo HoldRange, nobody    *)
(* else has more takes than releases except a multiple of HoldRange (left  *)
(* by the wrap), who sleeps for it is listed and does not own it, and a    *)
(* detach leaves nobody in the list and nobody with the mutex.             *)
MutexOK(m) ==
    /\ IsInjective(suspend_thread[m])
    /\ \A t \in Threads :
          /\ t \in ToSet(suspend_thread[m]) <=> Sleeps(t, m)
          /\ Sleeps(t, m) => owner[m] # t
          /\ owner[m] # t \/ Granted(t, m) =>
                depth[t][m] % HoldRange = 0 /\ depth[t][m] < MaxNest
          /\ Granted(t, m) => owner[m] = t /\ hold[m] = 1 /\ obj[m] = "live"
          /\ obj[m] = "gone" => depth[t][m] = 0
    /\ obj[m] # "gone" =>
          /\ value[m] = 1 <=> owner[m] = NoThread
          /\ owner[m] = NoThread =>
                suspend_thread[m] = <<>> /\ hold[m] = 0 /\ obj[m] = "live"
          /\ owner[m] # NoThread /\ ~Granted(owner[m], m) =>
                depth[owner[m]][m] > 0 /\ hold[m] = depth[owner[m]][m] % HoldRange
    /\ obj[m] \in {"remove", "gone"} => suspend_thread[m] = <<>>

(* The inductive invariant. *)
IInv ==
    /\ TypeOK
    /\ \A t \in Threads : ThreadOK(t)
    /\ \A m \in Mutexes : MutexOK(m)

(* The priorities around a mutex that is alone: whoever does not own it    *)
(* runs at its own priority, the owner gets back its own, the list is      *)
(* sorted and nobody in it beats the owner, and nothing is inherited once  *)
(* a detach has begun.                                                     *)
PriorityOK(m) ==
    /\ \A t \in Threads : owner[m] # t => current_priority[t] = Prio[t]
    /\ owner[m] # NoThread => original_priority[m] = Prio[owner[m]]
    /\ Flag = "PRIO" =>
          /\ PriorityOrdered(suspend_thread[m], current_priority)
          /\ \A t \in ToSet(suspend_thread[m]) : current_priority[owner[m]] <= current_priority[t]
    /\ obj[m] # "live" =>
          owner[m] \in Threads /\ current_priority[owner[m]] = original_priority[m]

-----------------------------------------------------------------------------
(* What k % HoldRange is: the remainder, *)
LEMMA ModRemainder ==
    ASSUME NEW k \in Int
    PROVE  /\ k = HoldRange * (k \div HoldRange) + (k % HoldRange)
           /\ k \div HoldRange \in Int /\ k % HoldRange \in 0..(HoldRange - 1)
<1>1. k = HoldRange * (k \div HoldRange) + (k % HoldRange)
    BY MutexAssumption
<1>2. k \div HoldRange \in Int
    BY MutexAssumption
<1>3. k % HoldRange \in 0..(HoldRange - 1)
    BY MutexAssumption
<1> QED BY <1>1, <1>2, <1>3

(* of which there is only one. *)
LEMMA ModUnique ==
    ASSUME NEW k \in Int, NEW q \in Int, NEW r \in 0..(HoldRange - 1), k = HoldRange * q + r
    PROVE  k % HoldRange = r
<1>1. PICK p \in Int, s \in 0..(HoldRange - 1) : k = HoldRange * p + s /\ k % HoldRange = s
    BY ModRemainder
<1>2. HoldRange * (q - p) = s - r /\ HoldRange * (p - q) = r - s
    BY <1>1, MutexAssumption
<1>3. ASSUME NEW c \in Int, c >= 1 PROVE HoldRange * c >= HoldRange
    BY <1>3, MutexAssumption
<1>4. CASE q - p >= 1
    BY <1>2, <1>3, <1>4, MutexAssumption
<1>5. CASE p - q >= 1
    BY <1>2, <1>3, <1>5, MutexAssumption
<1>6. CASE p = q
    BY <1>1, <1>6, MutexAssumption
<1> QED BY <1>4, <1>5, <1>6

(* A counter modulo HoldRange follows the count it stands for. *)
LEMMA ModStep ==
    ASSUME NEW k \in Int, NEW d \in {-1, 1}
    PROVE  ((k % HoldRange) + d) % HoldRange = (k + d) % HoldRange
<1> DEFINE h == k % HoldRange
           q == k \div HoldRange
           p == (h + d) \div HoldRange
           r == (h + d) % HoldRange
<1>1. k = HoldRange * q + h /\ q \in Int /\ h \in 0..(HoldRange - 1)
    BY ModRemainder
<1>2. h + d \in Int
    BY <1>1
<1>3. h + d = HoldRange * p + r /\ p \in Int /\ r \in 0..(HoldRange - 1)
    <2> HIDE DEF h
    <2> QED BY <1>2, ModRemainder
<1> HIDE DEF h, q, p, r
<1>4. k + d = HoldRange * (q + p) + r
    BY <1>1, <1>3, MutexAssumption
<1>5. (k + d) % HoldRange = r
    BY <1>1, <1>3, <1>4, ModUnique
<1> QED BY <1>5 DEF r, h

(* The count goes up or down by one, and hold with it. *)
LEMMA HoldFollows ==
    ASSUME NEW k \in Nat, NEW h, h = k % HoldRange
    PROVE  /\ (h + 1) % HoldRange = (k + 1) % HoldRange
           /\ (h - 1) % HoldRange = (k - 1) % HoldRange
           /\ (h + 1) % HoldRange \in 0..(HoldRange - 1)
           /\ (h - 1) % HoldRange \in 0..(HoldRange - 1)
<1>1. h \in Int /\ h + (-1) = h - 1 /\ k + (-1) = k - 1
    BY ModRemainder
<1>2. (h + 1) % HoldRange = (k + 1) % HoldRange
    BY ModStep
<1>3. (h + (-1)) % HoldRange = (k + (-1)) % HoldRange
    BY ModStep
<1>4. h + 1 \in Int /\ h - 1 \in Int
    BY <1>1
<1> QED BY <1>1, <1>2, <1>3, <1>4, ModRemainder

(* Zero and one are in the range of hold. *)
LEMMA ModSmall == 0 % HoldRange = 0 /\ 1 % HoldRange = 1
BY MutexAssumption

LEMMA InitInv == Init => IInv /\ \A m \in Mutexes : PriorityOK(m)
<1> SUFFICES ASSUME Init PROVE IInv /\ \A m \in Mutexes : PriorityOK(m)
    OBVIOUS
<1>1. ThreadTypeOK
    BY DEF Init, ThreadInit, ThreadTypeOK, Errors
<1>2. TypeOK
    <2>1. /\ hold \in [Mutexes -> 0..(HoldRange - 1)] /\ value \in [Mutexes -> 0..1]
          /\ depth \in [Threads -> [Mutexes -> 0..MaxNest]]
        <3>1. 0 \in 0..(HoldRange - 1) /\ 1 \in 0..1 /\ 0 \in 0..MaxNest
            BY MutexAssumption
        <3> QED BY <3>1 DEF Init
    <2>2. current_priority \in [Threads -> Nat] /\ original_priority \in [Mutexes -> Nat]
        <3>1. Prio \in [Threads -> Nat]
            BY PrioAssumption
        <3>2. NoPriority \in Nat
            BY DEF NoPriority
        <3> QED BY <3>1, <3>2 DEF Init
    <2>3. /\ suspend_thread \in [Mutexes -> Seq(Threads)]
          /\ owner \in [Mutexes -> Threads \cup {NoThread}]
          /\ wait \in [Threads -> Mutexes \cup {NoMutex}]
          /\ obj \in [Mutexes -> {"live", "check", "resume", "remove", "gone"}]
          /\ wild \in BOOLEAN
        BY EmptyList DEF Init
    <2> QED BY <1>1, <2>1, <2>2, <2>3 DEF TypeOK
<1>3. \A m \in Mutexes : /\ suspend_thread[m] = <<>> /\ owner[m] = NoThread /\ value[m] = 1
                          /\ hold[m] = 0 /\ obj[m] = "live"
                          /\ \A t \in Threads : depth[t][m] = 0
    BY DEF Init
<1>4. \A t \in Threads : /\ stat[t] = "READY" /\ timer[t] = FALSE /\ wait[t] = NoMutex
                          /\ current_priority[t] = Prio[t]
    BY DEF Init, ThreadInit
<1>5. \A t \in Threads : ThreadOK(t)
    BY <1>4 DEF ThreadOK
<1>6. \A m \in Mutexes : MutexOK(m)
    BY <1>3, <1>4, EmptyList, ModSmall, MutexAssumption DEF MutexOK, Sleeps, Granted
<1>7. \A m \in Mutexes : PriorityOK(m)
    BY <1>3, <1>4, EmptyList DEF PriorityOK, PriorityOrdered
<1> QED BY <1>2, <1>5, <1>6, <1>7 DEF IInv

(* Who makes a call is awake and in no list. *)
LEMMA CallerAwake ==
    ASSUME IInv, NEW t \in Threads, wait[t] = NoMutex
    PROVE  /\ stat[t] = "READY" /\ ~timer[t]
           /\ \A m \in Mutexes : ~Sleeps(t, m) /\ ~Granted(t, m) /\ t \notin ToSet(suspend_thread[m])
<1>1. stat[t] = "READY" /\ ~timer[t]
    BY DEF IInv, TypeOK, ThreadTypeOK, ThreadOK
<1>2. \A m \in Mutexes : ~Sleeps(t, m) /\ ~Granted(t, m)
    BY MutexAssumption DEF Sleeps, Granted
<1> QED BY <1>1, <1>2 DEF IInv, MutexOK

(* How one entry of the table of nesting depths changes. *)
LEMMA DepthUpdate ==
    ASSUME depth \in [Threads -> [Mutexes -> 0..MaxNest]],
           NEW t \in Threads, NEW m \in Mutexes, NEW d \in 0..MaxNest
    PROVE  LET new == [depth EXCEPT ![t][m] = d]
           IN  /\ new \in [Threads -> [Mutexes -> 0..MaxNest]]
               /\ new[t][m] = d
               /\ \A u \in Threads, n \in Mutexes : u # t \/ n # m => new[u][n] = depth[u][n]
OBVIOUS

(* A mutex of which a step touches neither the fields nor the threads that *)
(* wait for it stays as it was.                                            *)
LEMMA OtherMutex ==
    ASSUME NEW n \in Mutexes, MutexOK(n),
           suspend_thread'[n] = suspend_thread[n], value'[n] = value[n],
           owner'[n] = owner[n], hold'[n] = hold[n], obj'[n] = obj[n],
           owner[n] \in Threads \cup {NoThread},
           \A u \in Threads : depth'[u][n] = depth[u][n],
           \A u \in Threads : wait[u] = n \/ wait'[u] = n =>
               wait'[u] = wait[u] /\ stat'[u] = stat[u] /\ error'[u] = error[u]
    PROVE  MutexOK(n)'
<1>1. \A u \in Threads : (Sleeps(u, n)' <=> Sleeps(u, n)) /\ (Granted(u, n)' <=> Granted(u, n))
    BY DEF Sleeps, Granted
<1>2. owner[n] # NoThread => owner[n] \in Threads
    OBVIOUS
<1> QED BY <1>1, <1>2 DEF MutexOK

(* A call that changes the error of the caller and nothing else. *)
LEMMA ErrorInv ==
    ASSUME IInv, NEW t \in Threads, wait[t] = NoMutex, NEW err \in Errors,
           error' = [error EXCEPT ![t] = err],
           UNCHANGED <<stat, timer, current_priority, mutexVars, suspend_thread, wait, depth, objVars>>
    PROVE  IInv'
<1>0. UNCHANGED <<stat, timer, current_priority, value, owner, original_priority, hold,
                  suspend_thread, wait, depth, obj, wild>>
    BY DEF mutexVars, objVars
<1>1. stat[t] = "READY"
    BY CallerAwake
<1>2. TypeOK'
    BY <1>0 DEF IInv, TypeOK, ThreadTypeOK
<1>3. \A u \in Threads : u # t => error'[u] = error[u]
    BY DEF IInv, TypeOK, ThreadTypeOK
<1>4. \A u \in Threads : ThreadOK(u)'
    BY <1>0, <1>1, <1>3 DEF IInv, ThreadOK
<1>5. \A m \in Mutexes : MutexOK(m)'
    BY <1>0, <1>3, OtherMutex, MutexAssumption DEF IInv, TypeOK
<1> QED BY <1>2, <1>4, <1>5 DEF IInv

(* What the owner of a mutex that has returned from rt_mutex_take knows. *)
LEMMA OwnerHolds ==
    ASSUME IInv, NEW t \in Threads, NEW m \in Mutexes, wait[t] = NoMutex, owner[m] = t,
           obj[m] # "gone"
    PROVE  /\ depth[t][m] \in 1..MaxNest /\ hold[m] = depth[t][m] % HoldRange
           /\ value[m] = 0
           /\ \A u \in Threads : u # t => /\ depth[u][m] % HoldRange = 0 /\ depth[u][m] < MaxNest
                                         /\ ~Granted(u, m)
<1>1. depth[t][m] \in 0..MaxNest /\ value[m] \in 0..1
    BY DEF IInv, TypeOK
<1>2. /\ depth[t][m] > 0 /\ hold[m] = depth[t][m] % HoldRange
      /\ value[m] # 1
    BY CallerAwake, MutexAssumption DEF IInv, MutexOK
<1>3. \A u \in Threads : u # t => /\ depth[u][m] % HoldRange = 0 /\ depth[u][m] < MaxNest
                                   /\ ~Granted(u, m)
    BY DEF IInv, MutexOK
<1> QED BY <1>1, <1>2, <1>3, MutexAssumption

(* The nesting of the owner goes up or down, and hold with it. *)
LEMMA NestInv ==
    ASSUME IInv, NEW t \in Threads, NEW m \in Mutexes, wait[t] = NoMutex, owner[m] = t,
           obj[m] # "gone", depth'[t][m] > 0, hold'[m] = depth'[t][m] % HoldRange,
           hold' \in [Mutexes -> 0..(HoldRange - 1)],
           \A n \in Mutexes : n # m => hold'[n] = hold[n],
           depth' \in [Threads -> [Mutexes -> 0..MaxNest]],
           \A u \in Threads, n \in Mutexes : u # t \/ n # m => depth'[u][n] = depth[u][n],
           \A u \in Threads : u # t => error'[u] = error[u],
           error' \in [Threads -> Errors],
           UNCHANGED <<stat, timer, current_priority, value, owner, original_priority,
                       suspend_thread, wait, objVars>>
    PROVE  IInv'
<1> USE DEF objVars
<1>0. value[m] = 0 /\ stat[t] = "READY"
    BY OwnerHolds, CallerAwake
<1> DEFINE d == depth'[t][m]
<1>1. /\ depth' \in [Threads -> [Mutexes -> 0..MaxNest]] /\ depth'[t][m] = d /\ d \in 1..MaxNest
      /\ \A u \in Threads, n \in Mutexes : u # t \/ n # m => depth'[u][n] = depth[u][n]
    BY MutexAssumption
<1> HIDE DEF d
<1>2. /\ hold' \in [Mutexes -> 0..(HoldRange - 1)] /\ hold'[m] = d % HoldRange
      /\ \A n \in Mutexes : n # m => hold'[n] = hold[n]
    BY DEF d
<1>3. TypeOK'
    BY <1>1, <1>2 DEF IInv, TypeOK, ThreadTypeOK
<1>4. \A u \in Threads : ThreadOK(u)'
    BY <1>0 DEF IInv, ThreadOK
<1>5. ASSUME NEW n \in Mutexes, n # m PROVE MutexOK(n)'
    <2>1. \A u \in Threads : wait[u] = n => error'[u] = error[u]
        BY MutexAssumption
    <2>2. \A u \in Threads : depth'[u][n] = depth[u][n]
        BY <1>1, <1>5
    <2>3. owner[n] \in Threads \cup {NoThread} /\ MutexOK(n)
        BY DEF IInv, TypeOK
    <2> QED BY <1>2, <1>5, <2>1, <2>2, <2>3, OtherMutex
<1>6. MutexOK(m)'
    <2>1. \A u \in Threads : (Sleeps(u, m)' <=> Sleeps(u, m)) /\ (Granted(u, m)' <=> Granted(u, m))
        BY MutexAssumption DEF Sleeps, Granted
    <2>2. ~Sleeps(t, m) /\ ~Granted(t, m)
        BY CallerAwake
    <2>3. \A u \in Threads : u # t => /\ depth'[u][m] % HoldRange = 0 /\ depth'[u][m] < MaxNest
                                       /\ ~Granted(u, m)
        BY <1>1, OwnerHolds
    <2> QED BY <1>0, <1>1, <1>2, <2>1, <2>2, <2>3, MutexAssumption DEF IInv, MutexOK
<1> QED BY <1>3, <1>4, <1>5, <1>6 DEF IInv

(* The mutex is taken once more by its owner. *)
LEMMA TakeAgainInv ==
    ASSUME IInv, NEW t \in Threads, NEW m \in Mutexes, wait[t] = NoMutex, obj[m] # "gone",
           TakeAgain(t, m), UNCHANGED objVars
    PROVE  IInv'
<1>1. /\ owner[m] = t /\ depth[t][m] < MaxNest
      /\ hold' = [hold EXCEPT ![m] = (hold[m] + 1) % HoldRange]
      /\ depth' = [depth EXCEPT ![t][m] = depth[t][m] + 1]
      /\ error' = [error EXCEPT ![t] = "EOK"]
      /\ UNCHANGED <<stat, timer, current_priority, value, owner, original_priority,
                     suspend_thread, wait>>
    BY DEF TakeAgain
<1>2. PICK d \in 1..MaxNest : d = depth[t][m] + 1
    BY <1>1, OwnerHolds, MutexAssumption
<1>3. /\ d \in 0..MaxNest /\ (hold[m] + 1) % HoldRange = d % HoldRange
      /\ d % HoldRange \in 0..(HoldRange - 1)
    <2>1. depth[t][m] \in Nat /\ hold[m] = depth[t][m] % HoldRange
        BY <1>1, OwnerHolds, MutexAssumption
    <2> QED BY <1>2, <2>1, HoldFollows
<1>4. error' \in [Threads -> Errors] /\ \A u \in Threads : u # t => error'[u] = error[u]
    BY <1>1 DEF IInv, TypeOK, ThreadTypeOK, Errors
<1>5. /\ hold' = [hold EXCEPT ![m] = d % HoldRange] /\ depth' = [depth EXCEPT ![t][m] = d]
      /\ owner[m] = t
    BY <1>1, <1>2, <1>3
<1>6. /\ depth' \in [Threads -> [Mutexes -> 0..MaxNest]] /\ depth'[t][m] = d
      /\ \A u \in Threads, n \in Mutexes : u # t \/ n # m => depth'[u][n] = depth[u][n]
    BY <1>3, <1>5, DepthUpdate DEF IInv, TypeOK
<1>7. UNCHANGED <<stat, timer, current_priority, value, owner, original_priority,
                  suspend_thread, wait, objVars>>
    BY <1>1
<1>8. /\ hold' \in [Mutexes -> 0..(HoldRange - 1)] /\ hold'[m] = depth'[t][m] % HoldRange
      /\ depth'[t][m] > 0 /\ \A n \in Mutexes : n # m => hold'[n] = hold[n]
    BY <1>3, <1>5, <1>6, MutexAssumption DEF IInv, TypeOK
<1> QED BY <1>4, <1>5, <1>6, <1>7, <1>8, NestInv

(* Not the last release of the owner. *)
LEMMA ReleaseInnerInv ==
    ASSUME IInv, NEW t \in Threads, NEW m \in Mutexes, wait[t] = NoMutex, obj[m] # "gone",
           ReleaseInner(t, m), UNCHANGED objVars
    PROVE  IInv'
<1>1. /\ owner[m] = t /\ (hold[m] - 1) % HoldRange # 0
      /\ hold' = [hold EXCEPT ![m] = (hold[m] - 1) % HoldRange]
      /\ depth' = [depth EXCEPT ![t][m] = depth[t][m] - 1]
      /\ UNCHANGED <<stat, error, timer, current_priority, value, owner, original_priority,
                     suspend_thread, wait>>
    BY DEF ReleaseInner, threadVars
<1>2. /\ depth[t][m] \in 1..MaxNest /\ (hold[m] - 1) % HoldRange = (depth[t][m] - 1) % HoldRange
      /\ (hold[m] - 1) % HoldRange \in 0..(HoldRange - 1)
    <2>1. depth[t][m] \in 1..MaxNest /\ depth[t][m] \in Nat /\ hold[m] = depth[t][m] % HoldRange
        BY <1>1, OwnerHolds, MutexAssumption
    <2> QED BY <2>1, HoldFollows
<1>3. PICK d \in 1..MaxNest : /\ d = depth[t][m] - 1 /\ d \in 0..MaxNest
                              /\ (hold[m] - 1) % HoldRange = d % HoldRange
                              /\ d % HoldRange \in 0..(HoldRange - 1)
    <2>1. depth[t][m] - 1 # 0
        BY <1>1, <1>2, ModSmall
    <2> QED BY <1>2, <2>1, MutexAssumption
<1>4. error' \in [Threads -> Errors] /\ \A u \in Threads : u # t => error'[u] = error[u]
    BY <1>1 DEF IInv, TypeOK, ThreadTypeOK
<1>5. /\ hold' = [hold EXCEPT ![m] = d % HoldRange] /\ depth' = [depth EXCEPT ![t][m] = d]
      /\ owner[m] = t
    BY <1>1, <1>2, <1>3
<1>6. /\ depth' \in [Threads -> [Mutexes -> 0..MaxNest]] /\ depth'[t][m] = d
      /\ \A u \in Threads, n \in Mutexes : u # t \/ n # m => depth'[u][n] = depth[u][n]
    BY <1>3, <1>5, DepthUpdate DEF IInv, TypeOK
<1>7. UNCHANGED <<stat, timer, current_priority, value, owner, original_priority,
                  suspend_thread, wait, objVars>>
    BY <1>1
<1>8. /\ hold' \in [Mutexes -> 0..(HoldRange - 1)] /\ hold'[m] = depth'[t][m] % HoldRange
      /\ depth'[t][m] > 0 /\ \A n \in Mutexes : n # m => hold'[n] = hold[n]
    BY <1>3, <1>5, <1>6, MutexAssumption DEF IInv, TypeOK
<1> QED BY <1>4, <1>5, <1>6, <1>7, <1>8, NestInv

(* A free mutex: nobody waits for it and nobody has it. *)
LEMMA FreeMutex ==
    ASSUME IInv, NEW m \in Mutexes, obj[m] # "gone", value[m] > 0 \/ owner[m] = NoThread
    PROVE  /\ value[m] = 1 /\ owner[m] = NoThread /\ hold[m] = 0
           /\ suspend_thread[m] = <<>> /\ obj[m] = "live"
           /\ \A u \in Threads : /\ depth[u][m] % HoldRange = 0 /\ depth[u][m] < MaxNest
                                  /\ ~Sleeps(u, m) /\ ~Granted(u, m)
<1>1. value[m] = 1 /\ owner[m] = NoThread
    BY DEF IInv, TypeOK, MutexOK
<1>2. \A u \in Threads : u # owner[m]
    BY <1>1, MutexAssumption
<1>3. hold[m] = 0 /\ suspend_thread[m] = <<>> /\ obj[m] = "live"
    BY <1>1 DEF IInv, MutexOK
<1>4. \A u \in Threads : /\ depth[u][m] % HoldRange = 0 /\ depth[u][m] < MaxNest
                          /\ ~Sleeps(u, m) /\ ~Granted(u, m)
    BY <1>2, <1>3, EmptyList DEF IInv, MutexOK
<1> QED BY <1>1, <1>2, <1>3, <1>4, MutexAssumption

(* A free mutex is taken. *)
LEMMA TakeFreeInv ==
    ASSUME IInv, NEW t \in Threads, NEW m \in Mutexes, wait[t] = NoMutex, obj[m] # "gone",
           TakeFree(t, m), UNCHANGED objVars
    PROVE  IInv'
<1>0. /\ value[m] = 1 /\ owner[m] = NoThread /\ hold[m] = 0
      /\ suspend_thread[m] = <<>> /\ obj[m] = "live"
      /\ \A u \in Threads : /\ depth[u][m] % HoldRange = 0 /\ depth[u][m] < MaxNest
                             /\ ~Sleeps(u, m) /\ ~Granted(u, m)
    BY FreeMutex DEF TakeFree
<1>a. (hold[m] + 1) % HoldRange = 1
    BY <1>0, ModSmall
<1>b. PICK d \in 1..MaxNest : d = depth[t][m] + 1 /\ d % HoldRange = 1
    <2>1. depth[t][m] \in Nat /\ depth[t][m] + 1 \in 1..MaxNest /\ 0 = depth[t][m] % HoldRange
        BY <1>0, MutexAssumption DEF IInv, TypeOK
    <2>2. (0 + 1) % HoldRange = (depth[t][m] + 1) % HoldRange
        BY <2>1, HoldFollows
    <2> QED BY <2>1, <2>2, ModSmall
<1>1. /\ value' = [value EXCEPT ![m] = 0] /\ owner' = [owner EXCEPT ![m] = t]
      /\ original_priority' = [original_priority EXCEPT ![m] = current_priority[t]]
      /\ hold' = [hold EXCEPT ![m] = 1] /\ depth' = [depth EXCEPT ![t][m] = d]
      /\ error' = [error EXCEPT ![t] = "EOK"]
      /\ UNCHANGED <<stat, timer, current_priority, suspend_thread, wait, obj, wild>>
    <2>1. value[m] - 1 = 0
        BY <1>0
    <2> QED BY <1>a, <1>b, <2>1 DEF TakeFree, objVars
<1>2. stat[t] = "READY"
    BY CallerAwake
<1>3. /\ depth' \in [Threads -> [Mutexes -> 0..MaxNest]] /\ depth'[t][m] = d
      /\ \A u \in Threads, n \in Mutexes : u # t \/ n # m => depth'[u][n] = depth[u][n]
    <2>1. d \in 0..MaxNest
        BY MutexAssumption
    <2> QED BY <1>1, <2>1, DepthUpdate DEF IInv, TypeOK
<1>4. /\ \A n \in Mutexes : n # m => /\ value'[n] = value[n] /\ owner'[n] = owner[n]
                                      /\ hold'[n] = hold[n]
      /\ value'[m] = 0 /\ owner'[m] = t /\ hold'[m] = 1
      /\ \A u \in Threads : u # t => error'[u] = error[u]
    BY <1>1 DEF IInv, TypeOK, ThreadTypeOK
<1>5. TypeOK'
    <2>1. ThreadTypeOK'
        BY <1>1 DEF IInv, TypeOK, ThreadTypeOK, Errors
    <2>2. value' \in [Mutexes -> 0..1] /\ hold' \in [Mutexes -> 0..(HoldRange - 1)]
        BY <1>1, MutexAssumption DEF IInv, TypeOK
    <2>3. owner' \in [Mutexes -> Threads \cup {NoThread}] /\ original_priority' \in [Mutexes -> Nat]
        BY <1>1 DEF IInv, TypeOK
    <2> QED BY <1>1, <1>3, <2>1, <2>2, <2>3 DEF IInv, TypeOK
<1>6. \A u \in Threads : ThreadOK(u)'
    BY <1>1, <1>2, <1>4 DEF IInv, ThreadOK
<1>7. ASSUME NEW n \in Mutexes, n # m PROVE MutexOK(n)'
    <2>1. \A u \in Threads : wait[u] = n => error'[u] = error[u]
        BY <1>4, MutexAssumption
    <2>2. \A u \in Threads : depth'[u][n] = depth[u][n]
        BY <1>3, <1>7
    <2>3. owner[n] \in Threads \cup {NoThread} /\ MutexOK(n)
        BY DEF IInv, TypeOK
    <2> QED BY <1>1, <1>4, <1>7, <2>1, <2>2, <2>3, OtherMutex
<1>8. MutexOK(m)'
    <2>1. \A u \in Threads : ~Sleeps(u, m)' /\ ~Granted(u, m)'
        BY <1>0, <1>1, <1>4, MutexAssumption DEF Sleeps, Granted
    <2>2. \A u \in Threads : u # t => depth'[u][m] % HoldRange = 0 /\ depth'[u][m] < MaxNest
        BY <1>0, <1>3
    <2>3. depth'[t][m] > 0 /\ hold'[m] = depth'[t][m] % HoldRange
        BY <1>b, <1>3, <1>4, MutexAssumption
    <2> QED BY <1>0, <1>1, <1>4, <2>1, <2>2, <2>3, EmptyList, MutexAssumption DEF MutexOK
<1> QED BY <1>5, <1>6, <1>7, <1>8 DEF IInv

(* A caller inherits its priority to the owner and goes to sleep. *)
LEMMA TakeBlockInv ==
    ASSUME IInv, NEW t \in Threads, NEW m \in Mutexes, NEW time, wait[t] = NoMutex,
           obj[m] = "live", TakeBlock(t, m, time), UNCHANGED objVars
    PROVE  /\ IInv' /\ owner[m] \in Threads
           /\ owner[m] # t
           /\ suspend_thread'[m] = SuspendList(suspend_thread[m], t, Flag, current_priority)
           /\ ToSet(suspend_thread'[m]) = ToSet(suspend_thread[m]) \cup {t}
           /\ current_priority' = IF current_priority[t] < current_priority[owner[m]]
                                  THEN [current_priority EXCEPT ![owner[m]] = current_priority[t]]
                                  ELSE current_priority
<1> DEFINE new == SuspendList(suspend_thread[m], t, Flag, current_priority)
<1>1. /\ owner[m] # t /\ value[m] = 0
      /\ current_priority' = IF current_priority[t] < current_priority[owner[m]]
                             THEN [current_priority EXCEPT ![owner[m]] = current_priority[t]]
                             ELSE current_priority
      /\ suspend_thread' = [suspend_thread EXCEPT ![m] = new]
      /\ stat' = [stat EXCEPT ![t] = "SUSPEND"] /\ error' = [error EXCEPT ![t] = "EOK"]
      /\ timer' = [timer EXCEPT ![t] = (time = "timed")]
      /\ wait' = [wait EXCEPT ![t] = m]
      /\ UNCHANGED <<value, owner, original_priority, hold, depth, obj, wild>>
    BY DEF TakeBlock, Inherit, Suspend, mutexVars, objVars
<1>2. owner[m] \in Threads
    BY <1>1 DEF IInv, TypeOK, MutexOK
<1>3. /\ stat[t] = "READY" /\ t \notin ToSet(suspend_thread[m])
      /\ depth[t][m] % HoldRange = 0 /\ depth[t][m] < MaxNest
    BY <1>1, CallerAwake DEF IInv, MutexOK
<1>4. /\ new \in Seq(Threads) /\ ToSet(new) = ToSet(suspend_thread[m]) \cup {t}
      /\ IsInjective(new)
    BY <1>3, SuspendListFacts DEF IInv, TypeOK, MutexOK
<1> HIDE DEF new
<1>5. /\ suspend_thread'[m] = new
      /\ \A n \in Mutexes : n # m => suspend_thread'[n] = suspend_thread[n]
      /\ \A u \in Threads : u # t => stat'[u] = stat[u] /\ error'[u] = error[u] /\ wait'[u] = wait[u]
                                     /\ timer'[u] = timer[u]
      /\ stat'[t] = "SUSPEND" /\ error'[t] = "EOK" /\ wait'[t] = m
    BY <1>1 DEF IInv, TypeOK, ThreadTypeOK
<1>6. TypeOK'
    <2>1. ThreadTypeOK'
        BY <1>1 DEF IInv, TypeOK, ThreadTypeOK, Errors
    <2>2. current_priority' \in [Threads -> Nat]
        BY <1>1, <1>2 DEF IInv, TypeOK
    <2>3. suspend_thread' \in [Mutexes -> Seq(Threads)] /\ wait' \in [Threads -> Mutexes \cup {NoMutex}]
        BY <1>1, <1>4 DEF IInv, TypeOK
    <2> QED BY <1>1, <2>1, <2>2, <2>3 DEF IInv, TypeOK
<1>7. \A u \in Threads : ThreadOK(u)'
    BY <1>5, MutexAssumption DEF IInv, ThreadOK
<1>8. ASSUME NEW n \in Mutexes, n # m PROVE MutexOK(n)'
    <2>1. \A u \in Threads : wait[u] = n \/ wait'[u] = n => u # t
        BY <1>5, <1>8, MutexAssumption
    <2>2. owner[n] \in Threads \cup {NoThread} /\ MutexOK(n)
        BY DEF IInv, TypeOK
    <2> QED BY <1>1, <1>5, <1>8, <2>1, <2>2, OtherMutex
<1>9. MutexOK(m)'
    <2>1. \A u \in Threads : u # t => (Sleeps(u, m)' <=> Sleeps(u, m)) /\ (Granted(u, m)' <=> Granted(u, m))
        BY <1>5 DEF Sleeps, Granted
    <2>2. Sleeps(t, m)' /\ ~Granted(t, m)'
        BY <1>5 DEF Sleeps, Granted
    <2> QED BY <1>1, <1>2, <1>3, <1>4, <1>5, <2>1, <2>2, MutexAssumption DEF IInv, MutexOK
<1>10. IInv'
    BY <1>6, <1>7, <1>8, <1>9 DEF IInv
<1> QED BY <1>1, <1>2, <1>4, <1>5, <1>10 DEF new

(* rt_mutex_take, whatever it does. *)
LEMMA TakeInv ==
    ASSUME IInv, NEW t \in Threads, NEW m \in Mutexes, NEW time \in Times, Take(t, m, time)
    PROVE  IInv'
<1>0. wait[t] = NoMutex /\ obj[m] = "live" /\ UNCHANGED objVars
    BY DEF Take, Live
<1>1. CASE TakeAgain(t, m)
    BY <1>0, <1>1, TakeAgainInv
<1>2. CASE TakeFree(t, m)
    BY <1>0, <1>2, TakeFreeInv
<1>3. CASE TakeNoWait(t, m, time)
    <2>1. "ETIMEOUT" \in Errors /\ error' = [error EXCEPT ![t] = "ETIMEOUT"]
        BY <1>3 DEF Errors, TakeNoWait
    <2>2. UNCHANGED <<stat, timer, current_priority, mutexVars, suspend_thread, wait, depth, objVars>>
        BY <1>0, <1>3 DEF TakeNoWait
    <2> QED BY <1>0, <2>1, <2>2, ErrorInv
<1>4. CASE TakeBlock(t, m, time)
    BY <1>0, <1>4, TakeBlockInv
<1> QED BY <1>1, <1>2, <1>3, <1>4 DEF Take

(* A resumed taker returns: it owns the mutex, or got an error. *)
LEMMA TakeReturnInv ==
    ASSUME IInv, NEW t \in Threads, TakeReturn(t)
    PROVE  IInv'
<1>0. wait[t] \in Mutexes
    BY DEF TakeReturn, IInv, TypeOK
<1>2. PICK m \in Mutexes : m = wait[t]
    BY <1>0
<1>1. /\ m # NoMutex /\ stat[t] = "READY" /\ wait' = [wait EXCEPT ![t] = NoMutex]
      /\ depth' = IF error[t] = "EOK" THEN [depth EXCEPT ![t][m] = depth[t][m] + 1] ELSE depth
      /\ UNCHANGED <<stat, error, timer, current_priority, value, owner, original_priority,
                     hold, suspend_thread, obj, wild>>
    BY <1>2, MutexAssumption DEF TakeReturn, threadVars, mutexVars, objVars
<1>3. /\ wait' \in [Threads -> Mutexes \cup {NoMutex}] /\ wait'[t] = NoMutex
      /\ \A u \in Threads : u # t => wait'[u] = wait[u]
    BY <1>1 DEF IInv, TypeOK
<1>4. wait[t] = m
    BY <1>2
<1>5. ASSUME error[t] = "EOK"
      PROVE  /\ depth' \in [Threads -> [Mutexes -> 0..MaxNest]]
             /\ depth'[t][m] > 0 /\ depth'[t][m] % HoldRange = 1
             /\ \A u \in Threads, n \in Mutexes : u # t \/ n # m => depth'[u][n] = depth[u][n]
             /\ owner[m] = t /\ hold[m] = 1 /\ obj[m] = "live" /\ value[m] = 0
             /\ Granted(t, m)
    <2>1. Granted(t, m)
        BY <1>1, <1>4, <1>5 DEF Granted
    <2>2. /\ owner[m] = t /\ hold[m] = 1 /\ obj[m] = "live"
          /\ depth[t][m] % HoldRange = 0 /\ depth[t][m] < MaxNest
        BY <1>2, <2>1 DEF IInv, MutexOK
    <2>3. value[m] = 0
        BY <1>2, <2>2, MutexAssumption DEF IInv, TypeOK, MutexOK
    <2>4. PICK d \in 0..MaxNest : d = depth[t][m] + 1 /\ d > 0 /\ d % HoldRange = 1
        <3>1. /\ depth[t][m] \in Nat /\ depth[t][m] + 1 \in 0..MaxNest /\ depth[t][m] + 1 > 0
              /\ 0 = depth[t][m] % HoldRange
            BY <2>2, MutexAssumption DEF IInv, TypeOK
        <3>2. (0 + 1) % HoldRange = (depth[t][m] + 1) % HoldRange
            BY <3>1, HoldFollows
        <3> QED BY <3>1, <3>2, ModSmall
    <2>5. depth' = [depth EXCEPT ![t][m] = d]
        BY <1>1, <1>5, <2>4
    <2>6. /\ depth' \in [Threads -> [Mutexes -> 0..MaxNest]] /\ depth'[t][m] = d
          /\ \A u \in Threads, n \in Mutexes : u # t \/ n # m => depth'[u][n] = depth[u][n]
        BY <1>2, <2>5, DepthUpdate DEF IInv, TypeOK
    <2> QED BY <2>1, <2>2, <2>3, <2>4, <2>6
<1>6. depth' \in [Threads -> [Mutexes -> 0..MaxNest]]
    BY <1>1, <1>5 DEF IInv, TypeOK
<1>7. \A u \in Threads, n \in Mutexes : u # t \/ n # m => depth'[u][n] = depth[u][n]
    BY <1>1, <1>5
<1>8. TypeOK'
    BY <1>1, <1>3, <1>6 DEF IInv, TypeOK, ThreadTypeOK
<1>9. \A u \in Threads : ThreadOK(u)'
    BY <1>1, <1>3 DEF IInv, ThreadOK
<1>10. ASSUME NEW n \in Mutexes, n # m PROVE MutexOK(n)'
    <2>1. \A u \in Threads : wait[u] = n \/ wait'[u] = n => u # t
        BY <1>3, <1>4, <1>10, MutexAssumption
    <2>2. owner[n] \in Threads \cup {NoThread} /\ MutexOK(n)
        BY DEF IInv, TypeOK
    <2>3. \A u \in Threads : depth'[u][n] = depth[u][n]
        BY <1>7, <1>10
    <2> QED BY <1>1, <1>3, <2>1, <2>2, <2>3, OtherMutex
<1>11. MutexOK(m)'
    <2>1. \A u \in Threads : u # t => (Sleeps(u, m)' <=> Sleeps(u, m)) /\ (Granted(u, m)' <=> Granted(u, m))
        BY <1>1, <1>3 DEF Sleeps, Granted
    <2>2. ~Sleeps(t, m)' /\ ~Granted(t, m)' /\ ~Sleeps(t, m)
        BY <1>1, <1>2, <1>3, MutexAssumption DEF Sleeps, Granted
    <2>3. MutexOK(m)
        BY <1>2 DEF IInv
    <2>4. CASE error[t] = "EOK"
        <3>1. \A u \in Threads : u # t => depth'[u][m] = depth[u][m] /\ ~Granted(u, m)
            BY <1>2, <1>5, <2>3, <2>4 DEF MutexOK
        <3> QED BY <1>1, <1>5, <2>1, <2>2, <2>3, <2>4, <3>1 DEF MutexOK
    <2>5. CASE error[t] # "EOK"
        <3>1. ~Granted(t, m) /\ depth' = depth
            BY <1>1, <2>5 DEF Granted
        <3>2. owner[m] # NoThread => owner[m] \in Threads
            BY <1>2 DEF IInv, TypeOK
        <3> QED BY <1>1, <2>1, <2>2, <2>3, <3>1, <3>2 DEF MutexOK
    <2> QED BY <2>4, <2>5
<1> QED BY <1>8, <1>9, <1>10, <1>11 DEF IInv

-----------------------------------------------------------------------------
(* The last release hands the mutex to the first waiter. *)
LEMMA HandOverInv ==
    ASSUME IInv, NEW t \in Threads, NEW m \in Mutexes, wait[t] = NoMutex, obj[m] = "live",
           ReleaseHandOver(t, m), UNCHANGED objVars
    PROVE  IInv'
<1>1. PICK h \in Threads, rest \in Seq(Threads) :
         /\ h = Head(suspend_thread[m]) /\ rest = Tail(suspend_thread[m])
         /\ h \in ToSet(suspend_thread[m]) /\ ToSet(rest) = ToSet(suspend_thread[m]) \ {h}
         /\ IsInjective(rest)
    BY TailList DEF ReleaseHandOver, IInv, TypeOK, MutexOK
<1>2. /\ owner[m] = t /\ (hold[m] - 1) % HoldRange = 0
      /\ current_priority' = [current_priority EXCEPT ![t] = original_priority[m]]
      /\ owner' = [owner EXCEPT ![m] = h]
      /\ original_priority' = [original_priority EXCEPT ![m] = current_priority[h]]
      /\ hold' = [hold EXCEPT ![m] = 1]
      /\ depth' = [depth EXCEPT ![t][m] = depth[t][m] - 1]
      /\ suspend_thread' = [suspend_thread EXCEPT ![m] = rest]
      /\ stat' = [stat EXCEPT ![h] = "READY"] /\ timer' = [timer EXCEPT ![h] = FALSE]
      /\ UNCHANGED <<error, value, wait, obj, wild>>
    BY <1>1 DEF ReleaseHandOver, Restore, Resume, objVars
<1>3. /\ hold[m] = depth[t][m] % HoldRange /\ value[m] = 0 /\ depth[t][m] \in 1..MaxNest
      /\ \A u \in Threads : u # t => /\ depth[u][m] % HoldRange = 0 /\ depth[u][m] < MaxNest
                                      /\ ~Granted(u, m)
    BY <1>2, OwnerHolds
<1>4. PICK d \in 0..MaxNest : d = depth[t][m] - 1 /\ d % HoldRange = 0 /\ d < MaxNest
    <2>1. depth[t][m] \in Nat /\ depth[t][m] - 1 \in 0..MaxNest /\ depth[t][m] - 1 < MaxNest
        BY <1>3, MutexAssumption
    <2>2. (hold[m] - 1) % HoldRange = (depth[t][m] - 1) % HoldRange
        BY <1>3, <2>1, HoldFollows
    <2> QED BY <1>2, <2>1, <2>2
<1>5. /\ depth' \in [Threads -> [Mutexes -> 0..MaxNest]] /\ depth'[t][m] = d
      /\ \A u \in Threads, n \in Mutexes : u # t \/ n # m => depth'[u][n] = depth[u][n]
    <2>1. depth' = [depth EXCEPT ![t][m] = d]
        BY <1>2, <1>4
    <2> QED BY <1>4, <2>1, DepthUpdate DEF IInv, TypeOK
<1>6. /\ stat[h] = "SUSPEND" /\ wait[h] = m /\ error[h] = "EOK" /\ h # t
    <2>1. Sleeps(h, m) /\ ~Sleeps(t, m)
        BY <1>1, CallerAwake DEF IInv, MutexOK
    <2>2. stat[h] = "SUSPEND" /\ wait[h] = m /\ h # t
        BY <2>1 DEF Sleeps
    <2> QED BY <2>2 DEF IInv, ThreadOK
<1>7. /\ \A n \in Mutexes : n # m => /\ owner'[n] = owner[n] /\ hold'[n] = hold[n]
                                      /\ suspend_thread'[n] = suspend_thread[n]
      /\ owner'[m] = h /\ hold'[m] = 1 /\ suspend_thread'[m] = rest
      /\ \A u \in Threads : u # h => stat'[u] = stat[u] /\ timer'[u] = timer[u]
      /\ stat'[h] = "READY" /\ timer'[h] = FALSE
    BY <1>2 DEF IInv, TypeOK, ThreadTypeOK
<1>8. TypeOK'
    <2>1. ThreadTypeOK'
        BY <1>2 DEF IInv, TypeOK, ThreadTypeOK
    <2>2. /\ hold' \in [Mutexes -> 0..(HoldRange - 1)]
          /\ suspend_thread' \in [Mutexes -> Seq(Threads)]
        BY <1>2, MutexAssumption DEF IInv, TypeOK
    <2>3. /\ owner' \in [Mutexes -> Threads \cup {NoThread}] /\ original_priority' \in [Mutexes -> Nat]
          /\ current_priority' \in [Threads -> Nat]
        BY <1>2 DEF IInv, TypeOK
    <2> QED BY <1>2, <1>5, <2>1, <2>2, <2>3 DEF IInv, TypeOK
<1>9. \A u \in Threads : ThreadOK(u)'
    BY <1>2, <1>7 DEF IInv, ThreadOK
<1>10. ASSUME NEW n \in Mutexes, n # m PROVE MutexOK(n)'
    <2>1. \A u \in Threads : wait[u] = n \/ wait'[u] = n => u # h
        BY <1>2, <1>6, <1>10
    <2>2. owner[n] \in Threads \cup {NoThread} /\ MutexOK(n)
        BY DEF IInv, TypeOK
    <2>3. \A u \in Threads : depth'[u][n] = depth[u][n]
        BY <1>5, <1>10
    <2> QED BY <1>2, <1>7, <1>10, <2>1, <2>2, <2>3, OtherMutex
<1>11. MutexOK(m)'
    <2>1. \A u \in Threads : u # h => (Sleeps(u, m)' <=> Sleeps(u, m)) /\ ~Granted(u, m)'
        BY <1>2, <1>3, <1>7, MutexAssumption DEF Sleeps, Granted
    <2>2. ~Sleeps(h, m)' /\ Granted(h, m)'
        BY <1>2, <1>6, <1>7 DEF Sleeps, Granted
    <2>3. MutexOK(m)
        BY DEF IInv
    <2>4. \A u \in Threads : depth'[u][m] % HoldRange = 0 /\ depth'[u][m] < MaxNest
        BY <1>3, <1>4, <1>5
    <2>5. \A u \in Threads : u \in ToSet(suspend_thread'[m]) <=> Sleeps(u, m)'
        BY <1>1, <1>7, <2>1, <2>2, <2>3 DEF MutexOK
    <2>6. IsInjective(suspend_thread'[m]) /\ obj'[m] = "live" /\ h # NoThread /\ value'[m] = 0
        BY <1>1, <1>2, <1>3, <1>7, MutexAssumption
    <2> QED BY <1>7, <2>1, <2>2, <2>4, <2>5, <2>6 DEF MutexOK
<1> QED BY <1>8, <1>9, <1>10, <1>11 DEF IInv

(* The last release without waiters. *)
LEMMA ReleaseFreeInv ==
    ASSUME IInv, NEW t \in Threads, NEW m \in Mutexes, wait[t] = NoMutex, obj[m] = "live",
           ReleaseFree(t, m), UNCHANGED objVars
    PROVE  IInv'
<1>2. /\ owner[m] = t /\ (hold[m] - 1) % HoldRange = 0 /\ suspend_thread[m] = <<>>
      /\ current_priority' = [current_priority EXCEPT ![t] = original_priority[m]]
      /\ owner' = [owner EXCEPT ![m] = NoThread]
      /\ original_priority' = [original_priority EXCEPT ![m] = NoPriority]
      /\ hold' = [hold EXCEPT ![m] = 0]
      /\ value' = [value EXCEPT ![m] = value[m] + 1]
      /\ depth' = [depth EXCEPT ![t][m] = depth[t][m] - 1]
      /\ UNCHANGED <<stat, error, timer, suspend_thread, wait, obj, wild>>
    BY DEF ReleaseFree, Restore, objVars, threadVars
<1>3. /\ hold[m] = depth[t][m] % HoldRange /\ value[m] = 0 /\ depth[t][m] \in 1..MaxNest
      /\ \A u \in Threads : u # t => /\ depth[u][m] % HoldRange = 0 /\ depth[u][m] < MaxNest
                                      /\ ~Granted(u, m)
    BY <1>2, OwnerHolds
<1>4. PICK d \in 0..MaxNest : d = depth[t][m] - 1 /\ d % HoldRange = 0 /\ d < MaxNest
    <2>1. depth[t][m] \in Nat /\ depth[t][m] - 1 \in 0..MaxNest /\ depth[t][m] - 1 < MaxNest
        BY <1>3, MutexAssumption
    <2>2. (hold[m] - 1) % HoldRange = (depth[t][m] - 1) % HoldRange
        BY <1>3, <2>1, HoldFollows
    <2> QED BY <1>2, <2>1, <2>2
<1>5. /\ depth' \in [Threads -> [Mutexes -> 0..MaxNest]] /\ depth'[t][m] = d
      /\ \A u \in Threads, n \in Mutexes : u # t \/ n # m => depth'[u][n] = depth[u][n]
    <2>1. depth' = [depth EXCEPT ![t][m] = d]
        BY <1>2, <1>4
    <2> QED BY <1>4, <2>1, DepthUpdate DEF IInv, TypeOK
<1>7. /\ \A n \in Mutexes : n # m => /\ owner'[n] = owner[n] /\ hold'[n] = hold[n]
                                      /\ value'[n] = value[n]
      /\ owner'[m] = NoThread /\ hold'[m] = 0 /\ value'[m] = 1
    BY <1>2, <1>3 DEF IInv, TypeOK, ThreadTypeOK
<1>8. TypeOK'
    <2>1. ThreadTypeOK'
        BY <1>2 DEF IInv, TypeOK, ThreadTypeOK
    <2>2. hold' \in [Mutexes -> 0..(HoldRange - 1)] /\ value' \in [Mutexes -> 0..1]
        BY <1>2, <1>3, MutexAssumption DEF IInv, TypeOK
    <2>3. /\ owner' \in [Mutexes -> Threads \cup {NoThread}] /\ original_priority' \in [Mutexes -> Nat]
          /\ current_priority' \in [Threads -> Nat]
        BY <1>2 DEF IInv, TypeOK, NoPriority
    <2> QED BY <1>2, <1>5, <2>1, <2>2, <2>3 DEF IInv, TypeOK
<1>9. \A u \in Threads : ThreadOK(u)'
    BY <1>2 DEF IInv, ThreadOK
<1>10. ASSUME NEW n \in Mutexes, n # m PROVE MutexOK(n)'
    <2>2. owner[n] \in Threads \cup {NoThread} /\ MutexOK(n)
        BY DEF IInv, TypeOK
    <2>3. \A u \in Threads : depth'[u][n] = depth[u][n]
        BY <1>5, <1>10
    <2> QED BY <1>2, <1>7, <1>10, <2>2, <2>3, OtherMutex
<1>11. MutexOK(m)'
    <2>1. \A u \in Threads : (Sleeps(u, m)' <=> Sleeps(u, m)) /\ ~Granted(u, m)'
        BY <1>2, <1>3, MutexAssumption DEF Sleeps, Granted
    <2>2. MutexOK(m)
        BY DEF IInv
    <2>3. \A u \in Threads : depth'[u][m] % HoldRange = 0 /\ depth'[u][m] < MaxNest
        BY <1>3, <1>4, <1>5
    <2> QED BY <1>2, <1>7, <2>1, <2>2, <2>3, MutexAssumption DEF MutexOK
<1> QED BY <1>8, <1>9, <1>10, <1>11 DEF IInv

(* rt_mutex_release, whatever it does. *)
LEMMA ReleaseInv ==
    ASSUME IInv, NEW t \in Threads, NEW m \in Mutexes, Release(t, m)
    PROVE  IInv'
<1>0. wait[t] = NoMutex /\ obj[m] = "live" /\ UNCHANGED objVars
    BY DEF Release, Live
<1>1. CASE ReleaseRefused(t, m)
    <2>1. "ERROR" \in Errors /\ error' = [error EXCEPT ![t] = "ERROR"]
        BY <1>1 DEF Errors, ReleaseRefused
    <2>2. UNCHANGED <<stat, timer, current_priority, mutexVars, suspend_thread, wait, depth, objVars>>
        BY <1>0, <1>1 DEF ReleaseRefused
    <2> QED BY <1>0, <2>1, <2>2, ErrorInv
<1>2. CASE ReleaseInner(t, m)
    BY <1>0, <1>2, ReleaseInnerInv
<1>3. CASE ReleaseHandOver(t, m)
    BY <1>0, <1>3, HandOverInv
<1>4. CASE ReleaseFree(t, m)
    BY <1>0, <1>4, ReleaseFreeInv
<1> QED BY <1>1, <1>2, <1>3, <1>4 DEF Release

-----------------------------------------------------------------------------
(* A sleeper of m is resumed with an error: by its timer or by a detach. *)
LEMMA WakeWithErrorInv ==
    ASSUME IInv, NEW h \in Threads, NEW m \in Mutexes, Sleeps(h, m),
           NEW list \in Seq(Threads), ToSet(list) = ToSet(suspend_thread[m]) \ {h},
           IsInjective(list), suspend_thread[m] = <<>> => list = <<>>,
           NEW err \in Errors \ {"EOK"},
           stat' = [stat EXCEPT ![h] = "READY"], timer' = [timer EXCEPT ![h] = FALSE],
           error' = [error EXCEPT ![h] = err],
           suspend_thread' = [suspend_thread EXCEPT ![m] = list],
           UNCHANGED <<current_priority, value, owner, original_priority, hold, wait, depth, wild>>,
           obj' \in [Mutexes -> {"live", "check", "resume", "remove", "gone"}],
           \A n \in Mutexes : obj'[n] # obj[n] => n = m /\ obj[m] = "resume" /\ obj'[m] = "check"
    PROVE  IInv'
<1>1. /\ suspend_thread'[m] = list
      /\ \A n \in Mutexes : n # m => suspend_thread'[n] = suspend_thread[n]
      /\ \A u \in Threads : u # h => stat'[u] = stat[u] /\ timer'[u] = timer[u] /\ error'[u] = error[u]
      /\ stat'[h] = "READY" /\ timer'[h] = FALSE /\ error'[h] # "EOK"
    BY DEF IInv, TypeOK, ThreadTypeOK
<1>2. TypeOK'
    <2>1. ThreadTypeOK'
        BY DEF IInv, TypeOK, ThreadTypeOK
    <2>2. suspend_thread' \in [Mutexes -> Seq(Threads)]
        BY DEF IInv, TypeOK
    <2> QED BY <2>1, <2>2 DEF IInv, TypeOK
<1>3. \A u \in Threads : ThreadOK(u)'
    BY <1>1 DEF IInv, ThreadOK
<1>4. ASSUME NEW n \in Mutexes, n # m PROVE MutexOK(n)'
    <2>1. \A u \in Threads : wait[u] = n => u # h
        BY <1>4 DEF Sleeps
    <2>2. owner[n] \in Threads \cup {NoThread} /\ MutexOK(n)
        BY DEF IInv, TypeOK
    <2> QED BY <1>1, <1>4, <2>1, <2>2, OtherMutex
<1>5. MutexOK(m)'
    <2>1. \A u \in Threads : u # h => (Sleeps(u, m)' <=> Sleeps(u, m)) /\ (Granted(u, m)' <=> Granted(u, m))
        BY <1>1 DEF Sleeps, Granted
    <2>2. ~Sleeps(h, m)' /\ ~Granted(h, m)' /\ ~Granted(h, m)
        BY <1>1 DEF Sleeps, Granted
    <2>3. MutexOK(m) /\ (owner[m] # NoThread => owner[m] \in Threads)
        BY DEF IInv, TypeOK
    <2>4. \A u \in Threads : u \in ToSet(list) <=> Sleeps(u, m)'
        BY <2>1, <2>2, <2>3 DEF MutexOK
    <2>5. obj'[m] = obj[m] \/ (obj[m] = "resume" /\ obj'[m] = "check")
        OBVIOUS
    <2> QED BY <1>1, <2>1, <2>2, <2>3, <2>4, <2>5 DEF MutexOK
<1> QED BY <1>2, <1>3, <1>4, <1>5 DEF IInv

(* The thread timer of a waiter expires. *)
LEMMA TimeoutInv ==
    ASSUME IInv, NEW t \in Threads, Timeout(t)
    PROVE  /\ IInv' /\ wait[t] \in Mutexes
           /\ suspend_thread' = [suspend_thread EXCEPT ![wait[t]] = ListRemove(suspend_thread[wait[t]], t)]
           /\ t \in ToSet(suspend_thread[wait[t]])
<1>0. timer[t] /\ stat[t] = "SUSPEND" /\ wait[t] \in Mutexes
    BY DEF Timeout, TimeoutThread, IInv, ThreadOK, TypeOK
<1>1. PICK m \in Mutexes : m = wait[t]
    BY <1>0
<1>2. Sleeps(t, m) /\ t \in ToSet(suspend_thread[m])
    BY <1>0, <1>1 DEF Sleeps, IInv, MutexOK
<1>3. PICK list \in Seq(Threads) :
         /\ list = ListRemove(suspend_thread[m], t)
         /\ ToSet(list) = ToSet(suspend_thread[m]) \ {t} /\ IsInjective(list)
         /\ suspend_thread[m] = <<>> => list = <<>>
    BY ListRemoveAny DEF IInv, TypeOK, MutexOK
<1>4. /\ stat' = [stat EXCEPT ![t] = "READY"] /\ timer' = [timer EXCEPT ![t] = FALSE]
      /\ error' = [error EXCEPT ![t] = "ETIMEOUT"]
      /\ suspend_thread' = [suspend_thread EXCEPT ![m] = list]
      /\ UNCHANGED <<current_priority, value, owner, original_priority, hold, wait, depth, obj, wild>>
    BY <1>1, <1>3 DEF Timeout, TimeoutThread, mutexVars, objVars
<1>5. "ETIMEOUT" \in Errors \ {"EOK"}
    BY DEF Errors
<1>6. obj' \in [Mutexes -> {"live", "check", "resume", "remove", "gone"}]
    BY <1>4 DEF IInv, TypeOK
<1>7. IInv'
    BY <1>2, <1>3, <1>4, <1>5, <1>6, WakeWithErrorInv
<1> QED BY <1>0, <1>1, <1>2, <1>3, <1>4, <1>7

(* A detach goes on without touching a thread or a list. *)
LEMMA DetachMoveInv ==
    ASSUME IInv, NEW m \in Mutexes,
           NEW to \in {"live", "check", "resume", "remove", "gone"},
           obj' = [obj EXCEPT ![m] = to],
           UNCHANGED <<threadVars, current_priority, mutexVars, suspend_thread, wait, wild>>,
           depth' \in [Threads -> [Mutexes -> 0..MaxNest]],
           \A u \in Threads, n \in Mutexes : n # m => depth'[u][n] = depth[u][n],
           MutexOK(m)'
    PROVE  IInv'
<1>0. UNCHANGED <<stat, error, timer, current_priority, value, owner, original_priority, hold,
                  suspend_thread, wait, wild>>
    BY DEF threadVars, mutexVars
<1>1. TypeOK'
    BY <1>0 DEF IInv, TypeOK, ThreadTypeOK
<1>2. \A u \in Threads : ThreadOK(u)'
    BY <1>0 DEF IInv, ThreadOK
<1>3. ASSUME NEW n \in Mutexes, n # m PROVE MutexOK(n)'
    <2>1. owner[n] \in Threads \cup {NoThread} /\ MutexOK(n) /\ obj'[n] = obj[n]
        BY <1>3 DEF IInv, TypeOK
    <2>2. \A u \in Threads : depth'[u][n] = depth[u][n]
        BY <1>3
    <2> QED BY <1>0, <2>1, <2>2, OtherMutex
<1> QED BY <1>1, <1>2, <1>3 DEF IInv

LEMMA DetachBeginInv ==
    ASSUME Careful, IInv, NEW t \in Threads, NEW m \in Mutexes, DetachBegin(t, m)
    PROVE  IInv'
<1>1. /\ obj[m] = "live" /\ obj' = [obj EXCEPT ![m] = "check"] /\ wait[t] = NoMutex /\ owner[m] = t
      /\ UNCHANGED <<threadVars, current_priority, mutexVars, suspend_thread, wait, wild>>
      /\ depth' = depth
    BY DEF DetachBegin, DetachStep
<1>2. depth[t][m] > 0 /\ \A u \in Threads : ~Granted(u, m)
    BY <1>1, OwnerHolds, CallerAwake
<1>3. \A u \in Threads : (Sleeps(u, m)' <=> Sleeps(u, m)) /\ (Granted(u, m)' <=> Granted(u, m))
    BY <1>1 DEF Sleeps, Granted, threadVars
<1>4. MutexOK(m)'
    <2>1. MutexOK(m) /\ obj'[m] = "check"
        BY <1>1 DEF IInv, TypeOK
    <2> QED BY <1>1, <1>2, <1>3, <2>1, MutexAssumption DEF MutexOK, mutexVars
<1>5. depth' \in [Threads -> [Mutexes -> 0..MaxNest]]
    BY <1>1 DEF IInv, TypeOK
<1> QED BY <1>1, <1>4, <1>5, DetachMoveInv

LEMMA DetachCheckInv ==
    ASSUME IInv, NEW m \in Mutexes, DetachCheck(m)
    PROVE  IInv'
<1>1. PICK to \in {"remove", "resume"} :
         /\ to = IF suspend_thread[m] = <<>> THEN "remove" ELSE "resume"
         /\ obj[m] = "check" /\ obj' = [obj EXCEPT ![m] = to]
    BY DEF DetachCheck, DetachStep
<1>2. /\ UNCHANGED <<threadVars, current_priority, mutexVars, suspend_thread, wait, wild>>
      /\ depth' = depth
    BY DEF DetachCheck
<1>3. \A u \in Threads : (Sleeps(u, m)' <=> Sleeps(u, m)) /\ (Granted(u, m)' <=> Granted(u, m))
    BY <1>2 DEF Sleeps, Granted, threadVars
<1>4. MutexOK(m)'
    <2>1. MutexOK(m) /\ obj'[m] = to /\ (owner[m] # NoThread => owner[m] \in Threads)
        BY <1>1 DEF IInv, TypeOK
    <2> QED BY <1>1, <1>2, <1>3, <2>1 DEF MutexOK, mutexVars
<1>5. depth' \in [Threads -> [Mutexes -> 0..MaxNest]]
    BY <1>2 DEF IInv, TypeOK
<1> QED BY <1>1, <1>2, <1>4, <1>5, DetachMoveInv

LEMMA DetachRemoveInv ==
    ASSUME IInv, NEW m \in Mutexes, DetachRemove(m)
    PROVE  IInv'
<1>1. /\ obj[m] = "remove" /\ obj' = [obj EXCEPT ![m] = "gone"]
      /\ UNCHANGED <<threadVars, current_priority, mutexVars, suspend_thread, wait, wild>>
      /\ depth' = [t \in Threads |-> [depth[t] EXCEPT ![m] = 0]]
    BY DEF DetachRemove, DetachStep
<1>2. /\ depth' \in [Threads -> [Mutexes -> 0..MaxNest]]
      /\ \A u \in Threads : depth'[u][m] = 0
      /\ \A u \in Threads, n \in Mutexes : n # m => depth'[u][n] = depth[u][n]
    BY <1>1, MutexAssumption DEF IInv, TypeOK
<1>3. \A u \in Threads : (Sleeps(u, m)' <=> Sleeps(u, m)) /\ (Granted(u, m)' <=> Granted(u, m))
    BY <1>1 DEF Sleeps, Granted, threadVars
<1>4. MutexOK(m)'
    <2>1. MutexOK(m) /\ obj'[m] = "gone"
        BY <1>1 DEF IInv, TypeOK
    <2>2. suspend_thread'[m] = suspend_thread[m]
        BY <1>1
    <2>3. \A u \in Threads : depth'[u][m] % HoldRange = 0 /\ depth'[u][m] < MaxNest
        BY <1>2, ModSmall, MutexAssumption
    <2> QED BY <1>1, <1>2, <1>3, <2>1, <2>2, <2>3 DEF MutexOK, mutexVars
<1> QED BY <1>1, <1>2, <1>4, DetachMoveInv

LEMMA DetachResumeInv ==
    ASSUME IInv, NEW m \in Mutexes, DetachResume(m)
    PROVE  IInv'
<1>1. /\ obj[m] = "resume" /\ obj' = [obj EXCEPT ![m] = "check"]
      /\ FlushFirst(suspend_thread[m])
      /\ suspend_thread' = [suspend_thread EXCEPT ![m] = Flushed(suspend_thread[m])]
      /\ UNCHANGED <<current_priority, value, owner, original_priority, hold, wait, depth>>
    BY DEF DetachResume, DetachStep, mutexVars
<1>2. /\ obj' \in [Mutexes -> {"live", "check", "resume", "remove", "gone"}]
      /\ obj'[m] = "check" /\ \A n \in Mutexes : n # m => obj'[n] = obj[n]
    BY <1>1 DEF IInv, TypeOK
<1>3. CASE suspend_thread[m] = <<>>
    <2>1. wild' = TRUE /\ UNCHANGED <<stat, error, timer>> /\ suspend_thread' = suspend_thread
        BY <1>1, <1>3 DEF FlushFirst, Flushed, threadVars, IInv, TypeOK
    <2>2. TypeOK'
        BY <1>1, <1>2, <2>1 DEF IInv, TypeOK, ThreadTypeOK
    <2>3. \A u \in Threads : ThreadOK(u)'
        BY <1>1, <2>1 DEF IInv, ThreadOK
    <2>4. ASSUME NEW n \in Mutexes PROVE MutexOK(n)'
        <3>1. \A u \in Threads : (Sleeps(u, n)' <=> Sleeps(u, n)) /\ (Granted(u, n)' <=> Granted(u, n))
            BY <1>1, <2>1 DEF Sleeps, Granted
        <3>2. MutexOK(n) /\ (owner[n] # NoThread => owner[n] \in Threads)
            BY DEF IInv, TypeOK
        <3>3. obj'[n] = obj[n] \/ (obj[n] = "resume" /\ obj'[n] = "check")
            BY <1>1, <1>2
        <3> QED BY <1>1, <2>1, <3>1, <3>2, <3>3 DEF MutexOK
    <2> QED BY <2>2, <2>3, <2>4 DEF IInv
<1>4. CASE suspend_thread[m] # <<>>
    <2>1. PICK h \in Threads, rest \in Seq(Threads) :
             /\ h = Head(suspend_thread[m]) /\ rest = Tail(suspend_thread[m])
             /\ h \in ToSet(suspend_thread[m]) /\ ToSet(rest) = ToSet(suspend_thread[m]) \ {h}
             /\ IsInjective(rest)
        BY <1>4, TailList DEF IInv, TypeOK, MutexOK
    <2>2. /\ stat' = [stat EXCEPT ![h] = "READY"] /\ timer' = [timer EXCEPT ![h] = FALSE]
          /\ error' = [error EXCEPT ![h] = "ERROR"] /\ wild' = wild
          /\ suspend_thread' = [suspend_thread EXCEPT ![m] = rest]
        BY <1>1, <1>4, <2>1 DEF FlushFirst, Flushed, ResumeWithError
    <2>3. Sleeps(h, m) /\ "ERROR" \in Errors \ {"EOK"}
        BY <2>1 DEF IInv, MutexOK, Errors
    <2>4. \A n \in Mutexes : obj'[n] # obj[n] => n = m /\ obj[m] = "resume" /\ obj'[m] = "check"
        BY <1>1, <1>2
    <2> QED BY <1>1, <1>2, <1>4, <2>1, <2>2, <2>3, <2>4, WakeWithErrorInv
<1> QED BY <1>3, <1>4

(* The mutex is initialised again. *)
LEMMA ReinitInv ==
    ASSUME IInv, NEW m \in Mutexes, Reinit(m)
    PROVE  IInv'
<1>1. /\ obj[m] = "gone" /\ obj' = [obj EXCEPT ![m] = "live"]
      /\ value' = [value EXCEPT ![m] = 1] /\ owner' = [owner EXCEPT ![m] = NoThread]
      /\ original_priority' = [original_priority EXCEPT ![m] = NoPriority]
      /\ hold' = [hold EXCEPT ![m] = 0]
      /\ suspend_thread' = [suspend_thread EXCEPT ![m] = <<>>]
      /\ UNCHANGED <<stat, error, timer, current_priority, wait, depth, wild>>
    BY DEF Reinit, DetachStep, threadVars
<1>2. /\ value'[m] = 1 /\ owner'[m] = NoThread /\ hold'[m] = 0 /\ obj'[m] = "live"
      /\ suspend_thread'[m] = <<>>
      /\ \A n \in Mutexes : n # m =>
            /\ value'[n] = value[n] /\ owner'[n] = owner[n] /\ hold'[n] = hold[n]
            /\ obj'[n] = obj[n] /\ suspend_thread'[n] = suspend_thread[n]
    BY <1>1 DEF IInv, TypeOK
<1>3. TypeOK'
    <2>1. /\ value' \in [Mutexes -> 0..1] /\ hold' \in [Mutexes -> 0..(HoldRange - 1)]
          /\ original_priority' \in [Mutexes -> Nat]
        BY <1>1, MutexAssumption DEF IInv, TypeOK, NoPriority
    <2>2. /\ owner' \in [Mutexes -> Threads \cup {NoThread}]
          /\ obj' \in [Mutexes -> {"live", "check", "resume", "remove", "gone"}]
          /\ suspend_thread' \in [Mutexes -> Seq(Threads)]
        BY <1>1, EmptyList DEF IInv, TypeOK
    <2> QED BY <1>1, <2>1, <2>2 DEF IInv, TypeOK, ThreadTypeOK
<1>4. \A u \in Threads : ThreadOK(u)'
    BY <1>1 DEF IInv, ThreadOK
<1>5. ASSUME NEW n \in Mutexes, n # m PROVE MutexOK(n)'
    <2>1. owner[n] \in Threads \cup {NoThread} /\ MutexOK(n)
        BY DEF IInv, TypeOK
    <2> QED BY <1>1, <1>2, <1>5, <2>1, OtherMutex
<1>6. MutexOK(m)'
    <2>1. \A u \in Threads : ~Sleeps(u, m) /\ ~Granted(u, m) /\ depth[u][m] = 0
        BY <1>1, EmptyList DEF IInv, MutexOK
    <2>2. \A u \in Threads : ~Sleeps(u, m)' /\ ~Granted(u, m)' /\ depth'[u][m] = 0
        BY <1>1, <2>1 DEF Sleeps, Granted
    <2>3. \A u \in Threads : depth'[u][m] % HoldRange = 0 /\ depth'[u][m] < MaxNest
        BY <2>2, ModSmall, MutexAssumption
    <2> QED BY <1>2, <2>2, <2>3, EmptyList, MutexAssumption DEF MutexOK
<1> QED BY <1>3, <1>4, <1>5, <1>6 DEF IInv

-----------------------------------------------------------------------------
LEMMA NextInv ==
    ASSUME Careful, IInv, [Next]_vars
    PROVE  IInv'
<1>1. CASE UNCHANGED vars
    <2>1. \A n \in Mutexes : MutexOK(n)'
        BY <1>1, OtherMutex DEF vars, IInv, TypeOK
    <2> QED BY <1>1, <2>1 DEF vars, IInv, TypeOK, ThreadTypeOK, ThreadOK
<1>2. CASE Next
    BY <1>2, TakeInv, TakeReturnInv, ReleaseInv, TimeoutInv, DetachBeginInv, DetachCheckInv,
       DetachResumeInv, DetachRemoveInv, ReinitInv DEF Next
<1> QED BY <1>1, <1>2

LEMMA Invariance ==
    ASSUME Careful
    PROVE  Spec => []IInv
<1>1. Init => IInv
    BY InitInv
<1>2. IInv /\ [Next]_vars => IInv'
    BY NextInv
<1> QED BY <1>1, <1>2, PTL DEF Spec

(* The lists, states and owners of rt_mutex_* agree in every reachable     *)
(* state: who sleeps is listed, threads wait only for a mutex with an      *)
(* owner that has it or is on its way to return with it.                   *)
THEOREM MutexConsistent ==
    ASSUME Careful
    PROVE  Spec => []Consistent
<1>1. IInv => Consistent
    <2> SUFFICES ASSUME IInv PROVE Consistent
        OBVIOUS
    <2>1. WaitersConsistent
        BY DEF IInv, ThreadOK, MutexOK, Sleeps, WaitersConsistent
    <2>2. ASSUME NEW m \in Mutexes, obj[m] # "gone", owner[m] # NoThread
          PROVE  \/ depth[owner[m]][m] > 0
                 \/ /\ wait[owner[m]] = m /\ stat[owner[m]] = "READY"
                    /\ error[owner[m]] = "EOK" /\ hold[m] = 1
        <3>1. owner[m] \in Threads /\ MutexOK(m)
            BY <2>2 DEF IInv, TypeOK
        <3> QED BY <2>2, <3>1 DEF MutexOK, Granted
    <2>3. OwnerAnswerable
        BY <2>2 DEF OwnerAnswerable, IInv, MutexOK
    <2> QED BY <2>1, <2>3 DEF Consistent, IInv
<1> QED BY <1>1, Invariance, PTL

(* Of all the threads that call rt_mutex_take, rt_mutex_release and        *)
(* rt_mutex_detach on any number of mutexes, at most one at a time has     *)
(* returned with a mutex, and hold counts its nested takes modulo its      *)
(* range; the only exception are threads that have nested a multiple of    *)
(* HoldRange more takes than releases, whose mutex the wrap may have freed.*)
THEOREM OneHolder ==
    ASSUME Careful
    PROVE  Spec => []MutualExclusion
<1>1. IInv => MutualExclusion
    <2> SUFFICES ASSUME IInv, NEW t \in Threads, NEW m \in Mutexes,
                        depth[t][m] % HoldRange # 0
                 PROVE  owner[m] = t /\ hold[m] = depth[t][m] % HoldRange /\ value[m] = 0
        BY DEF MutualExclusion
    <2>1. owner[m] = t /\ ~Granted(t, m) /\ obj[m] # "gone"
        BY ModSmall DEF IInv, MutexOK
    <2>2. hold[m] = depth[t][m] % HoldRange /\ value[m] # 1
        BY <2>1, MutexAssumption DEF IInv, MutexOK
    <2> QED BY <2>1, <2>2 DEF IInv, TypeOK
<1> QED BY <1>1, Invariance, PTL

-----------------------------------------------------------------------------
(* From here on there is one mutex: a thread that holds two may restore    *)
(* its priorities in the wrong order.                                      *)

(* The fields PriorityOK speaks of, as functions. *)
LEMMA PriorityTypes ==
    ASSUME IInv, NEW m \in Mutexes
    PROVE  /\ current_priority \in [Threads -> Nat] /\ original_priority \in [Mutexes -> Nat]
           /\ owner \in [Mutexes -> Threads \cup {NoThread}]
           /\ suspend_thread \in [Mutexes -> Seq(Threads)] /\ suspend_thread[m] \in Seq(Threads)
           /\ IsInjective(suspend_thread[m]) /\ ToSet(suspend_thread[m]) \subseteq Threads
           /\ owner[m] \notin ToSet(suspend_thread[m])
<1>1. /\ current_priority \in [Threads -> Nat] /\ original_priority \in [Mutexes -> Nat]
      /\ owner \in [Mutexes -> Threads \cup {NoThread}]
      /\ suspend_thread \in [Mutexes -> Seq(Threads)] /\ IsInjective(suspend_thread[m])
    BY DEF IInv, TypeOK, MutexOK
<1>2. ToSet(suspend_thread[m]) \subseteq Threads
    BY <1>1, ElementOfSeq, LenProperties DEF ToSet
<1>3. ASSUME owner[m] \in ToSet(suspend_thread[m]) PROVE FALSE
    <2>1. owner[m] \in Threads /\ MutexOK(m)
        BY <1>2, <1>3 DEF IInv
    <2> QED BY <1>3, <2>1 DEF MutexOK
<1> QED BY <1>1, <1>2, <1>3

LEMMA TakePriority ==
    ASSUME NEW m, Mutexes = {m}, IInv, PriorityOK(m), NEW t \in Threads, NEW time \in Times,
           Take(t, m, time)
    PROVE  PriorityOK(m)'
<1>0. wait[t] = NoMutex /\ obj[m] = "live" /\ UNCHANGED objVars /\ obj' = obj /\ m \in Mutexes
    BY DEF Take, Live, objVars
<1>1. CASE TakeAgain(t, m) \/ TakeNoWait(t, m, time)
    <2>1. UNCHANGED <<current_priority, owner, original_priority, suspend_thread>>
        BY <1>1 DEF TakeAgain, TakeNoWait, mutexVars
    <2> QED BY <1>0, <2>1 DEF PriorityOK
<1>2. CASE TakeFree(t, m)
    <2>1. /\ owner' = [owner EXCEPT ![m] = t] /\ suspend_thread' = suspend_thread
          /\ original_priority' = [original_priority EXCEPT ![m] = current_priority[t]]
          /\ current_priority' = current_priority
        BY <1>2 DEF TakeFree
    <2>2. owner[m] = NoThread /\ suspend_thread[m] = <<>>
        BY <1>0, <1>2, FreeMutex DEF TakeFree
    <2>3. owner'[m] = t /\ original_priority'[m] = current_priority[t]
        BY <1>0, <2>1, PriorityTypes
    <2>4. \A u \in Threads : current_priority[u] = Prio[u]
        BY <2>2, MutexAssumption DEF PriorityOK
    <2> QED BY <1>0, <2>1, <2>2, <2>3, <2>4, EmptyList DEF PriorityOK
<1>3. CASE TakeBlock(t, m, time)
    <2>1. PICK o \in Threads :
             /\ o = owner[m] /\ o # t
             /\ suspend_thread'[m] = SuspendList(suspend_thread[m], t, Flag, current_priority)
             /\ ToSet(suspend_thread'[m]) = ToSet(suspend_thread[m]) \cup {t}
             /\ current_priority' = IF current_priority[t] < current_priority[o]
                                    THEN [current_priority EXCEPT ![o] = current_priority[t]]
                                    ELSE current_priority
        BY <1>0, <1>3, TakeBlockInv
    <2>2. UNCHANGED <<owner, original_priority>>
        BY <1>3 DEF TakeBlock, mutexVars
    <2>3. /\ \A u \in Threads : u # o => current_priority'[u] = current_priority[u]
          /\ current_priority'[o] <= current_priority[t]
          /\ current_priority'[o] <= current_priority[o]
          /\ current_priority'[o] \in Nat
        BY <1>0, <2>1, PriorityTypes
    <2>4. ASSUME Flag = "PRIO"
          PROVE  /\ PriorityOrdered(suspend_thread'[m], current_priority')
                 /\ \A u \in ToSet(suspend_thread'[m]) : current_priority'[o] <= current_priority'[u]
        <3>1. PriorityOrdered(suspend_thread[m], current_priority)
            BY <2>4 DEF PriorityOK
        <3>2. PriorityOrdered(suspend_thread'[m], current_priority)
            <4>1. current_priority \in [Threads -> Nat] /\ suspend_thread[m] \in Seq(Threads)
                BY <1>0, PriorityTypes
            <4>2. Flag # "FIFO"
                BY <2>4
            <4> QED BY <2>1, <3>1, <4>1, <4>2, SuspendListFacts
        <3>3. \A u \in ToSet(suspend_thread'[m]) : u \in Threads /\ u # o
            BY <1>0, <2>1, PriorityTypes
        <3>4. \A u \in ToSet(suspend_thread'[m]) : current_priority[u] = current_priority'[u]
            BY <2>3, <3>3
        <3>5. PriorityOrdered(suspend_thread'[m], current_priority')
            BY <3>2, <3>4, OrderedAgree
        <3>6. ASSUME NEW u \in ToSet(suspend_thread[m])
              PROVE  current_priority'[o] <= current_priority[u]
            <4>1. current_priority[o] <= current_priority[u]
                BY <2>1, <2>4 DEF PriorityOK
            <4>2. u \in Threads /\ current_priority[u] \in Nat /\ current_priority[o] \in Nat
                BY <1>0, PriorityTypes
            <4> QED BY <2>3, <4>1, <4>2
        <3> QED BY <2>1, <2>3, <3>4, <3>5, <3>6
    <2>5. \A u \in Threads : u # o => current_priority'[u] = Prio[u]
        BY <2>1, <2>3 DEF PriorityOK
    <2> QED BY <1>0, <2>1, <2>2, <2>4, <2>5 DEF PriorityOK
<1> QED BY <1>1, <1>2, <1>3 DEF Take

LEMMA ReleasePriority ==
    ASSUME NEW m, Mutexes = {m}, IInv, PriorityOK(m), NEW t \in Threads, Release(t, m)
    PROVE  PriorityOK(m)'
<1>0. obj[m] = "live" /\ obj' = obj /\ m \in Mutexes
    BY DEF Release, Live, objVars
<1>1. CASE ReleaseRefused(t, m) \/ ReleaseInner(t, m)
    <2>1. UNCHANGED <<current_priority, owner, original_priority, suspend_thread>>
        BY <1>1 DEF ReleaseRefused, ReleaseInner, mutexVars
    <2> QED BY <1>0, <2>1 DEF PriorityOK
<1>2. CASE ReleaseFree(t, m)
    <2>1. /\ owner[m] = t /\ suspend_thread[m] = <<>> /\ suspend_thread' = suspend_thread
          /\ current_priority' = [current_priority EXCEPT ![t] = original_priority[m]]
          /\ owner' = [owner EXCEPT ![m] = NoThread]
        BY <1>2 DEF ReleaseFree, Restore
    <2>2. owner'[m] = NoThread
        BY <1>0, <2>1, PriorityTypes
    <2>3. original_priority[m] = Prio[t]
        BY <2>1, MutexAssumption DEF PriorityOK
    <2>4. \A u \in Threads : current_priority'[u] = Prio[u]
        BY <1>0, <2>1, <2>3, PriorityTypes DEF PriorityOK
    <2>5. ToSet(suspend_thread'[m]) = {} /\ PriorityOrdered(suspend_thread'[m], current_priority')
        BY <2>1, EmptyList DEF PriorityOrdered
    <2> QED BY <1>0, <2>2, <2>4, <2>5 DEF PriorityOK
<1>3. CASE ReleaseHandOver(t, m)
    <2>0. suspend_thread[m] # <<>> /\ owner[m] = t
        BY <1>3 DEF ReleaseHandOver
    <2>1. PICK h \in Threads, rest \in Seq(Threads) :
             /\ h = Head(suspend_thread[m]) /\ rest = Tail(suspend_thread[m])
             /\ h \in ToSet(suspend_thread[m]) /\ ToSet(rest) = ToSet(suspend_thread[m]) \ {h}
        BY <1>0, <2>0, TailList, PriorityTypes
    <2>2. /\ suspend_thread' = [suspend_thread EXCEPT ![m] = rest]
          /\ current_priority' = [current_priority EXCEPT ![t] = original_priority[m]]
          /\ owner' = [owner EXCEPT ![m] = h]
          /\ original_priority' = [original_priority EXCEPT ![m] = current_priority[h]]
        BY <1>3, <2>1 DEF ReleaseHandOver, Restore
    <2>3. owner'[m] = h /\ suspend_thread'[m] = rest /\ original_priority'[m] = current_priority[h]
        BY <1>0, <2>2, PriorityTypes
    <2>4. t \notin ToSet(suspend_thread[m]) /\ h # t
        BY <1>0, <2>0, <2>1, PriorityTypes
    <2>5. /\ \A u \in Threads : u # t => current_priority'[u] = current_priority[u]
          /\ current_priority'[t] = original_priority[m]
        BY <1>0, <2>2, PriorityTypes
    <2>6. \A u \in Threads : current_priority'[u] = Prio[u]
        BY <2>0, <2>5, MutexAssumption DEF PriorityOK
    <2>7. original_priority'[m] = Prio[h]
        BY <2>3, <2>4, <2>5, <2>6
    <2>8. ASSUME Flag = "PRIO"
          PROVE  /\ PriorityOrdered(rest, current_priority')
                 /\ \A u \in ToSet(rest) : current_priority'[h] <= current_priority'[u]
        <3>1. PriorityOrdered(suspend_thread[m], current_priority)
            BY <2>8 DEF PriorityOK
        <3>2. \A u \in ToSet(suspend_thread[m]) : u \in Threads /\ current_priority[u] = current_priority'[u]
            BY <1>0, <2>4, <2>5, PriorityTypes
        <3>3. PriorityOrdered(rest, current_priority)
            BY <1>0, <2>0, <2>1, <3>1, PriorityTypes, TailOrdered
        <3>4. PriorityOrdered(rest, current_priority')
            BY <2>1, <3>2, <3>3, OrderedAgree
        <3>5. \A u \in ToSet(suspend_thread[m]) : current_priority[h] <= current_priority[u]
            BY <1>0, <2>0, <2>1, <3>1, PriorityTypes, HeadFirst
        <3> QED BY <2>1, <3>2, <3>4, <3>5
    <2> QED BY <1>0, <2>3, <2>6, <2>7, <2>8 DEF PriorityOK
<1> QED BY <1>1, <1>2, <1>3 DEF Release

(* A list from which a thread is taken keeps its order. *)
LEMMA ShrinkPriority ==
    ASSUME NEW m, PriorityOK(m), UNCHANGED <<current_priority, owner, original_priority>>,
           ToSet(suspend_thread'[m]) \subseteq ToSet(suspend_thread[m]),
           PriorityOrdered(suspend_thread[m], current_priority) =>
               PriorityOrdered(suspend_thread'[m], current_priority),
           obj'[m] # "live" => obj[m] # "live"
    PROVE  PriorityOK(m)'
BY DEF PriorityOK

LEMMA NextPriority ==
    ASSUME Careful, NEW m, Mutexes = {m}, IInv, PriorityOK(m), [Next]_vars
    PROVE  PriorityOK(m)'
<1>0. m \in Mutexes /\ \A n \in Mutexes : n = m
    OBVIOUS
<1>1. CASE \E t \in Threads, time \in Times : Take(t, m, time)
    BY <1>1, TakePriority
<1>2. CASE \E t \in Threads : Release(t, m)
    BY <1>2, ReleasePriority
<1>3. CASE UNCHANGED vars \/ \E t \in Threads : TakeReturn(t)
    <2>1. UNCHANGED <<current_priority, owner, original_priority, suspend_thread, obj>>
        BY <1>3 DEF vars, TakeReturn, mutexVars, objVars
    <2> QED BY <2>1, ShrinkPriority
<1>4. ASSUME NEW t \in Threads, Timeout(t) PROVE PriorityOK(m)'
    <2>1. /\ t \in ToSet(suspend_thread[m])
          /\ suspend_thread' = [suspend_thread EXCEPT ![m] = ListRemove(suspend_thread[m], t)]
        BY <1>0, <1>4, TimeoutInv
    <2>2. suspend_thread'[m] = ListRemove(suspend_thread[m], t)
        BY <1>0, <2>1, PriorityTypes
    <2>3. UNCHANGED <<current_priority, owner, original_priority, obj>>
        BY <1>4 DEF Timeout, mutexVars, objVars
    <2>4. /\ ToSet(suspend_thread'[m]) \subseteq ToSet(suspend_thread[m])
          /\ PriorityOrdered(suspend_thread[m], current_priority) =>
                PriorityOrdered(suspend_thread'[m], current_priority)
        BY <1>0, <2>1, <2>2, PriorityTypes, ListRemoveFacts
    <2> QED BY <2>3, <2>4, ShrinkPriority
<1>5. ASSUME NEW t \in Threads, DetachBegin(t, m) PROVE PriorityOK(m)'
    <2>1. /\ owner[m] = t /\ current_priority[t] = original_priority[m]
          /\ UNCHANGED <<current_priority, owner, original_priority, suspend_thread>>
        BY <1>5 DEF DetachBegin, mutexVars
    <2> QED BY <2>1 DEF PriorityOK
<1>6. CASE DetachCheck(m) \/ DetachRemove(m)
    <2>1. /\ obj[m] # "live"
          /\ UNCHANGED <<current_priority, owner, original_priority, suspend_thread>>
        BY <1>6 DEF DetachCheck, DetachRemove, DetachStep, mutexVars
    <2> QED BY <2>1, ShrinkPriority
<1>7. CASE DetachResume(m)
    <2>1. /\ obj[m] # "live" /\ UNCHANGED <<current_priority, owner, original_priority>>
          /\ suspend_thread' = [suspend_thread EXCEPT ![m] = Flushed(suspend_thread[m])]
        BY <1>7 DEF DetachResume, DetachStep, mutexVars
    <2>2. suspend_thread'[m] = Flushed(suspend_thread[m])
        BY <1>0, <2>1, PriorityTypes
    <2>3. /\ ToSet(suspend_thread'[m]) \subseteq ToSet(suspend_thread[m])
          /\ PriorityOrdered(suspend_thread[m], current_priority) =>
                PriorityOrdered(suspend_thread'[m], current_priority)
        <3>1. CASE suspend_thread[m] = <<>>
            BY <2>2, <3>1 DEF Flushed
        <3>2. CASE suspend_thread[m] # <<>>
            <4>1. suspend_thread'[m] = Tail(suspend_thread[m])
                BY <2>2, <3>2 DEF Flushed
            <4>2. ToSet(Tail(suspend_thread[m])) \subseteq ToSet(suspend_thread[m])
                BY <1>0, <3>2, TailList, PriorityTypes
            <4>3. PriorityOrdered(suspend_thread[m], current_priority) =>
                     PriorityOrdered(Tail(suspend_thread[m]), current_priority)
                BY <1>0, <3>2, TailOrdered, PriorityTypes
            <4> QED BY <4>1, <4>2, <4>3
        <3> QED BY <3>1, <3>2
    <2> QED BY <2>1, <2>3, ShrinkPriority
<1>8. CASE Reinit(m)
    <2>1. /\ obj[m] = "gone" /\ obj'[m] = "live" /\ owner'[m] = NoThread
          /\ suspend_thread'[m] = <<>> /\ current_priority' = current_priority
        BY <1>0, <1>8, PriorityTypes DEF Reinit, DetachStep, IInv, TypeOK
    <2>2. \A u \in Threads : current_priority[u] = Prio[u]
        BY <2>1, MutexAssumption DEF PriorityOK
    <2> QED BY <2>1, <2>2, EmptyList DEF PriorityOK, PriorityOrdered
<1> QED BY <1>0, <1>1, <1>2, <1>3, <1>4, <1>5, <1>6, <1>7, <1>8 DEF Next

LEMMA PriorityInvariance ==
    ASSUME Careful, NEW m, Mutexes = {m}
    PROVE  Spec => [](IInv /\ PriorityOK(m))
<1>1. Init => IInv /\ PriorityOK(m)
    BY InitInv
<1>2. IInv /\ PriorityOK(m) /\ [Next]_vars => IInv' /\ PriorityOK(m)'
    BY NextInv, NextPriority
<1> QED BY <1>1, <1>2, PTL DEF Spec

(* Priority inheritance of a mutex that is alone: with RT_IPC_FLAG_PRIO    *)
(* nobody of higher priority than the owner ever waits, also after         *)
(* hand-overs, timeouts and while a detach flushes the list.               *)
THEOREM NoInversion ==
    ASSUME Careful, NEW m, Mutexes = {m}
    PROVE  Spec => []PriorityInherited
<1>1. PriorityOK(m) => PriorityInherited
    BY DEF PriorityOK, PriorityInherited
<1> QED BY <1>1, PriorityInvariance, PTL

(* A thread that owns no mutex runs at its own priority, however often it  *)
(* has inherited one.                                                      *)
THEOREM PriorityGivenBack ==
    ASSUME Careful, NEW m, Mutexes = {m}
    PROVE  Spec => []PriorityRestored
<1>1. PriorityOK(m) => PriorityRestored
    BY MutexAssumption DEF PriorityOK, PriorityRestored
<1> QED BY <1>1, PriorityInvariance, PTL
=============================================================================
