----------------------------- MODULE SerialPoll -----------------------------
(***************************************************************************)
(* How a thread waits for a serial line: poll() on one descriptor          *)
(* (components/dfs/src/poll.c), read() in its blocking form                *)
(* (components/drivers/serial/serial.c), the wait queue of the device      *)
(* (components/drivers/src/waitqueue.c) that the receive interrupt wakes,  *)
(* and the file-system lock that fd_get and fd_put take on the way         *)
(* (components/dfs/src/dfs.c).  select() is a conversion around poll().    *)
(*                                                                         *)
(* The ring is modelled in SerialFifo; here it is the number of bytes it   *)
(* holds.  Every poll asks for POLLIN, the only event of a serial device.  *)
(***************************************************************************)
EXTENDS ThreadCore, FiniteSets

CONSTANTS
    Pollers, Readers,   \* the threads that poll, and that read, the device
    FileUsers,          \* the threads that use other descriptors
    Kinds,              \* kinds of timeout given to poll
    Counts,             \* buffer sizes given to read
    MaxData,            \* bytes the ring keeps
    MayFail,            \* rt_malloc of a poll node may fail
    NoOne               \* RT_NULL as an owner

ASSUME PollAssumption ==
    /\ Pollers \cup Readers \cup FileUsers = Threads
    /\ Kinds \subseteq TimeKinds
    /\ Counts \subseteq Nat \ {0}
    /\ MaxData \in Nat \ {0}
    /\ MayFail \in BOOLEAN
    /\ NoOne \notin Threads

VARIABLES
    pc, op,         \* where a thread is, and in which call
    data,           \* bytes in the receive ring
    waiting_list,   \* wait_queue.waiting_list: whose node is linked
    flag,           \* wait_queue.flag = RT_WQ_FLAG_WAKEUP
    kind,           \* the timeout of the poll call
    triggered,      \* pt->triggered
    proc,           \* pt->req._proc # RT_NULL
    nodes,          \* pt->nodes # RT_NULL
    revents,        \* the mask of the last do_pollfd is not 0
    istimeout,      \* the local variable of poll_do
    fsowner,        \* fslock.owner
    fswait          \* fslock.parent.suspend_thread

pollVars == <<kind, triggered, proc, nodes, revents, istimeout>>
queueVars == <<waiting_list, flag>>
lockVars == <<fsowner, fswait>>
vars == <<stat, error, timer, pc, op, data, waiting_list, flag, kind, triggered,
          proc, nodes, revents, istimeout, fsowner, fswait>>

Init ==
    /\ ThreadInit
    /\ pc = [t \in Threads |-> "idle"]
    /\ op = [t \in Threads |-> "none"]
    /\ data = 0
    /\ waiting_list = <<>>
    /\ flag = FALSE
    /\ kind = [t \in Threads |-> "none"]
    /\ triggered = [t \in Threads |-> FALSE]
    /\ proc = [t \in Threads |-> FALSE]
    /\ nodes = [t \in Threads |-> FALSE]
    /\ revents = [t \in Threads |-> FALSE]
    /\ istimeout = [t \in Threads |-> FALSE]
    /\ fsowner = NoOne
    /\ fswait = <<>>

Goto(t, label) == pc' = [pc EXCEPT ![t] = label]

(* The thread runs: it is at label, and nobody has suspended it. *)
At(t, label) == pc[t] = label /\ stat[t] = "READY"

(* rt_thread_suspend by a waiter that leaves its error number alone. *)
SuspendFor(t, time) ==
    /\ stat' = [stat EXCEPT ![t] = "SUSPEND"]
    /\ timer' = [timer EXCEPT ![t] = (time = "timed")]
    /\ UNCHANGED error

-----------------------------------------------------------------------------
(* dfs_lock and dfs_unlock: a FIFO mutex, taken for ever.  The thread that *)
(* was suspended returns with thread->error, whoever resumed it.           *)
DfsLock(t, wait, inside) ==
    IF fsowner = NoOne
    THEN /\ fsowner' = t
         /\ error' = [error EXCEPT ![t] = "EOK"]
         /\ Goto(t, inside)
         /\ UNCHANGED <<stat, timer, fswait>>
    ELSE /\ fswait' = SuspendList(fswait, t, "FIFO", Prio)
         /\ Suspend(t, "forever")
         /\ Goto(t, wait)
         /\ UNCHANGED fsowner

(* rt_mutex_release refuses a thread that is not the owner. *)
DfsUnlock(t) ==
    CASE fsowner # t ->
            UNCHANGED <<threadVars, lockVars>>
      [] fsowner = t /\ fswait = <<>> ->
            fsowner' = NoOne /\ UNCHANGED <<threadVars, fswait>>
      [] OTHER ->
            /\ fsowner' = Head(fswait)
            /\ fswait' = Tail(fswait)
            /\ Resume(Head(fswait))

(* fd_get at the beginning of a call, or of a round of poll_do. *)
FdGet(t) ==
    /\ At(t, "get")
    /\ DfsLock(t, "get_wait", "get_in")
    /\ UNCHANGED <<op, data, queueVars, pollVars>>

FdGetLocked(t) ==
    /\ At(t, "get_wait")
    /\ Goto(t, "get_in")
    /\ UNCHANGED <<threadVars, op, data, queueVars, pollVars, lockVars>>

FdGetUnlock(t) ==
    /\ At(t, "get_in")
    /\ DfsUnlock(t)
    /\ Goto(t, CASE op[t] = "poll" -> "poll" [] op[t] = "read" -> "read" [] OTHER -> "put")
    /\ UNCHANGED <<op, data, queueVars, pollVars>>

FdPut(t) ==
    /\ At(t, "put")
    /\ DfsLock(t, "put_wait", "put_in")
    /\ UNCHANGED <<op, data, queueVars, pollVars>>

FdPutLocked(t) ==
    /\ At(t, "put_wait")
    /\ Goto(t, "put_in")
    /\ UNCHANGED <<threadVars, op, data, queueVars, pollVars, lockVars>>

FdPutUnlock(t) ==
    /\ At(t, "put_in")
    /\ DfsUnlock(t)
    /\ Goto(t, IF op[t] = "poll" THEN "wait" ELSE "idle")
    /\ op' = [op EXCEPT ![t] = IF op[t] = "poll" THEN "poll" ELSE "none"]
    /\ UNCHANGED <<data, queueVars, pollVars>>

-----------------------------------------------------------------------------
(* poll: poll_table_init and the beginning of poll_do. *)
Poll(t, time) ==
    /\ At(t, "idle")
    /\ t \in Pollers
    /\ Goto(t, "get")
    /\ op' = [op EXCEPT ![t] = "poll"]
    /\ kind' = [kind EXCEPT ![t] = time]
    /\ triggered' = [triggered EXCEPT ![t] = FALSE]
    /\ proc' = [proc EXCEPT ![t] = (time # "none")]
    /\ nodes' = [nodes EXCEPT ![t] = FALSE]
    /\ revents' = [revents EXCEPT ![t] = FALSE]
    /\ istimeout' = [istimeout EXCEPT ![t] = (time = "none")]
    /\ UNCHANGED <<threadVars, data, queueVars, lockVars>>

(* serial_fops_poll: first rt_poll_add, then the test of the ring. *)
PollAdd(t) ==
    /\ At(t, "poll")
    /\ Goto(t, "mask")
    /\ \/ /\ proc[t]
          /\ waiting_list' = Append(waiting_list, t)
          /\ nodes' = [nodes EXCEPT ![t] = TRUE]
       \/ /\ ~proc[t] \/ MayFail
          /\ UNCHANGED <<waiting_list, nodes>>
    /\ UNCHANGED <<threadVars, op, data, flag, kind, triggered, proc, revents,
                   istimeout, lockVars>>

(* The ring is tested, and poll_do clears req._proc after the first round. *)
PollMask(t) ==
    /\ At(t, "mask")
    /\ Goto(t, "put")
    /\ revents' = [revents EXCEPT ![t] = data > 0]
    /\ proc' = [proc EXCEPT ![t] = FALSE]
    /\ UNCHANGED <<threadVars, op, data, queueVars, kind, triggered, nodes,
                   istimeout, lockVars>>

(* Mutant of PollWait: a wakeup is taken for an answer. *)
PollWaitTrusting(t) ==
    /\ At(t, "wait")
    /\ IF revents[t] \/ istimeout[t] \/ triggered[t]
       THEN Goto(t, "teardown") /\ UNCHANGED threadVars
       ELSE Goto(t, "sleep") /\ SuspendFor(t, kind[t])
    /\ UNCHANGED <<op, data, queueVars, pollVars, lockVars>>

(* The end of a round of poll_do, and poll_wait_timeout up to rt_schedule. *)
PollWait(t) ==
    /\ At(t, "wait")
    /\ IF revents[t] \/ istimeout[t]
       THEN Goto(t, "teardown") /\ UNCHANGED threadVars
       ELSE IF triggered[t]
            THEN Goto(t, "get") /\ UNCHANGED threadVars
            ELSE Goto(t, "sleep") /\ SuspendFor(t, kind[t])
    /\ UNCHANGED <<op, data, queueVars, pollVars, lockVars>>

(* Mutant of PollWoken: the result of poll_wait_timeout is ignored. *)
PollWokenForgets(t) ==
    /\ At(t, "sleep")
    /\ Goto(t, "get")
    /\ UNCHANGED <<threadVars, op, data, queueVars, pollVars, lockVars>>

(* The sleeper is back in poll_wait_timeout. *)
PollWoken(t) ==
    /\ At(t, "sleep")
    /\ Goto(t, "get")
    /\ istimeout' = [istimeout EXCEPT ![t] = istimeout[t] \/ ~triggered[t]]
    /\ UNCHANGED <<threadVars, op, data, queueVars, kind, triggered, proc, nodes,
                   revents, lockVars>>

(* Mutant of PollTeardown: the node is freed but not unlinked. *)
PollTeardownLeaves(t) ==
    /\ At(t, "teardown")
    /\ Goto(t, "idle")
    /\ op' = [op EXCEPT ![t] = "none"]
    /\ nodes' = [nodes EXCEPT ![t] = FALSE]
    /\ UNCHANGED <<threadVars, data, queueVars, kind, triggered, proc, revents,
                   istimeout, lockVars>>

(* poll_teardown unlinks and frees the node, and poll returns. *)
PollTeardown(t) ==
    /\ At(t, "teardown")
    /\ Goto(t, "idle")
    /\ op' = [op EXCEPT ![t] = "none"]
    /\ nodes' = [nodes EXCEPT ![t] = FALSE]
    /\ waiting_list' = ListRemove(waiting_list, t)
    /\ UNCHANGED <<threadVars, data, flag, kind, triggered, proc, revents,
                   istimeout, lockVars>>

-----------------------------------------------------------------------------
(* read, and a call on another descriptor (which only passes the lock). *)
Read(t) ==
    /\ At(t, "idle")
    /\ t \in Readers
    /\ Goto(t, "get")
    /\ op' = [op EXCEPT ![t] = "read"]
    /\ UNCHANGED <<threadVars, data, queueVars, pollVars, lockVars>>

UseFile(t) ==
    /\ At(t, "idle")
    /\ t \in FileUsers
    /\ Goto(t, "get")
    /\ op' = [op EXCEPT ![t] = "file"]
    /\ UNCHANGED <<threadVars, data, queueVars, pollVars, lockVars>>

(* serial_fops_read: rt_device_read, and again after every wait.  A        *)
(* descriptor opened with O_NONBLOCK returns -EAGAIN instead of waiting.   *)
ReadData(t, n) ==
    /\ At(t, "read")
    /\ data > 0
    /\ data' = IF n > data THEN 0 ELSE data - n
    /\ Goto(t, "put")
    /\ UNCHANGED <<threadVars, op, queueVars, pollVars, lockVars>>

ReadNothing(t) ==
    /\ At(t, "read")
    /\ data = 0
    /\ Goto(t, "put") \/ Goto(t, "read_wait")
    /\ UNCHANGED <<threadVars, op, data, queueVars, pollVars, lockVars>>

(* Mutant of WqueueWait: the flag of an earlier wakeup is not tested. *)
WqueueWaitBlind(t) ==
    /\ At(t, "read_wait")
    /\ waiting_list' = Append(waiting_list, t)
    /\ SuspendFor(t, "forever")
    /\ Goto(t, "read_sleep")
    /\ UNCHANGED <<op, data, flag, pollVars, lockVars>>

(* rt_wqueue_wait(queue, 0, RT_WAITING_FOREVER). *)
WqueueWait(t) ==
    /\ At(t, "read_wait")
    /\ IF flag
       THEN /\ flag' = FALSE
            /\ Goto(t, "read")
            /\ UNCHANGED <<threadVars, waiting_list>>
       ELSE /\ waiting_list' = Append(waiting_list, t)
            /\ SuspendFor(t, "forever")
            /\ Goto(t, "read_sleep")
            /\ UNCHANGED flag
    /\ UNCHANGED <<op, data, pollVars, lockVars>>

WqueueWoken(t) ==
    /\ At(t, "read_sleep")
    /\ flag' = FALSE
    /\ waiting_list' = ListRemove(waiting_list, t)
    /\ Goto(t, "read")
    /\ UNCHANGED <<threadVars, op, data, pollVars, lockVars>>

-----------------------------------------------------------------------------
(* rt_wqueue_wakeup(POLLIN): the first node is unlinked and its thread     *)
(* resumed, in whatever list it sleeps; __wqueue_pollwake marks the table. *)
WqueueWakeup ==
    /\ flag' = TRUE
    /\ IF waiting_list = <<>>
       THEN UNCHANGED <<threadVars, waiting_list, triggered, fswait>>
       ELSE LET t == Head(waiting_list)
            IN  /\ triggered' = [triggered EXCEPT ![t] = (op[t] = "poll")]
                /\ waiting_list' = Tail(waiting_list)
                /\ IF stat[t] = "SUSPEND"
                   THEN Resume(t) /\ fswait' = ListRemove(fswait, t)
                   ELSE UNCHANGED <<threadVars, fswait>>

(* rt_hw_serial_isr: a byte into the ring, then serial_fops_rx_ind. *)
Isr ==
    /\ data' = IF data = MaxData THEN data ELSE data + 1
    /\ WqueueWakeup
    /\ UNCHANGED <<pc, op, kind, proc, nodes, revents, istimeout, fsowner>>

(* The thread timer of a sleeping poller expires. *)
Timeout(t) ==
    /\ TimeoutThread(t)
    /\ UNCHANGED <<pc, op, data, queueVars, pollVars, lockVars>>

-----------------------------------------------------------------------------
Step(t) ==
    \/ FdGet(t) \/ FdGetLocked(t) \/ FdGetUnlock(t)
    \/ FdPut(t) \/ FdPutLocked(t) \/ FdPutUnlock(t)
    \/ PollAdd(t) \/ PollMask(t) \/ PollWait(t) \/ PollWoken(t) \/ PollTeardown(t)
    \/ \E n \in Counts : ReadData(t, n)
    \/ ReadNothing(t)
    \/ WqueueWait(t) \/ WqueueWoken(t)

Next ==
    \/ \E t \in Threads : Step(t)
    \/ \E t \in Threads, time \in Kinds : Poll(t, time)
    \/ \E t \in Threads : Read(t)
    \/ \E t \in Threads : UseFile(t)
    \/ \E t \in Threads : Timeout(t)
    \/ Isr

Spec == Init /\ [][Next]_vars

(* Ready threads get the processor and the tick interrupt fires armed      *)
(* timers; the line may stay silent for ever.                              *)
FairSpec ==
    /\ Spec
    /\ \A t \in Threads : WF_vars(Step(t)) /\ WF_vars(Timeout(t))

-----------------------------------------------------------------------------
(* The fields of the descriptors, threads and wait queue keep to their ranges. *)
TypeOK ==
    /\ ThreadTypeOK
    /\ pc \in [Threads -> {"idle", "get", "get_wait", "get_in", "poll", "mask", "put",
                           "put_wait", "put_in", "wait", "sleep", "teardown",
                           "read", "read_wait", "read_sleep"}]
    /\ op \in [Threads -> {"none", "poll", "read", "file"}]
    /\ data \in 0..MaxData
    /\ waiting_list \in Seq(Threads) /\ IsInjective(waiting_list)
    /\ flag \in BOOLEAN
    /\ kind \in [Threads -> TimeKinds]
    /\ \A f \in {triggered, proc, nodes, revents, istimeout} : f \in [Threads -> BOOLEAN]
    /\ fsowner \in Threads \cup {NoOne}
    /\ fswait \in Seq(Threads) /\ IsInjective(fswait)

Asleep(t) == stat[t] = "SUSPEND" /\ pc[t] \in {"sleep", "read_sleep"}

(* A node lives on the stack of rt_wqueue_wait or in the heap of a poll    *)
(* call: none is linked whose call has returned, and no poller goes to     *)
(* sleep on a node that a wakeup has unlinked.                             *)
LinkedNodesLive ==
    \A t \in Threads :
        /\ t \in ToSet(waiting_list) =>
               (op[t] = "poll" /\ nodes[t]) \/ pc[t] = "read_sleep"
        /\ Asleep(t) /\ (op[t] = "poll" => nodes[t]) => t \in ToSet(waiting_list)

(* "Fix the wait queue issue when wakeup a soon to blocked thread": nobody *)
(* sleeps beside received bytes unless another call on the device is under *)
(* way and awake.  (A poll without a node sleeps until its timeout.)       *)
NoLostWakeup ==
    \A t \in Threads :
        Asleep(t) /\ data > 0 /\ (op[t] = "poll" => nodes[t]) =>
            \E u \in Threads : op[u] \in {"poll", "read"} /\ ~Asleep(u)

(* rt_mutex_take: "the mutex is taken successfully", so the thread in a    *)
(* critical section of the file system is the owner of its lock.           *)
FsLockHeld ==
    \A t \in Threads : pc[t] \in {"get_in", "put_in"} => fsowner = t

(* A poll with a timeout returns, also when rt_malloc failed for its node, *)
(* when the answer races the timeout, and when the line stays silent.      *)
TimedPollReturns ==
    \A t \in Threads : (op[t] = "poll" /\ kind[t] # "forever") ~> (op[t] # "poll")

(* A poll answers "ready" only with a byte in the ring, which a sole       *)
(* reader then finds there.                                                *)
PollTellsTruth ==
    [][\A t \in Threads :
         PollTeardown(t) /\ (Pollers \cup Readers = {t}) =>
             (revents[t] => data > 0) /\ (~revents[t] => istimeout[t])]_vars

(* Wait queue, nodes and sleepers always agree, whoever is woken, times    *)
(* out or gives up.                                                        *)
Consistent ==
    /\ TypeOK
    /\ LinkedNodesLive
=============================================================================
