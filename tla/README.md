# TLA+ verification of the RT-Thread kernel services behind the wareship Modbus node

The repository is the firmware of a board (STM32, one Cortex-M core) that talks Modbus
on a serial line: an application in `applications/`, the RT-Thread kernel in
`rt-thread/src/`, its device and file-system layers in `rt-thread/components/`, and
vendor libraries. The Modbus and MQTT libraries themselves are packages that are not
part of the repository. What makes the node work or hang is the code that decides who
sleeps, who is woken, who runs and who owns what: the scheduler, inter-process
communication, timers, memory, and the path of a received byte from the interrupt to a thread that waits in `poll()`.
That is what this project models.

Paths below are relative to the repository root. Every definition that models code is
listed with its file and lines under `map` in `PROJECT.json`.

## 1. Inventory

| Component | State | Operations | What makes it correct |
|---|---|---|---|
| Thread blocking core (`rt-thread/src/thread.c`, `ipc.c:60-190`) | state, error number and timer of a thread; suspend lists | `rt_thread_suspend`, `rt_thread_resume`, `rt_thread_timeout`, `rt_ipc_list_suspend/resume/resume_all` | a suspended thread is in exactly one list, a running timer belongs to a suspended thread |
| Semaphore (`ipc.c:198-510`) | 16-bit value, suspend list | init, create, take, trytake, release, reset, detach, delete | tokens are conserved, nobody sleeps beside a token, a detached object has no sleepers |
| Mutex (`ipc.c:527-897`) | value, owner, hold count, saved priority, list | init, take, release, detach, delete | exclusion, hand-over, priority inheritance and its end |
| Event set (`ipc.c:912-1275`) | bit set, list, what each waiter asked for | init, send, recv, reset, detach, delete | one walk over the list misses nobody; a cleared bit is consumed once |
| Mailbox (`ipc.c:1291-1760`) | ring of words, receivers' and senders' lists | init, send, send_wait, recv, reset, detach, delete | bounded FIFO; no wasted wakeup |
| Message queue (`ipc.c:1778-2325`) | linked nodes, free list, receivers' list | init, send, urgent, recv, reset, detach, delete | bounded FIFO with an urgent lane; no node lost, although copies are made outside the critical sections |
| Memory pool (`mempool.c`) | free list, counters, list of waiters | init, alloc, free, detach, ... | blocks conserved, no sleeper beside a free block |
| Timer and tick (`timer.c`, `clock.c`) | sorted list of deadlines, flags, 32-bit tick | create, start, stop, control, delete, check in the tick interrupt, timeout functions | neither early nor late across the wrap of the tick; flag and list agree |
| Serial device (`components/drivers/serial/serial.c`, `rt-thread/src/device.c`, `drivers/src/completion.c`, `dataqueue.c`, `libraries/HAL_Drivers/drv_usart.c`) | receive ring with two indices and full flag, DMA position, completion, data queue, open flags and count | open, close, interrupt and DMA receive, read, flush, FIONREAD, interrupt and DMA transmit | newest bytes kept and read in order; the driver's tests of the ring agree; what is written goes out once, in order, and the write returns; no structure outlives the last close |
| poll, wait queue, file lock (`components/dfs/src/poll.c`, `select.c`, `dfs.c`, `drivers/src/waitqueue.c`) | poll table, nodes, wait queue, file-system mutex | `poll`, blocking `read`, wakeup by the receive interrupt, `fd_get`, `fd_put` | no byte arrives unnoticed before a sleep; timed polls end; the lock has one holder |
| Small-memory heap (`mem.c`) | block headers, `lfree`, statistics | `rt_malloc`, `rt_free`, `rt_realloc` | list linked both ways, no two holes in a row, blocks kept by their owners |
| Scheduler and thread life cycle (`scheduler.c`, `thread.c`, `idle.c`, `clock.c:74`) | ready table, bitmap, current thread, lock nesting, time slices, defunct list | create, startup, suspend, resume, sleep, yield, priority change, delete, detach, exit, lock, tick, reaping | bitmap, lists and thread states agree; the highest ready thread runs; the dead stay dead and are freed once; round robin |
| Objects and devices (`object.c`, `device.c`) | lists by class | | not modelled: each operation is one critical section on a list searched by name |
| Work queue, pipe, ring buffers (`components/drivers/src`) | | | not modelled: unused by the application and the drivers of this board |
| Descriptor and mount tables (`components/dfs/src`) | | | not modelled: path handling; the lock and reference count of a descriptor are in `SerialPoll` |
| Application, kernel services, peripheral drivers | | | not modelled: sequential code around libraries that are not in the repository, string routines, and register access |

How they interact: a service blocks a thread by linking it into the object's suspend
list and starting its thread timer; it is resumed by a release, by `rt_thread_timeout`
from the tick interrupt, or by a reset or detach of the object. The thread timer is a
hard timer of `timer.c`. The serial interrupt writes the ring and calls
`rt_wqueue_wakeup`, which resumes a thread that polls or reads; the same thread may at
that moment be blocked in the mutex of the file system. The heap is protected by a
semaphore.

What is hard: the critical sections are short and there are many per call, so that
threads and interrupts interleave between them; a wakeup and a timeout race; a resumed
thread finds that a newcomer took what it was woken for; counters wrap; a call acts on
what it read before it enabled interrupts. `hazards` in `PROJECT.json` lists 40 such
places with their lines and the properties that watch them.

## 2. The model of concurrency

The kernel runs on one core. A section between `rt_hw_interrupt_disable` and
`rt_hw_interrupt_enable` is one TLA+ step; so is code in an interrupt handler, except
the loop of `rt_timer_check`, where each turn is a step because timeout functions run
in it. Between two such sections anything may happen that a preemptive scheduler with
interrupts can produce; priorities only matter where the code looks at them. A section
that the code leaves open for interrupts, such as `_tc_flush` or the wake-all loop of
`rt_ipc_list_resume_all`, is split into the steps it really has.

Data are reduced to what the properties distinguish: messages are model values, event
bits are elements of a set, a waiting time is one of `"none"` (0), `"timed"` (a number
of ticks) and `"forever"`, and a byte is its arrival number. `"READY"` stands for ready
and running. History variables (`owed`, `depth`, `wanted`, `due`, `arrived`, `reported`, `lost`,
`written`, `started`, `transfers`, `cut`, `lazy`, `stale`) record what properties speak of; they guard
nothing but the bounds and the restrictions of section 6.

Undefined behaviour is recorded and not continued: `wild` becomes true when
`rt_thread_resume` is given the head of an empty list as if it were a thread, and no
step of the object follows.

## 3. Modules

| Module | Stands for | Notes |
|---|---|---|
| `ThreadLists` | `rt_ipc_list_suspend` and `rt_list_remove` as operators on a sequence of threads | extended by `ThreadCore` and `Scheduler` |
| `ThreadCore` | thread state, error and timer of blocked threads; `SuspendLists`, the places where a thread may be linked when the current priorities of the others are not known | extended by every blocking service |
| `IpcObject` | the end of an IPC object: flushing its lists, giving it up | extended by `Event`, `Mailbox`, `MessageQueue`; `Mutex` has the same steps for each of its mutexes |
| `Scheduler` | `scheduler.c`, `rt_thread_*`, `rt_tick_increase`, `rt_thread_idle_excute` | one processor: thread code is a step of `current`, interrupts come at any time; calls that read `stat` before they disable interrupts, or disable them several times, are split there |
| `Semaphore` | `rt_sem_*` | `Take` (three outcomes), `TakeReturn`, `Release`, `Timeout`, `Reset`, the four steps of detach, `Reinit`; `ChangePriority` changes `current_priority` of any thread at any time, and like the code moves nobody in the list |
| `Mailbox` | `rt_mb_*` | first attempt, retry loop with the remaining time, error return, reset, flush of receivers and then senders. Here, in `MessageQueue` and in `Event` a thread is linked where any current priorities could put it (`SuspendLists`): no property of theirs depends on the order |
| `MessageQueue` | `rt_mq_*` | `SendAlloc`, `SendCopy`, `SendLink` and `Recv`, `RecvCopy`, `RecvFree` are separate steps, as in the code; `Chain` follows the `next` pointers of a list |
| `BoundedFifo` | abstract specification of the two queues | instantiated by both with a refinement mapping |
| `Mutex` | `rt_mutex_*` | a set of mutexes, recursion, inheritance; `hold` wraps. Priorities change by inheritance and its end only: `ipc.c` has the only calls of `rt_thread_control` with `RT_THREAD_CTRL_CHANGE_PRIORITY` that are compiled in (the CMSIS and LWP layers are not) |
| `Event` | `rt_event_*` | the walk of `rt_event_send` is one critical section, hence one step: a recursive function over the places of the list |
| `MemPool` | `rt_mp_*` | list and counter of waiters kept apart, as in the code |
| `Timer` | `rt_timer_*`, `rt_tick_increase` | start and stop in their critical sections, flag byte loaded and stored separately, delete and create; zero ticks are a value like any other |
| `SerialFifo` | the receive ring: `rt_hw_serial_isr`, `_serial_int_rx`, `_serial_dma_rx`, `rt_dma_recv_update_put_index`, `_tc_flush`, the reports of `drv_usart.c` | the flush assignment by assignment; the DMA channel writes cells that the driver learns of later |
| `SerialTx` | `_serial_int_tx` with `rt_completion_*`, `_serial_dma_tx` with `rt_data_queue_*`, the two transmit events | the transmitter is external: it takes one datum and reports its end |
| `Serial` | `rt_device_open/close`, `rt_serial_open/close` | composes the two; close step by step, in the order each mode has |
| `SerialPoll` | `poll`, `rt_wqueue_wait`, `rt_wqueue_wakeup`, `fd_get`, `fd_put` | composes the thread core, the wait queue, the poll table and the file-system mutex; the ring is its byte count |
| `SmallHeap` | `rt_malloc`, `rt_free`, `rt_realloc` | the semaphore makes a call one step, a moving `rt_realloc` is two |
| `ListProofs` | lemmas on `ThreadLists`, cardinalities and induction up to a number | proofs only, used by all the others |
| `SemaphoreProofs`, `MailboxProofs`, `MessageQueueProofs`, `MutexProofs`, `EventProofs`, `MemPoolProofs`, `SchedulerProofs` | the theorems about these services and the scheduler | proofs only, each extends its module |
| `MC*` | the small instances for TLC | |

Definitions whose comment begins with "Mutant of" model no code. Each is a plausible
mistake in the definition it is named after, and `mutants` in `PROJECT.json` says which
property TLC finds violated when it takes that definition's place: the properties are
sensitive to the code they are about.

## 4. Runs

Every run takes at most two or three minutes with two workers. States are distinct
states.

| Run | Instance | States | Properties |
|---|---|---|---|
| `SemSafe` | 3 threads on 2 priorities, which change at any time, priority order, 4-valued counter, resets to 0, 1 and 3, detach, all waiting times | 78 000 | `Consistent`, `NoTokenWithWaiters`, `TokenConservation`, `AllWokenByDetach`, `TakeReturns` |
| `MbSafe` | 2 senders, 2 receivers, interrupt-level sends, 2 words, 2 values, detach, any place in the list | 182 000 | `Consistent`, `NoWakeupWasted`, `IsFifo` |
| `MutexSafe` | 3 threads of different priorities, 1 mutex, `hold` modulo 4, up to 9 takes at once, detach | 38 600 | `Consistent`, `MutualExclusion`, `PriorityInherited`, `PriorityRestored` |
| `EventSafe` | 3 threads, 2 bits, all options, detach, any place in the list | 162 000 | `Consistent`, `NoSatisfiedSleeper`, `ReceivedWhatWasWanted`, `ClearedBitsConsumedOnce` |
| `MqSafe` | 2 senders, 2 receivers, 2 nodes, 2 values, urgent sends, detach, any place in the list | 52 000 | `Consistent`, `NoMessageWasted`, `IsFifo` |
| `MpSafe` | 3 threads, 2 blocks, detach | 7 073 | `Consistent`, `NoBlockWasted` |
| `TimerSafe` | 3 timers, tick modulo 10, all start values of the tick, times of 0 and 2 ticks, delete and create | 1 650 000 | `Consistent`, `OnTime`, `CheckProgresses` |
| `SerialSafe` | ring of 4 cells, 9 bytes and 8 writes per session, queue of 3 with low water mark 1, 4 modes, 2 descriptors | 383 000 | `Consistent`, `NewestKept`, `ReadsInOrder`, `TxInOrder`, `WriteReturns` |
| `PollSafe` | one thread polls and reads, another uses files, `rt_malloc` may fail | 9 268 | `Consistent`, `NoLostWakeup`, `PollTellsTruth`, `TimedPollReturns` |
| `HeapSafe` | 24 units, header 3, minimal block 3, requests of 1, 4, 7 and 12 | 167 000 | `Consistent`, `OwnedIntact`, `LfreeLowest` |
| `SchedSafe` | idle, two threads of the highest priority, one of which manages a worker; slices of 1 and 2 ticks; lock nesting to 2 | 207 000 | `Consistent`, `HighestRuns`, `DeadStayDead`, `TurnComes` |
| `PollLock` | as `PollSafe` without failing allocations | violated | `FsLockHeld` |

`Consistent` is in each module the type invariant together with the structural
invariant of its data (lists against thread states, ring indices against the count,
head against tail, links in both directions, order of the list), conservation of
blocks, nodes and statistics where there are any, and for IPC objects that nobody is
left in the list of an object that is gone.

### What they show, service by service

* **Semaphore.** A release with a waiter does not touch `value`; it resumes the waiter
  with `RT_EOK`. `owed` counts tokens independently of that, and `TokenConservation`
  says that every token is in `value` or with a resumed thread, whatever timeout, reset
  or detach falls between the hand-over and the return. The wrap of the 16-bit counter,
  which `rt_sem_release` does not test for, is modelled and accounted for in `owed`.
  Priorities change at any time, also of threads in the list, which nobody sorts again:
  `Consistent` says that the list is in the order of the current priorities unless a thread
  in it has changed its own (`stale`, until the list is empty again). Section 6 has what
  happens then.
* **Mailbox and message queue.** Nothing is handed over: a resumed thread tests again.
  `NoWakeupWasted` (`NoMessageWasted`) says that there are at least as many threads on
  their way as there are messages (slots) while someone still sleeps. `IsFifo` is the
  refinement of `BoundedFifo`; for the message queue the mapping delivers a message
  when its node is unlinked, before the copy, and so requires that nobody overwrites
  the node until the copy is done. `Clear` of `BoundedFifo` is always enabled, for resets and
  deletions: `IsFifo` is about order, doubles and the bound, and a queue that emptied
  itself would satisfy it. That no message disappears otherwise is seen in the actions
  only: `Reset` and the re-initialisation are the ones that map to `Clear`.
* **Mutex.** `MutualExclusion` relates what callers have been told (`depth`) to owner,
  hold count and value. `hold` wraps: the property counts takes modulo its range, and says
  nothing of a thread whose takes exceed its releases by a multiple of it, which may have
  lost the mutex (section 6). `PriorityInherited` includes the moment after a hand-over, when
  only the order of the list makes it true.
* **Event.** `ClearedBitsConsumedOnce` is about one send that satisfies several
  threads, some of which clear.
* **Memory pool.** `rt_thread_timeout` does not lower the pool's counter of waiters:
  the run shows that the counter never is too low, which is why nobody sleeps beside a
  block. Section 6 has the other half.
* **Timer.** `due` counts the ticks to a deadline without wrapping; `Consistent` says
  that the list, which the code sorts by modular differences, is sorted by `due`.
  `CheckProgresses` says that a turn of the loop in the interrupt leaves no timer due that
  was not due before, but for timers started with zero ticks: without these the loop ends.
* **Detach and delete.** The wake-all loop of each object is interleaved with timeouts,
  and with the threads that were resumed before it began. `Consistent` says that the
  object is given up with empty lists.
* **Serial device.** `rt_hw_serial_isr` sets `is_full` one byte before the ring is
  full; the run shows that all readers of the ring agree nevertheless, that an
  overrun costs only the oldest bytes, and that a flush interrupted at any point
  repeats none. With DMA the bytes are in the ring before the driver knows of them:
  the reports of the two interrupts add up to exactly the bytes that came. On the
  transmit side `TxInOrder` is about the two parties that feed the transmitter, the
  writer that finds it idle and the interrupt; `WriteReturns` about the completion that
  comes before the wait and about writers that sleep at a full queue until it is
  drained to the low water mark.
* **Scheduler.** `HighestRuns` is what rate-monotonic reasoning about the node rests
  on: except while the scheduler is locked, while the running thread is on its way to
  `rt_schedule`, and after a priority change (which schedules nothing), no ready thread
  is above the running one. `DeadStayDead` follows a thread through exit or delete, the
  defunct list, the idle thread and its next creation. `TurnComes` is the round robin
  that the time slice and the order of the ready list give.
* **poll.** The wakeup may come before the node is linked, after it, between the test
  and the sleep, together with the timeout, or while the thread waits for the
  file-system lock.
* **Heap.** Every order of allocation, release, shrinking and moving with four sizes.
  `LfreeLowest` says that `lfree`, where every search starts, is the lowest free block but
  for the blocks that a shrinking `rt_realloc` cut off (section 6).

### Bounds, and why they are enough

* `ValueRange` 4, `TickRange` 10, `HoldRange` 4: the wrap of the 16-bit, 32-bit and
  8-bit counters is reached, the last one twice (`MaxNest` 9 nested takes). `TickRange` leaves room for the largest start value plus
  `MaxDelay` below half the range, the condition the code itself asserts
  (`timer.c:323`, `init_tick < RT_TICK_MAX / 2`).
* `MaxDelay` 1: ticks that pass while a start is between its critical sections. `MaxCount`
  5 caps the pool's counter, which timeouts make grow without limit; it exceeds the number
  of threads, so that too high values occur.
* Three threads, or two on each side: a running one, a waiting one and one that
  overtakes. Priorities are chosen so that equal and different ones meet.
* Two nodes or words: full, empty and in between, and the ring wraps. 9 bytes overrun a
  ring of 4 twice; 8 data fill a queue of 3 more than twice. Four threads on three
  priorities give a peer, a lower and an idle thread. 24 heap units hold up to four blocks, so a block can have a
  hole or a used block on either side, and the end of the heap is reached.
* The instances use `RT_IPC_FLAG_PRIO`, the more complicated order; the proofs cover both.

`SYMMETRY` is used over threads of equal priority, over senders, values, blocks and
timers, which the definitions treat alike (over all threads of an object whose model leaves
the place in the list open), and in no run that checks liveness. A `VIEW` drops fields
that are written before they are read again (the comment at each says which); where it is
used together with an action property or a refinement, none of the dropped fields occurs in
the property's value for the steps concerned.

`CHECK_DEADLOCK FALSE` appears in the runs of the IPC objects and the pool only: after
a detach that resumed the list head (`wild`), or once a pool is gone, the model stops.

### Fairness

* `SemSafe`: weak fairness of the return of a ready thread, of an armed timer, of the
  steps of a detach once begun, and of `Release`. The tick interrupt and a scheduler that
  runs ready threads give the first three; the last is the assumption on the environment
  that a semaphore which is waited for goes on being released. `TakeReturns` is stated for
  the threads nobody can overtake for ever: all of them in FIFO order, those of the
  highest priority in priority order, as long as no listed thread changes its priority.
  Behind a thread that was lowered in the list even they can be passed for ever (section 6).
* `PollSafe`: weak fairness of the steps of a thread inside a call and of armed timers.
  None of the interrupt: the line may be silent for ever, and a timed poll still returns.
* `SerialSafe`: weak fairness of the transmitter, which finishes what it holds, and of the
  steps of a writer that is not asleep.
* `SchedSafe`: weak fairness of the tick interrupt, of armed thread timers, and of the
  remaining steps of a kernel call the running thread is in. None of any thread's own
  code: a thread may loop for ever. `TurnComes` assumes that critical sections end.

## 5. Proofs

The theorems hold for every value of the constants: any number of threads, any
priorities, which in the semaphore, the mailbox, the event set and the message queue change at any
time, FIFO and priority order, any size of ring, pool or counter, any set of bits
and values. They rest on the named assumptions about the constants
(`PrioAssumption`, `SemAssumption`, `QueueAssumption`, ...), which TLC evaluates in the
runs, and, where the third column says so, on a constant that restricts the caller. These
restrictions are needed: section 6 has the behaviours without them.

| Module | Theorem and what it states | Further assumption |
|---|---|---|
| `SemaphoreProofs` | `SemaphoreConsistent`: `Consistent`; `NoLostWakeup`: `NoTokenWithWaiters`; `TokensConserved`: `TokenConservation`; `DetachWakesAll`: `AllWokenByDetach` | `Disciplined`: never detached, or no call starts after the detach has begun |
| | `DetachResumesThreads`: the wake-all loop resumes only threads | no timed waits |
| `MailboxProofs` | `MailboxConsistent`: `Consistent`; `OneWakeupIsEnough`: `NoWakeupWasted` | `Patient`: who deletes goes on only while no caller is ready inside a call |
| | `MailboxIsFifo`: `Spec => IsFifo`, the refinement of `BoundedFifo` | none |
| `MessageQueueProofs` | `QueueConsistent`: `Consistent`; `OneWakeupPerMessage`: `NoMessageWasted`; `QueueIsFifo`: `Spec => IsFifo` | `Patient` |
| `MutexProofs` | `MutexConsistent`: `Consistent`; `OneHolder`: `MutualExclusion`, for any set of mutexes and any nesting, past the wrap of `hold` | `Careful`: who detaches holds the mutex and has inherited nothing through it |
| | `NoInversion`: `PriorityInherited`; `PriorityGivenBack`: `PriorityRestored` | `Careful`, one mutex |
| `EventProofs` | `EventConsistent`: `Consistent`; `NoLostWakeup`: `NoSatisfiedSleeper`; `RecvDelivers`: `ReceivedWhatWasWanted`; `ConsumedAtMostOnce`: `ClearedBitsConsumedOnce` | none |
| `MemPoolProofs` | `PoolConsistent`: `Consistent`; `FreedBlocksAreUsed`: `NoBlockWasted` | none |
| `SchedulerProofs` | `TableConsistent`: `Consistent`; `HighestAlwaysRuns`: `HighestRuns`; `DeadAreReaped`: `DeadStayDead` | `Careful`: who resumes, suspends, deletes or reprioritises another thread keeps to the conditions below |

Each module has an inductive invariant `IInv`, a lemma `InitInv`, one lemma per operation
that it preserves `IInv`, and the theorems as consequences. What the invariants add to the
properties of the runs, and why:

* **Semaphore.** `TokenConservation` alone is not inductive: that a release gives its token
  to somebody who will return `RT_EOK` needs the exact correspondence of the suspend list
  with `stat`, `error` and `pc` (`WaitersConsistent`); that survives a
  re-initialisation only if the detach left nobody in the list (`DetachedEmpty`), and
  `DetachGuard` says that without `MayDetach` no detach is under way. That the list is
  sorted until a listed thread changes its priority is inductive with `stale`: other changes
  leave the priorities of the list alone (`ChangePriorityInv`). The change of
  `Cardinality(Granted)` in each step comes from `FiniteSetTheorems`.
* **Mailbox.** While a detach is under way nobody is on its way back to the ring
  (`DetachedQuiet`), and the lists a detach has emptied stay empty (`DetachedEmpty`):
  with both, `NoWakeupWasted` survives the flush. The count of threads on their way is compared
  across a step with `CardinalityCompare`. The refinement needs none of this, only
  `RingInv`, the correspondence of the two offsets and the count: `RingPut` and `RingGet`
  show what a put and a get do to the sequence of the ring's contents, wrapped or not.
* **Message queue.** The invariant has two halves. `ThreadInv` is that of the mailbox.
  `NodeInv` says that the pointers link the queue and the free list (`Links`: a sequence of
  nodes without doubles, each pointing to the next and the last to `RT_NULL`), that every
  node is in one of them or with the one caller whose `msg` points to it, and that what a
  sender has copied stays in its node until the node is linked (`CopiesKept`; the node an
  ordinary sender has yet to link is also ended already). `ChainIs` shows that `Chain`
  finds exactly the nodes that are linked; `LinksTail`, `LinksPush`, `LinksAppend` and
  `LinksReverse` say what the four ways of changing the pointers do to the sequence, the
  last one for the loop of a reset as a whole. In the refinement a message is appended when
  its node is linked and delivered when its node is unlinked; that the later copy yields
  the same value follows from `NodeInv`, since nobody else's step touches a node that is in a
  caller's hands.
* **Mutex.** `ThreadOK` and `MutexOK` describe one thread and one mutex: a thread
  that has been told it holds a mutex is its owner, an owner has been told so or is on its
  way to return, and a mutex without an owner has no waiters. `hold` is the owner's takes minus
  its releases modulo `HoldRange`, and every other thread's difference is zero or, after
  a wrap, another multiple of it; without the modulus the invariant is true of 255 nested
  takes and no more. `ModStep` and `HoldFollows` say
  that one take or release moves both sides alike, also where `hold` wraps. The
  two theorems on priorities use in addition `PriorityOK`: who does not own the mutex runs at
  its own priority, the owner's own priority is the one saved, and in priority order the list is
  sorted, which makes the thread that gets the mutex the highest of those left.
* **Event.** `NobodyLeftBehind` and the three properties are inductive together. The walk of
  `rt_event_send` visits a list of any length in one step: `WalkSteps` unfolds the recursive
  function, `VisitOK` shows that one visit keeps what the walk has promised so far, and
  `UpTo` carries that along the list. `UpTo` is induction over `0..n` for a set, proved
  from the least element of a set of numbers (`MinOfNat`).
* **Memory pool.** The counter of waiters is never too low, and a timer runs only for a
  sleeper (`TimersOfSleepers`): with that `NoBlockWasted` holds although
  `rt_thread_timeout` does not correct the counter.

* **Scheduler.** Three parts. `Sound` says of the ready table that every list holds the
  ready threads of its priority once and that the bits tell which lists are not empty
  (`Linked`), but for the threads a `rt_thread_delete` has unlinked and not yet closed
  (`Between`); and of each thread where it is in a call, about whom, and what nobody else
  may have done to that thread meanwhile (`CallOK`, `OneCall`), which the three properties
  do not say and need: `rt_thread_resume` and `rt_thread_delete` go on with what they
  tested several critical sections ago. `LifeOK` adds that nobody dead or not yet started is inside a
  call and that a dead thread made by `rt_thread_create` is in the defunct list or in some call's hands.
  `Deserved` says when the running thread must be the highest. One group of lemmas
  describes what `rt_list_remove`, insertion, removal and `rt_schedule` do to any sound
  table; another shows that a step that concerns one thread leaves what is said of the
  others; with them each action of `Next` has one lemma.

  `Careful` means: `rt_thread_resume` with interrupts enabled, as the work queue calls it, is
  used for a thread that suspended itself without a timer and in no list
  (`workqueue.c:142`), `rt_thread_suspend` of another thread with the scheduler locked,
  `rt_thread_delete`, which tests nothing of that (`thread.c:437`), for a thread that is not
  closed already, has no timer running and is in no such call itself,
  and no call starts on a thread that another manager's call is about. The run `SchedSafe`
  has one manager; the theorems cover any number. TLC finds the three properties true
  of that instance with two managers as well (607 000 states).

`ListProofs` has the facts about lists, independent of the service: inserting by priority
keeps a list free of duplicates, ordered and adds exactly the thread
(`SuspendListFacts`); removal by `rt_thread_timeout` and taking the head do the opposite
(`ListRemoveFacts`, `ListRemoveAny`, `TailList`, `TailOrdered`); the order in which an
initialisation links the elements of a set has each once (`SetToSeqFacts`).

Only model-checked:

* all liveness (`TakeReturns`, `TimedPollReturns`, `WriteReturns`, `CheckProgresses`,
  `TurnComes`): fairness and `ENABLED` are out of the prover's reach;
* the safety properties of the timer, the serial device, poll and the heap, for which no
  proofs have been written. What they would rest on: for the timer that modular
  differences order deadlines as `due` does while all are less than half the range apart;
  for the ring, that the bytes between two wrapping indices are consecutive numbers, with
  the DMA position ahead of the reported one; for the heap, that `next` and `prev` link
  the same blocks in the order of their addresses. Their runs include the wraps and ends these
  arguments are about, on the instances of section 4 only.

## 6. What the code does not guarantee

One disagreement between the code and its own comments is a run that TLC refutes:

* **`PollLock`** (`waitqueue.c:63`). `do_pollfd` calls `fd_put` with the poll node
  linked. If the file-system mutex is taken, the poller sleeps in the mutex's list; a received
  byte resumes it there with `error = RT_EOK`, and `rt_mutex_take` returns success ("the
  mutex is taken successfully", `ipc.c:762`) while another thread is the owner.

Other properties hold under a restriction that the instances make or an exception that they
state, and TLC refutes them without it:

| Change | Then violated | Why |
|---|---|---|
| `SemSafe` with `INVARIANT ResumesAThread` | `ResumesAThread` | the last waiter times out between the test of the list and the read of its head in `rt_ipc_list_resume_all` (`ipc.c:162`) |
| `SemSafe` with `INVARIANT SortedByPriority` | `SortedByPriority` | the list is sorted when a thread joins it (`ipc.c:103`); a priority that a mutex (`ipc.c:722`) or `rt_thread_control` (`thread.c:597`) changes afterwards moves nobody, and service is no longer by priority |
| `SemSafe`, `TakeReturns` without `stale` | `TakeReturns` | the search for the place ends at the first lower thread: behind a thread that was lowered in the list even a thread of the highest priority is passed by later ones for ever |
| `MutexSafe` with `INVARIANT HolderIsOwner` | `HolderIsOwner` | `hold` is 8 bits wide and is raised without a test (`ipc.c:681`): after 257 nested takes it is 1, and one release frees the mutex or gives it to a waiter |
| `TimerSafe`, `CheckProgresses` without the exception of zero ticks | `CheckProgresses` | a periodic timer of zero ticks is due when `rt_timer_check` has started it again, and the loop in the tick interrupt never ends (`timer.c:507-538`); the assertion in `rt_timer_start` (`timer.c:323`) bounds the time from above only |
| `SemSafe`, `Quiesce = FALSE` | `AllWokenByDetach` | a thread blocks after the loop saw an empty list (`ipc.c:241`) |
| `MutexSafe`, two mutexes | `PriorityInherited`, `PriorityRestored` | the priority is saved and restored per mutex (`ipc.c:696`): releasing the inner mutex drops what was inherited through the outer one, and mutexes released in the order they were taken restore an inherited priority |
| `MpSafe`, `~wild` as an invariant | `~wild` | `rt_mp_free` trusts the counter and resumes the list head after a timeout (`mempool.c:421`) |
| `MbSafe` or `MqSafe`, `Patient = FALSE` | `Consistent` | a thread that a release or a reset resumed goes back to a mailbox or queue that was deleted before it ran (`ipc.c:1512`) |
| `MutexSafe`, `Careful = FALSE` | `PriorityRestored` | `rt_mutex_detach` does not give the owner its priority back (`ipc.c:567`) |
| `TimerSafe`, `"delete"` in `Callbacks` | `Consistent` | `rt_timer_check` starts a periodic timer again that its own timeout function deleted: neither detach nor delete clears the flag (`timer.c:537`) |
| `SchedSafe`, `Careful = FALSE` | `DeadStayDead` | the timer of a thread that is being deleted expires between the steps of `rt_thread_delete` (`thread.c:444`); two calls about one thread meet in the same way |
| `SerialSafe`, `Polite = FALSE` | `Consistent` | a second open with other flags makes the driver forget the first (`serial.c:584`); a byte during the close meets a freed ring (`serial.c:720`); a DMA ring that is flushed or overrun loses its position |
| `SerialSafe`, `SlowWire = FALSE` | `TxInOrder` | a datum that was queued behind another is sent and popped before its writer tests `activated`, and sent again (`serial.c:513`) |
| `SerialSafe`, two writers | `Consistent` | the completion has one waiter (`completion.c:45`) |
| `SerialSafe`, `IndexRange = 6` | `Consistent` | a full data queue does not look full after the wrap of `put_index` (`dataqueue.c:66`) |
| `TimerSafe`, `"restart"` in `Callbacks` | `Consistent` | a one-shot timer started again by its own timeout function is marked inactive afterwards (`timer.c:542`) |
| `TimerSafe`, `ControlRunning = TRUE` | `Consistent` | the flag byte is stored after the timer has fired (`timer.c:476`) |
| `PollSafe`, two readers | `NoLostWakeup`, `TimedPollReturns` | one flag remembers the wakeup for all (`waitqueue.c:124`); `triggered` is never cleared, so a poller whose byte was taken spins (`poll.c:47`) |

A shrinking `rt_realloc` makes a free block without lowering `lfree` ("pointer to the
lowest free block", `mem.c:131`); `rt_malloc`, which searches upwards from `lfree`, does
not find it until a neighbour or a lower block is freed (`mem.c:493`). The history
variable `cut` marks these blocks, and `LfreeLowest` shows that they are the only ones.

An exact fit at the end of the heap is passed over by the bound of `rt_malloc`'s loop
(`mem.c:306`); the model has the same bound (`Fits`).

## 7. Not modelled

Soft timers and SMP (not compiled in, `rtconfig.h`), the debug commands and the statistics
they print, hooks, cleanup functions of static threads, stack checks and signals; several
descriptors in one poll and closing a polled descriptor (`serial.c:104` clears
`rx_indicate` for all of them); polled and stream mode of the serial device and DMA receive
without a ring; timed waits of completion and data queue, which the serial driver does not
use; the work queue, whose worker tests its list and suspends itself in two steps
(`workqueue.c:58`), pipes and ring buffers, which nothing on this board uses; the
conversion `rt_tick_from_millisecond`, one expression whose product overflows
(`clock.c:119`); and the components marked so in section 1. The application, string
services and register-level drivers are sequential or hardware and stay out.

The serial driver is modelled for all the modes that `serial.c` offers. The driver of this
board registers its ports for interrupt and DMA receive only, and its `putc` waits for the
transmitter by itself; the transmit side is checked against the contract that `serial.c`
states (`putc` may return -1, `dma_transmit` reports its end), which other drivers use.

## 8. Plan

The order follows the importance for the node: blocking services first (done), then the
byte path, then what they rest on.

1. **Done:** the modules of section 3, `BoundedFifo` with two refinements, the runs of section
   4, the proofs of section 5: every safety property that a run checks of the six blocking
   services and of the scheduler is a theorem.
2. **Left to prove:** the timer list (`Consistent`), the serial device (`Consistent`, `NewestKept`,
   `ReadsInOrder`, `TxInOrder`), poll and the heap, along the arguments named at the end of section 5.
3. **Extend, if the board comes to use them:** work queue and pipe; several descriptors per poll.
