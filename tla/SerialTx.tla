------------------------------ MODULE SerialTx ------------------------------
(***************************************************************************)
(* The transmit side of a serial device: _serial_int_tx with its           *)
(* completion (components/drivers/src/completion.c) and _serial_dma_tx     *)
(* with its data queue (components/drivers/src/dataqueue.c), against the   *)
(* interrupts that report the end of a transfer.                           *)
(*                                                                         *)
(* What is written is numbered: a byte with INT_TX, a buffer with DMA_TX.  *)
(* The transmitter holds one datum at a time.                              *)
(***************************************************************************)
EXTENDS Integers, SequencesExt

CONSTANTS
    Writers,    \* threads that write to the device
    QSize,      \* size of the data queue (8)
    Lwm,        \* its low water mark (4): writers are resumed at or below it
    IndexRange, \* its indices are rt_uint16_t: they count modulo 2^16
    MaxWrites,  \* bound: data written
    SlowWire    \* a transfer takes longer than a writer's steps after its push

ASSUME TxAssumption ==
    /\ QSize \in Nat \ {0} /\ Lwm \in 0..QSize
    /\ IndexRange \in Nat \ {0} /\ IndexRange % QSize = 0
    /\ MaxWrites \in Nat
    /\ SlowWire \in BOOLEAN

VARIABLES
    serial_tx,  \* "null" or "live"
    tx,         \* the transmit bits of dev->open_flag: "none", "INT" or "DMA"
    hw,         \* the datum the transmitter holds, 0 if none
    wpc,        \* where a writer is; "asleep" in the completion or in the queue
    datum,      \* what it writes
    done,       \* completion->flag = RT_COMPLETED
    sleeper,    \* completion->suspended_list
    slots, qput, qget,   \* data_queue: queue, put_index, get_index
    push_list,  \* data_queue.suspended_push_list
    activated,  \* tx_dma->activated
    written,    \* history: data that writers have begun to write
    started,    \* history: the datum the transmitter got last
    transfers   \* history: how many it got

completion == <<done, sleeper>>
queue == <<slots, qput, qget, push_list, activated>>
txVars == <<serial_tx, tx, hw, wpc, datum, done, sleeper, slots, qput, qget,
            push_list, activated, written, started, transfers>>

TxInit ==
    /\ serial_tx = "null" /\ tx = "none" /\ hw = 0
    /\ wpc = [w \in Writers |-> "idle"]
    /\ datum = [w \in Writers |-> 0]
    /\ done = FALSE /\ sleeper = <<>>
    /\ slots = [i \in 0..(QSize - 1) |-> 0] /\ qput = 0 /\ qget = 0
    /\ push_list = <<>> /\ activated = FALSE
    /\ written = 0 /\ started = 0 /\ transfers = 0

At(w, label) == wpc[w] = label
Goto(w, label) == wpc' = [wpc EXCEPT ![w] = label]

(* rt_device_write of one datum. *)
Write(w) ==
    /\ serial_tx = "live"
    /\ At(w, "idle")
    /\ written < MaxWrites
    /\ written' = written + 1
    /\ datum' = [datum EXCEPT ![w] = written + 1]
    /\ Goto(w, IF tx = "INT" THEN "putc" ELSE "push")
    /\ UNCHANGED <<serial_tx, tx, hw, completion, queue, started, transfers>>

(* The transmitter takes a datum, from putc or from dma_transmit. *)
Load(d) == hw' = d /\ started' = d /\ transfers' = transfers + 1

-----------------------------------------------------------------------------
(* _serial_int_tx: putc is refused while the transmitter is busy. *)
Putc(w) ==
    /\ At(w, "putc")
    /\ IF hw = 0
       THEN Load(datum[w]) /\ Goto(w, "idle")
       ELSE Goto(w, "wait") /\ UNCHANGED <<hw, started, transfers>>
    /\ UNCHANGED <<serial_tx, tx, datum, completion, queue, written>>

(* Mutant of CompletionWait: the flag is not tested before the sleep. *)
WaitUntested(w) ==
    /\ At(w, "wait")
    /\ Goto(w, "asleep")
    /\ sleeper' = Append(sleeper, w)
    /\ UNCHANGED <<serial_tx, tx, hw, datum, done, queue, written, started, transfers>>

(* rt_completion_wait(RT_WAITING_FOREVER), up to its sleep or its return. *)
CompletionWait(w) ==
    /\ At(w, "wait")
    /\ IF done
       THEN done' = FALSE /\ Goto(w, "putc") /\ UNCHANGED sleeper
       ELSE Goto(w, "asleep") /\ sleeper' = Append(sleeper, w) /\ UNCHANGED done
    /\ UNCHANGED <<serial_tx, tx, hw, datum, queue, written, started, transfers>>

(* The resumed writer clears the flag and tries putc again. *)
CompletionWoken(w) ==
    /\ At(w, "woken") /\ tx = "INT"
    /\ done' = FALSE
    /\ Goto(w, "putc")
    /\ UNCHANGED <<serial_tx, tx, hw, datum, sleeper, queue, written, started, transfers>>

(* RT_SERIAL_EVENT_TX_DONE: rt_completion_done resumes the sleeper. *)
TxDone ==
    /\ tx = "INT" /\ serial_tx = "live"
    /\ hw # 0
    /\ hw' = 0
    /\ IF done THEN UNCHANGED <<completion, wpc>>
       ELSE /\ done' = TRUE
            /\ IF sleeper = <<>> THEN UNCHANGED <<sleeper, wpc>>
               ELSE Goto(Head(sleeper), "woken") /\ sleeper' = Tail(sleeper)
    /\ UNCHANGED <<serial_tx, tx, datum, queue, written, started, transfers>>

-----------------------------------------------------------------------------
(* The indices are promoted to int before they are subtracted. *)
QueueFull == qput - qget = QSize

(* rt_data_queue_push(RT_WAITING_FOREVER): the retry after a wakeup tests  *)
(* again.                                                                  *)
Push(w) ==
    /\ At(w, "push") \/ (At(w, "woken") /\ tx = "DMA")
    /\ IF QueueFull
       THEN /\ Goto(w, "asleep")
            /\ push_list' = Append(push_list, w)
            /\ UNCHANGED <<slots, qput>>
       ELSE /\ Goto(w, "activate")
            /\ slots' = [slots EXCEPT ![qput % QSize] = datum[w]]
            /\ qput' = (qput + 1) % IndexRange
            /\ UNCHANGED push_list
    /\ UNCHANGED <<serial_tx, tx, hw, datum, completion, qget, activated, written, started, transfers>>

(* _serial_dma_tx: the first datum is handed to the channel by the writer, *)
(* in a step after the one that sets activated.                            *)
Activate(w) ==
    /\ At(w, "activate")
    /\ Goto(w, IF activated THEN "idle" ELSE "transmit")
    /\ activated' = TRUE
    /\ UNCHANGED <<serial_tx, tx, hw, datum, completion, slots, qput, qget, push_list,
                   written, started, transfers>>

Transmit(w) ==
    /\ At(w, "transmit")
    /\ Load(datum[w])
    /\ Goto(w, "idle")
    /\ UNCHANGED <<serial_tx, tx, datum, completion, queue, written>>

(* rt_data_queue_pop(0) wakes one writer at or below the low water mark. *)
Pop ==
    /\ qget' = (qget + 1) % IndexRange
    /\ IF qput - qget' <= Lwm /\ push_list # <<>>
       THEN Goto(Head(push_list), "woken") /\ push_list' = Tail(push_list)
       ELSE UNCHANGED <<wpc, push_list>>

(* A datum may be finished before its writer has tested activated. *)
Finished == hw # 0 /\ (SlowWire => \A w \in Writers : At(w, "activate") => datum[w] # hw)

(* Mutant of TxDmaDone: what was sent stays in the queue. *)
TxDmaDonePeeksFirst ==
    /\ tx = "DMA" /\ serial_tx = "live"
    /\ Finished
    /\ IF qget = qput
       THEN hw' = 0 /\ activated' = FALSE /\ UNCHANGED <<started, transfers>>
       ELSE Load(slots[qget % QSize]) /\ activated' = TRUE
    /\ Pop
    /\ UNCHANGED <<serial_tx, tx, datum, completion, slots, qput, written>>

(* RT_SERIAL_EVENT_TX_DMADONE: what was sent is popped, and what is at the *)
(* head of the queue then is sent next.                                    *)
TxDmaDone ==
    /\ tx = "DMA" /\ serial_tx = "live"
    /\ Finished
    /\ IF qget = qput THEN UNCHANGED <<qget, wpc, push_list>> ELSE Pop
    /\ IF qget' = qput
       THEN hw' = 0 /\ activated' = FALSE /\ UNCHANGED <<started, transfers>>
       ELSE Load(slots[qget' % QSize]) /\ activated' = TRUE
    /\ UNCHANGED <<serial_tx, tx, datum, completion, slots, qput, written>>

-----------------------------------------------------------------------------
TxNext ==
    \/ \E w \in Writers :
          \/ Write(w) \/ Putc(w) \/ CompletionWait(w) \/ CompletionWoken(w)
          \/ Push(w) \/ Activate(w) \/ Transmit(w)
    \/ TxDone \/ TxDmaDone

(* The transmitter finishes what it holds, and a writer that can run does. *)
TxFairness ==
    /\ WF_txVars(TxDone \/ TxDmaDone)
    /\ \A w \in Writers : WF_txVars(\/ Putc(w) \/ CompletionWait(w) \/ CompletionWoken(w)
                                    \/ Push(w) \/ Activate(w) \/ Transmit(w))

TxTypeOK ==
    /\ serial_tx \in {"null", "live"} /\ tx \in {"none", "INT", "DMA"}
    /\ hw \in 0..MaxWrites
    /\ wpc \in [Writers -> {"idle", "putc", "wait", "asleep", "woken", "push", "activate", "transmit"}]
    /\ datum \in [Writers -> 0..MaxWrites]
    /\ done \in BOOLEAN /\ activated \in BOOLEAN
    /\ sleeper \in Seq(Writers) /\ push_list \in Seq(Writers)
    /\ slots \in [0..(QSize - 1) -> 0..MaxWrites]
    /\ qput \in 0..(IndexRange - 1) /\ qget \in 0..(IndexRange - 1)
    /\ written \in 0..MaxWrites /\ started \in 0..MaxWrites
    /\ transfers \in Nat

(* The queue never holds more than its slots; one thread at most sleeps in *)
(* the completion, as rt_completion_wait asserts, and beside a busy        *)
(* transmitter; and while the channel is activated it holds, or a writer   *)
(* is about to hand it, the head of the queue.                             *)
TxConsistent ==
    /\ TxTypeOK
    /\ qput - qget \in 0..QSize
    /\ Len(sleeper) <= 1
    /\ sleeper # <<>> => hw # 0 \/ done
    /\ tx = "DMA" /\ activated =>
          /\ qput # qget
          /\ \/ hw = slots[qget % QSize]
             \/ \E w \in Writers : At(w, "transmit") /\ datum[w] = slots[qget % QSize]

(* Everything written is transmitted once and in the order of the writes,  *)
(* though the writer and the interrupt both feed the transmitter: its n-th *)
(* transfer is that of the n-th datum.                                     *)
TxInOrder == started = transfers

(* A write returns: the end of the transfer that frees the transmitter, or *)
(* drains the queue to its low water mark, is never missed.                *)
WriteReturns == \A w \in Writers : ~At(w, "idle") ~> At(w, "idle")
=============================================================================
