------------------------------- MODULE Serial -------------------------------
(***************************************************************************)
(* A serial device as its users see it: rt_device_open / rt_device_close   *)
(* (rt-thread/src/device.c) with rt_serial_open / rt_serial_close          *)
(* (serial.c) around the receive ring (SerialFifo) and the transmit side   *)
(* (SerialTx).                                                             *)
(***************************************************************************)
EXTENDS SerialFifo, SerialTx

CONSTANTS
    Modes,      \* pairs <<receive, transmit>> of open flags that are used
    MaxOpens    \* bound on ref_count

ASSUME SerialAssumption ==
    /\ Modes \subseteq {"none", "INT", "DMA"} \X {"none", "INT", "DMA"}
    /\ MaxOpens \in Nat

VARIABLES
    ref_count,  \* dev->ref_count
    closing     \* the next step of rt_serial_close, or "no"

vars == <<rxVars, txVars, ref_count, closing>>

Init ==
    /\ RxInit
    /\ TxInit
    /\ ref_count = 0
    /\ closing = "no"

history == <<arrived, reported, got, lost>>

-----------------------------------------------------------------------------
(* The receive part of rt_serial_open: an open ring is kept. *)
OpenRx(mode) ==
    /\ rx' = mode
    /\ IF serial_rx = "null" /\ mode # "none"
       THEN /\ serial_rx' = "live"
            /\ buffer' = [i \in Indices |-> Cleared]
            /\ put_index' = 0 /\ get_index' = 0 /\ is_full' = FALSE
            /\ line' = mode
            /\ dma_pos' = 0 /\ last_index' = 0 /\ tc' = FALSE
       ELSE UNCHANGED <<serial_rx, fifo, line, dma>>
    /\ UNCHANGED <<flush, fault, history>>

(* The transmit part: rt_completion_init or rt_data_queue_init. *)
OpenTx(mode) ==
    /\ tx' = mode
    /\ IF serial_tx = "null" /\ mode # "none"
       THEN /\ serial_tx' = "live"
            /\ done' = FALSE /\ sleeper' = <<>>
            /\ slots' = [i \in 0..(QSize - 1) |-> 0] /\ qput' = 0 /\ qget' = 0
            /\ push_list' = <<>> /\ activated' = FALSE
       ELSE UNCHANGED <<serial_tx, completion, queue>>
    /\ UNCHANGED <<hw, wpc, datum, written, started, transfers>>

(* rt_device_open.  Polite users open an open device with the same flags:  *)
(* dev->open_flag = oflag & 0xff drops those of the others.                *)
Open(mode) ==
    /\ closing = "no" /\ flush = "no"
    /\ ref_count < MaxOpens
    /\ Polite /\ ref_count > 0 => mode = <<rx, tx>>
    /\ OpenRx(mode[1])
    /\ OpenTx(mode[2])
    /\ ref_count' = ref_count + 1
    /\ UNCHANGED closing

(* rt_device_close, by the thread that reads: the last one calls           *)
(* rt_serial_close.                                                        *)
Close ==
    /\ closing = "no" /\ flush = "no"
    /\ ref_count > 0
    /\ Polite => hw = 0 /\ \A w \in Writers : At(w, "idle")
    /\ ref_count' = ref_count - 1
    /\ closing' = IF ref_count > 1 THEN "no" ELSE IF rx # "none" THEN "free" ELSE "tx"
    /\ UNCHANGED <<rxVars, txVars>>

(* rt_free(rx_fifo); with INT_RX the pointer and the flag are cleared      *)
(* before the interrupt, with DMA_RX after it.  The bytes of the next      *)
(* session are numbered anew.                                              *)
CloseFree ==
    /\ closing = "free"
    /\ closing' = IF rx = "INT" THEN "null" ELSE "clr"
    /\ serial_rx' = "freed"
    /\ buffer' = [i \in Indices |-> Cleared]
    /\ arrived' = 0 /\ reported' = 0 /\ got' = <<0>> /\ lost' = 0
    /\ UNCHANGED <<put_index, get_index, is_full, rx, line, dma, flush, fault, txVars, ref_count>>

(* Mutant of CloseNull: the pointer to the freed ring is kept. *)
CloseKeepsRing ==
    /\ closing = "null"
    /\ closing' = IF rx = "INT" THEN "clr" ELSE "tx"
    /\ rx' = "none"
    /\ UNCHANGED <<fifo, serial_rx, line, dma, flush, fault, history, txVars, ref_count>>

(* serial->serial_rx = RT_NULL, and the flag. *)
CloseNull ==
    /\ closing = "null"
    /\ closing' = IF rx = "INT" THEN "clr" ELSE "tx"
    /\ serial_rx' = "null"
    /\ rx' = "none"
    /\ UNCHANGED <<fifo, line, dma, flush, fault, history, txVars, ref_count>>

(* RT_DEVICE_CTRL_CLR_INT: stm32_control switches the receive interrupt    *)
(* off; a DMA channel runs on.                                             *)
CloseClr ==
    /\ closing = "clr"
    /\ closing' = IF rx = "none" THEN "tx" ELSE "null"
    /\ line' = IF line = "INT" THEN "off" ELSE line
    /\ UNCHANGED <<fifo, serial_rx, rx, dma, flush, fault, history, txVars, ref_count>>

(* The transmit structure is freed, and open_flag is cleared. *)
CloseTx ==
    /\ closing = "tx"
    /\ closing' = "no"
    /\ serial_tx' = "null"
    /\ tx' = "none"
    /\ datum' = [w \in Writers |-> 0] /\ written' = 0 /\ started' = 0 /\ transfers' = 0
    /\ UNCHANGED <<rxVars, hw, wpc, completion, queue, ref_count>>

-----------------------------------------------------------------------------
(* A descriptor is open: reads and writes are made.  Polite peers send     *)
(* nothing while the device is being closed.                               *)
RxStep ==
    /\ Polite => closing = "no"
    /\ RxNext
    /\ UNCHANGED <<txVars, ref_count, closing>>

TxStep ==
    /\ closing = "no"
    /\ TxNext
    /\ UNCHANGED <<rxVars, ref_count, closing>>

Next ==
    \/ RxStep
    \/ TxStep
    \/ \E mode \in Modes : Open(mode)
    \/ Close \/ CloseFree \/ CloseNull \/ CloseClr \/ CloseTx

Spec == Init /\ [][Next]_vars /\ TxFairness

(* The fields keep to their ranges, the two halves are consistent, the     *)
(* tests of the ring agree; the device has a ring exactly while it is open *)
(* for reading, and no byte was stored without one.                        *)
Consistent ==
    /\ RxTypeOK
    /\ TxConsistent
    /\ ref_count \in 0..MaxOpens
    /\ closing \in {"no", "free", "null", "clr", "tx"}
    /\ TestsAgree
    /\ ~fault
    /\ closing = "no" =>
          /\ (serial_rx = "live") <=> rx # "none"
          /\ (serial_tx = "live") <=> tx # "none"
          /\ ref_count = 0 => serial_rx = "null" /\ serial_tx = "null" /\ line # "INT"
=============================================================================
