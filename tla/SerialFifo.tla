----------------------------- MODULE SerialFifo -----------------------------
(***************************************************************************)
(* The receive ring of a serial device                                     *)
(* (rt-thread/components/drivers/serial/serial.c).  With RT_DEVICE_FLAG_   *)
(* INT_RX the handler rt_hw_serial_isr stores and overwrites and           *)
(* _serial_int_rx takes; with DMA_RX a circular DMA channel writes the     *)
(* buffer and the interrupts of drv_usart.c (line idle, transfer complete) *)
(* only report how many bytes came.  _tc_flush empties the ring with       *)
(* interrupts enabled, so bytes arrive between its assignments.            *)
(*                                                                         *)
(* A byte is represented by its arrival number, so that a stale or         *)
(* repeated byte can be told from a new one.                               *)
(***************************************************************************)
EXTENDS Integers, SequencesExt

CONSTANTS
    BufSz,      \* config.bufsz
    MaxBytes,   \* bound: bytes the line delivers
    Polite      \* the users keep to the restrictions at each use

ASSUME FifoAssumption ==
    BufSz \in Nat \ {0, 1} /\ MaxBytes \in Nat /\ Polite \in BOOLEAN

VARIABLES
    buffer, put_index, get_index, is_full,   \* struct rt_serial_rx_fifo
    serial_rx,  \* that structure: "null", "live", or "freed" but still pointed to
    rx,         \* the receive bits of dev->open_flag: "none", "INT" or "DMA"
    line,       \* where the hardware puts bytes: "off", "INT" or "DMA"
    dma_pos,    \* next cell the DMA channel writes
    last_index, \* uart->dma.last_index: cells reported since the channel's last lap
    tc,         \* the channel's transfer-complete interrupt is pending
    flush,      \* the next step of _tc_flush, or "no"
    fault,      \* a byte was stored without a live ring
    arrived,    \* history: bytes received so far
    reported,   \* history: how many of them the driver knows of
    got,        \* history: the bytes the last successful read returned
    lost        \* history: bytes that arrived before a flush or an open ended

fifo == <<buffer, put_index, get_index, is_full>>
dma == <<dma_pos, last_index, tc>>
device == <<serial_rx, rx, line>>
rxVars == <<buffer, put_index, get_index, is_full, serial_rx, rx, line, dma_pos,
            last_index, tc, flush, fault, arrived, reported, got, lost>>

Indices == 0..(BufSz - 1)

(* A byte of the buffer after rt_memset: older than all that arrive. *)
Cleared == -1

Wrap(i) == IF i >= BufSz THEN 0 ELSE i

RxInit ==
    /\ buffer = [i \in Indices |-> Cleared]
    /\ put_index = 0 /\ get_index = 0 /\ is_full = FALSE
    /\ serial_rx = "null" /\ rx = "none" /\ line = "off"
    /\ dma_pos = 0 /\ last_index = 0 /\ tc = FALSE
    /\ flush = "no"
    /\ fault = FALSE
    /\ arrived = 0 /\ reported = 0 /\ got = <<0>> /\ lost = 0

-----------------------------------------------------------------------------
(* One received byte: "if the next position is read index, discard this    *)
(* 'read char'".                                                           *)
Store(ch) ==
    /\ buffer' = [buffer EXCEPT ![put_index] = ch]
    /\ put_index' = Wrap(put_index + 1)
    /\ IF put_index' = get_index
       THEN get_index' = Wrap(get_index + 1) /\ is_full' = TRUE
       ELSE UNCHANGED <<get_index, is_full>>

Isr ==
    /\ line = "INT"
    /\ arrived < MaxBytes
    /\ arrived' = arrived + 1
    /\ reported' = arrived + 1
    /\ IF serial_rx = "live"
       THEN Store(arrived + 1) /\ UNCHANGED fault
       ELSE fault' = TRUE /\ UNCHANGED fifo
    /\ UNCHANGED <<device, dma, flush, got, lost>>

(* The emptiness test of _serial_int_rx. *)
Empty == get_index = put_index /\ ~is_full

(* Mutant of ReadByte: the byte is taken from the end that was stored last. *)
ReadByteNewest ==
    /\ rx = "INT" /\ serial_rx = "live"
    /\ flush = "no"
    /\ ~Empty
    /\ got' = <<buffer[(put_index - 1) % BufSz]>>
    /\ get_index' = Wrap(get_index + 1)
    /\ is_full' = FALSE
    /\ UNCHANGED <<buffer, put_index, device, dma, flush, fault, arrived, reported, lost>>

(* One turn of the loop of _serial_int_rx, by the thread that reads the    *)
(* device (and that also flushes and closes it).                           *)
ReadByte ==
    /\ rx = "INT" /\ serial_rx = "live"
    /\ flush = "no"
    /\ ~Empty
    /\ got' = <<buffer[get_index]>>
    /\ get_index' = Wrap(get_index + 1)
    /\ is_full' = FALSE
    /\ UNCHANGED <<buffer, put_index, device, dma, flush, fault, arrived, reported, lost>>

-----------------------------------------------------------------------------
(* _serial_fifo_calc_recved_len: the answer to FIONREAD, and what          *)
(* _serial_dma_rx takes for the number of bytes it may copy.               *)
RecvedLen ==
    IF put_index = get_index
    THEN IF is_full THEN BufSz ELSE 0
    ELSE IF put_index > get_index
         THEN put_index - get_index
         ELSE BufSz - (get_index - put_index)

(* The DMA channel stores a byte.  A polite reader never lets it run into  *)
(* cells that hold unread bytes.                                           *)
DmaByte ==
    /\ line = "DMA"
    /\ arrived < MaxBytes
    /\ ~tc
    /\ Polite => serial_rx = "live" /\ RecvedLen + arrived - reported < BufSz
    /\ arrived' = arrived + 1
    /\ buffer' = [buffer EXCEPT ![dma_pos] = arrived + 1]
    /\ dma_pos' = Wrap(dma_pos + 1)
    /\ tc' = (dma_pos + 1 = BufSz)
    /\ fault' = (fault \/ serial_rx # "live")
    /\ UNCHANGED <<put_index, get_index, is_full, device, last_index, flush, reported, got, lost>>

(* rt_dma_recv_update_put_index, for len new bytes. *)
UpdatePutIndex(len) ==
    LET put == put_index + len
        full == \/ is_full
                \/ IF get_index <= put_index
                   THEN put >= BufSz /\ put % BufSz >= get_index
                   ELSE put >= get_index
    IN  /\ put_index' = put % BufSz
        /\ is_full' = full
        /\ get_index' = IF full THEN put_index' ELSE get_index
        /\ reported' = reported + len

(* uart_isr on an idle line: the bytes since the last report.  A pending   *)
(* transfer-complete interrupt has precedence.                             *)
LineIdle ==
    /\ line = "DMA" /\ serial_rx = "live"
    /\ ~tc
    /\ dma_pos # last_index
    /\ UpdatePutIndex(dma_pos - last_index)
    /\ last_index' = dma_pos
    /\ UNCHANGED <<buffer, device, dma_pos, tc, flush, fault, arrived, got, lost>>

(* Mutant of TransferComplete: the next report starts where the last one   *)
(* ended.                                                                  *)
CompleteKeepsIndex ==
    /\ line = "DMA" /\ serial_rx = "live"
    /\ tc
    /\ tc' = FALSE
    /\ UpdatePutIndex(BufSz - last_index)
    /\ UNCHANGED <<buffer, device, dma_pos, last_index, flush, fault, arrived, got, lost>>

(* HAL_UART_RxCpltCallback: the channel has reached the end of the buffer. *)
TransferComplete ==
    /\ line = "DMA" /\ serial_rx = "live"
    /\ tc
    /\ tc' = FALSE
    /\ UpdatePutIndex(BufSz - last_index)
    /\ last_index' = 0
    /\ UNCHANGED <<buffer, device, dma_pos, flush, fault, arrived, got, lost>>

(* _serial_dma_rx of length bytes, with rt_dma_recv_update_get_index. *)
DmaRead(length) ==
    LET n == IF length < RecvedLen THEN length ELSE RecvedLen
    IN  /\ rx = "DMA" /\ serial_rx = "live"
        /\ flush = "no"
        /\ n > 0
        /\ got' = [i \in 1..n |-> buffer[(get_index + i - 1) % BufSz]]
        /\ is_full' = FALSE
        /\ get_index' = (get_index + n) % BufSz
        /\ UNCHANGED <<buffer, put_index, device, dma, flush, fault, arrived, reported, lost>>

-----------------------------------------------------------------------------
(* _tc_flush(TCIFLUSH): four assignments in a row.  A polite user does not *)
(* flush a DMA ring, whose channel goes on where it is.                    *)
FlushBuffer ==
    /\ serial_rx = "live"
    /\ Polite => rx = "INT"
    /\ flush = "no"
    /\ flush' = "put"
    /\ buffer' = [i \in Indices |-> Cleared]
    /\ UNCHANGED <<put_index, get_index, is_full, device, dma, fault, arrived, reported, got, lost>>

FlushPut ==
    /\ flush = "put"
    /\ flush' = "get"
    /\ put_index' = 0
    /\ UNCHANGED <<buffer, get_index, is_full, device, dma, fault, arrived, reported, got, lost>>

FlushGet ==
    /\ flush = "get"
    /\ flush' = "full"
    /\ get_index' = 0
    /\ lost' = arrived
    /\ UNCHANGED <<buffer, put_index, is_full, device, dma, fault, arrived, reported, got>>

FlushFull ==
    /\ flush = "full"
    /\ flush' = "no"
    /\ is_full' = FALSE
    /\ UNCHANGED <<buffer, put_index, get_index, device, dma, fault, arrived, reported, got, lost>>

RxNext ==
    \/ Isr \/ ReadByte
    \/ DmaByte \/ LineIdle \/ TransferComplete
    \/ \E n \in 1..BufSz : DmaRead(n)
    \/ FlushBuffer \/ FlushPut \/ FlushGet \/ FlushFull

-----------------------------------------------------------------------------
(* The POLLIN test of serial_fops_poll. *)
PollIn == get_index # put_index \/ (get_index = put_index /\ is_full)

(* rx_length of rt_hw_serial_isr: rx_indicate is called when it is not 0. *)
RxLength ==
    IF put_index >= get_index
    THEN put_index - get_index
    ELSE BufSz - (get_index - put_index)

(* What successive reads would return from now on, if nothing arrived. *)
Contents ==
    IF Empty
    THEN <<>>
    ELSE LET n == (put_index - get_index) % BufSz
         IN  [i \in 1..(IF n = 0 THEN BufSz ELSE n)
                |-> buffer[(get_index + i - 1) % BufSz]]

RxTypeOK ==
    /\ buffer \in [Indices -> Cleared..MaxBytes]
    /\ put_index \in Indices /\ get_index \in Indices
    /\ is_full \in BOOLEAN
    /\ serial_rx \in {"null", "live", "freed"}
    /\ rx \in {"none", "INT", "DMA"} /\ line \in {"off", "INT", "DMA"}
    /\ dma_pos \in Indices /\ last_index \in Indices
    /\ tc \in BOOLEAN /\ fault \in BOOLEAN
    /\ flush \in {"no", "put", "get", "full"}
    /\ arrived \in 0..MaxBytes /\ reported \in 0..arrived /\ lost \in 0..arrived
    /\ got \in Seq(Cleared..MaxBytes) /\ got # <<>>

(* Bytes are read in the order of their arrival, none twice and none that  *)
(* a flush had cleared, whatever arrives between the steps of the flush.   *)
ReadsInOrder ==
    [][ReadByte \/ (\E n \in 1..BufSz : DmaRead(n)) =>
          /\ Head(got') > Last(got)
          /\ \A i \in 2..Len(got') : got'[i] > got'[i - 1]]_rxVars

(* Outside a flush the ring holds the newest bytes without a gap, and no   *)
(* byte is missing that came after the last read and after the last flush  *)
(* or open: up to the BufSz - 1 that the overwriting ring can keep, or the *)
(* BufSz that the DMA channel fills.                                       *)
NewestKept ==
    serial_rx = "live" /\ flush = "no" =>
        /\ \A i \in DOMAIN Contents : Contents[i] = reported - Len(Contents) + i
        /\ Len(Contents) >= Min({IF rx = "DMA" THEN BufSz ELSE BufSz - 1,
                                 reported - Max({Last(got), lost})})

(* The tests of the ring that the driver makes in different places (the    *)
(* read loop, poll, FIONREAD, the interrupt handler) agree, outside a      *)
(* flush: poll never promises a byte that read does not find, and no byte  *)
(* is stored without the indication that wakes the reader.                 *)
TestsAgree ==
    serial_rx = "live" /\ flush = "no" =>
        /\ PollIn <=> Contents # <<>>
        /\ RecvedLen = Len(Contents)
        /\ rx = "INT" => RxLength = Len(Contents)
=============================================================================
