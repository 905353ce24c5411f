-------------------------------- MODULE UartRx --------------------------------
(***************************************************************************)
(* The receive path of src/uart.c from the moment uart_init turns the      *)
(* receiver on: bytes arrive in the UART's hardware FIFO, uart_init and    *)
(* then uart_handle_interrupt move them to a ring buffer, and uart_getc    *)
(* takes them out and sleeps in WFE when there is none.                    *)
(*                                                                         *)
(* There is one CPU.  The interrupt handler runs to its end before the     *)
(* code it interrupted goes on (irq_entry_common keeps IRQs masked), so    *)
(* only the hardware interleaves with it; the handler itself may run       *)
(* between any two steps of uart_getc.                                     *)
(*                                                                         *)
(* The PL011 raises its RX interrupt when a byte brings the FIFO to the    *)
(* trigger level, and the receive timeout once after an arrival, not again *)
(* for the same bytes when the interrupt was cleared.                      *)
(*                                                                         *)
(* Two assumptions make the model weaker than the hardware, so what holds  *)
(* here does not rest on them: a sleeping WFE is woken by the event        *)
(* register only, not by the interrupt as such, and a return from an       *)
(* exception does not set the event register.                              *)
(***************************************************************************)
EXTENDS Integers, Sequences

CONSTANTS
    Capacity,      \* UART_RX_BUFFER_CAPACITY
    IndexMod,      \* 2^32: rx_head and rx_tail are uint32_t
    FifoDepth,     \* entries of the hardware FIFO
    Trigger,       \* fill level that raises the RX interrupt
    Timeout,       \* whether there is a receive timeout (QEMU has none)
    MaxBytes       \* bound: bytes that arrive

ASSUME UartAssumption ==
    /\ Capacity \in Nat \ {0}
    /\ IndexMod \in Nat /\ IndexMod > Capacity /\ IndexMod % Capacity = 0
    /\ FifoDepth \in Nat \ {0} /\ Trigger \in 1 .. FifoDepth /\ Timeout \in BOOLEAN
    /\ MaxBytes \in Nat

VARIABLES
    fifo,              \* hardware FIFO: the bytes and their error flags
    rx_status,         \* RX or receive-timeout interrupt raised
    armed,             \* the receive timeout is still to come
    error_status,      \* an error interrupt raised
    arrived,           \* bytes sent to the UART so far; each is its number
    rx_buffer, rx_head, rx_tail,
    rx_interrupts, rx_bytes, rx_overflows, rx_errors, rx_high_watermark,
    isr,               \* where uart_init or uart_handle_interrupt is
    pending_error,     \* its local "pending", the error bits
    received,          \* its local "received"
    event,             \* the CPU's event register
    getc,              \* where uart_getc is
    value,             \* its local "value"
    returned,          \* what the last uart_getc returned
    silenced           \* history: uart_init cleared the interrupt of bytes
                       \* that are in the FIFO, and no handler ran since

hardwareVars == <<fifo, rx_status, armed, error_status, arrived>>
ringVars == <<rx_buffer, rx_head, rx_tail, rx_high_watermark>>
countVars == <<rx_interrupts, rx_bytes, rx_overflows, rx_errors>>
isrVars == <<isr, pending_error, received>>
getcVars == <<getc, value, returned>>
vars == <<hardwareVars, ringVars, countVars, isrVars, event, getcVars, silenced>>

Byte == 1 .. MaxBytes
NoByte == 0

(* uart_init has emptied the FIFO and turned the receiver on.               *)
Init ==
    /\ fifo = <<>> /\ rx_status = FALSE /\ armed = FALSE /\ error_status = FALSE /\ arrived = 0
    /\ rx_buffer = [i \in 0 .. Capacity - 1 |-> NoByte]
    /\ rx_head = 0 /\ rx_tail = 0 /\ rx_high_watermark = 0
    /\ rx_interrupts = 0 /\ rx_bytes = 0 /\ rx_overflows = 0 /\ rx_errors = 0
    /\ isr = "init drain" /\ pending_error = FALSE /\ received = FALSE
    /\ event = FALSE
    /\ getc = "idle" /\ value = NoByte /\ returned = NoByte
    /\ silenced = FALSE

Used == (rx_head - rx_tail) % IndexMod

-----------------------------------------------------------------------------
(* The hardware, as uart.c uses it. *)

(* A byte arrives, perhaps with a framing or parity error; a full FIFO      *)
(* loses it and raises the overrun error.                                   *)
Arrive ==
    /\ arrived < MaxBytes
    /\ arrived' = arrived + 1
    /\ \E bad \in BOOLEAN :
           /\ fifo' = IF Len(fifo) < FifoDepth
                      THEN Append(fifo, [byte |-> arrived', bad |-> bad])
                      ELSE fifo
           /\ error_status' = (error_status \/ bad \/ Len(fifo) = FifoDepth)
           /\ rx_status' = (rx_status \/ (Len(fifo) < Trigger /\ Len(fifo') = Trigger))
    /\ armed' = Timeout
    /\ UNCHANGED <<ringVars, countVars, isrVars, event, getcVars, silenced>>

(* Bytes have been waiting for a while.                                     *)
ReceiveTimeout ==
    /\ fifo # <<>> /\ armed
    /\ rx_status' = TRUE /\ armed' = FALSE
    /\ UNCHANGED <<fifo, error_status, arrived, ringVars, countVars, isrVars,
                   event, getcVars, silenced>>

(* The event register is shared: the timer's handler executes SEV too. *)
OtherEvent ==
    /\ ~event
    /\ event' = TRUE
    /\ UNCHANGED <<hardwareVars, ringVars, countVars, isrVars, getcVars, silenced>>

-----------------------------------------------------------------------------
(* The end of uart_init, after its drain_rx_fifo *)

(* ICR is written with all ones.                                            *)
InitClear ==
    /\ isr = "init clear" /\ isr' = "init unmask"
    /\ rx_status' = FALSE /\ error_status' = FALSE
    /\ silenced' = (fifo # <<>> /\ ~armed)
    /\ UNCHANGED <<fifo, armed, arrived, ringVars, countVars, pending_error, received,
                   event, getcVars>>

(* IMSC is written; kernel_main goes on to unmask IRQs and run the shell.   *)
InitUnmask ==
    /\ isr = "init unmask" /\ isr' = "idle"
    /\ received' = FALSE
    /\ UNCHANGED <<hardwareVars, ringVars, countVars, pending_error, event, getcVars,
                   silenced>>

-----------------------------------------------------------------------------
(* uart_handle_interrupt *)

(* The interrupt is taken: the handler reads MIS and counts. *)
IsrEnter ==
    /\ isr = "idle"
    /\ rx_status \/ error_status
    /\ isr' = "clear"
    /\ pending_error' = error_status
    /\ received' = FALSE
    /\ rx_interrupts' = rx_interrupts + 1
    /\ silenced' = FALSE
    /\ UNCHANGED <<hardwareVars, ringVars, rx_bytes, rx_overflows, rx_errors,
                   event, getcVars>>

(* ICR is written with the error bits of "pending": an error raised after   *)
(* the read of MIS stays raised.                                            *)
IsrClear ==
    /\ isr = "clear"
    /\ isr' = "drain"
    /\ error_status' = (error_status /\ ~pending_error)
    /\ UNCHANGED <<fifo, rx_status, armed, arrived, ringVars, countVars,
                   pending_error, received, event, getcVars, silenced>>

(* Faulty variants: a dropped byte is not counted; the test for a full ring  *)
(* is one byte off.                                                          *)
Drop_silently == UNCHANGED rx_overflows
Full_late == Used > Capacity

Drop == rx_overflows' = rx_overflows + 1

Full == Used >= Capacity

rx_buffer_push(b) ==
    IF Full
    THEN Drop /\ UNCHANGED <<ringVars, received>>
    ELSE /\ rx_buffer' = [rx_buffer EXCEPT ![rx_head % Capacity] = b]
         /\ rx_head' = (rx_head + 1) % IndexMod
         /\ rx_high_watermark' = IF Used + 1 > rx_high_watermark
                                 THEN Used + 1 ELSE rx_high_watermark
         /\ received' = TRUE
         /\ UNCHANGED <<rx_tail, rx_overflows>>

(* One turn of the loop of drain_rx_fifo.  Emptying the FIFO withdraws the  *)
(* RX and timeout interrupts.                                               *)
drain_rx_fifo ==
    /\ isr \in {"drain", "init drain"}
    /\ fifo # <<>>
    /\ fifo' = Tail(fifo)
    /\ rx_status' = (rx_status /\ fifo' # <<>>)
    /\ armed' = (armed /\ fifo' # <<>>)
    /\ rx_bytes' = rx_bytes + 1
    /\ rx_errors' = rx_errors + (IF Head(fifo).bad THEN 1 ELSE 0)
    /\ rx_buffer_push(Head(fifo).byte)
    /\ UNCHANGED <<error_status, arrived, rx_interrupts, isr, pending_error,
                   event, getcVars, silenced>>

(* The loop found the FIFO empty. *)
IsrDrained ==
    /\ isr \in {"drain", "init drain"}
    /\ fifo = <<>>
    /\ isr' = IF isr = "drain" THEN "exit" ELSE "init clear"
    /\ UNCHANGED <<hardwareVars, ringVars, countVars, pending_error, received,
                   event, getcVars, silenced>>

(* Faulty variant: the handler does not execute SEV. *)
Sev_left_out == FALSE

Sev == received

(* SEV, and the return to the interrupted code. *)
IsrExit ==
    /\ isr = "exit"
    /\ isr' = "idle"
    /\ event' = (event \/ Sev)
    /\ UNCHANGED <<hardwareVars, ringVars, countVars, pending_error, received,
                   getcVars, silenced>>

-----------------------------------------------------------------------------
(* uart_getc, which runs only while no handler does *)

(* SEVL, so that the first WFE returns at once. *)
GetcCall ==
    /\ isr = "idle" /\ getc = "idle"
    /\ event' = TRUE
    /\ getc' = "check"
    /\ UNCHANGED <<hardwareVars, ringVars, countVars, isrVars, value, returned, silenced>>

(* rx_buffer_pop compares tail with head ...                                *)
GetcCheck ==
    /\ isr = "idle" /\ getc = "check"
    /\ getc' = IF rx_tail = rx_head THEN "wfe" ELSE "read"
    /\ UNCHANGED <<hardwareVars, ringVars, countVars, isrVars, event, value,
                   returned, silenced>>

(* Faulty variant: the index is advanced before the byte is read. *)
Oldest_advanced == rx_buffer[(rx_tail + 1) % Capacity]

Oldest == rx_buffer[rx_tail % Capacity]

(* ... reads the oldest byte ...                                            *)
GetcRead ==
    /\ isr = "idle" /\ getc = "read"
    /\ value' = Oldest
    /\ getc' = "take"
    /\ UNCHANGED <<hardwareVars, ringVars, countVars, isrVars, event, returned, silenced>>

(* ... and gives its place back; uart_getc returns the byte.                *)
GetcTake ==
    /\ isr = "idle" /\ getc = "take"
    /\ rx_tail' = (rx_tail + 1) % IndexMod
    /\ returned' = value
    /\ getc' = "idle"
    /\ UNCHANGED <<hardwareVars, rx_buffer, rx_head, rx_high_watermark,
                   countVars, isrVars, event, value, silenced>>

(* Faulty variant: WFI-like sleep that ignores an event already there. *)
EventThere_ignored == FALSE

EventThere == event

(* WFE consumes an event that is already there, or sleeps until one comes.  *)
GetcWfe ==
    /\ isr = "idle" /\ getc = "wfe"
    /\ getc' = IF EventThere THEN "check" ELSE "asleep"
    /\ event' = FALSE
    /\ UNCHANGED <<hardwareVars, ringVars, countVars, isrVars, value, returned, silenced>>

GetcWake ==
    /\ isr = "idle" /\ getc = "asleep"
    /\ event
    /\ event' = FALSE
    /\ getc' = "check"
    /\ UNCHANGED <<hardwareVars, ringVars, countVars, isrVars, value, returned, silenced>>

uart_init == InitClear \/ InitUnmask

Isr == uart_init \/ IsrEnter \/ IsrClear \/ drain_rx_fifo \/ IsrDrained \/ IsrExit

uart_getc == GetcCheck \/ GetcRead \/ GetcTake \/ GetcWfe \/ GetcWake

Next ==
    \/ Arrive
    \/ ReceiveTimeout
    \/ OtherEvent
    \/ Isr
    \/ GetcCall
    \/ uart_getc

(* The UART raises its timeout, a pending interrupt is taken and its        *)
(* handler runs on, and the interrupted code runs on.  Nothing makes bytes  *)
(* or other events come, or the shell call uart_getc.                       *)
Fairness == WF_vars(ReceiveTimeout) /\ WF_vars(Isr) /\ WF_vars(uart_getc)

Spec == Init /\ [][Next]_vars /\ Fairness

-----------------------------------------------------------------------------
TypeOK ==
    /\ fifo \in Seq([byte : Byte, bad : BOOLEAN]) /\ Len(fifo) <= FifoDepth
    /\ {rx_status, armed, error_status, pending_error, received, event, silenced}
           \subseteq BOOLEAN
    /\ arrived \in 0 .. MaxBytes
    /\ isr \in {"init drain", "init clear", "init unmask", "idle", "clear", "drain", "exit"}
    /\ rx_buffer \in [0 .. Capacity - 1 -> Byte \cup {NoByte}]
    /\ rx_head \in 0 .. IndexMod - 1 /\ rx_tail \in 0 .. IndexMod - 1
    /\ rx_high_watermark \in 0 .. Capacity
    /\ {rx_interrupts, rx_bytes, rx_overflows, rx_errors} \subseteq Nat
    /\ getc \in {"idle", "check", "read", "take", "wfe", "asleep"}
    /\ value \in Byte \cup {NoByte} /\ returned \in Byte \cup {NoByte}

(* The ring, oldest byte first. *)
Ring == [i \in 1 .. Used |-> rx_buffer[(rx_tail + i - 1) % Capacity]]

(* The shell sees a bounded queue: bytes come out of uart_getc in the order *)
(* they were read from the UART, each once, and one is dropped only when    *)
(* the queue is full and then counted, wherever the handler interrupts      *)
(* uart_getc and however the indices wrap (uart.c:59, 77).                  *)
Queue == INSTANCE RxQueue WITH queue <- Ring, overflows <- rx_overflows

RefinesQueue == Queue!QueueSpec

(* The counters account for every byte: each was lost in the hardware FIFO, *)
(* waits there, was dropped by a full ring, or was put in the ring, where    *)
(* it is younger than those before it; and a byte is dropped only after the *)
(* watermark reached the capacity.                                          *)
NoByteUnaccounted ==
    /\ rx_bytes + Len(fifo) <= arrived
    /\ Used <= rx_high_watermark
    /\ rx_head = (rx_bytes - rx_overflows) % IndexMod
    /\ rx_overflows > 0 => rx_high_watermark = Capacity
    /\ \A i \in 1 .. Used : \A j \in 1 .. Len(fifo) : Ring[i] < fifo[j].byte

(* uart_getc never sleeps over a byte that is in the ring: the event        *)
(* register closes the gap between its check and its WFE (uart.c:212).      *)
NoLostWakeup ==
    getc = "asleep" /\ isr = "idle" /\ ~event => rx_head = rx_tail

(* A byte that reaches the FIFO while uart_getc waits makes it return,      *)
(* except one whose interrupt uart_init cleared (uart.c:132).               *)
WaitingGetcReturns ==
    (getc # "idle" /\ ((fifo # <<>> /\ ~silenced) \/ rx_head # rx_tail)) ~> getc = "idle"

(* "The handler empties the hardware FIFO to the end, the shell waits in    *)
(* wfe while the buffer is empty, the ISR wakes it" (README.md:185-189): a  *)
(* byte the UART received reaches the waiting shell.  uart_init clears all  *)
(* interrupts after its last look at the FIFO (uart.c:129-132), and a byte  *)
(* that came between the two is not announced again.                        *)
ReceivedByteReturned ==
    (getc # "idle" /\ fifo # <<>>) ~> getc = "idle"
=============================================================================
