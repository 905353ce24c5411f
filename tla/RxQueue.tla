------------------------------- MODULE RxQueue --------------------------------
(***************************************************************************)
(* What the receive side of src/uart.c promises the shell: a queue of at   *)
(* most Capacity bytes.  A byte read from the UART joins its end, or is    *)
(* counted as an overflow when the queue is full; uart_getc returns the    *)
(* oldest byte.                                                            *)
(***************************************************************************)
EXTENDS Naturals, Sequences

CONSTANTS Capacity, Byte, NoByte

VARIABLES
    queue,         \* the bytes received and not yet returned, oldest first
    overflows,     \* the bytes that found the queue full
    returned       \* what the last uart_getc returned

queueVars == <<queue, overflows, returned>>

QueueInit ==
    /\ queue = <<>>
    /\ overflows = 0
    /\ returned = NoByte

Receive(b) ==
    /\ Len(queue) < Capacity
    /\ queue' = Append(queue, b)
    /\ UNCHANGED <<overflows, returned>>

Overflow ==
    /\ Len(queue) = Capacity
    /\ overflows' = overflows + 1
    /\ UNCHANGED <<queue, returned>>

Return ==
    /\ queue # <<>>
    /\ returned' = Head(queue)
    /\ queue' = Tail(queue)
    /\ UNCHANGED overflows

QueueNext ==
    \/ \E b \in Byte : Receive(b)
    \/ Overflow
    \/ Return

QueueSpec == QueueInit /\ [][QueueNext]_queueVars
=============================================================================
