------------------------------- MODULE MCUartRx -------------------------------
(* A ring of two bytes behind a FIFO of two: with five bytes the ring         *)
(* overflows and its indices, modulo four, wrap around.                       *)
EXTENDS UartRx
=============================================================================
