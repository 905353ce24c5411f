----------------------------- MODULE MCInterrupts ------------------------------
(* Two deadlines, two bytes and one pulse: each device can raise its line      *)
(* again while its handler runs, and the lines can rise in any order.          *)
EXTENDS Interrupts
=============================================================================
