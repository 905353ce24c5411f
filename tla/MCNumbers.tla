----------------------------- MODULE MCNumbers ---------------------------------
(* Arguments of up to four characters for integers of eight bits: the largest *)
(* are forty times too large.                                                 *)
EXTENDS Numbers
=============================================================================
