--------------------------------- MODULE MCMmu ---------------------------------
(* Mmu has no constants: the instance is the machine, all 4 GiB of it, and     *)
(* every state the firmware may leave it in.                                   *)
EXTENDS Mmu
=============================================================================
