----------------------------- MODULE MCPageAlloc ------------------------------
(* RAM of four pages whose kernel image ends in the middle of page 2, the    *)
(* first, which leaves three to allocate.                                    *)
EXTENDS PageAlloc

MCKernelEnd == <<2, 1>>
=============================================================================
