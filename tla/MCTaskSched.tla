----------------------------- MODULE MCTaskSched ------------------------------
(* The four task slots of the code over RAM with one page for the kernel and  *)
(* three to allocate: three workers use up both the slots and the pages, two  *)
(* workers and a page of other code the pages alone.  What an overflow leaves *)
(* in a stack's lowest word is a page number, as a link of the free list is.  *)
EXTENDS TaskSched

MCKernelEnd == <<1, 1>>
=============================================================================
