------------------------------ MODULE MCTaskDemo ------------------------------
(* Three commands, taskdemo of up to three rounds, over four pages: enough    *)
(* for memtest to pass, and for overflows to leave too few pages for memtest, *)
(* and too few slots for the second task, or for the first.  As on the real   *)
(* machine taskdemo runs out of slots before it runs out of pages.            *)
EXTENDS TaskDemo

MCKernelEnd == <<1, 1>>
=============================================================================
