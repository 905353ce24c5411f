------------------------------- MODULE PagePool -------------------------------
(***************************************************************************)
(* What the page allocator promises its callers, with no free list and no  *)
(* memory contents: a set of pages that are handed out, an allocation that *)
(* fails only when every page is out, and a release that succeeds for      *)
(* exactly the pages that are out.                                         *)
(***************************************************************************)
CONSTANTS
    Addr,          \* every pointer a caller may pass
    Page,          \* the addresses of the managed pages
    NoPage         \* the null pointer

VARIABLES
    ready,         \* has the allocator been initialised?
    allocated,     \* the pages handed out and not released
    ret            \* the last call and its result

poolVars == <<ready, allocated, ret>>

PoolInit ==
    /\ ready = FALSE
    /\ allocated = {}
    /\ ret = [call |-> "none"]

Initialise ==
    /\ ready' = TRUE
    /\ ret' = [call |-> "init"]
    /\ UNCHANGED allocated

Allocate ==
    \E p \in Page \ allocated :
        /\ ready
        /\ allocated' = allocated \cup {p}
        /\ ret' = [call |-> "alloc", value |-> p]
        /\ UNCHANGED ready

RefuseAllocate ==
    /\ ~ready \/ Page \subseteq allocated
    /\ ret' = [call |-> "alloc", value |-> NoPage]
    /\ UNCHANGED <<ready, allocated>>

Release(a) ==
    /\ allocated' = allocated \ {a}
    /\ ret' = [call |-> "free", arg |-> a,
               value |-> IF a \in allocated THEN 1 ELSE 0]
    /\ UNCHANGED ready

PoolNext ==
    \/ Initialise
    \/ Allocate
    \/ RefuseAllocate
    \/ \E a \in Addr : Release(a)

PoolSpec == PoolInit /\ [][PoolNext]_poolVars
=============================================================================
