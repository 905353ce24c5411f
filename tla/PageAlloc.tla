------------------------------ MODULE PageAlloc -------------------------------
(***************************************************************************)
(* The page allocator of src/page_alloc.c with an arbitrary caller: calls  *)
(* in any order, before and after page_alloc_init, releases of any         *)
(* pointer (null, misaligned, outside managed memory, already released),   *)
(* and writes of any value into the pages the caller holds, values that    *)
(* look like links included.                                               *)
(***************************************************************************)
EXTENDS PageHeap

CONSTANT Data      \* the values a page's first word may be given

ASSUME DataAssumption == Data \subseteq Nat

VARIABLES
    heap,          \* the static variables of page_alloc.c and the RAM
    held,          \* the pages handed out and not released
    ret            \* the last call and its result

vars == <<heap, held, ret>>

(* The pointers a caller may pass to page_free: every page of the machine,  *)
(* one page beyond its end, and a misaligned pointer into each.             *)
Address == (0 .. RamEnd) \X (0 .. PageSize - 1)

Init ==
    /\ \E word \in [Frame -> Data], dirty \in [Frame -> BOOLEAN] :
           heap = BssHeap(word, dirty)
    /\ held = {}
    /\ ret = [call |-> "none"]

InitCall ==
    /\ heap' = page_alloc_init(heap)
    /\ ret' = [call |-> "init"]
    /\ UNCHANGED held

AllocCall ==
    LET call == page_alloc(heap)
    IN  /\ heap' = call.heap
        /\ held' = held \cup ({call.ret} \ {Null})
        /\ ret' = [call |-> "alloc", value |-> PageAddr(call.ret)]

FreeCall(address) ==
    LET call == page_free(heap, address)
    IN  /\ heap' = call.heap
        /\ held' = IF call.ret = 1 THEN held \ {address[1]} ELSE held
        /\ ret' = [call |-> "free", arg |-> address, value |-> call.ret]

ClientWrite ==
    \E page \in held, value \in Data, other \in BOOLEAN :
        /\ heap' = WritePage(heap, page, value, other)
        /\ UNCHANGED <<held, ret>>

Next ==
    \/ InitCall
    \/ AllocCall
    \/ \E address \in Address : FreeCall(address)
    \/ ClientWrite

Spec == Init /\ [][Next]_vars

-----------------------------------------------------------------------------
TypeOK ==
    /\ heap \in HeapType
    /\ held \subseteq Frame

(* Every page ever carved from RAM is either held by one caller or on the   *)
(* free list, never both and never neither; used_pages counts the held      *)
(* ones; and the links have no cycle, so the double-free walk of page_free  *)
(* (page_alloc.c:93) ends.                                                  *)
HeapInvariant == HeapInv(heap, held)

(* The free list, found by walking it from its head, is exactly the carved  *)
(* pages nobody holds.                                                      *)
FreeListExact == FreeList(heap) = Carved(heap) \ held

(* page_alloc hands out only pages nobody holds, with every word zero,      *)
(* although the page's first word was a link or whatever RAM held           *)
(* (page_alloc.c:77).                                                       *)
AllocIsFresh ==
    [][\A page \in Frame :
           AllocCall /\ page = page_alloc(heap).ret =>
               page \notin held /\ page_is_zero(heap', page)]_vars

(* No call of the allocator, page_alloc_init and the refused ones included, *)
(* changes a page somebody holds before and after it: only the holder's own *)
(* write does.                                                              *)
HeldUntouched ==
    [][\/ ClientWrite
       \/ \A page \in held \cap held' :
              /\ heap'.word[page] = heap.word[page]
              /\ heap'.dirty[page] = heap.dirty[page]]_vars

(* A caller cannot tell the allocator from the set of pages of PagePool:    *)
(* an allocation is refused only when every managed page is out, a release  *)
(* accepted only for a page that is out.                                    *)
Pool == INSTANCE PagePool WITH
            Addr <- Address,
            Page <- {PageAddr(p) : p \in ManagedStart .. RamEnd - 1},
            NoPage <- PageAddr(Null),
            ready <- heap.initialized,
            allocated <- {PageAddr(p) : p \in held}

RefinesPool == Pool!PoolSpec
=============================================================================
