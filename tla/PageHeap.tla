------------------------------- MODULE PageHeap -------------------------------
(***************************************************************************)
(* The physical page allocator of src/page_alloc.c, as operators on a      *)
(* "heap": the six static variables of the file together with the contents *)
(* of the RAM they describe.  A call of the C interface is an operator     *)
(* that returns [ret, heap]: its result and the heap it leaves.  PageAlloc *)
(* drives these operators with an arbitrary client, TaskSched and TaskDemo *)
(* call them from task_create, task_reap and memtest.                      *)
(*                                                                         *)
(* Addresses.  PAGE_SIZE is a power of two and every static variable holds *)
(* a page-aligned address, so a page is its page number and an arbitrary   *)
(* pointer is a pair <<page, offset>>; masking with PAGE_SIZE - 1 yields   *)
(* the offset, and comparing a pointer with a page-aligned bound compares  *)
(* page numbers.  NULL is page 0.                                          *)
(*                                                                         *)
(* Contents.  The free list is intrusive: free_page.next is the first word *)
(* of a free page, the same word where a task keeps its stack canary and   *)
(* memtest its pattern.  word[p] is that first word, as a number: a page   *)
(* number when it is used as a pointer.  dirty[p] says whether one of the  *)
(* page's other words is not zero.                                         *)
(***************************************************************************)
EXTENDS Integers, FiniteSets

CONSTANTS
    PageSize,      \* PAGE_SIZE, in the unit of the offsets
    RamStart,      \* QEMU_RAM_START, a page number
    RamEnd,        \* QEMU_RAM_END, a page number
    KernelEnd      \* __kernel_end, the address <<page, offset>>

ASSUME PageSizeAssumption == PageSize \in Nat \ {0}
ASSUME RamAssumption ==
    RamStart \in Nat \ {0} /\ RamEnd \in Nat /\ RamStart <= RamEnd
ASSUME KernelEndAssumption == KernelEnd \in Nat \X (0 .. PageSize - 1)

Null == 0
Frame == RamStart .. RamEnd - 1
PageAddr(page) == <<page, 0>>

HeapType ==
    [initialized   : BOOLEAN,
     managed_start : Nat,
     bump_next     : Nat,
     free_list     : Nat,
     total_pages   : Nat,
     used_pages    : Nat,
     word          : [Frame -> Nat],
     dirty         : [Frame -> BOOLEAN]]

(* The static variables are in .bss, which boot.S clears.  RAM outside the  *)
(* kernel image is not cleared: it holds whatever the machine left there.   *)
BssHeap(word, dirty) ==
    [initialized |-> FALSE, managed_start |-> 0, bump_next |-> 0,
     free_list |-> Null, total_pages |-> 0, used_pages |-> 0,
     word |-> word, dirty |-> dirty]

align_up_to_page(address) ==
    IF address[2] = 0 THEN address[1] ELSE address[1] + 1

(* Where page_alloc_init puts managed_start: at the first page boundary     *)
(* after the kernel image, or at the end of RAM when that is not in RAM.    *)
ManagedStart ==
    LET start == align_up_to_page(KernelEnd)
    IN  IF start < RamStart \/ start > RamEnd THEN RamEnd ELSE start

page_alloc_init(h) ==
    IF h.initialized
    THEN h
    ELSE [h EXCEPT !.initialized = TRUE,
                   !.managed_start = ManagedStart,
                   !.bump_next = ManagedStart,
                   !.free_list = Null,
                   !.total_pages = RamEnd - ManagedStart,
                   !.used_pages = 0]

(* Faulty variants, for the mutation runs: the loop runs one word too far,   *)
(* into the first word of the next page; or starts at the second word.       *)
zero_page_too_far(h, page) ==
    [h EXCEPT !.word = [p \in Frame |->
                           IF p \in {page, page + 1} THEN 0 ELSE h.word[p]],
              !.dirty[page] = FALSE]

zero_page_from_second(h, page) == [h EXCEPT !.dirty[page] = FALSE]

zero_page(h, page) ==
    [h EXCEPT !.word[page] = 0, !.dirty[page] = FALSE]

(* Faulty variants: the page is cleared before its link is read; the bound   *)
(* of RAM is one page off.                                                   *)
page_alloc_clears_first(h) ==
    IF ~h.initialized \/ (h.free_list = Null /\ h.bump_next >= RamEnd)
    THEN [ret |-> Null, heap |-> h]
    ELSE IF h.free_list # Null
    THEN LET cleared == zero_page(h, h.free_list)
         IN  [ret |-> h.free_list,
              heap |-> [cleared EXCEPT !.free_list = cleared.word[h.free_list],
                                       !.used_pages = @ + 1]]
    ELSE [ret |-> h.bump_next,
          heap |-> zero_page([h EXCEPT !.bump_next = @ + 1,
                                       !.used_pages = @ + 1], h.bump_next)]

page_alloc_past_end(h) ==
    LET listed == h.free_list # Null
        page == IF listed THEN h.free_list ELSE h.bump_next
        unlinked ==
            IF listed THEN [h EXCEPT !.free_list = h.word[page]]
                      ELSE [h EXCEPT !.bump_next = @ + 1]
    IN  IF ~h.initialized \/ (~listed /\ h.bump_next > RamEnd)
        THEN [ret |-> Null, heap |-> h]
        ELSE [ret |-> page,
              heap |-> zero_page([unlinked EXCEPT !.used_pages = @ + 1], page)]

page_alloc(h) ==
    LET listed == h.free_list # Null
        page == IF listed THEN h.free_list ELSE h.bump_next
        unlinked ==
            IF listed THEN [h EXCEPT !.free_list = h.word[page]]
                      ELSE [h EXCEPT !.bump_next = @ + 1]
    IN  IF ~h.initialized \/ (~listed /\ h.bump_next >= RamEnd)
        THEN [ret |-> Null, heap |-> h]
        ELSE [ret |-> page,
              heap |-> zero_page([unlinked EXCEPT !.used_pages = @ + 1], page)]

(* The pages a walk from free_list along the links visits: the smallest set *)
(* that holds the head and is closed under following a link.                *)
ClosedUnderLinks(h, pages) ==
    /\ h.free_list \in Frame => h.free_list \in pages
    /\ \A p \in pages : h.word[p] \in Frame => h.word[p] \in pages

FreeList(h) ==
    {p \in Frame : \A pages \in SUBSET Frame :
                       ClosedUnderLinks(h, pages) => p \in pages}

(* Faulty variants: no walk for a double free; the first managed page is     *)
(* taken for one outside.                                                    *)
page_free_no_walk(h, address) ==
    LET page == address[1]
    IN  IF /\ h.initialized /\ address[2] = 0 /\ page >= h.managed_start
           /\ page < h.bump_next /\ page < RamEnd /\ h.used_pages # 0
        THEN [ret |-> 1, heap |-> [h EXCEPT !.word[page] = h.free_list,
                                            !.free_list = page,
                                            !.used_pages = @ - 1]]
        ELSE [ret |-> 0, heap |-> h]

page_free_not_first(h, address) ==
    LET page == address[1]
    IN  IF /\ h.initialized /\ address[2] = 0 /\ page > h.managed_start
           /\ page < h.bump_next /\ page < RamEnd /\ h.used_pages # 0
           /\ page \notin FreeList(h)
        THEN [ret |-> 1, heap |-> [h EXCEPT !.word[page] = h.free_list,
                                            !.free_list = page,
                                            !.used_pages = @ - 1]]
        ELSE [ret |-> 0, heap |-> h]

page_free(h, address) ==
    LET page == address[1]
        valid == /\ h.initialized
                 /\ address # PageAddr(Null)
                 /\ address[2] = 0
                 /\ page >= h.managed_start
                 /\ page < h.bump_next
                 /\ page < RamEnd
                 /\ h.used_pages # 0
                 /\ page \notin FreeList(h)
    IN  IF valid
        THEN [ret |-> 1,
              heap |-> [h EXCEPT !.word[page] = h.free_list,
                                 !.free_list = page,
                                 !.used_pages = @ - 1]]
        ELSE [ret |-> 0, heap |-> h]

page_free_pages(h) == h.total_pages - h.used_pages

(* What a holder of a page may do with it: write its first word, as         *)
(* task_create does with the canary, or any other word.                     *)
WritePage(h, page, value, other) ==
    [h EXCEPT !.word[page] = value, !.dirty[page] = other]

page_is_zero(h, page) == h.word[page] = 0 /\ ~h.dirty[page]

-----------------------------------------------------------------------------
(* What the heap promises when the pages of "held" are the ones callers     *)
(* hold.                                                                    *)

(* The pages the allocator has ever handed out. *)
Carved(h) == h.managed_start .. h.bump_next - 1

(* The pages of managed memory that no caller holds. *)
Spare(h, held) == Carved(h) \ held

(* The static variables before and after page_alloc_init. *)
BoundsOK(h, held) ==
    /\ held \subseteq Carved(h)
    /\ h.used_pages = Cardinality(held)
    /\ IF h.initialized
       THEN /\ h.managed_start = ManagedStart
            /\ h.bump_next \in ManagedStart .. RamEnd
            /\ h.total_pages = RamEnd - ManagedStart
       ELSE /\ h.free_list = Null
            /\ h.managed_start = 0
            /\ h.bump_next = 0
            /\ h.used_pages = 0

(* Head and links stay inside the spare pages: no page a caller holds is    *)
(* ever the target of a link, so a later allocation cannot hand it out.     *)
LinksInside(h, held) ==
    /\ h.free_list \in Spare(h, held) \cup {Null}
    /\ \A p \in Spare(h, held) : h.word[p] \in Spare(h, held) \cup {Null}

(* No page is linked from two places, nor is the head linked at all. *)
LinksOnce(h, held) ==
    /\ \A p \in Spare(h, held) : h.word[p] # Null => h.word[p] # h.free_list
    /\ \A p, q \in Spare(h, held) :
           h.word[p] = h.word[q] /\ h.word[p] # Null => p = q

(* Every spare page is on the list: none is lost. *)
NoneLost(h, held) ==
    \A pages \in SUBSET Spare(h, held) :
        ClosedUnderLinks(h, pages) => pages = Spare(h, held)

(* The links have no cycle: in every non-empty set of spare pages one has   *)
(* its link out of the set.  The walk of page_free therefore ends.          *)
LinksEnd(h, held) ==
    \A pages \in SUBSET Spare(h, held) :
        pages # {} => \E p \in pages : h.word[p] \notin pages

HeapInv(h, held) ==
    /\ BoundsOK(h, held)
    /\ LinksInside(h, held)
    /\ LinksOnce(h, held)
    /\ NoneLost(h, held)
    /\ LinksEnd(h, held)
=============================================================================
