---------------------------- MODULE PageHeapProofs ----------------------------
(***************************************************************************)
(* What each call of the page allocator does to a heap that satisfies      *)
(* HeapInv, for every amount of RAM and every kernel size.  The lemmas are *)
(* stated about the operators of PageHeap, so that the proofs of the       *)
(* modules that call the allocator can cite them.                          *)
(***************************************************************************)
EXTENDS PageHeap, FiniteSetTheorems, TLAPS

(* page_alloc_init puts the managed pages inside RAM, whatever __kernel_end *)
(* is (page_alloc.c:45).                                                    *)
LEMMA ManagedStartInRam == /\ ManagedStart \in Nat
                           /\ RamStart <= ManagedStart
                           /\ ManagedStart <= RamEnd
  BY RamAssumption, KernelEndAssumption, SMT DEF ManagedStart, align_up_to_page

(* The pages callers hold are real pages, finitely many. *)
LEMMA HeldPages ==
  ASSUME NEW h \in HeapType, NEW held, BoundsOK(h, held)
  PROVE  /\ Carved(h) \subseteq Frame
         /\ held \subseteq Frame
         /\ IsFiniteSet(held)
         /\ Null \notin Carved(h)
<1>1. Carved(h) \subseteq Frame /\ Null \notin Carved(h)
  BY RamAssumption, ManagedStartInRam
     DEF BoundsOK, Carved, Frame, Null, HeapType
<1>2. IsFiniteSet(Frame)
  BY FS_Interval, RamAssumption DEF Frame
<1> QED
  BY <1>1, <1>2, FS_Subset DEF BoundsOK

(* Before page_alloc_init nothing is managed and every call is refused. *)
LEMMA BssHeapInv ==
  ASSUME NEW word \in [Frame -> Nat], NEW dirty \in [Frame -> BOOLEAN]
  PROVE  /\ BssHeap(word, dirty) \in HeapType
         /\ HeapInv(BssHeap(word, dirty), {})
<1> DEFINE h == BssHeap(word, dirty)
<1>1. h \in HeapType
  BY DEF BssHeap, HeapType, Null
<1>2. Carved(h) = {}
  BY DEF BssHeap, Carved
<1>3. Spare(h, {}) = {}
  BY <1>2 DEF Spare
<1>4. BoundsOK(h, {})
  BY <1>2, FS_EmptySet DEF BoundsOK, BssHeap, Null
<1>5. h.free_list = Null
  BY DEF BssHeap
<1> QED
  BY <1>1, <1>3, <1>4, <1>5
     DEF HeapInv, LinksInside, LinksOnce, NoneLost, LinksEnd

(* page_alloc_init takes an uninitialised allocator to an empty pool and    *)
(* leaves an initialised one alone.                                         *)
LEMMA InitInv ==
  ASSUME NEW h \in HeapType, NEW held, HeapInv(h, held)
  PROVE  /\ page_alloc_init(h) \in HeapType
         /\ HeapInv(page_alloc_init(h), held)
         /\ page_alloc_init(h).initialized
         /\ page_alloc_init(h).word = h.word
         /\ page_alloc_init(h).dirty = h.dirty
<1> DEFINE k == page_alloc_init(h)
<1>1. CASE h.initialized
  BY <1>1 DEF page_alloc_init
<1>2. CASE ~h.initialized
  <2>1. k = [h EXCEPT !.initialized = TRUE,
                      !.managed_start = ManagedStart,
                      !.bump_next = ManagedStart,
                      !.free_list = Null,
                      !.total_pages = RamEnd - ManagedStart,
                      !.used_pages = 0]
    BY <1>2 DEF page_alloc_init
  <2>2. /\ k.initialized = TRUE /\ k.managed_start = ManagedStart
        /\ k.bump_next = ManagedStart /\ k.free_list = Null
        /\ k.total_pages = RamEnd - ManagedStart /\ k.used_pages = 0
        /\ k.word = h.word /\ k.dirty = h.dirty
    BY <2>1 DEF HeapType
  <2>3. k \in HeapType
    <3>1. RamEnd - ManagedStart \in Nat
      BY ManagedStartInRam, RamAssumption
    <3> HIDE DEF k
    <3> QED
      BY <2>1, <3>1, ManagedStartInRam DEF HeapType, Null
  <2>4. held = {}
    BY <1>2 DEF HeapInv, BoundsOK, Carved, HeapType
  <2>5. Carved(k) = {}
    BY <2>2, ManagedStartInRam DEF Carved
  <2>6. Spare(k, held) = {}
    BY <2>5 DEF Spare
  <2>7. BoundsOK(k, held)
    BY <2>2, <2>4, <2>5, FS_EmptySet, ManagedStartInRam, RamAssumption
       DEF BoundsOK
  <2>8. HeapInv(k, held)
    BY <2>2, <2>6, <2>7
       DEF HeapInv, LinksInside, LinksOnce, NoneLost, LinksEnd
  <2> QED
    BY <2>2, <2>3, <2>8
<1> QED
  BY <1>1, <1>2 DEF HeapType

(* The pages left to the allocator after one more is held. *)
LEMMA PopInv ==
  ASSUME NEW h \in HeapType, NEW held, HeapInv(h, held),
         h.initialized, h.free_list # Null
  PROVE  LET k == page_alloc(h).heap
             page == page_alloc(h).ret
         IN  /\ page = h.free_list
             /\ page \in Frame \ held
             /\ k \in HeapType
             /\ HeapInv(k, held \cup {page})
             /\ k.word = [h.word EXCEPT ![page] = 0]
             /\ k.dirty = [h.dirty EXCEPT ![page] = FALSE]
             /\ k.initialized
<1> DEFINE page == h.free_list
           k == page_alloc(h).heap
<1>1. /\ page_alloc(h).ret = page
      /\ k = [h EXCEPT !.free_list = h.word[page],
                       !.used_pages = h.used_pages + 1,
                       !.word = [h.word EXCEPT ![page] = 0],
                       !.dirty = [h.dirty EXCEPT ![page] = FALSE]]
  BY DEF page_alloc, zero_page, HeapType
<1>2. page \in Spare(h, held)
  BY DEF HeapInv, LinksInside
<1>3. page \in Frame \ held /\ IsFiniteSet(held) /\ Carved(h) \subseteq Frame
  BY <1>2, HeldPages DEF Spare, HeapInv
<1>4. /\ k.initialized = h.initialized
      /\ k.managed_start = h.managed_start
      /\ k.bump_next = h.bump_next
      /\ k.free_list = h.word[page]
      /\ k.total_pages = h.total_pages
      /\ k.used_pages = h.used_pages + 1
      /\ k.word = [h.word EXCEPT ![page] = 0]
      /\ k.dirty = [h.dirty EXCEPT ![page] = FALSE]
  BY <1>1 DEF HeapType
<1>5. k \in HeapType
  <2>1. h.word[page] \in Nat /\ h.used_pages + 1 \in Nat
    BY <1>3 DEF HeapType
  <2>2. /\ [h.word EXCEPT ![page] = 0] \in [Frame -> Nat]
        /\ [h.dirty EXCEPT ![page] = FALSE] \in [Frame -> BOOLEAN]
    BY <1>3 DEF HeapType
  <2> HIDE DEF k
  <2> QED
    BY <1>1, <2>1, <2>2 DEF HeapType
<1> HIDE DEF k, page
<1>6. Carved(k) = Carved(h)
  BY <1>4 DEF Carved
<1>7. Spare(k, held \cup {page}) = Spare(h, held) \ {page}
  BY <1>6 DEF Spare
<1>8. \A p \in Spare(h, held) \ {page} : k.word[p] = h.word[p]
  BY <1>3, <1>4 DEF Spare, HeapType
<1>9. BoundsOK(k, held \cup {page})
  <2>1. Cardinality(held \cup {page}) = Cardinality(held) + 1
    BY <1>3, FS_AddElement
  <2> QED
    BY <1>2, <1>4, <1>6, <2>1 DEF HeapInv, BoundsOK, Spare
<1>10. LinksInside(k, held \cup {page})
  <2>1. h.word[page] \in (Spare(h, held) \ {page}) \cup {Null}
    BY <1>2 DEF HeapInv, LinksInside, LinksOnce, page
  <2>2. \A p \in Spare(h, held) \ {page} :
            h.word[p] \in (Spare(h, held) \ {page}) \cup {Null}
    BY DEF HeapInv, LinksInside, LinksOnce, page
  <2> QED
    BY <1>4, <1>7, <1>8, <2>1, <2>2 DEF LinksInside
<1>11. LinksOnce(k, held \cup {page})
  BY <1>2, <1>4, <1>7, <1>8 DEF HeapInv, LinksOnce
<1>12. NoneLost(k, held \cup {page})
  <2> SUFFICES ASSUME NEW S \in SUBSET (Spare(h, held) \ {page}),
                      ClosedUnderLinks(k, S)
               PROVE  S = Spare(h, held) \ {page}
    BY <1>7 DEF NoneLost
  <2>1. ClosedUnderLinks(h, S \cup {page})
    BY <1>4, <1>8 DEF ClosedUnderLinks, page
  <2>2. S \cup {page} = Spare(h, held)
    BY <1>2, <2>1 DEF HeapInv, NoneLost
  <2> QED
    BY <2>2
<1>13. LinksEnd(k, held \cup {page})
  BY <1>7, <1>8 DEF HeapInv, LinksEnd
<1> QED
  BY <1>1, <1>3, <1>4, <1>5, <1>9, <1>10, <1>11, <1>12, <1>13
     DEF HeapInv, k, page

(* Taking the next page of RAM when no released page is left. *)
LEMMA BumpInv ==
  ASSUME NEW h \in HeapType, NEW held, HeapInv(h, held),
         h.initialized, h.free_list = Null, h.bump_next < RamEnd
  PROVE  LET k == page_alloc(h).heap
             page == page_alloc(h).ret
         IN  /\ page = h.bump_next
             /\ page \in Frame \ held
             /\ k \in HeapType
             /\ HeapInv(k, held \cup {page})
             /\ k.word = [h.word EXCEPT ![page] = 0]
             /\ k.dirty = [h.dirty EXCEPT ![page] = FALSE]
             /\ k.initialized
<1> DEFINE page == h.bump_next
           k == page_alloc(h).heap
<1>1. /\ page_alloc(h).ret = page
      /\ k = [h EXCEPT !.bump_next = h.bump_next + 1,
                       !.used_pages = h.used_pages + 1,
                       !.word = [h.word EXCEPT ![page] = 0],
                       !.dirty = [h.dirty EXCEPT ![page] = FALSE]]
  BY RamAssumption DEF page_alloc, zero_page, HeapType
<1>2. page \in ManagedStart .. RamEnd - 1 /\ h.managed_start = ManagedStart
  BY ManagedStartInRam, RamAssumption DEF HeapInv, BoundsOK
<1>3. /\ page \in Frame \ held
      /\ page \notin Carved(h)
      /\ IsFiniteSet(held)
      /\ Carved(h) \subseteq Frame
  <2>1. page \notin Carved(h)
    BY <1>2, ManagedStartInRam DEF Carved
  <2>2. page \in Frame
    BY <1>2, ManagedStartInRam, RamAssumption DEF Frame
  <2> QED
    BY <2>1, <2>2, HeldPages DEF HeapInv, BoundsOK
<1>4. /\ k.initialized = h.initialized
      /\ k.managed_start = h.managed_start
      /\ k.bump_next = h.bump_next + 1
      /\ k.free_list = Null
      /\ k.total_pages = h.total_pages
      /\ k.used_pages = h.used_pages + 1
      /\ k.word = [h.word EXCEPT ![page] = 0]
      /\ k.dirty = [h.dirty EXCEPT ![page] = FALSE]
  BY <1>1 DEF HeapType
<1>5. k \in HeapType
  <2>1. h.bump_next + 1 \in Nat /\ h.used_pages + 1 \in Nat
    BY DEF HeapType
  <2>2. /\ [h.word EXCEPT ![page] = 0] \in [Frame -> Nat]
        /\ [h.dirty EXCEPT ![page] = FALSE] \in [Frame -> BOOLEAN]
    BY <1>3 DEF HeapType
  <2> HIDE DEF k
  <2> QED
    BY <1>1, <2>1, <2>2 DEF HeapType
<1>6. Carved(h) \cup {page} = Carved(k)
  BY <1>2, <1>4, ManagedStartInRam, RamAssumption DEF Carved
<1> HIDE DEF k, page
<1>7. Spare(k, held \cup {page}) = Spare(h, held)
  BY <1>3, <1>6 DEF Spare
<1>8. \A p \in Spare(h, held) : k.word[p] = h.word[p]
  BY <1>3, <1>4 DEF Spare, HeapType
<1>9. BoundsOK(k, held \cup {page})
  <2>1. Cardinality(held \cup {page}) = Cardinality(held) + 1
    BY <1>3, FS_AddElement
  <2>2. held \cup {page} \subseteq Carved(k)
    BY <1>6 DEF HeapInv, BoundsOK
  <2>3. k.bump_next \in ManagedStart .. RamEnd
    BY <1>2, <1>4, ManagedStartInRam, RamAssumption DEF page
  <2> QED
    BY <1>4, <2>1, <2>2, <2>3 DEF HeapInv, BoundsOK
<1>10. LinksInside(k, held \cup {page})
  BY <1>4, <1>7, <1>8 DEF HeapInv, LinksInside
<1>11. LinksOnce(k, held \cup {page})
  BY <1>4, <1>7, <1>8 DEF HeapInv, LinksOnce
<1>12. NoneLost(k, held \cup {page})
  BY <1>4, <1>7, <1>8 DEF HeapInv, NoneLost, ClosedUnderLinks
<1>13. LinksEnd(k, held \cup {page})
  BY <1>7, <1>8 DEF HeapInv, LinksEnd
<1> QED
  BY <1>1, <1>3, <1>4, <1>5, <1>9, <1>10, <1>11, <1>12, <1>13
     DEF HeapInv, k, page

(* page_alloc: it is refused, or hands out a page nobody holds, cleared,    *)
(* and writes to no other page.                                             *)
LEMMA AllocInv ==
  ASSUME NEW h \in HeapType, NEW held, HeapInv(h, held)
  PROVE  LET k == page_alloc(h).heap
             page == page_alloc(h).ret
         IN  /\ k \in HeapType
             /\ HeapInv(k, held \cup ({page} \ {Null}))
             /\ page # Null =>
                    /\ page \in Frame \ held
                    /\ HeapInv(k, held \cup {page})
                    /\ k.word = [h.word EXCEPT ![page] = 0]
                    /\ k.dirty = [h.dirty EXCEPT ![page] = FALSE]
             /\ page = Null =>
                    /\ k = h
                    /\ h.initialized =>
                           h.free_list = Null /\ h.bump_next = RamEnd
             /\ k.initialized = h.initialized
<1>0. Null \notin Frame
  BY RamAssumption DEF Frame, Null
<1> DEFINE page == page_alloc(h).ret
           k == page_alloc(h).heap
<1>a. ASSUME page \in Frame \ held, h.initialized, k.initialized,
             k \in HeapType, HeapInv(k, held \cup {page}),
             k.word = [h.word EXCEPT ![page] = 0],
             k.dirty = [h.dirty EXCEPT ![page] = FALSE]
      PROVE  /\ page # Null
             /\ HeapInv(k, held \cup ({page} \ {Null}))
             /\ k.initialized = h.initialized
  <2>1. page # Null /\ {page} \ {Null} = {page}
    BY <1>0, <1>a
  <2>2. k.initialized = h.initialized
    BY <1>a DEF HeapType
  <2> HIDE DEF page, k
  <2> QED
    BY <1>a, <2>1, <2>2
<1>1. CASE h.initialized /\ h.free_list # Null
  <2>1. /\ page \in Frame \ held /\ k.initialized
        /\ k \in HeapType /\ HeapInv(k, held \cup {page})
        /\ k.word = [h.word EXCEPT ![page] = 0]
        /\ k.dirty = [h.dirty EXCEPT ![page] = FALSE]
    BY <1>1, PopInv
  <2> QED
    BY <1>1, <1>a, <2>1
<1>2. CASE h.initialized /\ h.free_list = Null /\ h.bump_next < RamEnd
  <2>1. /\ page \in Frame \ held /\ k.initialized
        /\ k \in HeapType /\ HeapInv(k, held \cup {page})
        /\ k.word = [h.word EXCEPT ![page] = 0]
        /\ k.dirty = [h.dirty EXCEPT ![page] = FALSE]
    BY <1>2, BumpInv
  <2> QED
    BY <1>2, <1>a, <2>1
<1>3. CASE ~h.initialized \/ (h.free_list = Null /\ ~(h.bump_next < RamEnd))
  <2>1. page_alloc(h) = [ret |-> Null, heap |-> h]
    BY <1>3, RamAssumption DEF page_alloc, HeapType
  <2>2. h.initialized => h.free_list = Null /\ h.bump_next = RamEnd
    BY <1>3, RamAssumption, ManagedStartInRam DEF HeapInv, BoundsOK
  <2>3. held \cup ({page} \ {Null}) = held /\ page = Null /\ k = h
    BY <2>1
  <2> HIDE DEF page, k
  <2>4. k \in HeapType /\ HeapInv(k, held \cup ({page} \ {Null}))
    BY <2>3
  <2> QED
    BY <2>2, <2>3, <2>4 DEF page, k
<1> QED
  BY <1>1, <1>2, <1>3 DEF HeapType

(* The walk from the head visits exactly the spare pages. *)
LEMMA FreeListIsSpare ==
  ASSUME NEW h \in HeapType, NEW held, HeapInv(h, held)
  PROVE  FreeList(h) = Spare(h, held)
<1>1. Spare(h, held) \in SUBSET Frame
  BY HeldPages DEF HeapInv, Spare
<1>2. ClosedUnderLinks(h, Spare(h, held))
  <2>1. Null \notin Frame
    BY RamAssumption DEF Frame, Null
  <2> QED
    BY <2>1 DEF HeapInv, LinksInside, ClosedUnderLinks
<1>3. ASSUME NEW S \in SUBSET Frame, ClosedUnderLinks(h, S)
      PROVE  Spare(h, held) \subseteq S
  <2>1. ClosedUnderLinks(h, S \cap Spare(h, held))
    BY <1>1, <1>2, <1>3 DEF ClosedUnderLinks
  <2> QED
    BY <2>1 DEF HeapInv, NoneLost
<1>4. FreeList(h) \subseteq Spare(h, held)
  BY <1>1, <1>2 DEF FreeList
<1>5. Spare(h, held) \subseteq FreeList(h)
  BY <1>1, <1>3 DEF FreeList
<1> QED
  BY <1>4, <1>5

(* page_free accepts exactly the held pages.  An accepted page leaves the   *)
(* held ones, and only its own first word is written.                       *)
LEMMA FreeInv ==
  ASSUME NEW h \in HeapType, NEW held, HeapInv(h, held),
         NEW page \in Nat, NEW offset \in Nat
  PROVE  LET call == page_free(h, <<page, offset>>)
             k == call.heap
         IN  /\ call.ret = IF page \in held /\ offset = 0 THEN 1 ELSE 0
             /\ k \in HeapType
             /\ call.ret = 1 =>
                    /\ HeapInv(k, held \ {page})
                    /\ k.word = [h.word EXCEPT ![page] = h.free_list]
                    /\ k.dirty = h.dirty
             /\ call.ret = 0 => k = h
             /\ k.initialized = h.initialized
<1> DEFINE call == page_free(h, <<page, offset>>)
           k == call.heap
<1>1. FreeList(h) = Carved(h) \ held
  BY FreeListIsSpare DEF Spare
<1>2. CASE ~(page \in held /\ offset = 0)
  <2>1. page \in Carved(h) /\ offset = 0 => page \in FreeList(h)
    BY <1>1, <1>2
  <2>2. call = [ret |-> 0, heap |-> h]
    <3>1. page >= h.managed_start /\ page < h.bump_next => page \in Carved(h)
      BY DEF Carved, HeapType
    <3> QED
      BY <2>1, <3>1 DEF page_free
  <2> QED
    BY <1>2, <2>2
<1>3. CASE page \in held /\ offset = 0
  <2>1. /\ h.initialized
        /\ page \in Carved(h)
        /\ page \notin FreeList(h)
        /\ page \in Frame
        /\ IsFiniteSet(held)
        /\ Carved(h) \subseteq Frame
        /\ page # Null
    <3>1. page \in Carved(h) /\ page \in Frame /\ page # Null
      BY <1>3, HeldPages DEF HeapInv, BoundsOK
    <3>2. h.initialized
      BY <3>1 DEF HeapInv, BoundsOK, Carved
    <3> QED
      BY <1>1, <1>3, <3>1, <3>2, HeldPages DEF HeapInv
  <2>2. h.used_pages # 0 /\ Cardinality(held \ {page}) = h.used_pages - 1
    <3>1. /\ Cardinality(held \ {page}) = Cardinality(held) - 1
          /\ IsFiniteSet(held \ {page})
      BY <1>3, <2>1, FS_RemoveElement
    <3>2. Cardinality(held \ {page}) \in Nat /\ Cardinality(held) \in Nat
      BY <2>1, <3>1, FS_CardinalityType
    <3> QED
      BY <3>1, <3>2 DEF HeapInv, BoundsOK
  <2>3. /\ call.ret = 1
        /\ k = [h EXCEPT !.word = [h.word EXCEPT ![page] = h.free_list],
                         !.free_list = page,
                         !.used_pages = h.used_pages - 1]
    <3>1. /\ page >= h.managed_start
          /\ page < h.bump_next
          /\ page < RamEnd
          /\ <<page, offset>> # PageAddr(Null)
      BY <1>3, <2>1, RamAssumption DEF Carved, Frame, PageAddr, Null, HeapType
    <3> QED
      BY <1>3, <2>1, <2>2, <3>1 DEF page_free, HeapType
  <2>4. /\ k.initialized = h.initialized
        /\ k.managed_start = h.managed_start
        /\ k.bump_next = h.bump_next
        /\ k.free_list = page
        /\ k.total_pages = h.total_pages
        /\ k.used_pages = h.used_pages - 1
        /\ k.word = [h.word EXCEPT ![page] = h.free_list]
        /\ k.dirty = h.dirty
    BY <2>3 DEF HeapType
  <2>5. k \in HeapType
    <3>1. h.used_pages - 1 \in Nat
      BY <2>2 DEF HeapType
    <3>2. [h.word EXCEPT ![page] = h.free_list] \in [Frame -> Nat]
      BY <2>1 DEF HeapType
    <3> HIDE DEF k
    <3> QED
      BY <2>3, <3>1, <3>2 DEF HeapType
  <2> HIDE DEF k, call
  <2>6. Spare(k, held \ {page}) = Spare(h, held) \cup {page}
    BY <1>3, <2>1, <2>4 DEF Spare, Carved
  <2>7. /\ page \notin Spare(h, held)
        /\ k.word[page] = h.free_list
        /\ \A p \in Spare(h, held) : k.word[p] = h.word[p]
    BY <1>3, <2>1, <2>4 DEF Spare, HeapType
  <2>8. BoundsOK(k, held \ {page})
    <3>1. held \ {page} \subseteq Carved(k)
      BY <2>4 DEF HeapInv, BoundsOK, Carved
    <3> QED
      BY <2>1, <2>2, <2>4, <3>1 DEF HeapInv, BoundsOK
  <2>9. LinksInside(k, held \ {page})
    BY <2>4, <2>6, <2>7 DEF HeapInv, LinksInside
  <2>10. LinksOnce(k, held \ {page})
    <3>1. /\ h.free_list # page
          /\ \A p \in Spare(h, held) : h.word[p] # page
      BY <2>1, <2>7 DEF HeapInv, LinksInside
    <3>2. \A p \in Spare(h, held) :
              h.word[p] # Null => h.word[p] # h.free_list
      BY DEF HeapInv, LinksOnce
    <3>3. \A p, q \in Spare(h, held) :
              h.word[p] = h.word[q] /\ h.word[p] # Null => p = q
      BY DEF HeapInv, LinksOnce
    <3> DEFINE T == Spare(h, held) \cup {page}
    <3>4. \A p \in T : k.word[p] # page
      BY <2>7, <3>1
    <3>5. ASSUME NEW p \in T, NEW q \in T,
                 k.word[p] = k.word[q], k.word[p] # Null
          PROVE  p = q
      BY <2>7, <3>2, <3>3, <3>5
    <3> HIDE DEF T
    <3>6. Spare(k, held \ {page}) = T
      BY <2>6 DEF T
    <3> QED
      BY <2>4, <3>4, <3>5, <3>6 DEF LinksOnce
  <2>11. NoneLost(k, held \ {page})
    <3> SUFFICES ASSUME NEW S \in SUBSET (Spare(h, held) \cup {page}),
                        ClosedUnderLinks(k, S)
                 PROVE  S = Spare(h, held) \cup {page}
      BY <2>6 DEF NoneLost
    <3>1. page \in S
      BY <2>1, <2>4 DEF ClosedUnderLinks
    <3>2. ClosedUnderLinks(h, S \ {page})
      <4>1. h.free_list \in Frame => h.free_list \in S \ {page}
        BY <2>1, <2>7, <3>1, RamAssumption
           DEF ClosedUnderLinks, HeapInv, LinksInside, Null
      <4>2. ASSUME NEW p \in S \ {page}, h.word[p] \in Frame
            PROVE  h.word[p] \in S \ {page}
        BY <2>1, <2>7, <4>2 DEF ClosedUnderLinks, HeapInv, LinksInside
      <4> QED
        BY <4>1, <4>2 DEF ClosedUnderLinks
    <3>3. S \ {page} = Spare(h, held)
      BY <3>2 DEF HeapInv, NoneLost
    <3> QED
      BY <3>1, <3>3
  <2>12. LinksEnd(k, held \ {page})
    <3> SUFFICES ASSUME NEW S \in SUBSET (Spare(h, held) \cup {page}), S # {}
                 PROVE  \E p \in S : k.word[p] \notin S
      BY <2>6 DEF LinksEnd
    <3>1. CASE S \ {page} = {}
      BY <2>1, <2>7, <3>1 DEF HeapInv, LinksInside
    <3>2. CASE S \ {page} # {}
      <4>1. PICK p \in S \ {page} : h.word[p] \notin S \ {page}
        BY <3>2 DEF HeapInv, LinksEnd
      <4>2. p \in Spare(h, held) /\ h.word[p] # page
        BY <2>1, <2>7, <4>1 DEF HeapInv, LinksInside
      <4> QED
        BY <2>7, <4>1, <4>2
    <3> QED
      BY <3>1, <3>2
  <2>13. HeapInv(k, held \ {page})
    BY <2>8, <2>9, <2>10, <2>11, <2>12 DEF HeapInv
  <2> QED
    BY <1>3, <2>3, <2>4, <2>5, <2>13 DEF call, k
<1> QED
  BY <1>2, <1>3

(* A holder's own write does not disturb the allocator: no link lives in a  *)
(* page somebody holds.                                                     *)
LEMMA WriteInv ==
  ASSUME NEW h \in HeapType, NEW held, HeapInv(h, held),
         NEW page \in held, NEW value \in Nat, NEW other \in BOOLEAN
  PROVE  LET k == WritePage(h, page, value, other)
         IN  /\ k \in HeapType
             /\ HeapInv(k, held)
             /\ k.initialized = h.initialized
             /\ k.word = [h.word EXCEPT ![page] = value]
             /\ k.dirty = [h.dirty EXCEPT ![page] = other]
<1> DEFINE k == WritePage(h, page, value, other)
<1>1. page \in Frame
  BY HeldPages DEF HeapInv
<1>2. k = [h EXCEPT !.word = [h.word EXCEPT ![page] = value],
                    !.dirty = [h.dirty EXCEPT ![page] = other]]
  BY DEF WritePage, HeapType
<1>3. /\ k.initialized = h.initialized
      /\ k.managed_start = h.managed_start
      /\ k.bump_next = h.bump_next
      /\ k.free_list = h.free_list
      /\ k.total_pages = h.total_pages
      /\ k.used_pages = h.used_pages
      /\ k.word = [h.word EXCEPT ![page] = value]
      /\ k.dirty = [h.dirty EXCEPT ![page] = other]
  BY <1>2 DEF HeapType
<1>4. k \in HeapType
  <2>1. /\ [h.word EXCEPT ![page] = value] \in [Frame -> Nat]
        /\ [h.dirty EXCEPT ![page] = other] \in [Frame -> BOOLEAN]
    BY <1>1 DEF HeapType
  <2> HIDE DEF k
  <2> QED
    BY <1>2, <2>1 DEF HeapType
<1> HIDE DEF k
<1>5. Spare(k, held) = Spare(h, held)
  BY <1>3 DEF Spare, Carved
<1>6. \A p \in Spare(h, held) : k.word[p] = h.word[p]
  BY <1>1, <1>3 DEF Spare, HeapType
<1>7. BoundsOK(k, held)
  BY <1>3 DEF HeapInv, BoundsOK, Carved
<1>8. LinksInside(k, held) /\ LinksOnce(k, held)
  BY <1>3, <1>5, <1>6 DEF HeapInv, LinksInside, LinksOnce
<1>9. NoneLost(k, held)
  BY <1>3, <1>5, <1>6 DEF HeapInv, NoneLost, ClosedUnderLinks
<1>10. LinksEnd(k, held)
  BY <1>5, <1>6 DEF HeapInv, LinksEnd
<1> QED
  BY <1>3, <1>4, <1>7, <1>8, <1>9, <1>10 DEF HeapInv, k

(* Every page that is out is a managed page, and when page_alloc finds      *)
(* neither a released page nor RAM to carve, every managed page is out.     *)
LEMMA PoolView ==
  ASSUME NEW h \in HeapType, NEW held, HeapInv(h, held)
  PROVE  /\ held \subseteq ManagedStart .. RamEnd - 1
         /\ h.initialized /\ h.free_list = Null /\ h.bump_next = RamEnd
               => ManagedStart .. RamEnd - 1 \subseteq held
<1>1. ManagedStart \in Nat /\ RamEnd \in Nat
  BY ManagedStartInRam, RamAssumption
<1>2. held \subseteq ManagedStart .. RamEnd - 1
  BY <1>1, ManagedStartInRam DEF HeapInv, BoundsOK, Carved
<1>3. ASSUME h.initialized, h.free_list = Null, h.bump_next = RamEnd
      PROVE  ManagedStart .. RamEnd - 1 \subseteq held
  <2>1. Carved(h) = ManagedStart .. RamEnd - 1
    BY <1>3 DEF HeapInv, BoundsOK, Carved
  <2>2. ClosedUnderLinks(h, {})
    BY <1>3, RamAssumption DEF ClosedUnderLinks, Frame, Null
  <2>3. Spare(h, held) = {}
    BY <2>2 DEF HeapInv, NoneLost
  <2> QED
    BY <2>1, <2>3 DEF Spare
<1> QED
  BY <1>2, <1>3
=============================================================================
