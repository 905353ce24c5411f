--------------------------- MODULE PageAllocProofs ----------------------------
(***************************************************************************)
(* The page allocator keeps its promises for every amount of RAM, every    *)
(* kernel size and every data its callers write.  The inductive invariant  *)
(* is HeapType together with HeapInv; what each call does to it is in      *)
(* PageHeapProofs.                                                         *)
(***************************************************************************)
EXTENDS PageAlloc, PageHeapProofs

IInv == heap \in HeapType /\ HeapInvariant

(* The machine boots into the invariant, whatever RAM holds. *)
LEMMA InitIInv == Init => IInv
<1> SUFFICES ASSUME NEW word \in [Frame -> Data],
                    NEW dirty \in [Frame -> BOOLEAN],
                    heap = BssHeap(word, dirty), held = {}
             PROVE  IInv
  BY DEF Init
<1>1. word \in [Frame -> Nat]
  BY DataAssumption
<1> QED
  BY <1>1, BssHeapInv DEF IInv, HeapInvariant

(* What one step of the allocator or its caller does: it keeps the          *)
(* invariant, and only the caller's own write changes a page that is held   *)
(* before and after it.                                                     *)
LEMMA StepIInv ==
  ASSUME IInv, [Next]_vars
  PROVE  /\ IInv'
         /\ \/ ClientWrite
            \/ \A page \in held \cap held' :
                   /\ heap'.word[page] = heap.word[page]
                   /\ heap'.dirty[page] = heap.dirty[page]
<1> USE DEF IInv, HeapInvariant
<1>0. held \subseteq Frame
  BY HeldPages DEF HeapInv
<1>1. CASE InitCall
  BY <1>1, InitInv DEF InitCall
<1>2. CASE AllocCall
  <2> DEFINE page == page_alloc(heap).ret
             k == page_alloc(heap).heap
  <2>1. heap' = k /\ held' = held \cup ({page} \ {Null})
    BY <1>2 DEF AllocCall
  <2>2. k \in HeapType /\ HeapInv(k, held \cup ({page} \ {Null}))
    BY AllocInv
  <2>3. IInv'
    BY <2>1, <2>2
  <2>4. CASE page = Null
    BY <2>1, <2>4, AllocInv
  <2>5. CASE page # Null
    <3>1. /\ page \in Frame \ held
          /\ k.word = [heap.word EXCEPT ![page] = 0]
          /\ k.dirty = [heap.dirty EXCEPT ![page] = FALSE]
      BY <2>5, AllocInv
    <3>2. \A p \in held : /\ k.word[p] = heap.word[p]
                          /\ k.dirty[p] = heap.dirty[p]
      BY <1>0, <3>1 DEF HeapType
    <3> HIDE DEF page, k
    <3> QED
      BY <2>1, <2>3, <3>2
  <2> QED
    BY <2>4, <2>5
<1>3. ASSUME NEW address \in Address, FreeCall(address)
      PROVE  /\ IInv' /\ held' \subseteq held
             /\ \A p \in held' : /\ heap'.word[p] = heap.word[p]
                                 /\ heap'.dirty[p] = heap.dirty[p]
  <2>1. PICK page \in Nat, offset \in Nat : address = <<page, offset>>
    BY RamAssumption, PageSizeAssumption DEF Address
  <2> DEFINE call == page_free(heap, <<page, offset>>)
  <2>2. /\ heap' = call.heap
        /\ held' = IF call.ret = 1 THEN held \ {page} ELSE held
    BY <1>3, <2>1 DEF FreeCall
  <2>3. /\ call.ret = IF page \in held /\ offset = 0 THEN 1 ELSE 0
        /\ call.heap \in HeapType
        /\ call.ret = 1 =>
               /\ HeapInv(call.heap, held \ {page})
               /\ call.heap.word = [heap.word EXCEPT ![page] = heap.free_list]
               /\ call.heap.dirty = heap.dirty
        /\ call.ret = 0 => call.heap = heap
    <3>1. heap \in HeapType /\ HeapInv(heap, held)
      OBVIOUS
    <3> QED
      BY ONLY <3>1, FreeInv
  <2> HIDE DEF call
  <2>4. CASE call.ret = 1
    BY <1>0, <2>2, <2>3, <2>4 DEF HeapType
  <2>5. CASE call.ret = 0
    BY <2>2, <2>3, <2>5
  <2> QED
    BY <2>3, <2>4, <2>5
<1>4. CASE ClientWrite
  <2>1. PICK page \in held, value \in Data, other \in BOOLEAN :
           heap' = WritePage(heap, page, value, other) /\ held' = held
    BY <1>4 DEF ClientWrite
  <2>2. value \in Nat
    BY DataAssumption
  <2>3. IInv'
    BY <2>1, <2>2, WriteInv
  <2> QED
    BY <1>4, <2>3
<1>5. CASE UNCHANGED vars
  BY <1>5 DEF vars
<1> QED
  BY <1>1, <1>2, <1>3, <1>4, <1>5 DEF Next

(* The inductive invariant, from which the theorems below follow. *)
LEMMA InvariantHolds == Spec => []IInv
<1>1. IInv /\ [Next]_vars => IInv'
  BY StepIInv
<1> QED
  BY InitIInv, <1>1, PTL DEF Spec

(* The allocator's state is well typed and callers only ever hold real      *)
(* pages.                                                                   *)
THEOREM TypeCorrect == Spec => []TypeOK
<1>1. IInv => TypeOK
  BY HeldPages DEF IInv, HeapInvariant, HeapInv, TypeOK
<1> QED
  BY InvariantHolds, <1>1, PTL

(* No page is lost, shared or counted wrongly, and the links never form a   *)
(* cycle, over every sequence of calls.                                     *)
THEOREM HeapSafe == Spec => []HeapInvariant
<1>1. IInv => HeapInvariant
  BY DEF IInv
<1> QED
  BY InvariantHolds, <1>1, PTL

(* The walk of page_free from the head finds exactly the released pages. *)
THEOREM FreeListIsExact == Spec => []FreeListExact
<1>1. IInv => FreeListExact
  BY FreeListIsSpare DEF IInv, HeapInvariant, FreeListExact, Spare
<1> QED
  BY InvariantHolds, <1>1, PTL

(* Whatever the page held before, page_alloc hands it out cleared, and only *)
(* when nobody holds it.                                                    *)
THEOREM AllocationIsFresh == Spec => AllocIsFresh
<1>1. IInv => \A page \in Frame :
                 AllocCall /\ page = page_alloc(heap).ret =>
                     page \notin held /\ page_is_zero(heap', page)
  <2> SUFFICES ASSUME IInv, AllocCall,
                      NEW page \in Frame, page = page_alloc(heap).ret
               PROVE  page \notin held /\ page_is_zero(heap', page)
    OBVIOUS
  <2> DEFINE k == page_alloc(heap).heap
  <2>1. heap' = k
    BY DEF AllocCall
  <2>2. page # Null
    BY RamAssumption DEF Frame, Null
  <2>3. /\ page \notin held
        /\ k.word = [heap.word EXCEPT ![page] = 0]
        /\ k.dirty = [heap.dirty EXCEPT ![page] = FALSE]
    BY <2>2, AllocInv DEF IInv, HeapInvariant
  <2>4. page_is_zero(k, page)
    BY <2>3 DEF page_is_zero, IInv, HeapType
  <2> QED
    BY <2>1, <2>3, <2>4
<1> QED
  BY InvariantHolds, <1>1, PTL DEF Spec, AllocIsFresh

(* No call of the allocator writes into a page somebody holds. *)
THEOREM HeldPagesUntouched == Spec => HeldUntouched
<1>1. IInv /\ [Next]_vars
        => [\/ ClientWrite
            \/ \A page \in held \cap held' :
                   /\ heap'.word[page] = heap.word[page]
                   /\ heap'.dirty[page] = heap.dirty[page]]_vars
  BY StepIInv
<1> QED
  BY InvariantHolds, <1>1, PTL DEF Spec, HeldUntouched

-----------------------------------------------------------------------------
(* Seen by its callers the allocator is a set of pages: every call maps to  *)
(* a call of PagePool with the same answer, every write to a stutter.       *)
THEOREM AllocatorRefinesPool == Spec => RefinesPool
<1> DEFINE Out == {PageAddr(p) : p \in held}
           All == {PageAddr(p) : p \in ManagedStart .. RamEnd - 1}
<1>1. Init => Pool!PoolInit
  BY DEF Init, Pool!PoolInit, BssHeap
<1>2. IInv /\ [Next]_vars => [Pool!PoolNext]_(Pool!poolVars)
  <2> SUFFICES ASSUME IInv, [Next]_vars
               PROVE  [Pool!PoolNext]_(Pool!poolVars)
    OBVIOUS
  <2>1. CASE InitCall
    <3>1. heap'.initialized = TRUE
      BY <2>1, InitInv DEF InitCall, IInv, HeapInvariant, HeapType
    <3> QED
      BY <2>1, <3>1 DEF InitCall, Pool!PoolNext, Pool!Initialise
  <2>2. CASE AllocCall
    <3> DEFINE page == page_alloc(heap).ret
    <3>1. /\ held' = held \cup ({page} \ {Null})
          /\ ret' = [call |-> "alloc", value |-> PageAddr(page)]
          /\ heap'.initialized = heap.initialized
      BY <2>2, AllocInv DEF AllocCall, IInv, HeapInvariant
    <3>2. CASE page = Null
      <4>1. ~heap.initialized \/ All \subseteq Out
        BY <3>2, AllocInv, PoolView DEF IInv, HeapInvariant
      <4>2. held' = held
        BY <3>1, <3>2
      <4> HIDE DEF page
      <4> QED
        BY <3>1, <3>2, <4>1, <4>2 DEF Pool!PoolNext, Pool!RefuseAllocate
    <3>3. CASE page # Null
      <4>1. page \notin held /\ HeapInv(page_alloc(heap).heap, held \cup {page})
        BY <3>3, AllocInv DEF IInv, HeapInvariant
      <4>2. heap.initialized = TRUE
        BY <3>3 DEF page_alloc, IInv, HeapType
      <4>3. page \in ManagedStart .. RamEnd - 1
        <5>1. page_alloc(heap).heap \in HeapType
          BY AllocInv DEF IInv, HeapInvariant
        <5>2. held \cup {page} \subseteq ManagedStart .. RamEnd - 1
          BY <4>1, <5>1, PoolView
        <5> HIDE DEF page
        <5> QED
          BY <5>2
      <4>4. PageAddr(page) \in All \ Out
        BY <4>1, <4>3 DEF PageAddr
      <4>5. {PageAddr(p) : p \in held'} = Out \cup {PageAddr(page)}
        BY <3>1, <3>3
      <4> HIDE DEF page
      <4> QED
        BY <3>1, <4>2, <4>4, <4>5 DEF Pool!PoolNext, Pool!Allocate
    <3> QED
      BY <3>2, <3>3
  <2>3. ASSUME NEW address \in Address, FreeCall(address)
        PROVE  Pool!Release(address)
    <3>1. PICK page \in Nat, offset \in Nat : address = <<page, offset>>
      BY RamAssumption, PageSizeAssumption DEF Address
    <3> DEFINE call == page_free(heap, <<page, offset>>)
    <3>2. /\ heap' = call.heap
          /\ held' = IF call.ret = 1 THEN held \ {page} ELSE held
          /\ ret' = [call |-> "free", arg |-> address, value |-> call.ret]
      BY <2>3, <3>1 DEF FreeCall
    <3>3. /\ call.ret = IF page \in held /\ offset = 0 THEN 1 ELSE 0
          /\ call.heap.initialized = heap.initialized
      <4>1. heap \in HeapType /\ HeapInv(heap, held)
        BY DEF IInv, HeapInvariant
      <4>2. /\ call.ret = IF page \in held /\ offset = 0 THEN 1 ELSE 0
            /\ call.heap \in HeapType
            /\ call.ret = 1 =>
                   /\ HeapInv(call.heap, held \ {page})
                   /\ call.heap.word =
                          [heap.word EXCEPT ![page] = heap.free_list]
                   /\ call.heap.dirty = heap.dirty
            /\ call.ret = 0 => call.heap = heap
            /\ call.heap.initialized = heap.initialized
        BY ONLY <4>1, FreeInv
      <4> QED
        BY <4>2
    <3> HIDE DEF call
    <3>4. address \in Out <=> page \in held /\ offset = 0
      BY <3>1 DEF PageAddr
    <3>5. call.ret = IF address \in Out THEN 1 ELSE 0
      BY <3>3, <3>4
    <3>6. {PageAddr(p) : p \in held'} = Out \ {address}
      BY <3>1, <3>2, <3>3 DEF PageAddr
    <3> QED
      BY <3>2, <3>3, <3>5, <3>6 DEF Pool!Release
  <2>4. CASE ClientWrite
    <3>1. PICK page \in held, value \in Data, other \in BOOLEAN :
             /\ heap' = WritePage(heap, page, value, other)
             /\ held' = held /\ ret' = ret
      BY <2>4 DEF ClientWrite
    <3>2. heap'.initialized = heap.initialized
      BY <3>1 DEF WritePage, IInv, HeapType
    <3> QED
      BY <3>1, <3>2 DEF Pool!poolVars
  <2>5. CASE UNCHANGED vars
    BY <2>5 DEF vars, Pool!poolVars
  <2> QED
    BY <2>1, <2>2, <2>3, <2>4, <2>5 DEF Next, Pool!PoolNext
<1> QED
  BY <1>1, <1>2, InvariantHolds, PTL DEF Spec, RefinesPool, Pool!PoolSpec
=============================================================================
