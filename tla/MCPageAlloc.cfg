CONSTANTS
    PageSize = 2
    RamStart = 2
    RamEnd = 6
    KernelEnd <- MCKernelEnd
    Data = {0, 4}
SPECIFICATION Spec
INVARIANTS
    TypeOK
    HeapInvariant
    FreeListExact
PROPERTIES
    AllocIsFresh
    HeldUntouched
    RefinesPool
CHECK_DEADLOCK FALSE
