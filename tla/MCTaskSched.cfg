CONSTANTS
    PageSize = 2
    RamStart = 1
    RamEnd = 5
    KernelEnd <- MCKernelEnd
    TaskMax = 4
    Entry = {job}
    NoEntry = NoEntry
    Spill = {4}
    MaxCreates = 4
    MaxYields = 4
SPECIFICATION SchedSpec
INVARIANTS
    TypeOK
    ExitAlwaysSwitches
    OnOwnStack
    StacksOwned
    CountersAgree
    BoundedBypass
PROPERTIES
    OverflowedStackKept
    CorruptedTaskEnds
CHECK_DEADLOCK FALSE
