CONSTANTS
    PageSize = 2
    RamStart = 1
    RamEnd = 6
    KernelEnd <- MCKernelEnd
    TaskMax = 4
    Entry = {"A", "B"}
    NoEntry = NoEntry
    Spill = {4}
    MaxCreates = 100
    MaxYields = 100
    MaxRounds = 3
    Garbage = 9
    MaxCommands = 3
SPECIFICATION DemoSpec
INVARIANTS
    FrameOutlivesWorkers
    OnlyCorruptedKept
    TurnsAlternate
    CostOfDemo
PROPERTIES
    MemtestNeutral
    DemoReturns
CHECK_DEADLOCK FALSE
