CONSTANTS
    Capacity = 2
    IndexMod = 4
    FifoDepth = 2
    Trigger = 2
    Timeout = TRUE
    MaxBytes = 5
SPECIFICATION Spec
INVARIANTS
    NoByteUnaccounted
    NoLostWakeup
PROPERTIES
    RefinesQueue
    WaitingGetcReturns
CHECK_DEADLOCK FALSE
