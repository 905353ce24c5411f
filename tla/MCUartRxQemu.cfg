CONSTANTS
    Capacity = 2
    IndexMod = 4
    FifoDepth = 2
    Trigger = 1
    Timeout = FALSE
    MaxBytes = 3
SPECIFICATION Spec
PROPERTIES
    ReceivedByteReturned
CHECK_DEADLOCK FALSE
