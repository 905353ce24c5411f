CONSTANTS
    MaxTicks = 2
    MaxBytes = 2
    MaxOthers = 1
SPECIFICATION Spec
INVARIANTS
    HandlersReady
    ActiveWhileHandled
PROPERTIES
    HandlerHasWork
    WaitsEnd
CHECK_DEADLOCK FALSE
