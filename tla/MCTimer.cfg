CONSTANTS
    Frequencies = {1, 6}
    TicksPerSecond = 2
    SleepMaxSeconds = 1
    MaxCounter = 9
SPECIFICATION Spec
INVARIANTS
    TypeOK
    TicksFollowTime
PROPERTIES
    TicksCatchUp
    SleepEndsOnTick
    SleepReturns
CHECK_DEADLOCK FALSE
