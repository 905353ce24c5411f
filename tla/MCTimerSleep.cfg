CONSTANTS
    Frequencies = {6}
    TicksPerSecond = 2
    SleepMaxSeconds = 1
    MaxCounter = 9
SPECIFICATION Spec
PROPERTIES
    SleepLastsItsTime
CHECK_DEADLOCK FALSE
