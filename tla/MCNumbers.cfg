CONSTANTS
    UintMax = 255
    SleepMax = 60
    TicksPerSecond = 4
    MaxRounds = 20
    DefaultRounds = 3
    DigitCapacity = 3
    MaxDigits = 4
SPECIFICATION NumbersSpec
INVARIANTS
    NumbersExact
CHECK_DEADLOCK FALSE
