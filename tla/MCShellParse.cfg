CONSTANTS
    MaxArguments = 2
    Ordinary <- MCOrdinary
    MaxLength = 6
SPECIFICATION Spec
INVARIANTS
    UnreadIntact
    ParsesAsReference
CHECK_DEADLOCK FALSE
