SPECIFICATION FairSpec
CONSTANTS
    MaxUID = 6
    Limit = 2
    Window = 2
INVARIANTS BatchExact WindowExact FailsOnlyWhenDisturbed
PROPERTIES SessionEnds
CHECK_DEADLOCK FALSE
