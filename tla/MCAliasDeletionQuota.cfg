SPECIFICATION Spec
CONSTANTS
    Principals = {p1}
    Leases = {l1, l2, l3}
    PrincipalOf <- MCPrincipalOf
    Limit = 1
    AppleWindow = 2
    Lag = 1
    Window = 3
    Lifetime = 4
    CallTimeout = 1
    RetryDelays = {1, 3}
    MaxThrottles = 2
    MaxTime = 6
SYMMETRY Symmetry
INVARIANTS TypeOK RollingWindow Occupancy BoundedWait
PROPERTIES SentNeverReleased ThrottleHonoured
CHECK_DEADLOCK FALSE
