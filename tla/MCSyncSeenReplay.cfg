\* The seen worker against a change of the mailbox source, with the lock.
SPECIFICATION Spec
CONSTANTS
    x = x
    y = y
    Aliases = {x}
    Enabled0 = {x}
    Recipients <- ToX
    Window = 1
    Batch = 1
    Exclusive = TRUE
    MaxSource = 2
    MaxUIDValidity = 1
    MaxUID = 1
    MaxVersion = 4
INVARIANTS SeenOnlyDelivered
CHECK_DEADLOCK FALSE
