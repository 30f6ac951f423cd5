\* The mailbox source changes under syncs and reads; no in-process lock.
SPECIFICATION Spec
CONSTANTS
    x = x
    y = y
    Aliases = {x}
    Enabled0 = {x}
    Recipients <- ToX
    Window = 1
    Batch = 1
    Exclusive = FALSE
    MaxSource = 2
    MaxUIDValidity = 1
    MaxUID = 1
    MaxVersion = 7
INVARIANTS OnlyCurrentSource DeliveredExactly PublicUIDStable
CHECK_DEADLOCK FALSE
