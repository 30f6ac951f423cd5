\* Aliases come and go and UIDVALIDITY changes; no in-process lock.
SPECIFICATION Spec
CONSTANTS
    x = x
    y = y
    Aliases = {x, y}
    Enabled0 = {x}
    Recipients <- ToBoth
    Window = 1
    Batch = 1
    Exclusive = FALSE
    MaxSource = 1
    MaxUIDValidity = 2
    MaxUID = 2
    MaxVersion = 5
INVARIANTS ArchiveComplete SnapshotOfGeneration SeenOnlyDelivered
CHECK_DEADLOCK FALSE
