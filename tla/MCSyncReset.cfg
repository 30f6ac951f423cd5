\* Repeated resets of one mailbox: the recent window is fetched again, or rebuilt.
SPECIFICATION Spec
CONSTANTS
    x = x
    y = y
    Aliases = {x}
    Enabled0 = {x}
    Recipients <- ToX
    Window = 2
    Batch = 1
    Exclusive = TRUE
    MaxSource = 1
    MaxUIDValidity = 2
    MaxUID = 2
    MaxVersion = 7
PROPERTIES NeverBackwards
CHECK_DEADLOCK FALSE
