\* Jobs over two addresses of one identity: the order of the queue.
SPECIFICATION Spec
CONSTANTS
    j1 = j1
    j2 = j2
    old = old
    adm = adm
    adm2 = adm2
    a = a
    b = b
    s1 = s1
    Jobs = {j1, j2, old}
    LegacyJobs = {old}
    Admins = {adm}
    OwnerOf <- MCOwnerOf
    Addresses = {a, b}
    Subjects = {s1}
    SubjectOf <- MCSubjectOf
    Listed <- MCListed
    Requests <- TwoAddresses
    FaultKinds = {"crash", "storage", "throttle", "login", "timeout"}
    MaxFaults = 1
    MaxVersion = 1
SYMMETRY Symmetry
INVARIANTS Fifo
CHECK_DEADLOCK FALSE
