\* A cancellation of one job races a submission of another for one work.
SPECIFICATION Spec
CONSTANTS
    j1 = j1
    j2 = j2
    old = old
    adm = adm
    adm2 = adm2
    a = a
    b = b
    s1 = s1
    Jobs = {j1, j2, old}
    LegacyJobs = {old}
    Admins = {adm}
    OwnerOf <- MCOwnerOf
    Addresses = {a}
    Subjects = {s1}
    SubjectOf <- MCSubjectOf
    Listed <- MCListed
    Requests <- OneAddress
    FaultKinds = {"crash", "storage", "throttle", "login", "timeout"}
    MaxFaults = 0
    MaxVersion = 1
SYMMETRY Symmetry
INVARIANTS CancelsOnlyItself
CHECK_DEADLOCK FALSE
