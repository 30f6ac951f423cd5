\* Jobs of two administrators share the work of one address: cancellations, password changes,
\* rotations, crashes, storage faults and Apple's setbacks interleave.
SPECIFICATION Spec
CONSTANTS
    j1 = j1
    j2 = j2
    old = old
    adm = adm
    adm2 = adm2
    a = a
    b = b
    s1 = s1
    Jobs = {j1, j2, old}
    LegacyJobs = {old}
    Admins = {adm, adm2}
    OwnerOf <- TwoOwners
    Addresses = {a}
    Subjects = {s1}
    SubjectOf <- MCSubjectOf
    Listed <- MCListed
    Requests <- OneAddress
    FaultKinds = {"crash", "storage", "throttle", "login", "timeout"}
    MaxFaults = 2
    MaxVersion = 2
INVARIANTS TablesAgree WorkerActsAlone ConfirmedByApple UnknownIsReconciled
PROPERTIES FinalIsFinal ImplementsOrders
CHECK_DEADLOCK FALSE
