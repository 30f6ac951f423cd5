\* Every job ends under the fairness of the runtime, without storage faults.
SPECIFICATION FairSpec
CONSTANTS
    j1 = j1
    j2 = j2
    old = old
    adm = adm
    adm2 = adm2
    a = a
    b = b
    s1 = s1
    Jobs = {j1, j2}
    LegacyJobs = {}
    Admins = {adm}
    OwnerOf <- MCOwnerOf
    Addresses = {a}
    Subjects = {s1}
    SubjectOf <- MCSubjectOf
    Listed <- MCListed
    Requests <- OneAddress
    FaultKinds = {"crash", "throttle"}
    MaxFaults = 1
    MaxVersion = 2
PROPERTIES EveryJobEnds
CHECK_DEADLOCK FALSE
