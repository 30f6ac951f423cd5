SPECIFICATION ServiceSpec
CONSTANTS
  Clients = {p1, p2}
  Addresses = {a1, a2}
  None = None
  MaxEnabled = 1
  MaxAttempts = 2
  MaxConfirmations = 1
  MaxEvents = 1
  MaxRequests = 3
  Managers = {p1, p2}
  MinimumInterval = 2
  Creations = 2
  CycleDuration = 5
  OverdueGrace = 1
  Cooldown = 6
  MaxClock = 9
  Uids = {a1, a2}
  NoFile = None
  ContentLimit = 1
  MaxSources = 2
  MaxFaults = 2
  Handlers = {p1, p2}
  Nobody = None
  MaxIssued = 7
  MaxLogins = 1
  MaxRotations = 1
  Processes = {p1, p2}
  Unset = None
  SchemaVersion = 8
  OldestVersion = 3
  MaxKeys = 3
SYMMETRY Sym
INVARIANTS EveryReserveTracked SessionOfIdentity CursorCoversPublished CapacityKept ContentKept ShownKeyWorks RotationIsSharp SessionsProvePassword DataStaysReadable
PROPERTY SpacedAttempts
CHECK_DEADLOCK FALSE
