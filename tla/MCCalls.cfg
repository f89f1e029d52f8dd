SPECIFICATION CallsSpec
CONSTANTS
    Operations <- MCOperations
    ExitStatuses <- MCExitStatuses
    MaxTyped = 2
    MaxPending = 1
    MaxOutputs = 1
    MaxRequests = 1
    ArchiveNames <- MCArchiveNames
    Lower <- MCLower
    MemberSizes = {0, 2}
    CoreLimit = 2
    MaxMembers = 3
    MaxMeddling = 2
    Blobs = {"deb", "wheel"}
    Debs = {"deb"}
    Builds = {"one", "two"}
    Closure <- MCClosure
    MirrorCount = 2
    AttemptsPerMirror = 2
    CoreMaxAttempts = 5
    ArtifactSize = 2
    MaxBytesTotal = 8
    MaxCalls = 5
    MaxTampering = 2
CHECK_DEADLOCK FALSE
INVARIANTS
    MachineSound
    OwnershipSafe
    BrokerSound
    ArchiveSound
    StoreSound
PROPERTIES
    VerdictsEarned
    ImplementsContract
    OrphansRemoved
    BrokerReturns
    OthersSpared
    MaterializationEnds
    CallsEnd
