SPECIFICATION Spec
CONSTANTS
    HalvingCutoff = 3
    Initials = {0, 1, 5, 16}
    Intervals = {0, 1, 2, 3}
    Caps = {0, 1, 12, 20}
    MaxHeight = 12
    e1 = e1
    e2 = e2
    e3 = e3
    p1 = p1
    Receivers = {t1, t2}
    Envelope = {e1, e2, e3}
    SignerOf <- MCSignerOf
    StampOf <- MCStampOf
    Skew = 1
    NonceCapacity = 2
    MaxStall = 2
    MaxClock = 13
    Client = {c1, c2, c3}
    Limit = 1
    Minute = 2
    TableCap = 1
    TableKeep = 1
    Connection = {k1, k2, k3}
    MaxSlots = 2
    QueueSize = 2
    MaxChunks = 2
    n1 = n1
    n2 = n2
    n3 = n3
    n4 = n4
    Node = {n1, n2, n3, n4}
    Peers <- MCPeers
    Block = {2, 3, 4}
    Genesis = 1
    Parent <- MCParent
    Height <- MCHeight
    FoundBy <- MCFoundBy
    MaxBatch = 2
    Silent = {n4}
    MaxFaults = 1
    x1 = x1
    x2 = x2
    x3 = x3
    x4 = x4
    Address = {"x", "y"}
    Ref = {"r1", "r2"}
    Network = {"old", "new"}
    Export = {x1, x2, x3, x4}
    RefOf <- MCRefOf
    NetworkOf <- MCNetworkOf
    RecordsOf <- MCRecordsOf
    Signer = {"m1", "m2"}
    Trusted = {"m1"}
    TrustedNodes = {"m1", "m2"}
    RequireSigned = FALSE
    SeedAmount = 1
    Decisions = {"active", "quarantined"}
    MaxApprovals = 1
    Desks = {"h1"}
INVARIANTS
    IssuedMatchesSchedule
    AtMostTwoWindows
    SlotsConserved
    BatchImports
    ImportedAsApproved
PROPERTIES
    NoReplay
    RefusedOnlyWhenFull
    EveryConnectionEnds
    SyncConverges
    SafeNoopKeeps
CHECK_DEADLOCK FALSE
