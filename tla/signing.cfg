SPECIFICATION SigningSpec
CONSTANTS
    s1 = s1
    s2 = s2
    s3 = s3
    server = server
    tool = tool
    Signers = {s1, s2, s3}
    Schemes = {"on_reserve", "on_sign", "stateless"}
    Leaves = 3
    MaxRows = 3
    Process = {server, tool}
    ProcessOf <- MCProcessOf
    MayStall = FALSE
    Height = 2
    HashBits = 2
    Signed <- MCSigned
    MaxTokens = 4
    q1 = q1
    q2 = q2
    q3 = q3
    q4 = q4
    q5 = q5
    q6 = q6
    Host = {2, 3}
    Cpus <- MCCpus
    Extension <- MCExtension
    Known <- MCKnown
    Coin = {q1, q2, q3, q4, q5, q6}
    Transfers <- MCTransfers
    n1 = n1
    n2 = n2
    n3 = n3
    Node = {n1, n2, n3}
    Id = {n1, n2, n3}
    IdOf <- MCIdOf
    Peers <- MCPeers
    Workers = {1}
    MaxAdmitted = 1
    TTL = 2
    LateWorkers = FALSE
    MaxSessions = 4
    MaxLost <- MCMaxLost
    MaxClock = 2
INVARIANTS
    OneSignaturePerLeaf
    OneEnvelopePerLeaf
    NothingUnsigned
    OneIndexPerSignature
    AnswerRight
    HeldSessionWorks
PROPERTIES
    NoRollback
    WalletFreesItself
    SessionsKeepBeingServed
CHECK_DEADLOCK FALSE
