SPECIFICATION Spec
CONSTANTS
    Tx <- MCTx
    Body <- MCBody
    Source <- MCSource
    NoSource = "none"
    SourceAmount <- MCSourceAmount
    Subsidy <- MCSubsidy
    Maturity = 1
    Escrow = 0
    ClaimStart = 0
    ClaimEnd = 0
    GenesisCap = 3
    EmissionCap = 0
    PoolCap = 2
    EpochCap = 1
    EpochLength = 4
    MaxMoney = 100
    Threads = {p1}
    Hash = {1, 2, 3, 4}
    GenesisTx = "g"
    GenesisHash = 2
    Submittable = {"pay", "refund", "reap", "c1"}
    GenesisWork = 1
    BlockWork = 2
    MaxPending = 2
    MaxPerBlock = 2
    MinFee = 0
    MaxPeerTxs = 2
    PeerBlocks = TRUE
    Reviews = FALSE
    Crashes = FALSE
    PeerGenesis = FALSE
    Seeded = {"d1"}
    SourceOrder <- MCSourceOrder
    BatchLimit = 2
    HalvingCutoff = 63
    RewardIds = {"r1", "r2", "f1"}
INVARIANTS
    PendingConsistent
    QuotedIsAdmitted
PROPERTIES
    ImplementsBestChain
