SPECIFICATION Spec
CONSTANTS
    Tx <- MCTx
    Body <- MCBody
    Source <- MCSource
    NoSource = "none"
    SourceAmount <- MCSourceAmount
    Subsidy <- MCSubsidy
    Maturity = 2
    Escrow = 0
    ClaimStart = 0
    ClaimEnd = 0
    GenesisCap = 3
    EmissionCap = 0
    PoolCap = 1
    EpochCap = 0
    EpochLength = 1
    MaxMoney = 100
    Threads = {p1}
    Hash = {1, 2, 3, 4}
    GenesisTx = "g"
    GenesisHash = 2
    Submittable = {"pay", "slack", "c1", "d1", "reap"}
    GenesisWork = 1
    BlockWork = 2
    MaxPending = 2
    MaxPerBlock = 2
    MinFee = 0
    MaxPeerTxs = 2
    PeerBlocks = FALSE
    Reviews = FALSE
    Crashes = TRUE
    PeerGenesis = FALSE
    Seeded = {}
    SourceOrder <- MCSourceOrder
    BatchLimit = 2
    HalvingCutoff = 63
    RewardIds = {"r1", "r2", "r3", "f1"}
INVARIANTS
    MiningSucceeds
    PlannedBatchMines
