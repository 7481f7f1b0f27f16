SPECIFICATION Spec
CONSTANTS
    Tx <- MCTx
    Body <- MCBody
    Source <- MCSource
    NoSource = "none"
    SourceAmount <- MCSourceAmount
    Subsidy <- MCSubsidy
    Maturity = 1
    Escrow = 1
    ClaimStart = 0
    ClaimEnd = 0
    GenesisCap = 3
    EmissionCap = 0
    PoolCap = 0
    EpochCap = 0
    EpochLength = 1
    MaxMoney = 100
    Threads = {p1}
    Hash = {1, 2, 3}
    GenesisTx = "g"
    GenesisHash = 1
    Submittable = {"pay", "chain", "reap", "c1", "move"}
    GenesisWork = 1
    BlockWork = 2
    MaxPending = 1
    MaxPerBlock = 2
    MinFee = 0
    MaxPeerTxs = 3
    PeerBlocks = TRUE
    Reviews = TRUE
    Crashes = FALSE
    PeerGenesis = TRUE
    Seeded = {}
    SourceOrder <- MCSourceOrder
    BatchLimit = 2
    HalvingCutoff = 63
    RewardIds = {"r1", "r2"}
INVARIANTS
    RowsReplay
    SpendsMature
    SelectionSpends
    SupplyReconciles
