SPECIFICATION OperatorsSpec
CONSTANTS
    t1 = t1
    t2 = t2
    d1 = d1
    d2 = d2
    b1 = b1
    r1 = r1
    x = x
    y = y
    Address = {x, y}
    Ref = {r1}
    NoRef = "noref"
    Bundle = {b1}
    RefOf <- MCRefOf
    EntriesOf <- MCEntriesOf
    Dispute = {d1, d2}
    Desks = {t1, t2}
    Judges = {t1}
    Curators = {t2}
    Window = 0
    EscrowBlocks = 0
    Stubbed = {y}
    Contested = {x}
    Decisions = {"active"}
    TopHeight = 2
    Tx <- MCTx
    Body <- MCBody
    Source <- MCSource
    NoSource = "none"
    SourceAmount <- MCSourceAmount
    Subsidy <- MCSubsidy
    Maturity = 1
    Escrow = 0
    ClaimStart = 0
    ClaimEnd = 0
    GenesisCap = 3
    EmissionCap = 0
    PoolCap = 0
    EpochCap = 0
    EpochLength = 1
    MaxMoney = 100
    Threads = {p1}
    Handlers = {h1, h2}
    Hash = {1, 2, 3}
    GenesisTx = "g"
    GenesisHash = 1
    Submittable = {"pay", "c1", "c2"}
    GenesisWork = 1
    BlockWork = 2
    MaxPending = 1
    MaxPerBlock = 1
    MinFee = 0
    MaxPeerTxs = 2
    PeerBlocks = TRUE
    Reviews = FALSE
    Crashes = TRUE
    PeerGenesis = FALSE
    Seeded = {}
    SourceOrder <- MCSourceOrder
    BatchLimit = 2
    HalvingCutoff = 63
    RewardIds = {"r1", "r2"}
INVARIANTS
    IndexesMatchHead
    ClaimedOncePerBranch
    ImportedWhole
    AlarmsExplained
PROPERTIES
    FraudFreezes
SYMMETRY OperatorsSymmetry
CHECK_DEADLOCK FALSE
