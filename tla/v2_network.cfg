SPECIFICATION Spec
CONSTANTS
    Nodes = {n1, n2}
    FlakyDisk = {n2}
    Hash <- MCHash
    Genesis = 4
    Block <- MCBlock
    Transfer <- MCTransfer
    Allocations <- MCAllocations
    Coin <- MCCoin
    MaxSupply = 4
    BlockWork = 2
    MaxUTXOs = 2
    MaxInt64 = 4
    MaxUint64 = 100
    Listed <- MCListed
INVARIANTS
    TipIsBest
    StatesAgree
    SyncCatchesUp
    Durable
    RestartSucceeds
    FeesBurned
    CheckerAgrees
