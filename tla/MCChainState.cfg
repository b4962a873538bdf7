SPECIFICATION Spec
CONSTANTS
    Block <- MCForkedBlock
    Genesis = "g"
    Parent <- MCForkedParent
    Branch <- MCForkedBranch
    Height <- MCForkedHeight
    ChainTrust <- MCForkedTrust
    Mint <- MCForkedMint
    Tx <- MCTx
    TxsOf <- MCForkedTxsOf
    Inputs <- MCInputs
    CoinStake = {}
    Invalid = {"d3"}
    MaxReorg = 1
    RollingMin = 2
    RollingDepth = 2
    SyncDepth = 3
    FactorHeight = 3
    VelocityHeights = {4}
    MaxCrashes = 2
    NoBlock = "none"
    Absent = "absent"
    Unspent = "unspent"
INVARIANTS TypeOK NextLinksFollowBest SupplyAddsUp PoolUnconfirmed PoolConflictFree
PROPERTIES AtomicLedger BuriedBlocksStay
CHECK_DEADLOCK FALSE
