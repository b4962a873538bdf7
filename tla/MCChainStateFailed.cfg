SPECIFICATION Spec
CONSTANTS
    Block <- MCBlock
    Genesis = "g"
    Parent <- MCParent
    Branch <- MCBranch
    Height <- MCHeight
    ChainTrust <- MCChainTrust
    Mint <- MCMint
    Tx <- MCTx
    TxsOf <- MCTxsOf
    Inputs <- MCInputs
    CoinStake = {}
    Invalid = {"b4"}
    MaxReorg = 1
    RollingMin = 2
    RollingDepth = 2
    SyncDepth = 3
    FactorHeight = 3
    VelocityHeights = {}
    MaxCrashes = 1
    NoBlock = "none"
    Absent = "absent"
    Unspent = "unspent"
INVARIANTS BestIsStored
CHECK_DEADLOCK FALSE
