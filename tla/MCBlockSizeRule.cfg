SPECIFICATION SizedSpec
CONSTANTS
    Block <- MCSizedBlock
    Genesis = "g"
    Parent <- MCSizedParent
    Branch <- MCSizedBranch
    Height <- MCSizedHeight
    ChainTrust <- MCSizedTrust
    Mint <- MCSizedMint
    Tx <- MCSizedTx
    TxsOf <- MCSizedTxsOf
    Inputs <- MCSizedInputs
    CoinStake = {}
    Invalid = {"c4"}
    MaxReorg = 1
    RollingMin = 2
    RollingDepth = 2
    SyncDepth = 3
    FactorHeight = 3
    VelocityHeights = {3, 4}
    MaxCrashes = 2
    Size <- MCSize
    Past = 3
    Multiple = 2
    MinBlockSize = 2
    InitialLimit = 3
    UIntRange = 4
    NoBlock = "none"
    Absent = "absent"
    Unspent = "unspent"
INVARIANTS NetworkRule

CHECK_DEADLOCK FALSE
