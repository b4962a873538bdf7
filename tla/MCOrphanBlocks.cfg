SPECIFICATION Spec
CONSTANTS
    Block <- MCBlock
    Genesis = "g"
    Parent <- MCParent
    Stake <- MCStake
    NoStake = "none"
    MaxOrphans = 2
    BestChainMayFail = TRUE
INVARIANTS TypeOK MapsAgree AreaBounded HeldNotIndexed HeldUntilParent
PROPERTIES StakeSeenOnce
