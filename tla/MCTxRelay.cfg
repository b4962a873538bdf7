SPECIFICATION FairSpec
CONSTANTS
    Peer = {p, q}
    Tx <- MCTx
    Inputs <- MCInputs
    InitialChain = {"c0", "c1"}
    Unfit = {"g"}
    Big = {"g"}
    Honest = {q}
    Announced = {"a", "d"}
    Pushers = {p}
    Retry = 1
    MaxAskFor = 1
    MaxAlreadyAsked = 2
    MaxOrphans = 1
    MaxWait = 1
INVARIANTS TypeOK OrphanMapsAgree WantedIsPending
PROPERTIES AnnouncedIsObtained
CHECK_DEADLOCK FALSE
