SPECIFICATION FairSpec
CONSTANTS
    Peer = {p1, p2}
    LocalPeer = {}
    Kept = {p2}
    Shared = {p1}
    Block = {b1}
    NoPeer = NoPeer
    MaxInTransit = 1
    QueueLimit = 1
    QueuePenalty = 1
    BanScore = 2
    DoS = {0, 2}
    Timeout = 1
    Horizon = 3
    MaxMisbehavior = 2
PROPERTIES StallResolved BanEnforced
CHECK_DEADLOCK FALSE
