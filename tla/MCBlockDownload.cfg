SPECIFICATION Spec
CONSTANTS
    Peer = {p1, p2}
    LocalPeer = {}
    Kept = {}
    Shared = {p1, p2}
    Block = {b1, b2, b3}
    NoPeer = NoPeer
    MaxInTransit = 2
    QueueLimit = 3
    QueuePenalty = 1
    BanScore = 1
    DoS = {0}
    Timeout = 1
    Horizon = 3
    MaxMisbehavior = 1
INVARIANTS TypeOK QueuesAgree NoDanglingPeer TransitBound FrontIsOldest
SYMMETRY PeerSymmetry
CHECK_DEADLOCK FALSE
