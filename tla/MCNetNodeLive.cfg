SPECIFICATION FairSpec
CONSTANTS
    Nodes = {n1, n2}
    NoNode = NoNode
    Addrs = {a1}
    Openers = {}
    OneTry = TRUE
    MaxOutbound = 0
    MaxInbound = 2
    MaxHanded = 0
PROPERTIES NodesReclaimed SyncResumes
