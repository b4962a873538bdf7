SPECIFICATION Spec
CONSTANTS
    Nodes = {n1, n2}
    NoNode = NoNode
    Addrs = {a1}
    Openers = {o1, o2}
    OneTry = FALSE
    MaxOutbound = 2
    MaxInbound = 0
    MaxHanded = 1
SYMMETRY NodeSymmetry
INVARIANTS UsedNotDeleted
