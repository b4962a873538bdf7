SPECIFICATION Spec
CONSTANTS
    Svc <- MCSvc
    Host <- MCHost
    HostOf <- MCHostOf
    Source <- MCSource
    Announced <- MCAnnounced
    NewBucketOf <- MCNewBucketOf
    TriedBucketOf <- MCTriedBucketOf
    NewBuckets = {0, 1}
    NewBucketSize = 2
    NewPerAddress = 2
    TriedBuckets = {"k1", "k2"}
    TriedBucketSize = 1
    GetAddrMaxPct = 25
    MaxId = 4
INVARIANTS Consistent BucketsBounded
PROPERTIES TablesRefined
CHECK_DEADLOCK FALSE
