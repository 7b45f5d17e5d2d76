CONSTANTS
    Node = {1, 2, 3}
    MaxSeq = 1
    Link <- LineLink
    Writers = {1}
    Broadcasters = {}
    Collectors = {2}
    Active <- SelfActive
    SchemaVersion <- SameSchema
    BatchMaxEvents = 1
    BroadcastMax = 1
    GCLimit = 2
    ChanCap = 8
    MaxFaults = 0
SPECIFICATION Spec
INVARIANTS GCSafe
