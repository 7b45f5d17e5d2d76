CONSTANTS
    Node = {1, 2, 3}
    MaxSeq = 2
    Link <- PairLink
    Writers = {2}
    Broadcasters = {}
    Collectors = {2}
    Active <- SelfActive
    SchemaVersion <- SameSchema
    BatchMaxEvents = 1
    BroadcastMax = 1
    GCLimit = 1
    ChanCap = 8
    MaxFaults = 1
SPECIFICATION ForwardSpec
INVARIANTS AckSound
PROPERTIES CatchUp SessionsEnd
