CONSTANTS
    Node = {1, 2}
    MaxSeq = 2
    Link <- PairLink
    Writers = {1}
    Broadcasters = {1}
    Collectors = {}
    Active <- SelfActive
    SchemaVersion <- SameSchema
    BatchMaxEvents = 1
    BroadcastMax = 1
    GCLimit = 2
    ChanCap = 8
    MaxFaults = 1
SPECIFICATION FairSpec
INVARIANTS TypeOK CursorSound AckSound SoundInv
PROPERTIES CursorMonotone ImplementsLog Convergence SessionsEnd
