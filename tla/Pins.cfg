CONSTANTS
    Node = {1, 2}
    MaxSeq = 2
    Source = 1
    Session = {s1, s2}
    GCLimit = 1
    MaxFaults = 1
SPECIFICATION FairSpec
INVARIANTS TypeOK PinInv PinnedKept
PROPERTIES MarkMonotone CleanupResumes
