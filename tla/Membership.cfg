CONSTANTS
    Node = {1, 2}
    Conn <- PairConn
    Admins = {1}
    Subjects = {2}
    Running <- Rebuilt
    Listed = {}
    Joiners = {2}
    MaxMembers = 32
    MaxInc = 2
    MaxOps = 2
    MaxFaults = 1
SPECIFICATION FairSpec
INVARIANTS TypeOK ActivationLocal MemberInv
PROPERTIES RetirementSticks EpochsAgree
