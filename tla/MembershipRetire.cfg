CONSTANTS
    Node = {1, 2, 3}
    Conn <- TriangleConn
    Admins = {1}
    Subjects = {3}
    Running <- AllFirst
    Listed <- MetSenders
    Joiners = {1}
    MaxMembers = 32
    MaxInc = 1
    MaxOps = 2
    MaxFaults = 0
SPECIFICATION Spec
INVARIANTS RetirementWins
