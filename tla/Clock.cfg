CONSTANTS
    Conn = {c1, c2}
    Remote <- SomeRemote
    MaxWall = 2
    MaxSeq = 3
    MaxRollback = 1
SYMMETRY ConnSymmetry
SPECIFICATION Spec
INVARIANTS StampsIncrease CausalMillisecond ClockInv
