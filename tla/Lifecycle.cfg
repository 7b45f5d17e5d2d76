CONSTANTS
    Closer <- Closers
    Worker <- Workers
    App <- Apps
    Inbound = {peer}
    MaxCalls = 2
    MaxDials = 2
    MaxEvents = 1
SPECIFICATION FairSpec
INVARIANTS CloseComplete NoneLost LifeInv
PROPERTIES NoLateSession EventuallyQuiet CloseReturns
CHECK_DEADLOCK FALSE
