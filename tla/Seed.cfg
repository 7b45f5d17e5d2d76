CONSTANTS
    Source = src
    Remote = {x}
    Writers = {src, x}
    Tables <- TwoTables
    MaxEvents = 3
    MaxTries = 2
    MaxFaults = 1
SPECIFICATION FairSpec
INVARIANTS CursorTrue SeededNewestAlone SeededDeleteSticks SeedInv
PROPERTIES SeedReturns SeedActivates
CHECK_DEADLOCK FALSE
