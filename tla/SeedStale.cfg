CONSTANTS
    Source = src
    Remote = {x}
    Writers = {x}
    Tables <- OneTable
    MaxEvents = 2
    MaxTries = 1
    MaxFaults = 0
SPECIFICATION Spec
INVARIANTS SeededNewest
CHECK_DEADLOCK FALSE
