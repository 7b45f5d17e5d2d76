CONSTANTS
    w1 = w1
    w2 = w2
    w3 = w3
    Node = {1, 2, 3}
    Col = {a, b}
    Writers = {1, 2}
    Deleters = {1}
    Worker <- SomeWorkers
    Walls = {1}
    MaxEvents = 3
SYMMETRY Symmetric
SPECIFICATION Spec
INVARIANTS NewestWins DeletesStick RowInv
