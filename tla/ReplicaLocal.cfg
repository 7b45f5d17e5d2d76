CONSTANTS
    w1 = w1
    w2 = w2
    w3 = w3
    Node = {1, 2}
    Col = {a}
    Writers = {1, 2}
    Deleters = {}
    Worker <- OneEach
    Walls = {1, 2}
    MaxEvents = 2
SPECIFICATION Spec
INVARIANTS AllConverge
