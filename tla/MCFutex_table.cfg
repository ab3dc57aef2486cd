CONSTANTS
    Threads = {1, 2, 3}
    Words = {w1, w2}
    Values = {0}
    Bits = {b1, b2}
    Main = 1
    Masks = {{b1}, {b1, b2}}
    Counts = {0, 1, 2}
    NoWord = NoWord
    NoValue = NoValue
    MaxStrays = 1
    Priority <- MCPriority
SPECIFICATION Spec
SYMMETRY MCSymmetry
INVARIANTS NoWaiterLost WokenOnce
CHECK_DEADLOCK FALSE
