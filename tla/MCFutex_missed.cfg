CONSTANTS
    Threads = {1, 2}
    Words = {w1}
    Values = {0, 1}
    Bits = {b1}
    Main = 1
    Masks = {{b1}}
    Counts = {1}
    NoWord = NoWord
    NoValue = NoValue
    MaxStrays = 0
    Priority <- MCPriority
SPECIFICATION Spec
INVARIANT NoMissedWake
CHECK_DEADLOCK FALSE
