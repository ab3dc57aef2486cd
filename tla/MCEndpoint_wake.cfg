CONSTANTS
    Procs = {p1, p2}
    Msgs = {m1, m2}
    NoProc = NoProc
    NoMsg = NoMsg
    Capacity = 1
    MaxStrays = 0
SPECIFICATION Spec
SYMMETRY MCSymmetry
INVARIANT WakeReaches
CHECK_DEADLOCK FALSE
