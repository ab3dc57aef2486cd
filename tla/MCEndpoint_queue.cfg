CONSTANTS
    Procs = {p1, p2, p3}
    Msgs = {m1, m2, m3, m4, m5}
    NoProc = NoProc
    NoMsg = NoMsg
    Capacity = 1
    MaxStrays = 1
SPECIFICATION Spec
SYMMETRY MCSymmetry
INVARIANTS Fifo OverfillBound
CHECK_DEADLOCK FALSE
