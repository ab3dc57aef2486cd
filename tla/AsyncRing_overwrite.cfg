SPECIFICATION Spec
CONSTANTS
    Producers = {p1}
    Consumers = {c1}
    Capacity = 2
    Words = {w1, w2}
    MaxMsgs = 5
INVARIANT OverwritesOnlyConsumed
CHECK_DEADLOCK FALSE
