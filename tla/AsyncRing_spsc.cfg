SPECIFICATION FairSpec
CONSTANTS
    Producers = {p1}
    Consumers = {c1}
    Capacity = 2
    Words = {w1, w2}
    MaxMsgs = 5
INVARIANTS SizeWithinCapacity SizeCountsPublished NeverReadsUninit OneLapAtMost
PROPERTY Delivery
CHECK_DEADLOCK FALSE
