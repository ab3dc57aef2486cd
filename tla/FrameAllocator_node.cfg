CONSTANTS
    Start = 3
    FrameCount = 7
    BitmapBits = 3
    Threshold = 4
    Counts = {1, 2, 4}
    Cpus = {c1, c2}
    CAPACITY = 4
    HIGH_WATERMARK = 2
    BATCH_SIZE = 2
SPECIFICATION Spec
INVARIANTS TypeOK OneOwner NoFrameLost CounterExact CacheBounded
