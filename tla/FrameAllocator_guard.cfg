CONSTANTS
    Start = 3
    FrameCount = 7
    BitmapBits = 3
    Threshold = 4
    Counts = {1, 3}
    Cpus = {c1}
    CAPACITY = 4
    HIGH_WATERMARK = 2
    BATCH_SIZE = 2
SPECIFICATION Spec
INVARIANT NoFrameLost
