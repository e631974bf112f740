SPECIFICATION MCSpec
CONSTANTS
    BufferSize = 8
    ChunkSize = 2
    Overbuffer = 2
    Streams = 4
    SizeOf <- FourSizes
    LoopOf <- FourLoops
    Skips = {0}
    Pzbs = {0}
    MaxSets = 1
    MaxRead = 6
PROPERTY ClientServed
CHECK_DEADLOCK FALSE
