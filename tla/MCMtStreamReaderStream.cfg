SPECIFICATION MCSpec
CONSTANTS
    BufferSize = 8
    ChunkSize = 2
    Overbuffer = 2
    Streams = 4
    SizeOf <- FourSizes
    LoopOf <- FourLoops
    Skips = {0, 3, 9}
    Pzbs = {0, 3}
    MaxSets = 2
    MaxRead = 24
INVARIANTS OneToken ReadsTheStream
PROPERTY ServedUnlessFailed
CHECK_DEADLOCK FALSE
