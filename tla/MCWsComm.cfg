SPECIFICATION MCSpec
CONSTANTS
    PipeSize = 2
    Data = {1, 2, 3, 4, 5, 6, 7, 8}
    MaxOps = 7
    MessageLen = 8
INVARIANTS CacheFresh ReceiveAnnounced InOrder
PROPERTY AllEchoed
CHECK_DEADLOCK FALSE
