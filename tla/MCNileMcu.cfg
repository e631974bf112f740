SPECIFICATION MCSpec
CONSTANTS
    BufSize = 1100
    DefaultArg = 3
    MaxCdc = 2
    EepromWords = 1024
    Junk = {7}
    Kinds = {"bytes", "packets", "serial", "boot"}
INVARIANTS RxUnfinished OnlyEraseHalts NoPacketBehindAnswer SerialKept
PROPERTY DrainResynchronises
CHECK_DEADLOCK FALSE
