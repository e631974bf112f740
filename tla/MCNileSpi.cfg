SPECIFICATION MCSpec
CONSTANTS
    BufSize = 64
    DefaultArg = 3
    MaxCdc = 2
    EepromWords = 16
    Junk = {7}
    PageSize = 4
    HasFlash = TRUE
    DataLen = 2
    StopBusy = 1
    ReadDelay = 2
    HasCard = TRUE
    StackBytes = {7}
    LowSize = 4
    MaxTries = 3
    FirstImage <- SmallImage
    FirstBytes <- SmallBytes
INVARIANTS SpiInv DevicesAtRest
PROPERTIES BusyHolds TransferEnds
CHECK_DEADLOCK FALSE
