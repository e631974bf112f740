SPECIFICATION MCSpec
CONSTANTS
    BufSize = 64
    DefaultArg = 3
    MaxCdc = 2
    EepromWords = 16
    Junk = {7}
    PageSize = 4
    HasFlash = TRUE
    DataLen = 2
    StopBusy = 1
    ReadDelay = 2
    HasCard = TRUE
    StackBytes = {7}
    LowSize = 4
    MaxTries = 3
    FirstImage <- NoImage
    FirstBytes <- NoImage
    Offsets = {0, 1, 40000}
INVARIANT Confined
PROPERTY OnlyAskedPrograms
CHECK_DEADLOCK FALSE
