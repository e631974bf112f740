SPECIFICATION CardHostSpec
CONSTANTS
    BufSize = 4096
    DataLen = 2
    StopBusy = 8
    ReadDelay = 16
    HasCard = TRUE
    StackBytes = {7, 254}
    Blocks = 3
    CardBytes <- Numbered
    Jobs <- AllKinds
    MaxJobs = 3
PROPERTIES ImplementsBlockStore JobsEnd
