SPECIFICATION HostSpec
CONSTANTS
    BufSize = 4096
    PageSize = 4
    HasFlash = TRUE
    Top = 8
    Contents <- TwoPages
    Commands <- OnTwoPages
    MaxCommands = 4
    MaxClocks = 14
INVARIANTS AnswersInStep StoredAsSent
CHECK_DEADLOCK FALSE
