SPECIFICATION SessionSpec
CONSTANTS
    BufSize = 4096
    DefaultArg = 512
    MaxCdc = 128
    EepromWords = 1024
    Junk = {7}
    MaxCommands = 3
PROPERTY SessionCompletes
CHECK_DEADLOCK FALSE
