SPECIFICATION MCSpec
CONSTANTS
    LbaMin <- DiscStart
    LbaMax = 3
    SBSize = 3
    MaxRa = 1
    MaxCalls = 4
    Reads <- ReadsMade
    Hints <- HintsMade
INVARIANTS AnswerRight AskedIsThere NotBothAsleep
PROPERTIES ReadReturns ComesAndGoes
CHECK_DEADLOCK FALSE
