SPECIFICATION ProgramsSpec
CONSTANTS
    ClockRate = 512
    MonoWords = 8
    ColourWords = 16
    CartWords = 8
    ProtectFrom = 3
    Visible = 4
    FirstTotal = 6
    MaxOps <- FewOps
    MaxLines <- FewLines
    ClockBytes = {20, 21, 53}
    Periods = {1, 2, 3}
    Streamed = {1, 2}
    Totals = {0, 5, 8}
    Costs = {5, 43}
INVARIANTS ReadsOneMoment FramesEnd TimerKeepsTime StreamInOrder HeardInTime
PROPERTIES TickIsSuccessor TickHeals SpritesWhole ProtectedHeld CopyArrives
CHECK_DEADLOCK FALSE
