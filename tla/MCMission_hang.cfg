SPECIFICATION Spec
CONSTANTS
    MaxCmds = 3
    Home <- Nav
    Cmd <- MCLoop
    JumpSlots = 1
    JumpLoops = 3
    DoLoops = 3
    MaxCalls = 1
PROPERTY SetCurrentReturns
CHECK_DEADLOCK FALSE
