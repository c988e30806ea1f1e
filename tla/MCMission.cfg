SPECIFICATION Spec
CONSTANTS
    MaxCmds = 4
    Home <- Nav
    Cmd <- MCCmd
    JumpSlots = 2
    JumpLoops = 3
    DoLoops = 0
    MaxCalls = 3
INVARIANTS LoadedHasIndex StartsStored JumpsWithinBudget
PROPERTIES NoNavSkipped CallReturns MissionEnds
CHECK_DEADLOCK FALSE
