SPECIFICATION Spec
CONSTANTS
    MaxCmds = 3
    Home <- MCHome
    Item <- MCItem
    Plans <- MCPlans
    RecvTime = 1
    Timeout = 2
    Patient = TRUE
    LinkCap = 2
    MaxLoss = 1
    MaxOps = 2
INVARIANTS TypeOK AcceptedIsStored AcceptedJumpsResolve
PROPERTIES ReceivingEnds LossesAreMadeUp
