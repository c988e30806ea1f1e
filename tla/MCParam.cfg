SPECIFICATION Spec
CONSTANTS
    Areas <- MCAreas
    DeviceSize = 20
    Param <- MCParam
    Version = {1, 2}
    Fill = {0}
INVARIANTS TypeOK BootKeeps  ListEnds
PROPERTY OthersUntouched
