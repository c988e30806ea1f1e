SPECIFICATION Spec
CONSTANTS
    StorageSize = 2
    BlockSize = 1
    MaxWrite = 1
    SectorSize = 8
    SectorHdr = 1
    BlockHdr = 1
    Value = {0, 1}
    Ranges <- MCWhole
    StackLimit = 8
    PowerFailAt = {"idle"}
    ProgramFault = FALSE
INVARIANT RewriteFits
PROPERTY CallsReturn
