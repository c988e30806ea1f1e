SPECIFICATION Spec
CONSTANTS
    StorageSize = 1
    BlockSize = 1
    MaxWrite = 1
    SectorSize = 8
    SectorHdr = 1
    BlockHdr = 1
    Value = {0, 1}
    Ranges <- MCByte
    StackLimit = 8
    PowerFailAt = {"idle", "step"}
    ProgramFault = TRUE
PROPERTY Durable
