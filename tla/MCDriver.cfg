SPECIFICATION Spec
CONSTANTS
    LineSize = 2
    NumLines = 3
    WordBits = 2
    Value = {0, 1}
    Blocks <- MCBlocks
    MaxWrites = 2
INVARIANTS TypeOK OnlyRacesLose 
PROPERTY Drained
