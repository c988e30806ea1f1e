SPECIFICATION Spec
CONSTANTS
    Size = 4
    MaxBytes = 5
    LeaveRoom = TRUE
INVARIANTS TypeOK  RxInOrder
PROPERTY TxDrains
