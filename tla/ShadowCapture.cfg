SPECIFICATION Spec
CONSTANTS
    a = a
    b = b
    c = c
    Cap = 2
    Results = {a, b, c}
INVARIANTS
    StoreTypeOK
    StoredResultInOnePlace
    StatsMissOnlyOverwritten
PROPERTIES
    ImplementsQueue
    BufferDrains
CHECK_DEADLOCK FALSE
