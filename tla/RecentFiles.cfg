CONSTANTS
    a = a
    b = b
    NoFile = NoFile
    Paths = {a, b}
    FixedActions = 2
    MaxActions = 7
    KeyCount = 5
SPECIFICATION Spec
INVARIANT TypeOK
PROPERTY ImplementsHistory
