SPECIFICATION MCSpec
CONSTANTS
    b1 = b1  b2 = b2  b3 = b3  b4 = b4  b5 = b5
    NoBuf = NoBuf
    Buffers <- Five
    B = 3
    Limit = 5
    Values = {1, 2}
    MaxElements = 7
    MaxN = 4
SYMMETRY SymFive
INVARIANTS StorageRight CallRight
PROPERTY FailureUndone
