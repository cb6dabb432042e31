SPECIFICATION MCSpec
CONSTANTS
    Bytes = {10, 11}
    Junk = 99
    MaxFile = 3
    Modes = {"in", "out", "inout", "app"}
    Sizes = {0, 1, 2}
    PBack = 1
    Texts <- MCTexts
    UngetAfterSeek = FALSE
    UngetAcross = FALSE
    ShrinkRead = FALSE
    SputnUnread = FALSE
    Chars = {"a", "b"}
    Nul = "0"
    MaxSize = 5
    MinGrow = 1
    Num = 3
    Den = 2
    Terminator = FALSE
    Values = {1, 2}
    MaxElements = 5
    MaxNew = 3
    OwnValue = FALSE
    Nodes = {1, 2, 3, 4}
    ListValues = {11, 12, 21}
    RemoveOwn = FALSE
    Threshold = 2
    Chunk = 2
    Small = 3
    Keys = {1, 2, 3}
    MaxRange = 5
    MaxChars = 3
    MinCapacity = 2
    GrowRead = FALSE
    OwnSource = FALSE
    StrThrows = FALSE
INVARIANTS PosRight ContentRight EditsRight SearchesRight VectorRight ListsRight AlgorithmsRight StringBufRight
