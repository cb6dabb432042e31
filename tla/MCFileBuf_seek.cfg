SPECIFICATION Spec
CONSTANTS
    Bytes = {10, 11}
    Junk = 99
    MaxFile = 4
    Modes = {"inout"}
    Sizes = {2}
    PBack = 1
    Texts <- MCTexts
    UngetAfterSeek = TRUE
    UngetAcross = FALSE
    ShrinkRead = FALSE
    SputnUnread = FALSE
INVARIANT PosRight
