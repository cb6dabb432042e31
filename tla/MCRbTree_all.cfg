SPECIFICATION Spec
CONSTANTS
    Keys = {1, 2, 3, 4}
    Copies = 2
    Trees = {a, b}
    Dups = {TRUE, FALSE}
    LateThrow = FALSE
    MaxSize = 7
    MaxBoth = 4
SYMMETRY Symmetry
INVARIANTS TreeRight ReturnsRight
