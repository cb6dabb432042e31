SPECIFICATION MCSpec
CONSTANTS
    Streams = {s1, s2}
    Locked = {s1}
    Null = Null
    None = None
    Ties = {None, cout}
    Formats = {f, g}
    Callbacks = {c1,c2}
    MaxCallbacks = 2
    Kinds = {"iword"}
    Indices <- MCIndices
    MaxDepth = 2
    MaxVaried = 1
    TieFirst = FALSE
    CopyWithin = FALSE
    RegisterInDtor = FALSE
    Width = 8
    Narrow = 6
    Plain = 2
    MaxText = 5
    LongShift = FALSE
    AutoOdd = FALSE
    OctalBase = FALSE
    MaxInput = 4
    MaxThrowing = 3
    MaxString = 3
    ReadThrows = FALSE
    StringArea = FALSE
SYMMETRY Symmetry
INVARIANTS AsWanted EventsDelivered NothingStale NumbersRight InputRight
