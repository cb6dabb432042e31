SPECIFICATION Spec
CONSTANTS
    t1 = t1  t2 = t2  h1 = h1  h2 = h2  h3 = h3
    b1 = b1  b2 = b2  classic_body = classic_body
    o1 = o1  o2 = o2  f1 = f1  f2 = f2
    NoThread = NoThread  NoBody = NoBody  NoFacet = NoFacet  NoName = NoName
    ClassicObj = ClassicObj  Global = Global  Self = Self
    Threads <- RaceThreads
    Handles <- RaceHandles
    Mine <- RaceMine
    Bodies <- RaceBodies
    Classic = classic_body
    NStd = 1  NSlots = 1
    Plain = {}
    Ordinary <- RaceOrdinary
    Heap = {f1}
    Names = {"C", "de"}
    CName = "C"
    LongNames = TRUE
    MaxThrows = 1
SYMMETRY SymmetryRace
INVARIANTS ReferencesRight FacetsLive
PROPERTY LocalesAreValues
