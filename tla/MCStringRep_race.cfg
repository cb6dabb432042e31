SPECIFICATION Spec
CONSTANTS
    Threads = {t1, t2}
    Handles = {h1, h2, h3}
    Bodies = {b1, b2, b3}
    NullBody = NullBody
    None = None
    Vals = {empty, a, b}
    Empty = empty
SYMMETRY Symmetry
INVARIANT BodiesRight
PROPERTY StringsAreValues
