SPECIFICATION LiveSpec
CONSTANTS
    Threads = {t1, t2, t3}
    NoThread = NoThread
    Null = Null
    Mapped = Mapped
    MaxThrows = 1
INVARIANT DataRight
PROPERTY CallsEnd
