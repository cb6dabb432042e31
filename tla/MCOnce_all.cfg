SPECIFICATION FairSpec
CONSTANTS
    classic_body = classic_body
    streams = streams
    global_locale = global_locale
    NoFlag = NoFlag
    NoThread = NoThread
    Threads = {t1, t2}
    Flags <- MCFlags
    Callee <- MCCallee
    Depth <- MCDepth
    AtomicOps = TRUE
    MaxThrows = 2
INVARIANTS TypeOK OneRunner Published NoLostWakeup
PROPERTY CallsEnd
