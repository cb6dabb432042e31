SPECIFICATION MCSpec
CONSTANTS
    Threads = {t1, t2}
    NoThread = NoThread
    GlobalCallers = {t1}
    Cats = {"ctype", "numeric"}
    Names = {"C", "de", "xx"}
    Known = {"C", "de"}
    NoName = NoName
    MaxThrows = 1
    Size = 4
    Pages = {p1, p2}
    Files = {f1, f2, f3, f4, f5, f6}
    Bad = Bad
    Locales = {l1}
    NoLocale = NoLocale
    CloseInUse = FALSE
    ios_once = ios_once
    NoFlag = NoFlag
    MaxWrites = 2
    LateInit = FALSE
    Types = {x1, x2}
    LastType = 2
INVARIANTS CLocaleRight GlobalAgrees CatalogsRight StreamsRight IdsRight
PROPERTY CallsEnd
CHECK_DEADLOCK FALSE
