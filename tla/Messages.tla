------------------------------ MODULE Messages ------------------------------
(***************************************************************************)
(* The repository of open message catalogs (src/messages.cpp) under        *)
(* messages<>::open, get and close (include/loc/_messages.cc).  A handle is *)
(* an index into an array of pointers to entries; entries live on pages,    *)
(* one of which is static.  The array and the pages grow when all entries   *)
(* are in use, and shrink to the static ones when the handles left are      *)
(* small.  Each function has the guard from its beginning to its end, so a  *)
(* step is a function; but get() calls two, and uses afterwards the message *)
(* and the reference to a locale that they returned.                        *)
(***************************************************************************)
EXTENDS Naturals, FiniteSets, FiniteSetsExt

CONSTANTS Threads,
          Size,       \* entries on a page (__rw_open_cat_page::_C_size)
          Pages,      \* bound: pages on the heap
          Files,      \* the C library's catalogs: bounds how many can be open
          Bad,        \* _RWSTD_BAD_CATD
          Locales, NoLocale,
          CloseInUse  \* may a catalog be closed while another thread reads it?

\* what the constants are; the module that gives them values assumes it
MessagesAssumption ==
    Size \in Nat \ {0} /\ IsFiniteSet(Pages) /\ "static" \notin Pages
    /\ Bad \notin Files /\ NoLocale \notin Locales /\ CloseInUse \in BOOLEAN

VARIABLES
    catalogs,   \* the array: handle -> entry, an entry being <<page, index>>
    pages,      \* pages in the list
    entry,      \* what the entries hold: [catd, loc]
    nCatalogs, largest,
    libOpen,    \* catalogs open in the C library
    handed,     \* ghost: the handles given out and not closed, and what for
    lost,       \* ghost: catalogs left open by an open() that threw
    reader      \* a thread's get(): [cat, text, loc, step]

repository == <<catalogs, pages, entry, nCatalogs, largest>>
vars == <<repository, libOpen, handed, lost, reader>>

Unused == [catd |-> Bad, loc |-> NoLocale]
Page(p) == {p} \X (0 .. Size - 1)
Handles == 0 .. Size * (Cardinality(Pages) + 1) - 1
BufSize == Cardinality(DOMAIN catalogs)     \* catalog_bufsize
Static == [h \in 0 .. Size - 1 |-> <<"static", h>>]
OnHeap == BufSize > Size                    \* catalogs != catalog_buf
NoEntry == <<"none", 0>>
NoReader == [cat |-> 0, text |-> Bad, loc |-> NoEntry, step |-> "idle"]

Init ==
    /\ catalogs = Static /\ pages = {}
    /\ entry = [e \in Page("static") |-> Unused]
    /\ nCatalogs = 0 /\ largest = 0
    /\ libOpen = {} /\ handed = << >> /\ lost = {}
    /\ reader = [t \in Threads |-> NoReader]
-----------------------------------------------------------------------------
Extend(f, x, y) == [z \in DOMAIN f \cup {x} |-> IF z = x THEN y ELSE f[z]]
Without(f, S) == [z \in DOMAIN f \ S |-> f[z]]

\* the entry of a new catalog is at this handle
Enter(cat, f, l, ents) ==
    /\ entry' = [ents EXCEPT ![catalogs'[cat]] = [catd |-> f, loc |-> l]]
    /\ largest' = Max({largest, cat})
    /\ nCatalogs' = nCatalogs + 1
    /\ handed' = Extend(handed, cat, [catd |-> f, loc |-> l])

\* all entries are in use: a page more, and an array for its entries too
Grown(p) == [h \in 0 .. BufSize + Size - 1 |->
                IF h < BufSize THEN catalogs[h] ELSE <<p, h - BufSize>>]
WithPage(p) == [e \in DOMAIN entry \cup Page(p) |->
                   IF e \in DOMAIN entry THEN entry[e] ELSE Unused]
NewPage == CHOOSE p \in Pages : p \notin pages
Append(f, l) ==
    /\ nCatalogs = BufSize /\ pages # Pages
    /\ pages' = pages \cup {NewPage}
    /\ catalogs' = Grown(NewPage)
    /\ Enter(nCatalogs, f, l, WithPage(NewPage))

\* the first entry that is not in use
FirstFree == Min({h \in DOMAIN catalogs : entry[catalogs[h]].catd = Bad})
Fill(f, l) ==
    /\ nCatalogs < BufSize
    /\ UNCHANGED <<catalogs, pages>>
    /\ Enter(FirstFree, f, l, entry)

\* catopen(), which may fail and then nothing is changed; how the C library
\* tells its catalogs from each other does not matter
NewFile == CHOOSE f \in Files : f \notin libOpen
CanOpen(t) == reader[t].step = "idle" /\ Files # libOpen

\* __rw_cat_open()
Open(t, l) ==
    /\ CanOpen(t)
    /\ libOpen' = libOpen \cup {NewFile}
    /\ Append(NewFile, l) \/ Fill(NewFile, l)
    /\ UNCHANGED <<lost, reader>>

\* the memory for the page, or for the array once the page is in the list,
\* cannot be had: the catalog stays open in the C library
OpenThrows(t) ==
    /\ CanOpen(t) /\ nCatalogs = BufSize
    /\ libOpen' = libOpen \cup {NewFile} /\ lost' = lost \cup {NewFile}
    /\ \/ UNCHANGED repository
       \/ /\ pages # Pages
          /\ pages' = pages \cup {NewPage} /\ entry' = WithPage(NewPage)
          /\ UNCHANGED <<catalogs, nCatalogs, largest>>
    /\ UNCHANGED <<handed, reader>>

\* the entry of a handle that may never have been given out
Find(cat) == IF cat < BufSize THEN entry[catalogs[cat]] ELSE Unused

\* the largest handle still in use, below one that is closed
NextLargest(cat) ==
    Max({0} \cup {h \in 0 .. cat - 1 : entry[catalogs[h]].catd # Bad})
\* a mutant: the number of catalogs decides, not the largest handle
ShrinksByCount(cat) == nCatalogs - 1 < Size \div 2 /\ OnHeap

Shrinks(cat) == cat = largest /\ NextLargest(cat) < Size \div 2 /\ OnHeap

\* __rw_cat_close(): the handles left are small enough for the static array,
\* whose entries are all on the static page
Close(t, cat) ==
    /\ reader[t].step = "idle"
    /\ Find(cat).catd # Bad
    /\ CloseInUse \/ \A u \in Threads : reader[u].step = "idle" \/ reader[u].cat # cat
    /\ libOpen' = libOpen \ {Find(cat).catd}
    /\ handed' = Without(handed, {cat})
    /\ nCatalogs' = nCatalogs - 1
    /\ largest' = IF cat = largest THEN NextLargest(cat) ELSE largest
    /\ LET closed == [entry EXCEPT ![catalogs[cat]] = Unused] IN
       IF Shrinks(cat)
       THEN /\ catalogs' = [h \in 0 .. Size - 1 |-> catalogs[h]]
            /\ pages' = {}
            /\ entry' = Without(closed, {e \in DOMAIN entry : e[1] \in pages})
       ELSE /\ entry' = closed
            /\ UNCHANGED <<catalogs, pages>>
    /\ UNCHANGED <<lost, reader>>

\* a handle that is not open: close() throws, get() returns its default
CloseThrows(t, cat) ==
    /\ reader[t].step = "idle" /\ Find(cat).catd = Bad
    /\ UNCHANGED vars

\* do_get(): __rw_get_message()
GetText(t, cat) ==
    /\ reader[t].step = "idle" /\ Find(cat).catd # Bad
    /\ reader' = [reader EXCEPT ![t] = [cat |-> cat, text |-> Find(cat).catd,
                                        loc |-> NoEntry, step |-> "text"]]
    /\ UNCHANGED <<repository, libOpen, handed, lost>>

\* __rw_get_locale(), a reference to the locale in the entry, whose assertion
\* fails for a handle past the array's end
GetLocale(t) ==
    /\ reader[t].step = "text" /\ reader[t].cat < BufSize
    /\ reader' = [reader EXCEPT ![t].loc = catalogs[reader[t].cat], ![t].step = "use"]
    /\ UNCHANGED <<repository, libOpen, handed, lost>>

\* the locale's codecvt converts the message
Use(t) ==
    /\ reader[t].step = "use"
    /\ reader' = [reader EXCEPT ![t] = NoReader]
    /\ UNCHANGED <<repository, libOpen, handed, lost>>

Next ==
    \E t \in Threads :
        \/ \E l \in Locales : Open(t, l)
        \/ OpenThrows(t)
        \/ \E cat \in Handles : Close(t, cat) \/ CloseThrows(t, cat) \/ GetText(t, cat)
        \/ GetLocale(t)
        \/ Use(t)

Spec == Init /\ [][Next]_vars
-----------------------------------------------------------------------------
\* a handle leads to what it was given out for, and no other handle to anything
HandlesRight ==
    \A h \in Handles :
        Find(h) = IF h \in DOMAIN handed THEN handed[h] ELSE Unused
\* every pointer in the array is to an entry of its own that exists
PointersRight ==
    /\ DOMAIN entry = Page("static") \cup UNION {Page(p) : p \in pages}
    /\ \A h \in DOMAIN catalogs : catalogs[h] \in DOMAIN entry
    /\ \A g, h \in DOMAIN catalogs : catalogs[g] = catalogs[h] => g = h
CountsRight ==
    /\ nCatalogs = Cardinality(DOMAIN handed)
    /\ largest = Max({0} \cup DOMAIN handed)
\* what is open in the C library is in the repository
NoneForgotten == libOpen = {handed[h].catd : h \in DOMAIN handed} \cup lost
\* what a get() has read is there when it is used, although it has no guard:
\* an entry stays where it is while other handles are opened and closed
ReadersSafe ==
    \A t \in Threads :
        /\ reader[t].step # "idle" => reader[t].text \in libOpen
        /\ reader[t].step = "text" => reader[t].cat < BufSize
        /\ reader[t].step = "use" =>
              /\ reader[t].loc \in DOMAIN entry
              /\ entry[reader[t].loc] = handed[reader[t].cat]

(* The repository holds exactly the catalogs that are open, through any       *)
(* growing and shrinking, and get() may use what it has read of one of them   *)
(* after the guard is gone as long as that one is not closed                  *)
(* (__rw_manage_cat_data(), messages.cpp:85).                                 *)
CatalogsRight ==
    HandlesRight /\ PointersRight /\ CountsRight /\ NoneForgotten /\ ReadersSafe
=============================================================================
