---------------------------- MODULE ProcessProofs ----------------------------
(***************************************************************************)
(* What the library keeps one of in a process: the theorems about the ids   *)
(* of facets, the repository of message catalogs, the standard streams'     *)
(* count and the C library's locale, for any threads, types, catalogs,      *)
(* pages, categories and names.  They are of MCSpec, whose steps leave      *)
(* alone what they are not about.                                           *)
(***************************************************************************)
EXTENDS MCProcess, FiniteSetTheorems, WellFoundedInduction, TLAPS
-----------------------------------------------------------------------------
(* Ids of facets: ids that were given are the ones stored, and the generator  *)
(* is past all of them while a thread is about to store, which only the       *)
(* holder of the lock is.                                                     *)
IdSteps == {"idle", "lock", "locked", "store"}
IdType ==
    /\ id \in [Types -> Nat] /\ gen \in Nat /\ LastType < gen
    /\ guard \in Threads \cup {NoThread}
    /\ at \in [Threads -> [type : Types \cup {"none"}, step : IdSteps]]
    /\ used \subseteq Types \X Nat

\* between the lock and the store a thread has the guard, and about to store
\* its type has no id and no type has the generator's
Guarded ==
    \A t \in Threads :
        /\ at[t].step \in {"locked", "store"} => guard = t
        /\ at[t].step = "store" => \A f \in Types : id[f] < gen /\ (f = at[t].type => id[f] = 0)

\* ids are the generator's past values, none given twice
Distinct ==
    \A f, g \in Types :
        /\ id[f] # 0 => LastType < id[f] /\ id[f] <= gen
        /\ id[f] # 0 /\ id[f] = id[g] => f = g

\* what a call returned is what is stored, for good
Stored == \A u \in used : u[2] # 0 /\ u[2] = id[u[1]]

IdInv == IdType /\ Guarded /\ Distinct /\ Stored

LEMMA IdInit == Ids!Init => IdInv
BY ProcessAssumption DEF Ids!FacetIdAssumption, Ids!Init, Ids!Nowhere, IdSteps, IdType, Guarded, Distinct, Stored, IdInv

LEMMA IdKept == IdInv /\ [Ids!Next]_Ids!vars => IdInv'
<1> SUFFICES ASSUME IdInv, [Ids!Next]_Ids!vars PROVE IdInv'
    OBVIOUS
<1> USE DEF IdInv, IdSteps
<1>1. ASSUME NEW t \in Threads, NEW f \in Types, Ids!TestSet(t, f) PROVE IdInv'
  <2> USE <1>1 DEF Ids!TestSet, Ids!Return, Ids!Nowhere
  <2>1. IdType' BY DEF IdType
  <2>2. Guarded' BY DEF IdType, Guarded
  <2>3. Distinct' BY DEF Distinct
  <2>4. Stored' BY DEF IdType, Stored
  <2> QED BY <2>1, <2>2, <2>3, <2>4
<1>2. ASSUME NEW t \in Threads, NEW f \in Types, Ids!TestUnset(t, f) PROVE IdInv'
  <2> USE <1>2 DEF Ids!TestUnset, Ids!Goto
  <2>1. IdType' BY DEF IdType
  <2>2. Guarded' BY DEF IdType, Guarded
  <2>3. Distinct' /\ Stored' BY DEF Distinct, Stored
  <2> QED BY <2>1, <2>2, <2>3
<1>3. ASSUME NEW t \in Threads, NEW f \in Types, Ids!Lock(t, f) PROVE IdInv'
  <2> USE <1>3 DEF Ids!Lock, Ids!Goto
  <2>1. IdType' BY DEF IdType
  <2>2. Guarded' BY ProcessAssumption DEF Ids!FacetIdAssumption, IdType, Guarded
  <2>3. Distinct' /\ Stored' BY DEF Distinct, Stored
  <2> QED BY <2>1, <2>2, <2>3
<1>4. ASSUME NEW t \in Threads, NEW f \in Types, Ids!Found(t, f) PROVE IdInv'
  <2> USE <1>4 DEF Ids!Found, Ids!Return, Ids!Nowhere
  <2>1. IdType' BY DEF IdType
  <2>2. Guarded' BY DEF IdType, Guarded
  <2>3. Distinct' BY DEF Distinct
  <2>4. Stored' BY DEF IdType, Stored
  <2> QED BY <2>1, <2>2, <2>3, <2>4
<1>5. ASSUME NEW t \in Threads, NEW f \in Types, Ids!Generate(t, f) PROVE IdInv'
  <2> USE <1>5 DEF Ids!Generate, Ids!Goto
  <2>1. IdType' BY ProcessAssumption DEF Ids!FacetIdAssumption, IdType
  <2>2. Guarded' BY ProcessAssumption DEF Ids!FacetIdAssumption, IdType, Guarded, Distinct
  <2>3. Distinct' BY DEF IdType, Distinct
  <2>4. Stored' BY DEF Stored
  <2> QED BY <2>1, <2>2, <2>3, <2>4
<1>6. ASSUME NEW t \in Threads, NEW f \in Types, Ids!Store(t, f) PROVE IdInv'
  <2> USE <1>6 DEF Ids!Store, Ids!Return, Ids!Nowhere
  <2>0. id[f] = 0 /\ \A g \in Types : id[g] < gen
        BY DEF IdType, Guarded
  <2>1. IdType' BY DEF IdType
  <2>2. Guarded' BY DEF IdType, Guarded
  <2>3. Distinct' BY <2>0, ProcessAssumption DEF Ids!FacetIdAssumption, IdType, Distinct
  <2>4. Stored' BY <2>0, ProcessAssumption DEF Ids!FacetIdAssumption, IdType, Stored
  <2> QED BY <2>1, <2>2, <2>3, <2>4
<1>7. CASE UNCHANGED Ids!vars
      BY <1>7 DEF Ids!vars, IdType, Guarded, Distinct, Stored
<1> QED BY <1>1, <1>2, <1>3, <1>4, <1>5, <1>6, <1>7 DEF Ids!Next

-----------------------------------------------------------------------------
(* The least and the greatest of a finite set of numbers: of two sets         *)
(* {y : y < x} one is a part of the other, and a finite set's parts have no    *)
(* infinite descent.                                                          *)
LEMMA Least ==
  ASSUME NEW S \in SUBSET Nat, S # {}, IsFiniteSet(S)
  PROVE  \E x \in S : \A y \in S : x <= y
<1>1. PICK R : R = StrictSubsetOrdering(S)
      OBVIOUS
<1>2. PICK T : T = {{y \in S : y < x} : x \in S}
      OBVIOUS
<1>3. T \subseteq SUBSET S /\ T # {}
      BY <1>2
<1>4. PICK m \in T : \A z \in T : ~ (<<z, m>> \in R)
  <2>1. IsWellFoundedOn(R, SUBSET S)
        BY <1>1, FS_StrictSubsetOrderingWellFounded, FS_FiniteSubsetsOfFinite
  <2> QED BY <1>3, <2>1, WFMin
<1>5. PICK x \in S : m = {y \in S : y < x}
      BY <1>2, <1>4
<1>6. ASSUME NEW y \in S, y < x PROVE FALSE
  <2>1. PICK z : z = {w \in S : w < y}
        OBVIOUS
  <2>2. z \in T /\ z \in SUBSET S /\ m \in SUBSET S
        BY <1>2, <1>3, <1>4, <2>1
  <2>3. y \in m /\ y \notin z
        BY <1>5, <1>6, <2>1
  <2>4. ASSUME NEW w \in z PROVE w \in m
    <3>1. w \in S /\ w < y
          BY <2>1
    <3>2. w < x
          BY <1>6, <3>1
    <3> QED BY <1>5, <3>1, <3>2
  <2>5. <<z, m>> \in R
        BY <1>1, <2>2, <2>3, <2>4 DEF StrictSubsetOrdering
  <2> QED BY <1>4, <2>2, <2>5
<1> QED BY <1>6

LEMMA Greatest ==
  ASSUME NEW S \in SUBSET Nat, S # {}, IsFiniteSet(S)
  PROVE  \E x \in S : \A y \in S : y <= x
<1>1. PICK R : R = StrictSubsetOrdering(S)
      OBVIOUS
<1>2. PICK T : T = {{y \in S : x < y} : x \in S}
      OBVIOUS
<1>3. T \subseteq SUBSET S /\ T # {}
      BY <1>2
<1>4. PICK m \in T : \A z \in T : ~ (<<z, m>> \in R)
  <2>1. IsWellFoundedOn(R, SUBSET S)
        BY <1>1, FS_StrictSubsetOrderingWellFounded, FS_FiniteSubsetsOfFinite
  <2> QED BY <1>3, <2>1, WFMin
<1>5. PICK x \in S : m = {y \in S : x < y}
      BY <1>2, <1>4
<1>6. ASSUME NEW y \in S, x < y PROVE FALSE
  <2>1. PICK z : z = {w \in S : y < w}
        OBVIOUS
  <2>2. z \in T /\ z \in SUBSET S /\ m \in SUBSET S
        BY <1>2, <1>3, <1>4, <2>1
  <2>3. y \in m /\ y \notin z
        BY <1>5, <1>6, <2>1
  <2>4. ASSUME NEW w \in z PROVE w \in m
    <3>1. w \in S /\ y < w
          BY <2>1
    <3>2. x < w
          BY <1>6, <3>1
    <3> QED BY <1>5, <3>1, <3>2
  <2>5. <<z, m>> \in R
        BY <1>1, <2>2, <2>3, <2>4 DEF StrictSubsetOrdering
  <2> QED BY <1>4, <2>2, <2>5
<1> QED BY <1>6

LEMMA MaxIs ==
  ASSUME NEW S \in SUBSET Nat, NEW n \in S, \A x \in S : x <= n
  PROVE  Catalogs!Max(S) = n
<1>1. \A m \in S : (\A y \in S : m >= y) <=> m = n
      OBVIOUS
<1> QED BY <1>1 DEF Catalogs!Max

LEMMA MaxOf ==
  ASSUME NEW S \in SUBSET Nat, S # {}, IsFiniteSet(S)
  PROVE  Catalogs!Max(S) \in S /\ \A x \in S : x <= Catalogs!Max(S)
<1>1. PICK n \in S : \A x \in S : x <= n
      BY Greatest
<1>2. Catalogs!Max(S) = n
      BY <1>1, MaxIs
<1> QED BY <1>1, <1>2

LEMMA MinOf ==
  ASSUME NEW S \in SUBSET Nat, S # {}, IsFiniteSet(S)
  PROVE  Catalogs!Min(S) \in S
<1>1. PICK n \in S : \A x \in S : n <= x
      BY Least
<1> QED BY <1>1 DEF Catalogs!Min

-----------------------------------------------------------------------------
(* Message catalogs.                                                          *)

\* the entries there are, on the static page and on those of the heap
Cells == Catalogs!Page("static") \cup UNION {Catalogs!Page(p) : p \in pages}
CellValues == [catd : Files \cup {Bad}, loc : Locales \cup {NoLocale}]
InUse == DOMAIN handed

\* the array: as long as it says, and its first entries are the static ones,
\* which is what lets it shrink to them
Array ==
    /\ Catalogs!BufSize \in Nat /\ Size <= Catalogs!BufSize
    /\ DOMAIN catalogs = 0 .. Catalogs!BufSize - 1
    /\ pages \subseteq Pages
    /\ \A h \in DOMAIN catalogs : catalogs[h] \in Cells
    /\ \A g, h \in DOMAIN catalogs : catalogs[g] = catalogs[h] => g = h
    /\ \A h \in 0 .. Size - 1 : catalogs[h] = <<"static", h>>

\* what handles lead to
Entries ==
    /\ entry \in [Cells -> CellValues]
    /\ InUse \subseteq DOMAIN catalogs
    /\ \A h \in DOMAIN catalogs :
          entry[catalogs[h]] = IF h \in InUse THEN handed[h] ELSE Catalogs!Unused

\* and the catalogs of the C library that are behind them
Behind ==
    /\ \A h \in InUse : handed[h].catd \in Files \ lost
    /\ \A g, h \in InUse : handed[g].catd = handed[h].catd => g = h
    /\ libOpen = {handed[h].catd : h \in InUse} \cup lost /\ libOpen \subseteq Files

Counts ==
    /\ nCatalogs = Cardinality(InUse)
    /\ largest \in {0} \cup InUse /\ \A h \in InUse : h <= largest

\* what a get() has read is still what its handle leads to
Places == {Catalogs!NoEntry} \cup (({"static"} \cup Pages) \X Nat)
Readers == [cat : Nat, text : Files \cup {Bad}, loc : Places, step : {"idle", "text", "use"}]
Reading ==
    /\ reader \in [Threads -> Readers]
    /\ \A t \in Threads :
        /\ reader[t].step # "idle" =>
              reader[t].cat \in InUse /\ reader[t].text = handed[reader[t].cat].catd
        /\ reader[t].step = "use" => reader[t].loc = catalogs[reader[t].cat]

CatInv == Array /\ Entries /\ Behind /\ Counts /\ (~CloseInUse => Reading)

\* a module's cardinality is the same one when the module is instantiated
LEMMA SameCounts ==
  ASSUME NEW S
  PROVE  /\ Catalogs!IsFiniteSet(S) <=> IsFiniteSet(S)
         /\ Catalogs!Cardinality(S) = Cardinality(S)
         /\ Streams!IsFiniteSet(S) <=> IsFiniteSet(S)
         /\ Streams!Cardinality(S) = Cardinality(S)
<1>1. Catalogs!IsFiniteSet(S) <=> IsFiniteSet(S)
      BY DEF Catalogs!IsFiniteSet, IsFiniteSet
<1>2. Catalogs!Cardinality(S) = Cardinality(S)
      BY DEF Catalogs!Cardinality, Cardinality
<1>3. Streams!IsFiniteSet(S) <=> IsFiniteSet(S)
      BY DEF Streams!IsFiniteSet, IsFiniteSet
<1>4. Streams!Cardinality(S) = Cardinality(S)
      BY DEF Streams!Cardinality, Cardinality
<1> QED BY <1>1, <1>2, <1>3, <1>4

LEMMA CatFacts ==
    /\ Size \in Nat \ {0} /\ IsFiniteSet(Pages) /\ "static" \notin Pages
    /\ Bad \notin Files /\ NoLocale \notin Locales
BY ProcessAssumption, SameCounts DEF Catalogs!MessagesAssumption

LEMMA Interval == ASSUME NEW n \in Nat
                  PROVE  IsFiniteSet(0 .. n - 1) /\ Cardinality(0 .. n - 1) = n
<1>1. CASE n = 0
  <2>1. 0 .. n - 1 = {}
        BY <1>1
  <2> QED BY <1>1, <2>1, FS_EmptySet
<1>2. CASE n # 0
      BY <1>2, FS_Interval
<1> QED BY <1>1, <1>2

LEMMA CatInit == Catalogs!Init => CatInv
<1> SUFFICES ASSUME Catalogs!Init PROVE CatInv
    OBVIOUS
<1> USE CatFacts DEF Catalogs!Init
<1>1. DOMAIN catalogs = 0 .. Size - 1 /\ Catalogs!BufSize = Size
      BY Interval, SameCounts DEF Catalogs!Static, Catalogs!BufSize
<1>2. Cells = Catalogs!Page("static")
      BY DEF Cells
<1>3. InUse = {}
      BY DEF InUse
<1>4. Array
      BY <1>1, <1>2 DEF Array, Catalogs!Static, Catalogs!Page
<1>5. Entries
      BY <1>1, <1>2, <1>3 DEF Entries, CellValues, Catalogs!Unused, Catalogs!Static, Catalogs!Page
<1>6. Behind /\ Counts
      BY <1>3, FS_EmptySet DEF Behind, Counts
<1>7. Reading
      BY DEF Reading, Readers, Places, Catalogs!NoReader
<1> QED BY <1>4, <1>5, <1>6, <1>7 DEF CatInv

\* the invariant says what is promised
LEMMA CatRight == ~CloseInUse /\ CatInv => CatalogsRight
<1> SUFFICES ASSUME ~CloseInUse, CatInv PROVE CatalogsRight
    OBVIOUS
<1> USE CatFacts DEF CatInv
<1>1. Catalogs!HandlesRight
  <2> SUFFICES ASSUME NEW h \in Catalogs!Handles
               PROVE  Catalogs!Find(h) = IF h \in DOMAIN handed THEN handed[h] ELSE Catalogs!Unused
      BY DEF Catalogs!HandlesRight
  <2>1. h \in Nat
        BY DEF Catalogs!Handles
  <2> QED BY <2>1 DEF Catalogs!Find, Array, Entries, InUse
<1>2. Catalogs!PointersRight
      BY DEF Catalogs!PointersRight, Array, Entries, Cells
<1>3. Catalogs!CountsRight
  <2>1. InUse \subseteq Nat
        BY DEF Array, Entries
  <2>2. Catalogs!Max({0} \cup InUse) = largest
        BY <2>1, MaxIs DEF Counts
  <2> QED BY <2>2, SameCounts DEF Catalogs!CountsRight, Counts, InUse
<1>4. Catalogs!NoneForgotten
      BY DEF Catalogs!NoneForgotten, Behind, InUse
<1>5. Catalogs!ReadersSafe
  <2> SUFFICES ASSUME NEW t \in Threads, reader[t].step # "idle"
               PROVE  /\ reader[t].text \in libOpen
                      /\ reader[t].step = "text" => reader[t].cat < Catalogs!BufSize
                      /\ reader[t].step = "use" =>
                            /\ reader[t].loc \in DOMAIN entry
                            /\ entry[reader[t].loc] = handed[reader[t].cat]
      BY DEF Catalogs!ReadersSafe
  <2>1. PICK h \in InUse : h = reader[t].cat /\ reader[t].text = handed[h].catd
        BY DEF Reading
  <2>3. reader[t].step \in {"text", "use"}
        BY DEF Reading, Readers
  <2>2. h \in 0 .. Catalogs!BufSize - 1 /\ h < Catalogs!BufSize
        BY DEF Array, Entries
  <2> QED BY <2>1, <2>2 DEF Reading, Behind, Array, Entries
<1> QED BY <1>1, <1>2, <1>3, <1>4, <1>5 DEF CatalogsRight, Catalogs!CatalogsRight

LEMMA InUseFinite == CatInv => InUse \subseteq Nat /\ IsFiniteSet(InUse)
<1> SUFFICES ASSUME CatInv PROVE InUse \subseteq Nat /\ IsFiniteSet(InUse)
    OBVIOUS
<1>1. PICK n \in Nat : n = Catalogs!BufSize
      BY DEF CatInv, Array
<1>2. InUse \subseteq 0 .. n - 1
      BY <1>1 DEF CatInv, Array, Entries
<1>3. IsFiniteSet(InUse)
      BY <1>2, Interval, FS_Subset
<1> QED BY <1>2, <1>3

\* a new catalog is at a handle that was free, of an array that has kept what
\* it had
LEMMA Entered ==
  ASSUME CatInv, NEW f \in Files \ libOpen, NEW l \in Locales, NEW cat \in Nat, NEW ents,
         Catalogs!Enter(cat, f, l, ents), libOpen' = libOpen \cup {f}, UNCHANGED <<lost, reader>>,
         Array', cat \in DOMAIN catalogs', cat \notin InUse,
         ents \in [Cells' -> CellValues],
         \A h \in DOMAIN catalogs : h \in DOMAIN catalogs' /\ catalogs'[h] = catalogs[h],
         \A h \in DOMAIN catalogs' :
             ents[catalogs'[h]] = IF h \in InUse THEN handed[h] ELSE Catalogs!Unused
  PROVE  CatInv'
<1>1. PICK new : new = [catd |-> f, loc |-> l]
      OBVIOUS
<1>2. /\ InUse' = InUse \cup {cat} /\ handed'[cat] = new
      /\ \A h \in InUse : handed'[h] = handed[h]
      BY <1>1 DEF Catalogs!Enter, Catalogs!Extend, InUse
<1>3. new \in CellValues /\ new.catd = f
      BY <1>1 DEF CellValues
<1>4. PICK e : e = catalogs'[cat]
      OBVIOUS
<1>5. e \in Cells' /\ \A h \in DOMAIN catalogs' : catalogs'[h] \in Cells' /\ (catalogs'[h] = e <=> h = cat)
      BY <1>4 DEF Array
<1>6. entry' = [ents EXCEPT ![e] = new]
      BY <1>1, <1>4 DEF Catalogs!Enter
<1>7. Entries'
  <2>1. entry' \in [Cells' -> CellValues]
        BY <1>3, <1>5, <1>6
  <2>2. InUse' \subseteq DOMAIN catalogs'
        BY <1>2 DEF CatInv, Entries
  <2>3. ASSUME NEW h \in DOMAIN catalogs'
        PROVE  entry'[catalogs'[h]] = IF h \in InUse' THEN handed'[h] ELSE Catalogs!Unused
    <3>1. CASE h = cat
          BY <1>2, <1>4, <1>5, <1>6, <3>1
    <3>2. CASE h # cat
      <4>1. entry'[catalogs'[h]] = ents[catalogs'[h]]
            BY <1>5, <1>6, <3>2
      <4> QED BY <1>2, <3>2, <4>1
    <3> QED BY <3>1, <3>2
  <2>4. Catalogs!Unused' = Catalogs!Unused
        BY DEF Catalogs!Unused
  <2> QED BY <2>1, <2>2, <2>3, <2>4 DEF Entries
<1>8. Behind'
  <2>1. \A h \in InUse' : handed'[h].catd \in Files \ lost'
        BY <1>2, <1>3 DEF CatInv, Behind
  <2>2. \A g, h \in InUse' : handed'[g].catd = handed'[h].catd => g = h
        BY <1>2, <1>3 DEF CatInv, Behind
  <2>3. {handed'[h].catd : h \in InUse'} = {handed[h].catd : h \in InUse} \cup {f}
        BY <1>2, <1>3
  <2>4. libOpen' = {handed'[h].catd : h \in InUse'} \cup lost' /\ libOpen' \subseteq Files
        BY <2>3 DEF CatInv, Behind
  <2> QED BY <2>1, <2>2, <2>4 DEF Behind
<1>9. Counts'
  <2>1. largest \in Nat /\ InUse \subseteq Nat /\ IsFiniteSet(InUse)
        BY InUseFinite DEF CatInv, Counts
  <2>2. nCatalogs' = Cardinality(InUse')
        BY <1>2, <2>1, FS_AddElement DEF CatInv, Counts, Catalogs!Enter
  <2>3. largest' = IF cat <= largest THEN largest ELSE cat
        BY <2>1, MaxIs DEF Catalogs!Enter
  <2>4. largest' \in {0} \cup InUse' /\ \A h \in InUse' : h <= largest'
        BY <1>2, <2>1, <2>3 DEF CatInv, Counts
  <2> QED BY <2>2, <2>4 DEF Counts
<1>10. ~CloseInUse => Reading'
      BY <1>2 DEF CatInv, Reading, Entries
<1> QED BY <1>7, <1>8, <1>9, <1>10 DEF CatInv

\* a page that is not in the list yet, with all of its entries unused
LEMMA NewPage ==
  ASSUME CatInv, pages # Pages, NEW p, p = Catalogs!NewPage, pages' = pages \cup {p}
  PROVE  /\ p \in Pages \ pages
         /\ Cells' = Cells \cup Catalogs!Page(p) /\ Cells \cap Catalogs!Page(p) = {}
         /\ Catalogs!WithPage(p) \in [Cells' -> CellValues]
         /\ \A e \in Cells : Catalogs!WithPage(p)[e] = entry[e]
         /\ \A e \in Catalogs!Page(p) : Catalogs!WithPage(p)[e] = Catalogs!Unused
<1>1. p \in Pages \ pages
      BY DEF Catalogs!NewPage, CatInv, Array
<1>2. Cells' = Cells \cup Catalogs!Page(p)
  <2>1. Cells' = Catalogs!Page("static") \cup UNION {Catalogs!Page(q) : q \in pages'}
        BY DEF Cells, Catalogs!Page
  <2> QED BY <2>1 DEF Cells
<1>3. Cells \cap Catalogs!Page(p) = {}
      BY <1>1, CatFacts DEF Cells, Catalogs!Page
<1>4. DOMAIN entry = Cells /\ \A e \in Cells : entry[e] \in CellValues
      BY DEF CatInv, Entries
<1>5. Catalogs!Unused \in CellValues
      BY DEF Catalogs!Unused, CellValues
<1> QED BY <1>1, <1>2, <1>3, <1>4, <1>5 DEF Catalogs!WithPage

LEMMA AppendKept ==
  ASSUME CatInv, NEW f \in Files \ libOpen, NEW l \in Locales, Catalogs!Append(f, l),
         libOpen' = libOpen \cup {f}, UNCHANGED <<lost, reader>>
  PROVE  CatInv'
<1> USE CatFacts
<1>1. PICK p : p = Catalogs!NewPage
      OBVIOUS
<1>2. PICK n \in Nat : n = Catalogs!BufSize
      BY DEF CatInv, Array
<1>3. PICK ents : ents = Catalogs!WithPage(p)
      OBVIOUS
<1>4. /\ nCatalogs = n /\ pages # Pages /\ pages' = pages \cup {p}
      /\ catalogs' = Catalogs!Grown(p) /\ Catalogs!Enter(n, f, l, ents)
      BY <1>1, <1>2, <1>3 DEF Catalogs!Append
<1>5. /\ p \in Pages \ pages
      /\ Cells' = Cells \cup Catalogs!Page(p) /\ Cells \cap Catalogs!Page(p) = {}
      /\ ents \in [Cells' -> CellValues]
      /\ \A e \in Cells : ents[e] = entry[e]
      /\ \A e \in Catalogs!Page(p) : ents[e] = Catalogs!Unused
      BY <1>1, <1>3, <1>4, NewPage
<1>6. DOMAIN catalogs = 0 .. n - 1 /\ Size <= n
      BY <1>2 DEF CatInv, Array
<1>7. /\ DOMAIN catalogs' = 0 .. n + Size - 1
      /\ \A h \in DOMAIN catalogs : catalogs'[h] = catalogs[h]
      /\ \A h \in DOMAIN catalogs' \ DOMAIN catalogs : catalogs'[h] = <<p, h - n>>
  <2>1. catalogs' = [h \in 0 .. n + Size - 1 |-> IF h < n THEN catalogs[h] ELSE <<p, h - n>>]
        BY <1>2, <1>4 DEF Catalogs!Grown
  <2>2. DOMAIN catalogs' = 0 .. n + Size - 1
        BY <2>1
  <2>3. \A h \in DOMAIN catalogs : h \in 0 .. n + Size - 1 /\ h < n
        BY <1>6
  <2>4. \A h \in 0 .. n + Size - 1 : h \notin DOMAIN catalogs => ~(h < n)
        BY <1>6
  <2>5. ASSUME NEW h \in DOMAIN catalogs PROVE catalogs'[h] = catalogs[h]
        BY <2>1, <2>3
  <2>6. ASSUME NEW h \in DOMAIN catalogs' \ DOMAIN catalogs PROVE catalogs'[h] = <<p, h - n>>
        BY <2>1, <2>2, <2>4
  <2> QED BY <2>2, <2>5, <2>6
<1>8. \A h \in DOMAIN catalogs' \ DOMAIN catalogs : catalogs'[h] \in Catalogs!Page(p)
  <2> SUFFICES ASSUME NEW h \in DOMAIN catalogs' \ DOMAIN catalogs
               PROVE  catalogs'[h] \in Catalogs!Page(p)
      OBVIOUS
  <2>1. h - n \in 0 .. Size - 1
    <3>1. h \in 0 .. n + Size - 1 /\ ~(h \in 0 .. n - 1)
          BY <1>6, <1>7
    <3> QED BY <3>1
  <2>2. catalogs'[h] = <<p, h - n>>
        BY <1>7
  <2> QED BY <2>1, <2>2 DEF Catalogs!Page
<1>9. DOMAIN catalogs \subseteq DOMAIN catalogs' /\ n \in DOMAIN catalogs' /\ n \notin InUse
      BY <1>6, <1>7 DEF CatInv, Entries
<1>10. Array'
  <2>1. n + Size \in Nat /\ Catalogs!BufSize' = n + Size
        BY <1>7, Interval, SameCounts DEF Catalogs!BufSize
  <2>2. \A h \in DOMAIN catalogs' : catalogs'[h] \in Cells'
        BY <1>5, <1>7, <1>8 DEF CatInv, Array
  <2>3. ASSUME NEW g \in DOMAIN catalogs', NEW h \in DOMAIN catalogs', catalogs'[g] = catalogs'[h]
        PROVE  g = h
    <3>1. g \in DOMAIN catalogs <=> h \in DOMAIN catalogs
          BY <1>5, <1>7, <1>8, <2>3 DEF CatInv, Array
    <3>2. CASE g \in DOMAIN catalogs
          BY <1>7, <2>3, <3>1, <3>2 DEF CatInv, Array
    <3>3. CASE g \notin DOMAIN catalogs
          BY <1>6, <1>7, <2>3, <3>1, <3>3
    <3> QED BY <3>2, <3>3
  <2>4. \A h \in 0 .. Size - 1 : catalogs'[h] = <<"static", h>>
        BY <1>6, <1>7 DEF CatInv, Array
  <2>5. pages' \subseteq Pages
        BY <1>4, <1>5 DEF CatInv, Array
  <2> QED BY <1>6, <1>7, <2>1, <2>2, <2>3, <2>4, <2>5 DEF Array
<1>11. \A h \in DOMAIN catalogs' :
          ents[catalogs'[h]] = IF h \in InUse THEN handed[h] ELSE Catalogs!Unused
  <2> SUFFICES ASSUME NEW h \in DOMAIN catalogs'
               PROVE  ents[catalogs'[h]] = IF h \in InUse THEN handed[h] ELSE Catalogs!Unused
      OBVIOUS
  <2>1. CASE h \in DOMAIN catalogs
        BY <1>5, <1>7, <2>1 DEF CatInv, Array, Entries
  <2>2. CASE h \notin DOMAIN catalogs
        BY <1>5, <1>8, <2>2 DEF CatInv, Entries
  <2> QED BY <2>1, <2>2
<1> QED BY <1>4, <1>5, <1>7, <1>9, <1>10, <1>11, Entered

LEMMA FillKept ==
  ASSUME CatInv, NEW f \in Files \ libOpen, NEW l \in Locales, Catalogs!Fill(f, l),
         libOpen' = libOpen \cup {f}, UNCHANGED <<lost, reader>>
  PROVE  CatInv'
<1> USE CatFacts
<1>1. PICK n \in Nat : n = Catalogs!BufSize
      BY DEF CatInv, Array
<1>2. PICK S : S = {h \in DOMAIN catalogs : entry[catalogs[h]].catd = Bad}
      OBVIOUS
<1>3. DOMAIN catalogs = 0 .. n - 1
      BY <1>1 DEF CatInv, Array
<1>4. \A h \in DOMAIN catalogs : h \in S <=> h \notin InUse
      BY <1>2 DEF CatInv, Entries, Behind, Catalogs!Unused
<1>5. S # {}
  <2>1. IsFiniteSet(0 .. n - 1) /\ Cardinality(0 .. n - 1) = n
        BY Interval
  <2>2. Cardinality(InUse) # n
        BY <1>1, InUseFinite, FS_CardinalityType DEF CatInv, Counts, Catalogs!Fill
  <2>3. InUse # DOMAIN catalogs /\ InUse \subseteq DOMAIN catalogs
        BY <1>3, <2>1, <2>2 DEF CatInv, Entries
  <2> QED BY <1>4, <2>3
<1>6. PICK cat : cat = Catalogs!FirstFree
      OBVIOUS
<1>7. cat \in S /\ cat \in Nat
  <2>1. S \in SUBSET Nat /\ IsFiniteSet(S)
    <3>1. IsFiniteSet(0 .. n - 1) /\ S \subseteq 0 .. n - 1
          BY <1>2, <1>3, Interval
    <3>2. IsFiniteSet(S)
          BY <3>1, FS_Subset
    <3> QED BY <3>1, <3>2
  <2>2. cat = Catalogs!Min(S)
        BY <1>2, <1>6 DEF Catalogs!FirstFree
  <2> QED BY <1>5, <2>1, <2>2, MinOf
<1>8. PICK ents : ents = entry
      OBVIOUS
<1>9. UNCHANGED <<catalogs, pages>> /\ Catalogs!Enter(cat, f, l, ents)
      BY <1>6, <1>8 DEF Catalogs!Fill
<1>10. Array' /\ Cells' = Cells
      BY <1>9 DEF CatInv, Array, Cells, Catalogs!Page, Catalogs!BufSize
<1>11. cat \in DOMAIN catalogs' /\ cat \notin InUse
      BY <1>2, <1>4, <1>7, <1>9
<1> QED BY <1>7, <1>8, <1>9, <1>10, <1>11, Entered DEF CatInv, Entries

LEMMA OpenThrowsKept == ASSUME CatInv, NEW t \in Threads, Catalogs!OpenThrows(t) PROVE CatInv'
<1>1. PICK f \in Files \ libOpen : f = Catalogs!NewFile
      BY DEF Catalogs!OpenThrows, Catalogs!CanOpen, Catalogs!NewFile, CatInv, Behind
<1>2. /\ libOpen' = libOpen \cup {f} /\ lost' = lost \cup {f}
      /\ UNCHANGED <<handed, reader, catalogs, nCatalogs, largest>>
      BY <1>1 DEF Catalogs!OpenThrows, Catalogs!repository
<1>3. Behind' /\ Counts' /\ (~CloseInUse => Reading') /\ InUse' = InUse
      BY <1>2 DEF CatInv, Behind, Counts, Reading, InUse
<1>4. Catalogs!Unused' = Catalogs!Unused /\ Catalogs!BufSize' = Catalogs!BufSize
      BY <1>2 DEF Catalogs!Unused, Catalogs!BufSize
<1>5. CASE UNCHANGED <<pages, entry>>
  <2>1. Cells' = Cells
        BY <1>5 DEF Cells, Catalogs!Page
  <2>2. Array' /\ Entries'
        BY <1>2, <1>3, <1>4, <1>5, <2>1 DEF CatInv, Array, Entries
  <2> QED BY <1>3, <2>2 DEF CatInv
<1>6. CASE /\ pages # Pages /\ pages' = pages \cup {Catalogs!NewPage}
           /\ entry' = Catalogs!WithPage(Catalogs!NewPage)
  <2>1. PICK p : p = Catalogs!NewPage
        OBVIOUS
  <2>2. PICK ents : ents = Catalogs!WithPage(p)
        OBVIOUS
  <2>3. /\ p \in Pages /\ Cells \subseteq Cells'
        /\ ents \in [Cells' -> CellValues] /\ \A e \in Cells : ents[e] = entry[e]
        BY <1>6, <2>1, <2>2, NewPage
  <2>4. entry' = ents /\ pages' = pages \cup {p}
        BY <1>6, <2>1, <2>2
  <2>5. Array'
        BY <1>2, <1>4, <2>3, <2>4 DEF CatInv, Array
  <2>6. Entries'
        BY <1>2, <1>3, <1>4, <2>3, <2>4 DEF CatInv, Array, Entries
  <2> QED BY <1>3, <2>5, <2>6 DEF CatInv
<1> QED BY <1>5, <1>6 DEF Catalogs!OpenThrows, Catalogs!repository

\* the largest handle below one that is closed
LEMMA NextIs ==
  ASSUME CatInv, NEW cat \in InUse
  PROVE  /\ Catalogs!NextLargest(cat) \in {0} \cup (InUse \ {cat})
         /\ \A h \in InUse : h < cat => h <= Catalogs!NextLargest(cat)
<1> USE CatFacts
<1>1. PICK n \in Nat : n = Catalogs!BufSize /\ DOMAIN catalogs = 0 .. n - 1
      BY DEF CatInv, Array
<1>2. cat \in 0 .. n - 1 /\ cat \in Nat /\ InUse \subseteq Nat
      BY <1>1, InUseFinite DEF CatInv, Entries
<1>3. \A h \in DOMAIN catalogs : entry[catalogs[h]].catd # Bad <=> h \in InUse
      BY DEF CatInv, Entries, Behind, Catalogs!Unused
<1>4. PICK S : S = {0} \cup {h \in InUse : h < cat}
      OBVIOUS
<1>5. S = {0} \cup {h \in 0 .. cat - 1 : entry[catalogs[h]].catd # Bad}
  <2>1. \A h \in 0 .. cat - 1 : h \in DOMAIN catalogs /\ h < cat
        BY <1>1, <1>2
  <2>2. \A h \in InUse : h < cat => h \in 0 .. cat - 1
        BY <1>2
  <2> QED BY <1>3, <1>4, <2>1, <2>2
<1>6. S \in SUBSET Nat /\ S # {} /\ IsFiniteSet(S)
  <2>1. S \subseteq {0} \cup InUse /\ 0 \in S
        BY <1>4
  <2>2. IsFiniteSet({0} \cup InUse)
        BY InUseFinite, FS_Singleton, FS_Union
  <2>3. IsFiniteSet(S)
        BY <2>1, <2>2, FS_Subset
  <2>4. S \subseteq Nat
        BY <1>2, <2>1
  <2> QED BY <2>1, <2>3, <2>4
<1>7. Catalogs!NextLargest(cat) = Catalogs!Max(S)
      BY <1>5 DEF Catalogs!NextLargest
<1>8. Catalogs!Max(S) \in S /\ \A h \in S : h <= Catalogs!Max(S)
      BY <1>6, MaxOf
<1> QED BY <1>2, <1>4, <1>7, <1>8

\* a catalog is closed, and the array keeps the entries of those that are not
LEMMA CloseKept ==
  ASSUME CatInv, NEW t \in Threads, NEW cat \in Catalogs!Handles, Catalogs!Close(t, cat)
  PROVE  CatInv'
<1> USE CatFacts
<1>1. PICK n \in Nat : n = Catalogs!BufSize /\ DOMAIN catalogs = 0 .. n - 1 /\ Size <= n
      BY DEF CatInv, Array
<1>2. cat \in InUse /\ cat \in DOMAIN catalogs /\ Catalogs!Find(cat) = handed[cat]
  <2>1. cat \in Nat /\ Catalogs!Find(cat).catd # Bad
        BY DEF Catalogs!Handles, Catalogs!Close
  <2>2. cat < n
        BY <1>1, <2>1 DEF Catalogs!Find, Catalogs!Unused
  <2> QED BY <1>1, <2>1, <2>2 DEF Catalogs!Find, Catalogs!Unused, CatInv, Entries
<1>3. PICK left : left = InUse \ {cat}
      OBVIOUS
<1>4. /\ InUse' = left /\ \A h \in left : handed'[h] = handed[h]
      /\ libOpen' = libOpen \ {handed[cat].catd} /\ UNCHANGED <<lost, reader>>
      BY <1>2, <1>3 DEF Catalogs!Close, Catalogs!Without, InUse
<1>5. PICK m : m = Catalogs!NextLargest(cat)
      OBVIOUS
<1>6. m \in {0} \cup left /\ \A h \in left : h < cat => h <= m
      BY <1>2, <1>3, <1>5, NextIs
<1>7. InUse \subseteq Nat /\ IsFiniteSet(InUse) /\ cat \in Nat /\ left \subseteq Nat
      BY <1>2, <1>3, InUseFinite
<1>8. Behind'
      BY <1>2, <1>3, <1>4 DEF CatInv, Behind
<1>9. Counts'
  <2>1. nCatalogs' = Cardinality(InUse')
        BY <1>2, <1>3, <1>4, <1>7, FS_RemoveElement DEF CatInv, Counts, Catalogs!Close
  <2>2. largest' = IF cat = largest THEN m ELSE largest
        BY <1>5 DEF Catalogs!Close
  <2>3. CASE cat = largest
    <3>1. \A h \in left : h < cat
          BY <1>3, <1>7, <2>3 DEF CatInv, Counts
    <3> QED BY <1>4, <1>6, <2>1, <2>2, <2>3, <3>1 DEF Counts
  <2>4. CASE cat # largest
        BY <1>3, <1>4, <2>1, <2>2, <2>4 DEF CatInv, Counts
  <2> QED BY <2>3, <2>4
<1>10. PICK c : c = catalogs[cat]
      OBVIOUS
<1>11. PICK closed : closed = [entry EXCEPT ![c] = Catalogs!Unused]
      OBVIOUS
<1>12. /\ c \in Cells /\ \A h \in DOMAIN catalogs : catalogs[h] \in Cells /\ (catalogs[h] = c <=> h = cat)
      BY <1>2, <1>10 DEF CatInv, Array
<1>13. /\ closed \in [Cells -> CellValues]
       /\ \A h \in DOMAIN catalogs :
             closed[catalogs[h]] = IF h \in left THEN handed[h] ELSE Catalogs!Unused
  <2>1. Catalogs!Unused \in CellValues
        BY DEF Catalogs!Unused, CellValues
  <2>2. closed \in [Cells -> CellValues]
        BY <1>11, <1>12, <2>1 DEF CatInv, Entries
  <2>3. ASSUME NEW h \in DOMAIN catalogs
        PROVE  closed[catalogs[h]] = IF h \in left THEN handed[h] ELSE Catalogs!Unused
    <3>1. CASE h = cat
          BY <1>3, <1>11, <1>12, <3>1 DEF CatInv, Entries
    <3>2. CASE h # cat
          BY <1>3, <1>11, <1>12, <3>2 DEF CatInv, Entries
    <3> QED BY <3>1, <3>2
  <2> QED BY <2>2, <2>3
<1>14. /\ left \subseteq DOMAIN catalogs' /\ \A h \in DOMAIN catalogs' : h \in DOMAIN catalogs /\ catalogs'[h] = catalogs[h]
       /\ Array'
       /\ entry' \in [Cells' -> CellValues] /\ \A e \in Cells' : entry'[e] = closed[e]
  <2>1. CASE Catalogs!Shrinks(cat)
    <3>1. /\ catalogs' = [h \in 0 .. Size - 1 |-> catalogs[h]] /\ pages' = {}
          /\ entry' = Catalogs!Without(closed, {e \in DOMAIN entry : e[1] \in pages})
          BY <1>10, <1>11, <2>1 DEF Catalogs!Close
    <3>2. Cells' = Catalogs!Page("static")
          BY <3>1 DEF Cells, Catalogs!Page
    <3>3. /\ DOMAIN catalogs' = 0 .. Size - 1 /\ DOMAIN catalogs' \subseteq DOMAIN catalogs
          /\ \A h \in DOMAIN catalogs' : catalogs'[h] = catalogs[h]
          BY <1>1, <3>1
    <3>4. \A h \in left : h \in 0 .. Size - 1
      <4>1. cat = largest /\ m < Size \div 2
            BY <1>5, <2>1 DEF Catalogs!Shrinks
      <4>2. Size \div 2 <= Size /\ Size \div 2 \in Nat
            OBVIOUS
      <4>3. ASSUME NEW h \in left PROVE h \in 0 .. Size - 1
        <5>1. h < cat
              BY <1>3, <1>7, <4>1 DEF CatInv, Counts
        <5>2. h <= m /\ h \in Nat /\ m \in Nat
              BY <1>6, <1>7, <5>1
        <5>3. h < Size
              BY <4>1, <4>2, <5>2
        <5> QED BY <5>2, <5>3
      <4> QED BY <4>3
    <3>5. Array'
      <4>1. Catalogs!BufSize' = Size
            BY <3>3, Interval, SameCounts DEF Catalogs!BufSize
      <4>2. \A h \in 0 .. Size - 1 : catalogs'[h] = <<"static", h>>
            BY <3>3 DEF CatInv, Array
      <4>3. \A h \in 0 .. Size - 1 : catalogs'[h] \in Cells'
        <5>1. \A h \in 0 .. Size - 1 : <<"static", h>> \in Catalogs!Page("static")
              BY DEF Catalogs!Page
        <5> QED BY <3>2, <4>2, <5>1
      <4>4. \A g, h \in DOMAIN catalogs' : catalogs'[g] = catalogs'[h] => g = h
            BY <3>3 DEF CatInv, Array
      <4> QED BY <3>1, <3>3, <4>1, <4>2, <4>3, <4>4 DEF Array
    <3>6. DOMAIN entry' = Cells' /\ \A e \in Cells' : entry'[e] = closed[e]
      <4>1. DOMAIN entry = Cells /\ DOMAIN closed = Cells
            BY <1>13 DEF CatInv, Entries
      <4>2. \A e \in Cells : e \in Cells' <=> e[1] \notin pages
        <5>1. \A e \in Catalogs!Page("static") : e[1] = "static"
              BY DEF Catalogs!Page
        <5>2. \A p \in pages : \A e \in Catalogs!Page(p) : e[1] = p
              BY DEF Catalogs!Page
        <5>3. "static" \notin pages
              BY DEF CatInv, Array
        <5> QED BY <3>2, <5>1, <5>2, <5>3 DEF Cells
      <4>3. Cells' \subseteq Cells
            BY <3>2 DEF Cells
      <4> QED BY <3>1, <4>1, <4>2, <4>3 DEF Catalogs!Without
    <3>7. entry' \in [Cells' -> CellValues]
      <4>1. Cells' \subseteq Cells
            BY <3>2 DEF Cells
      <4>2. entry' = [e \in Cells' |-> closed[e]]
            BY <3>1, <3>6 DEF Catalogs!Without
      <4> QED BY <1>13, <4>1, <4>2
    <3> QED BY <3>3, <3>4, <3>5, <3>6, <3>7
  <2>2. CASE ~Catalogs!Shrinks(cat)
    <3>1. entry' = closed /\ UNCHANGED <<catalogs, pages>>
          BY <1>10, <1>11, <2>2 DEF Catalogs!Close
    <3>2. Cells' = Cells /\ Catalogs!BufSize' = Catalogs!BufSize
          BY <3>1 DEF Cells, Catalogs!Page, Catalogs!BufSize
    <3>3. Array'
          BY <3>1, <3>2 DEF CatInv, Array
    <3> QED BY <1>3, <1>13, <3>1, <3>2, <3>3 DEF CatInv, Entries
  <2> QED BY <2>1, <2>2
<1>15. Entries'
  <2>1. \A h \in DOMAIN catalogs' : catalogs'[h] \in Cells'
        BY <1>14 DEF Array
  <2>2. Catalogs!Unused' = Catalogs!Unused
        BY DEF Catalogs!Unused
  <2> QED BY <1>4, <1>13, <1>14, <2>1, <2>2 DEF Entries
<1>16. ASSUME ~CloseInUse PROVE Reading'
  <2>1. \A u \in Threads : reader[u].step = "idle" \/ reader[u].cat # cat
        BY <1>16 DEF Catalogs!Close
  <2> QED BY <1>3, <1>4, <1>14, <1>16, <2>1 DEF CatInv, Reading
<1> QED BY <1>8, <1>9, <1>14, <1>15, <1>16 DEF CatInv

\* a step of get() changes nothing but what its thread has read
LEMMA ReaderKept ==
  ASSUME CatInv, NEW t \in Threads, NEW r,
         reader' = [reader EXCEPT ![t] = r],
         UNCHANGED <<catalogs, pages, entry, nCatalogs, largest, libOpen, handed, lost>>,
         ~CloseInUse => /\ r \in Readers
                        /\ r.step # "idle" => r.cat \in InUse /\ r.text = handed[r.cat].catd
                        /\ r.step = "use" => r.loc = catalogs[r.cat]
  PROVE  CatInv'
<1>1. /\ InUse' = InUse /\ Catalogs!BufSize' = Catalogs!BufSize /\ Catalogs!Unused' = Catalogs!Unused
      /\ Cells' = Cells
      BY DEF InUse, Catalogs!BufSize, Catalogs!Unused, Cells, Catalogs!Page
<1>2. Array' /\ Entries' /\ Behind' /\ Counts'
      BY <1>1 DEF CatInv, Array, Entries, Behind, Counts
<1>3. ASSUME ~CloseInUse PROVE Reading'
  <2>1. Readers' = Readers
        BY DEF Readers, Places, Catalogs!NoEntry
  <2>2. reader' \in [Threads -> Readers] /\ \A u \in Threads : reader'[u] = IF u = t THEN r ELSE reader[u]
        BY <1>3 DEF CatInv, Reading
  <2> QED BY <1>1, <1>3, <2>1, <2>2 DEF CatInv, Reading
<1> QED BY <1>2, <1>3 DEF CatInv

LEMMA GetTextKept ==
  ASSUME CatInv, NEW t \in Threads, NEW cat \in Catalogs!Handles, Catalogs!GetText(t, cat)
  PROVE  CatInv'
<1>1. PICK r : r = [cat |-> cat, text |-> Catalogs!Find(cat).catd, loc |-> Catalogs!NoEntry, step |-> "text"]
      OBVIOUS
<1>2. cat \in Nat /\ Catalogs!Find(cat).catd # Bad
      BY CatFacts DEF Catalogs!Handles, Catalogs!GetText
<1>3. cat \in InUse /\ Catalogs!Find(cat) = handed[cat]
  <2>1. cat \in DOMAIN catalogs
        BY <1>2 DEF Catalogs!Find, Catalogs!Unused, CatInv, Array
  <2> QED BY <1>2, <2>1 DEF Catalogs!Find, Catalogs!Unused, CatInv, Array, Entries
<1>4. handed[cat].catd \in Files
      BY <1>3 DEF CatInv, Behind
<1>5. r \in Readers
      BY <1>1, <1>2, <1>3, <1>4 DEF Readers, Places
<1> QED BY <1>1, <1>3, <1>5, ReaderKept DEF Catalogs!GetText, Catalogs!repository

LEMMA GetLocaleKept ==
  ASSUME CatInv, NEW t \in Threads, Catalogs!GetLocale(t)
  PROVE  CatInv'
<1>1. PICK r : r = [reader[t] EXCEPT !.loc = catalogs[reader[t].cat], !.step = "use"]
      OBVIOUS
<1>2. ASSUME ~CloseInUse
      PROVE  /\ r \in Readers /\ r.cat \in InUse /\ r.text = handed[r.cat].catd
             /\ r.loc = catalogs[r.cat]
  <2>1. PICK v \in Readers : v = reader[t]
        BY <1>2 DEF CatInv, Reading
  <2>2. v.step = "text" /\ v.cat \in InUse /\ v.text = handed[v.cat].catd
        BY <1>2, <2>1 DEF CatInv, Reading, Catalogs!GetLocale
  <2>3. catalogs[v.cat] \in Places
        BY <2>2, CatFacts DEF CatInv, Array, Entries, Cells, Catalogs!Page, Places
  <2>4. /\ r.cat = v.cat /\ r.text = v.text /\ r.loc = catalogs[v.cat] /\ r \in Readers
        BY <1>1, <2>1, <2>3 DEF Readers
  <2> QED BY <2>2, <2>4
<1>3. reader' = [reader EXCEPT ![t] = r]
      BY <1>1 DEF Catalogs!GetLocale
<1> QED BY <1>2, <1>3, ReaderKept DEF Catalogs!GetLocale, Catalogs!repository

LEMMA UseKept ==
  ASSUME CatInv, NEW t \in Threads, Catalogs!Use(t)
  PROVE  CatInv'
<1>1. PICK r : r = Catalogs!NoReader
      OBVIOUS
<1>2. r \in Readers /\ r.step = "idle"
      BY <1>1 DEF Catalogs!NoReader, Readers, Places
<1> QED BY <1>1, <1>2, ReaderKept DEF Catalogs!Use, Catalogs!repository

LEMMA CatKept == CatInv /\ [Catalogs!Next]_Catalogs!vars => CatInv'
<1> SUFFICES ASSUME CatInv, [Catalogs!Next]_Catalogs!vars PROVE CatInv'
    OBVIOUS
<1>1. ASSUME NEW t \in Threads, NEW l \in Locales, Catalogs!Open(t, l) PROVE CatInv'
  <2>1. PICK f \in Files \ libOpen : f = Catalogs!NewFile
        BY <1>1 DEF Catalogs!Open, Catalogs!CanOpen, Catalogs!NewFile, CatInv, Behind
  <2>2. libOpen' = libOpen \cup {f} /\ UNCHANGED <<lost, reader>>
        BY <1>1, <2>1 DEF Catalogs!Open
  <2>3. Catalogs!Append(f, l) \/ Catalogs!Fill(f, l)
        BY <1>1, <2>1 DEF Catalogs!Open
  <2> QED BY <2>2, <2>3, AppendKept, FillKept
<1>2. ASSUME UNCHANGED Catalogs!vars PROVE CatInv'
  <2>1. UNCHANGED <<catalogs, pages, entry, nCatalogs, largest, libOpen, handed, lost, reader>>
        BY <1>2 DEF Catalogs!vars, Catalogs!repository
  <2>2. /\ InUse' = InUse /\ Catalogs!BufSize' = Catalogs!BufSize /\ Catalogs!Unused' = Catalogs!Unused
        /\ Cells' = Cells
        BY <2>1 DEF InUse, Catalogs!BufSize, Catalogs!Unused, Cells, Catalogs!Page
  <2> QED BY <2>1, <2>2 DEF CatInv, Array, Entries, Behind, Counts, Reading
<1>3. CASE Catalogs!Next
      BY <1>1, <1>2, <1>3, OpenThrowsKept, CloseKept, GetTextKept, GetLocaleKept, UseKept
      DEF Catalogs!Next, Catalogs!CloseThrows
<1> QED BY <1>2, <1>3

-----------------------------------------------------------------------------
(* The standard streams.  There is one flag, so that a call of __rw_once() is  *)
(* where its thread is in it, Pc(t).                                          *)
Ios == ios_once
Pc(t) == opc[t][Ios]
Outs == {1, 2}

OnceType ==
    /\ state \in [{Ios} -> {"ready", "running", "done"}]
    /\ mutex \in Threads \cup {NoThread}
    /\ opc \in [Threads -> [{Ios} -> Streams!PCs \ {"cancelled"}]]
    /\ onext \in [Threads -> [{Ios} -> {"ready", "done"}]]
    /\ view \in [Threads -> SUBSET {Ios}] /\ got \in [Threads -> SUBSET {Ios}]
    /\ flagView \in [{Ios} -> SUBSET {Ios}] /\ mutexView \in SUBSET {Ios}
    /\ othrows \in Nat

StreamType ==
    /\ initcnt \in Nat /\ ended \in BOOLEAN
    /\ inits \in [Threads -> Streams!Phases]
    /\ todo \in [Threads -> SUBSET Outs]
    /\ buffered \in [Outs -> BOOLEAN] /\ inBuffer \in [Outs -> Nat]
    /\ written \in [Outs -> Nat] /\ inFile \in [Outs -> Nat]

\* a flag that is done carries what the function wrote, and so does the mutex,
\* or the view of the thread that holds it
Carried ==
    /\ \A t \in Threads : Pc(t) \in {"holding", "store"} => mutex = t
    /\ state[Ios] = "done" =>
          /\ Ios \in flagView[Ios]
          /\ IF mutex = NoThread THEN Ios \in mutexView ELSE Ios \in view[mutex]

\* a thread that has returned sees the streams, or the function has thrown
Sees(t) ==
    /\ Pc(t) \in {"leave", "store", "broadcast"} =>
          IF onext[t][Ios] = "done" THEN Ios \in view[t] ELSE othrows > 0
    /\ Ios \in got[t] => Ios \in view[t]
    /\ inits[t] = "calling" /\ Pc(t) = "idle" /\ Ios \notin got[t] => othrows > 0
    /\ inits[t] = "lives" => Ios \in got[t]

\* the objects that are counted
Active == {t \in Threads : inits[t] \in {"counted", "calling", "lives"}}
Flushing(t) == inits[t] \in {"flush", "unbuffer"}

\* the count is of them, and of those that were not constructed
Counting ==
    /\ Cardinality(Active) <= initcnt
    /\ othrows = 0 => initcnt = Cardinality(Active)
    /\ ended => Active = {}

\* one thread makes the streams unbuffered, after the last object: each of
\* them is still to come, could not be flushed, or is dealt with
Ending ==
    /\ \A t \in Threads : Flushing(t) => ended /\ \A u \in Threads : Flushing(u) => t = u
    /\ \A t \in Threads : inits[t] = "unbuffer" =>
          \A s \in Outs : Streams!Turn(t, s) => inBuffer[s] = 0
    /\ ended => \A s \in Outs :
          \/ \E t \in Threads : Flushing(t) /\ s \in todo[t]
          \/ s \in failed \/ (~buffered[s] /\ inBuffer[s] = 0)

Arrives == \A s \in Outs : s \notin failed => written[s] = inFile[s] + inBuffer[s]

StreamInv ==
    /\ OnceType /\ StreamType
    /\ Carried /\ (\A t \in Threads : Sees(t))
    /\ Counting /\ Ending /\ Arrives

LEMMA StreamFacts ==
    /\ NoThread \notin Threads /\ NoFlag # Ios /\ MaxThrows \in Nat /\ MaxWrites \in Nat
    /\ IsFiniteSet(Threads)
BY ProcessAssumption, SetLocaleAssumption, SameCounts
   DEF Streams!OnceAssumption, Streams!StdStreamsAssumption, Ios

LEMMA StreamsInitRight == Streams!StreamsInit => StreamInv
<1> SUFFICES ASSUME Streams!StreamsInit PROVE StreamInv
    OBVIOUS
<1> USE StreamFacts DEF Streams!StreamsInit, Streams!Init
<1>1. OnceType
      BY DEF OnceType, Streams!PCs, Ios
<1>2. StreamType
      BY DEF StreamType, Streams!Phases, Outs
<1>3. Carried /\ \A t \in Threads : Sees(t)
      BY DEF Carried, Sees, Pc, Ios
<1>4. Counting
  <2>1. Active = {}
        BY DEF Active
  <2> QED BY <2>1, FS_EmptySet DEF Counting
<1>5. Ending /\ Arrives
      BY DEF Ending, Arrives, Flushing, Outs
<1> QED BY <1>1, <1>2, <1>3, <1>4, <1>5 DEF StreamInv

LEMMA StreamsAreRight == StreamInv => StreamsRight
<1> SUFFICES ASSUME StreamInv PROVE StreamsRight
    OBVIOUS
<1>1. Streams!Ready
      BY DEF StreamInv, Sees, Streams!Ready, Ios
<1>2. Streams!CountRight
      BY SameCounts DEF StreamInv, Counting, Active, Streams!CountRight
<1>3. Streams!NothingLost
      BY DEF StreamInv, Arrives, Streams!NothingLost, Outs
<1>4. Streams!AllFlushed
      BY DEF StreamInv, Ending, Flushing, Streams!AllFlushed, Outs
<1> QED BY <1>1, <1>2, <1>3, <1>4 DEF StreamsRight, Streams!StreamsRight

\* where the call of a thread goes, and where it ends: no function calls
\* through the flag from another function
LEMMA GotoIs ==
  ASSUME OnceType, NEW t \in Threads, NEW l \in Streams!PCs \ {"cancelled"}, Streams!Goto(t, Ios, l)
  PROVE  /\ opc' \in [Threads -> [{Ios} -> Streams!PCs \ {"cancelled"}]]
         /\ \A u \in Threads : Pc(u)' = IF u = t THEN l ELSE Pc(u)
BY DEF OnceType, Streams!Goto, Pc

LEMMA FinishIs ==
  ASSUME OnceType, NEW t \in Threads, NEW ok \in BOOLEAN,
         NEW q \in [Threads -> [{Ios} -> Streams!PCs \ {"cancelled"}]], Streams!Finish(t, Ios, ok, q)
  PROVE  /\ opc' \in [Threads -> [{Ios} -> Streams!PCs \ {"cancelled"}]]
         /\ \A u \in Threads : Pc(u)' = IF u = t THEN "idle" ELSE q[u][Ios]
         /\ onext' = onext
         /\ got' = [got EXCEPT ![t] = IF ok THEN {Ios} ELSE got[t]]
<1>1. Streams!CallersOf(t, Ios) = {}
      BY StreamFacts DEF Streams!CallersOf, Ios
<1>2. opc' = [q EXCEPT ![t] = [g \in {Ios} |-> "idle"]]
      BY <1>1 DEF Streams!Finish, Ios
<1>3. onext' = [onext EXCEPT ![t] = [g \in {Ios} |-> onext[t][g]]]
      BY <1>1 DEF Streams!Finish, Ios
<1>4. onext' = onext
      BY <1>3 DEF OnceType
<1>5. got' = [got EXCEPT ![t] = IF ok THEN {Ios} ELSE got[t]]
  <2>1. got' = [got EXCEPT ![t] = IF ok THEN @ \cup {Ios} ELSE @]
        BY DEF Streams!Finish
  <2>2. got[t] \cup {Ios} = {Ios}
        BY DEF OnceType
  <2> QED BY <2>1, <2>2
<1>6. "idle" \in Streams!PCs \ {"cancelled"}
      BY DEF Streams!PCs
<1> QED BY <1>2, <1>4, <1>5, <1>6 DEF Pc

LEMMA Returned ==
  ASSUME OnceType, NEW t \in Threads, Streams!Finish(t, Ios, TRUE, opc)
  PROVE  /\ opc' \in [Threads -> [{Ios} -> Streams!PCs \ {"cancelled"}]]
         /\ \A u \in Threads : Pc(u)' = IF u = t THEN "idle" ELSE Pc(u)
         /\ onext' = onext /\ got' = [got EXCEPT ![t] = {Ios}]
<1>1. PICK ok \in BOOLEAN : ok = TRUE
      OBVIOUS
<1>2. PICK q \in [Threads -> [{Ios} -> Streams!PCs \ {"cancelled"}]] : q = opc
      BY DEF OnceType
<1>3. Streams!Finish(t, Ios, ok, q)
      BY <1>1, <1>2
<1>4. /\ opc' \in [Threads -> [{Ios} -> Streams!PCs \ {"cancelled"}]]
      /\ \A u \in Threads : Pc(u)' = IF u = t THEN "idle" ELSE q[u][Ios]
      /\ onext' = onext /\ got' = [got EXCEPT ![t] = IF ok THEN {Ios} ELSE got[t]]
      BY <1>3, FinishIs
<1> QED BY <1>1, <1>2, <1>4 DEF Pc

OnceInv == OnceType /\ Carried /\ \A t \in Threads : Sees(t)

\* a step that only takes a thread from one place to another
LEMMA Moved ==
  ASSUME OnceInv, NEW t \in Threads, NEW l \in Streams!PCs \ {"cancelled"}, Streams!Goto(t, Ios, l),
         l \notin {"holding", "leave", "store", "broadcast", "idle"},
         UNCHANGED <<state, mutex, onext, view, flagView, mutexView, got, othrows, inits>>
  PROVE  OnceInv'
<1>1. OnceType' /\ \A u \in Threads : Pc(u)' = IF u = t THEN l ELSE Pc(u)
      BY GotoIs DEF OnceInv, OnceType
<1>2. Carried'
      BY <1>1 DEF OnceInv, Carried
<1>3. \A u \in Threads : Sees(u)'
      BY <1>1 DEF OnceInv, Sees
<1> QED BY <1>1, <1>2, <1>3 DEF OnceInv

LEMMA OnceKept ==
  ASSUME OnceInv, NEW t \in Threads, inits[t] = "calling", UNCHANGED inits,
         Streams!Step(t, Ios) \/ Streams!SpuriousWakeup(t, Ios) \/ Streams!RunThrow(t, Ios)
  PROVE  OnceInv' /\ othrows <= othrows'
<1> USE StreamFacts DEF OnceInv
<1>1. Streams!PCs \ {"cancelled"} = {"idle", "test", "enter", "holding", "waiting", "woken",
          "run", "nested", "body", "leave", "store", "broadcast"}
      BY DEF Streams!PCs
<1>2. \A l : Streams!At(t, Ios, l) <=> Pc(t) = l
      BY DEF Streams!At, Pc
<1>3. othrows \in Nat
      BY DEF OnceType
<1>4. ASSUME Streams!TestDone(t, Ios) PROVE OnceInv' /\ othrows <= othrows'
  <2> USE <1>4 DEF Streams!TestDone
  <2>1. Streams!Finish(t, Ios, TRUE, opc)
        OBVIOUS
  <2>2. /\ opc' \in [Threads -> [{Ios} -> Streams!PCs \ {"cancelled"}]]
        /\ \A u \in Threads : Pc(u)' = IF u = t THEN "idle" ELSE Pc(u)
        /\ onext' = onext /\ got' = [got EXCEPT ![t] = {Ios}]
        BY <2>1, Returned
  <2>3. UNCHANGED <<state, mutex, flagView, mutexView, othrows, inits>> /\ state[Ios] = "done"
        OBVIOUS
  <2>4. view' = [view EXCEPT ![t] = view[t] \cup flagView[Ios]] /\ Ios \in flagView[Ios]
        BY <2>3 DEF Carried
  <2> HIDE <1>4 DEF Streams!TestDone
  <2>5. OnceType'
        BY <2>2, <2>3, <2>4 DEF OnceType
  <2>6. Carried'
        BY <2>2, <2>3, <2>4 DEF OnceType, Carried
  <2>7. \A u \in Threads : Sees(u)'
        BY <2>2, <2>3, <2>4 DEF OnceType, Sees
  <2> QED BY <2>3, <2>5, <2>6, <2>7, <1>3
<1>5. ASSUME \/ Streams!TestNotDone(t, Ios) \/ Streams!SpuriousWakeup(t, Ios)
      PROVE  OnceInv' /\ othrows <= othrows'
  <2>1. PICK l \in {"enter", "woken"} :
           /\ Streams!Goto(t, Ios, l)
           /\ UNCHANGED <<state, mutex, onext, view, flagView, mutexView, got, othrows, inits>>
        BY <1>5 DEF Streams!TestNotDone, Streams!SpuriousWakeup
  <2> QED BY <2>1, <1>1, <1>3, Moved
<1>6. ASSUME Streams!RunCall(t, Ios) PROVE OnceInv' /\ othrows <= othrows'
  <2>1. opc' = [opc EXCEPT ![t] = [g \in {Ios} |-> "body"]]
        BY <1>6 DEF Streams!RunCall, Ios
  <2>2. Streams!Goto(t, Ios, "body")
        BY <2>1 DEF Streams!Goto, OnceType
  <2>3. UNCHANGED <<state, mutex, onext, view, flagView, mutexView, got, othrows, inits>>
        BY <1>6 DEF Streams!RunCall
  <2> QED BY <2>2, <2>3, <1>1, <1>3, Moved
<1>7. ASSUME Streams!EnterLock(t, Ios) \/ Streams!LeaveLock(t, Ios)
      PROVE  OnceInv' /\ othrows <= othrows'
  <2>1. PICK l \in {"holding", "store"} :
           /\ Streams!Lock(t) /\ Streams!Goto(t, Ios, l) /\ (l = "store" => Pc(t) = "leave")
           /\ UNCHANGED <<state, onext, flagView, mutexView, got, othrows, inits>>
        BY <1>7, <1>2 DEF Streams!EnterLock, Streams!LeaveLock
  <2>2. /\ opc' \in [Threads -> [{Ios} -> Streams!PCs \ {"cancelled"}]]
        /\ \A u \in Threads : Pc(u)' = IF u = t THEN l ELSE Pc(u)
        BY <2>1, <1>1, GotoIs
  <2>3. mutex = NoThread /\ mutex' = t /\ view' = [view EXCEPT ![t] = view[t] \cup mutexView]
        BY <2>1 DEF Streams!Lock
  <2>4. OnceType'
        BY <2>1, <2>2, <2>3 DEF OnceType
  <2>5. Carried'
        BY <2>1, <2>2, <2>3 DEF OnceType, Carried
  <2>6. \A u \in Threads : Sees(u)'
        BY <2>1, <2>2, <2>3 DEF OnceType, Sees
  <2> QED BY <2>1, <2>4, <2>5, <2>6, <1>3
<1>8. ASSUME Streams!EnterReady(t, Ios) \/ Streams!LeaveStore(t, Ios)
      PROVE  OnceInv' /\ othrows <= othrows'
  <2>1. PICK l \in {"run", "broadcast"}, v \in {"running", "ready", "done"} :
           /\ Streams!StoreFlag(t, Ios, v) /\ Streams!Unlock(t) /\ Streams!Goto(t, Ios, l)
           /\ Pc(t) \in {"holding", "store"}
           /\ l = "broadcast" => Pc(t) = "store" /\ v = onext[t][Ios]
           /\ l = "run" => v = "running"
           /\ UNCHANGED <<onext, view, got, othrows, inits>>
    <3>1. CASE Streams!EnterReady(t, Ios)
          BY <3>1, <1>2 DEF Streams!EnterReady
    <3>2. CASE Streams!LeaveStore(t, Ios)
      <4>1. onext[t][Ios] \in {"ready", "done"}
            BY DEF OnceType
      <4> QED BY <3>2, <4>1, <1>2 DEF Streams!LeaveStore
    <3> QED BY <1>8, <3>1, <3>2
  <2>2. /\ opc' \in [Threads -> [{Ios} -> Streams!PCs \ {"cancelled"}]]
        /\ \A u \in Threads : Pc(u)' = IF u = t THEN l ELSE Pc(u)
        BY <2>1, <1>1, GotoIs
  <2>3. /\ mutex = t /\ mutex' = NoThread /\ mutexView' = view[t]
        /\ state' = [state EXCEPT ![Ios] = v] /\ flagView' = [flagView EXCEPT ![Ios] = view[t]]
        BY <2>1 DEF Streams!Unlock, Streams!StoreFlag, Carried
  <2>4. OnceType'
        BY <2>1, <2>2, <2>3 DEF OnceType
  <2>5. v = "done" => Ios \in view[t]
        BY <2>1 DEF Sees
  <2>6. Carried'
        BY <2>1, <2>2, <2>3, <2>5 DEF OnceType, Carried
  <2>7. \A u \in Threads : Sees(u)'
        BY <2>1, <2>2, <2>3 DEF OnceType, Sees
  <2> QED BY <2>1, <2>4, <2>6, <2>7, <1>3
<1>9. ASSUME Streams!EnterDone(t, Ios) PROVE OnceInv' /\ othrows <= othrows'
  <2>1. Streams!Finish(t, Ios, TRUE, opc)
        BY <1>9 DEF Streams!EnterDone
  <2>2. /\ opc' \in [Threads -> [{Ios} -> Streams!PCs \ {"cancelled"}]]
        /\ \A u \in Threads : Pc(u)' = IF u = t THEN "idle" ELSE Pc(u)
        /\ onext' = onext /\ got' = [got EXCEPT ![t] = {Ios}]
        BY <2>1, Returned
  <2>3. /\ mutex = t /\ mutex' = NoThread /\ mutexView' = view[t] /\ Ios \in view[t]
        /\ UNCHANGED <<state, view, flagView, othrows, inits>>
        BY <1>9, <1>2 DEF Streams!EnterDone, Streams!Unlock, Carried
  <2>4. OnceType'
        BY <2>2, <2>3 DEF OnceType
  <2>5. Carried'
        BY <2>2, <2>3 DEF OnceType, Carried
  <2>6. \A u \in Threads : Sees(u)'
        BY <2>2, <2>3 DEF OnceType, Sees
  <2> QED BY <2>3, <2>4, <2>5, <2>6, <1>3
<1>10. ASSUME Streams!EnterWait(t, Ios) PROVE OnceInv' /\ othrows <= othrows'
  <2>1. /\ opc' \in [Threads -> [{Ios} -> Streams!PCs \ {"cancelled"}]]
        /\ \A u \in Threads : Pc(u)' = IF u = t THEN "waiting" ELSE Pc(u)
        BY <1>10, <1>1, GotoIs DEF Streams!EnterWait
  <2>2. /\ mutex = t /\ mutex' = NoThread /\ mutexView' = view[t] /\ state[Ios] = "running"
        /\ UNCHANGED <<state, onext, view, flagView, got, othrows, inits>>
        BY <1>10, <1>2 DEF Streams!EnterWait, Streams!Unlock, Carried
  <2>3. OnceType'
        BY <2>1, <2>2 DEF OnceType
  <2>4. Carried'
        BY <2>1, <2>2 DEF OnceType, Carried
  <2>5. \A u \in Threads : Sees(u)'
        BY <2>1, <2>2 DEF OnceType, Sees
  <2> QED BY <2>2, <2>3, <2>4, <2>5, <1>3
<1>11. ASSUME Streams!RunReturn(t, Ios) \/ Streams!RunThrow(t, Ios)
      PROVE  OnceInv' /\ othrows <= othrows'
  <2>1. PICK v \in {"ready", "done"} :
           /\ onext' = [onext EXCEPT ![t][Ios] = v] /\ Streams!Goto(t, Ios, "leave")
           /\ v = "done" => view' = [view EXCEPT ![t] = view[t] \cup {Ios}] /\ othrows' = othrows
           /\ v = "ready" => view' = view /\ othrows' = othrows + 1
           /\ UNCHANGED <<state, mutex, flagView, mutexView, got, inits>>
        BY <1>11 DEF Streams!RunReturn, Streams!RunThrow, Streams!Throw, Ios
  <2>2. /\ opc' \in [Threads -> [{Ios} -> Streams!PCs \ {"cancelled"}]]
        /\ \A u \in Threads : Pc(u)' = IF u = t THEN "leave" ELSE Pc(u)
        BY <2>1, <1>1, GotoIs
  <2>3. /\ othrows <= othrows' /\ othrows' \in Nat /\ (v = "ready" => othrows' > 0)
        /\ \A u \in Threads : view'[u] = view[u] \/ (u = t /\ view'[u] = view[u] \cup {Ios})
        /\ v = "done" => Ios \in view'[t]
        /\ view' \in [Threads -> SUBSET {Ios}]
    <3>1. CASE v = "done"
          BY <2>1, <3>1, <1>3 DEF OnceType
    <3>2. CASE v = "ready"
          BY <2>1, <3>2, <1>3 DEF OnceType
    <3> QED BY <3>1, <3>2
  <2>4. OnceType'
        BY <2>1, <2>2, <2>3 DEF OnceType
  <2>5. Carried'
        BY <2>1, <2>2, <2>3 DEF OnceType, Carried
  <2>6. ASSUME NEW u \in Threads PROVE Sees(u)'
    <3>1. CASE u = t
          BY <2>1, <2>2, <2>3, <3>1 DEF OnceType, Sees
    <3>2. CASE u # t
          BY <2>1, <2>2, <2>3, <3>2, <1>3 DEF OnceType, Sees
    <3> QED BY <3>1, <3>2
  <2> QED BY <2>3, <2>4, <2>5, <2>6
<1>12. ASSUME Streams!LeaveBroadcast(t, Ios) PROVE OnceInv' /\ othrows <= othrows'
  <2>1. PICK ok \in BOOLEAN : ok = (onext[t][Ios] = "done")
        OBVIOUS
  <2>2. PICK q : q = Streams!Woken
        OBVIOUS
  <2>3. /\ q \in [Threads -> [{Ios} -> Streams!PCs \ {"cancelled"}]]
        /\ \A u \in Threads : q[u][Ios] = IF Pc(u) = "waiting" THEN "woken" ELSE Pc(u)
        BY <2>2, <1>1 DEF Streams!Woken, Streams!At, OnceType, Pc, Ios
  <2>4. Streams!Finish(t, Ios, ok, q) /\ UNCHANGED <<state, mutex, view, flagView, mutexView, othrows, inits>>
        BY <1>12, <2>1, <2>2 DEF Streams!LeaveBroadcast
  <2>5. /\ opc' \in [Threads -> [{Ios} -> Streams!PCs \ {"cancelled"}]]
        /\ \A u \in Threads : Pc(u)' = IF u = t THEN "idle" ELSE q[u][Ios]
        /\ onext' = onext /\ got' = [got EXCEPT ![t] = IF ok THEN {Ios} ELSE got[t]]
        BY <2>3, <2>4, FinishIs
  <2>6. IF ok THEN Ios \in view[t] ELSE othrows > 0
        BY <1>12, <1>2, <2>1 DEF Sees, Streams!LeaveBroadcast
  <2>7. OnceType'
        BY <2>4, <2>5 DEF OnceType
  <2>8. Carried'
        BY <2>3, <2>4, <2>5 DEF OnceType, Carried
  <2>9. ASSUME NEW u \in Threads PROVE Sees(u)'
    <3>1. CASE u = t
          BY <2>3, <2>4, <2>5, <2>6, <3>1 DEF OnceType, Sees
    <3>2. CASE u # t
          BY <2>3, <2>4, <2>5, <3>2 DEF OnceType, Sees
    <3> QED BY <3>1, <3>2
  <2> QED BY <2>4, <2>7, <2>8, <2>9, <1>3
<1>13. ~Streams!CancelUnwind(t, Ios)
  <2>1. Pc(t) \in Streams!PCs \ {"cancelled"}
        BY DEF OnceType, Pc
  <2> QED BY <1>2, <2>1 DEF Streams!CancelUnwind
<1> QED BY <1>4, <1>5, <1>6, <1>7, <1>8, <1>9, <1>10, <1>11, <1>12, <1>13 DEF Streams!Step

\* a step that is not one of the call's: what a thread's object is decides
LEMMA Phased ==
  ASSUME OnceInv, StreamType, NEW t \in Threads, NEW q \in Streams!Phases,
         inits' = [inits EXCEPT ![t] = q], UNCHANGED Streams!vars,
         q = "calling" => inits[t] = q,
         q = "lives" => Ios \in got[t]
  PROVE  OnceInv'
<1>1. UNCHANGED <<state, mutex, opc, onext, view, flagView, mutexView, got, othrows>>
      BY DEF Streams!vars
<1>2. OnceType' /\ Carried' /\ \A u \in Threads : Pc(u)' = Pc(u)
      BY <1>1 DEF OnceInv, OnceType, Carried, Pc
<1>3. \A u \in Threads : inits'[u] = IF u = t THEN q ELSE inits[u]
      BY DEF StreamType
<1>4. \A u \in Threads : Sees(u)'
      BY <1>1, <1>2, <1>3 DEF OnceInv, Sees
<1> QED BY <1>2, <1>4 DEF OnceInv

LEMMA ActiveFinite == IsFiniteSet(Active) /\ Cardinality(Active) \in Nat
<1>1. IsFiniteSet(Active)
      BY StreamFacts, FS_Subset DEF Active
<1> QED BY <1>1, FS_CardinalityType

LEMMA CountKept ==
  ASSUME StreamInv, ~LateInit, NEW t \in Threads, Streams!Count(t)
  PROVE  StreamInv'
<1> USE DEF StreamInv
<1>1. /\ inits[t] = "none" /\ inits' = [inits EXCEPT ![t] = "counted"]
      /\ initcnt' = initcnt + 1 /\ ~ended /\ UNCHANGED Streams!vars
      /\ UNCHANGED <<todo, ended, buffered, inBuffer, written, inFile, failed, othrows>>
      BY DEF Streams!Count, Streams!Phase, Streams!streams, Streams!vars
<1>2. OnceInv'
      BY <1>1, Phased DEF OnceInv, Streams!Phases
<1>3. StreamType'
      BY <1>1 DEF StreamType, Streams!Phases
<1>4. \A u \in Threads : inits'[u] = IF u = t THEN "counted" ELSE inits[u]
      BY <1>1 DEF StreamType
<1>5. Counting'
  <2>1. Active' = Active \cup {t} /\ t \notin Active
        BY <1>1, <1>4 DEF Active
  <2>2. Cardinality(Active') = Cardinality(Active) + 1 /\ Cardinality(Active) \in Nat
        BY <2>1, ActiveFinite, FS_AddElement
  <2> QED BY <1>1, <2>2 DEF Counting, StreamType
<1>6. Ending'
      BY <1>1, <1>4 DEF Ending, Flushing
<1>7. Arrives'
      BY <1>1 DEF Arrives
<1> QED BY <1>2, <1>3, <1>5, <1>6, <1>7 DEF OnceInv

\* a step in which the same objects stay counted, and none is being flushed
LEMMA SameObjects ==
  ASSUME StreamInv, NEW t \in Threads, NEW q \in {"calling", "lives"}, OnceInv',
         inits[t] \in {"counted", "calling", "lives"}, inits' = [inits EXCEPT ![t] = q],
         othrows <= othrows',
         UNCHANGED <<initcnt, todo, ended, buffered, inBuffer, written, inFile, failed>>
  PROVE  StreamInv'
<1> USE DEF StreamInv
<1>1. StreamType'
      BY DEF StreamType, Streams!Phases
<1>2. \A u \in Threads : inits'[u] = IF u = t THEN q ELSE inits[u]
      BY DEF StreamType
<1>3. Active' = Active
      BY <1>2 DEF Active
<1>4. Counting'
      BY <1>3 DEF Counting, OnceType, OnceInv
<1>5. ~ended
      BY DEF Counting, Active
<1>6. Ending'
      BY <1>2, <1>5 DEF Ending, Flushing
<1>7. Arrives'
      BY DEF Arrives
<1> QED BY <1>1, <1>4, <1>6, <1>7 DEF OnceInv

LEMMA CallOnceKept ==
  ASSUME StreamInv, NEW t \in Threads, Streams!CallOnce(t)
  PROVE  StreamInv'
<1> USE DEF StreamInv
<1>1. /\ inits[t] = "counted" /\ inits' = [inits EXCEPT ![t] = "calling"]
      /\ Streams!Goto(t, Ios, "test")
      /\ UNCHANGED <<state, mutex, onext, view, flagView, mutexView, got, othrows>>
      /\ UNCHANGED <<initcnt, todo, ended, buffered, inBuffer, written, inFile, failed>>
      BY DEF Streams!CallOnce, Streams!Call, Streams!Phase, Streams!streams, Ios
<1>2. /\ opc' \in [Threads -> [{Ios} -> Streams!PCs \ {"cancelled"}]]
      /\ \A u \in Threads : Pc(u)' = IF u = t THEN "test" ELSE Pc(u)
      BY <1>1, GotoIs DEF Streams!PCs
<1>3. \A u \in Threads : inits'[u] = IF u = t THEN "calling" ELSE inits[u]
      BY <1>1 DEF StreamType
<1>4. OnceType' /\ Carried'
      BY <1>1, <1>2 DEF OnceType, Carried
<1>5. \A u \in Threads : Sees(u)'
      BY <1>1, <1>2, <1>3 DEF Sees
<1>6. OnceInv' /\ othrows <= othrows'
  <2>1. othrows \in Nat /\ othrows' = othrows
        BY <1>1 DEF OnceType
  <2> QED BY <1>4, <1>5, <2>1 DEF OnceInv
<1> QED BY <1>1, <1>6, SameObjects

LEMMA OnceStepKept ==
  ASSUME StreamInv, NEW t \in Threads, Streams!OnceStep(t)
  PROVE  StreamInv'
<1> USE DEF StreamInv
<1>1. /\ inits[t] = "calling" /\ inits' = inits
      /\ UNCHANGED <<initcnt, todo, ended, buffered, inBuffer, written, inFile, failed>>
      /\ Streams!Step(t, Ios) \/ Streams!SpuriousWakeup(t, Ios) \/ Streams!RunThrow(t, Ios)
      BY DEF Streams!OnceStep, Streams!counts, Streams!streams, Ios
<1>2. OnceInv' /\ othrows <= othrows'
      BY <1>1, OnceKept DEF OnceInv
<1>3. inits' = [inits EXCEPT ![t] = "calling"]
      BY <1>1 DEF StreamType
<1> QED BY <1>1, <1>2, <1>3, SameObjects

LEMMA ConstructedKept ==
  ASSUME StreamInv, NEW t \in Threads, Streams!Constructed(t)
  PROVE  StreamInv'
<1> USE DEF StreamInv
<1>1. PICK q \in {"lives", "none"} :
         /\ inits[t] = "calling" /\ Pc(t) = "idle" /\ inits' = [inits EXCEPT ![t] = q]
         /\ UNCHANGED Streams!vars /\ othrows' = othrows
         /\ UNCHANGED <<initcnt, todo, ended, buffered, inBuffer, written, inFile, failed>>
         /\ q = "lives" <=> Ios \in got[t]
      BY DEF Streams!Constructed, Streams!Phase, Streams!streams, Streams!vars, Streams!At, Pc, Ios
<1>2. OnceInv' /\ othrows <= othrows'
  <2>1. othrows \in Nat
        BY DEF OnceType
  <2>2. OnceInv'
        BY <1>1, Phased DEF OnceInv, Streams!Phases
  <2> QED BY <1>1, <2>1, <2>2
<1>3. CASE q = "lives"
      BY <1>1, <1>2, <1>3, SameObjects
<1>4. CASE q = "none"
  <2>1. othrows > 0
        BY <1>1, <1>4 DEF Sees
  <2>2. StreamType'
        BY <1>1 DEF StreamType, Streams!Phases
  <2>3. \A u \in Threads : inits'[u] = IF u = t THEN "none" ELSE inits[u]
        BY <1>1, <1>4 DEF StreamType
  <2>4. Active' = Active \ {t} /\ t \in Active
        BY <1>1, <2>3 DEF Active
  <2>5. Cardinality(Active') = Cardinality(Active) - 1 /\ Cardinality(Active) \in Nat
        BY <2>4, ActiveFinite, FS_RemoveElement
  <2>6. Counting' /\ ~ended
        BY <1>1, <2>1, <2>4, <2>5 DEF Counting, StreamType, OnceType
  <2>7. Ending' /\ Arrives'
        BY <1>1, <2>3, <2>6 DEF Ending, Flushing, Arrives
  <2> QED BY <1>2, <2>2, <2>6, <2>7 DEF OnceInv
<1> QED BY <1>3, <1>4

LEMMA WriteKept ==
  ASSUME StreamInv, NEW t \in Threads, NEW s \in Outs, Streams!Write(t, s)
  PROVE  StreamInv'
<1> USE DEF StreamInv
<1>1. /\ UNCHANGED Streams!vars /\ UNCHANGED <<initcnt, inits, todo, ended, buffered, failed, othrows>>
      /\ written' = [written EXCEPT ![s] = written[s] + 1]
      /\ buffered[s] => inBuffer' = [inBuffer EXCEPT ![s] = inBuffer[s] + 1] /\ inFile' = inFile
      /\ ~buffered[s] => inFile' = [inFile EXCEPT ![s] = inFile[s] + 1] /\ inBuffer' = inBuffer
      BY DEF Streams!Write, Streams!counts, Streams!vars
<1>2. OnceInv'
  <2>1. UNCHANGED <<state, mutex, opc, onext, view, flagView, mutexView, got, othrows, inits>>
        BY <1>1 DEF Streams!vars
  <2> QED BY <2>1 DEF OnceInv, OnceType, Carried, Sees, Pc
<1>3. StreamType'
      BY <1>1 DEF StreamType
<1>4. Counting'
      BY <1>1 DEF Counting, Active
<1>5. \A u \in Threads : Flushing(u)' = Flushing(u)
      BY <1>1 DEF Flushing
\* a program that writes has an object, or the last one has been destroyed
<1>6. \A u \in Threads : ~Flushing(u)
      BY DEF Streams!Write, Streams!MayWrite, Ending, Counting, Active, Flushing
<1>7. ASSUME ended, NEW x \in Outs PROVE x \in failed \/ (~buffered[x] /\ inBuffer'[x] = 0)
  <2>1. x \in failed \/ (~buffered[x] /\ inBuffer[x] = 0)
        BY <1>6, <1>7 DEF Ending
  <2> QED BY <1>1, <2>1 DEF StreamType
<1>8. Ending'
      BY <1>1, <1>5, <1>6, <1>7 DEF Ending, Flushing
<1>9. ASSUME NEW x \in Outs, x \notin failed PROVE written'[x] = inFile'[x] + inBuffer'[x]
  <2>1. written[x] = inFile[x] + inBuffer[x]
        BY <1>9 DEF Arrives
  <2>2. written[x] \in Nat /\ inFile[x] \in Nat /\ inBuffer[x] \in Nat
        BY DEF StreamType
  <2>3. CASE x = s /\ buffered[s]
        BY <1>1, <2>1, <2>2, <2>3 DEF StreamType
  <2>4. CASE x = s /\ ~buffered[s]
        BY <1>1, <2>1, <2>2, <2>4 DEF StreamType
  <2>5. CASE x # s
        BY <1>1, <2>1, <2>5 DEF StreamType
  <2> QED BY <2>3, <2>4, <2>5
<1>10. Arrives'
       BY <1>1, <1>9 DEF Arrives
<1> QED BY <1>2, <1>3, <1>4, <1>8, <1>10 DEF OnceInv

LEMMA DestroyKept ==
  ASSUME StreamInv, NEW t \in Threads, Streams!Destroy(t)
  PROVE  StreamInv'
<1> USE DEF StreamInv
<1>1. PICK q \in {"flush", "none"} :
         /\ inits[t] = "lives" /\ inits' = [inits EXCEPT ![t] = q]
         /\ initcnt' = initcnt - 1 /\ (q = "flush" <=> initcnt' = 0)
         /\ q = "flush" => todo' = [todo EXCEPT ![t] = Outs]
         /\ q = "none" => todo' = todo
         /\ ended' = (ended \/ initcnt' = 0)
         /\ UNCHANGED Streams!vars
         /\ UNCHANGED <<buffered, inBuffer, written, inFile, failed, othrows>>
  <2>1. CASE initcnt' = 0
        BY <2>1 DEF Streams!Destroy, Streams!Last, Streams!Phase, Streams!streams, Streams!vars, Outs
  <2>2. CASE initcnt' # 0
        BY <2>2 DEF Streams!Destroy, Streams!Last, Streams!Phase, Streams!streams, Streams!vars
  <2> QED BY <2>1, <2>2
<1>2. OnceInv'
      BY <1>1, Phased DEF OnceInv, Streams!Phases
<1>3. \A u \in Threads : inits'[u] = IF u = t THEN q ELSE inits[u]
      BY <1>1 DEF StreamType
<1>4. Active' = Active \ {t} /\ t \in Active
      BY <1>1, <1>3 DEF Active
<1>5. /\ Cardinality(Active') = Cardinality(Active) - 1
      /\ Cardinality(Active) \in Nat /\ Cardinality(Active') \in Nat
  <2>1. IsFiniteSet(Active')
        BY <1>4, ActiveFinite, FS_RemoveElement
  <2>2. Cardinality(Active') = Cardinality(Active) - 1
        BY <1>4, ActiveFinite, FS_RemoveElement
  <2> QED BY <2>1, <2>2, ActiveFinite, FS_CardinalityType
<1>6. ~ended /\ initcnt \in Nat /\ initcnt' \in Nat /\ Cardinality(Active') <= initcnt'
      BY <1>1, <1>4, <1>5 DEF Counting, StreamType
<1>7. StreamType'
  <2>1. todo' \in [Threads -> SUBSET Outs]
        BY <1>1 DEF StreamType
  <2>2. inits' \in [Threads -> Streams!Phases]
        BY <1>1 DEF StreamType, Streams!Phases
  <2>3. ended' \in BOOLEAN
        BY <1>1
  <2> QED BY <1>1, <1>6, <2>1, <2>2, <2>3 DEF StreamType
<1>8. Counting'
  <2>1. ended' => Active' = {}
    <3>1. ended' => Cardinality(Active') = 0
      <4>1. ended' => initcnt' = 0
            BY <1>1, <1>6
      <4>2. PICK n \in Nat : n = Cardinality(Active')
            BY <1>5
      <4> QED BY <1>6, <4>1, <4>2
    <3>2. IsFiniteSet(Active')
          BY <1>4, ActiveFinite, FS_RemoveElement
    <3> QED BY <3>1, <3>2, FS_EmptySet
  <2>2. othrows' = 0 => initcnt' = Cardinality(Active')
        BY <1>1, <1>5 DEF Counting
  <2> QED BY <1>6, <2>1, <2>2 DEF Counting
<1>9. Ending'
  <2>1. \A u \in Threads : ~Flushing(u)
        BY <1>6 DEF Ending
  <2>2. \A u \in Threads : Flushing(u)' <=> u = t /\ q = "flush"
        BY <1>3, <2>1 DEF Flushing
  <2>3. \A u \in Threads : inits'[u] # "unbuffer"
        BY <1>3, <2>1 DEF Flushing
  <2>4. ended' <=> q = "flush"
        BY <1>1, <1>6
  <2>5. q = "flush" => todo'[t] = Outs
        BY <1>1 DEF StreamType
  <2> QED BY <2>2, <2>3, <2>4, <2>5 DEF Ending
<1>10. Arrives'
       BY <1>1 DEF Arrives
<1> QED BY <1>2, <1>7, <1>8, <1>9, <1>10 DEF OnceInv

\* the thread that makes the streams unbuffered is the only one, and no
\* object is left that the count would be of
LEMMA OneFlusher ==
  ASSUME StreamInv, NEW t \in Threads, Flushing(t)
  PROVE  ended /\ (\A u \in Threads : Flushing(u) => u = t) /\ t \notin Active
BY DEF StreamInv, Ending, Active, Flushing

\* what its steps leave alone
LEMMA FlusherKept ==
  ASSUME StreamInv, NEW t \in Threads, NEW q \in {"none", "flush", "unbuffer"},
         Flushing(t), inits' = [inits EXCEPT ![t] = q],
         UNCHANGED Streams!vars, UNCHANGED <<initcnt, ended, othrows>>
  PROVE  /\ OnceInv' /\ Counting'
         /\ \A u \in Threads : inits'[u] = IF u = t THEN q ELSE inits[u]
         /\ \A u \in Threads : Flushing(u)' <=> u = t /\ q # "none"
         /\ \A u \in Threads : inits'[u] = "unbuffer" <=> u = t /\ q = "unbuffer"
<1> USE DEF StreamInv
<1>1. OnceInv'
      BY Phased DEF OnceInv, Streams!Phases
<1>2. \A u \in Threads : inits'[u] = IF u = t THEN q ELSE inits[u]
      BY DEF StreamType
<1>3. Active' = Active
      BY <1>2 DEF Active, Flushing
<1>4. Counting'
      BY <1>3 DEF Counting
<1>5. \A u \in Threads : Flushing(u)' <=> u = t /\ q # "none"
      BY <1>2, OneFlusher DEF Flushing
<1>6. \A u \in Threads : inits'[u] = "unbuffer" <=> u = t /\ q = "unbuffer"
      BY <1>2, OneFlusher DEF Flushing
<1> QED BY <1>1, <1>2, <1>4, <1>5, <1>6

LEMMA SyncKept ==
  ASSUME StreamInv, NEW t \in Threads, NEW s \in Outs, Streams!Sync(t, s)
  PROVE  StreamInv'
<1> USE DEF StreamInv
<1>1. /\ inits[t] = "flush" /\ inits' = [inits EXCEPT ![t] = "unbuffer"] /\ Streams!Turn(t, s)
      /\ inFile' = [inFile EXCEPT ![s] = inFile[s] + inBuffer[s]]
      /\ inBuffer' = [inBuffer EXCEPT ![s] = 0]
      /\ UNCHANGED Streams!vars /\ UNCHANGED <<initcnt, todo, ended, buffered, written, failed, othrows>>
      BY DEF Streams!Sync, Streams!Phase, Streams!vars
<1>2. Flushing(t)
      BY <1>1 DEF Flushing
<1>3. /\ OnceInv' /\ Counting'
      /\ \A u \in Threads : Flushing(u)' <=> u = t
      /\ \A u \in Threads : inits'[u] = "unbuffer" <=> u = t
      BY <1>1, <1>2, FlusherKept
<1>4. StreamType'
      BY <1>1 DEF StreamType, Streams!Phases
<1>5. Ending'
  <2>1. \A x \in Outs : Streams!Turn(t, x)' => x = s
        BY <1>1 DEF Streams!Turn
  <2>2. inBuffer'[s] = 0 /\ \A x \in Outs : inBuffer[x] = 0 => inBuffer'[x] = 0
        BY <1>1 DEF StreamType
  <2>3. ended'
        BY <1>1, <1>2, OneFlusher
  <2>4. \A x \in Outs : x \in todo'[t] \/ x \in failed' \/ (~buffered'[x] /\ inBuffer'[x] = 0)
    <3>1. \A x \in Outs : x \in todo[t] \/ x \in failed \/ (~buffered[x] /\ inBuffer[x] = 0)
          BY <1>2, OneFlusher DEF Ending
    <3> QED BY <1>1, <2>2, <3>1
  <2> QED BY <1>3, <2>1, <2>2, <2>3, <2>4 DEF Ending
<1>6. Arrives'
      BY <1>1 DEF Arrives, StreamType
<1> QED BY <1>3, <1>4, <1>5, <1>6 DEF OnceInv

LEMMA SyncFailsKept ==
  ASSUME StreamInv, NEW t \in Threads, NEW s \in Outs, Streams!SyncFails(t, s)
  PROVE  StreamInv'
<1> USE DEF StreamInv
<1>1. /\ inits[t] = "flush" /\ inits' = [inits EXCEPT ![t] = "flush"]
      /\ failed' = failed \cup {s} /\ todo' = [todo EXCEPT ![t] = todo[t] \ {s}]
      /\ UNCHANGED Streams!vars
      /\ UNCHANGED <<initcnt, ended, buffered, inBuffer, written, inFile, othrows>>
      BY DEF Streams!SyncFails, Streams!vars, StreamType
<1>2. Flushing(t)
      BY <1>1 DEF Flushing
<1>3. /\ OnceInv' /\ Counting'
      /\ \A u \in Threads : Flushing(u)' <=> u = t
      /\ \A u \in Threads : inits'[u] # "unbuffer"
      BY <1>1, <1>2, FlusherKept
<1>4. StreamType'
      BY <1>1 DEF StreamType, Streams!Phases
<1>5. Ending'
  <2>1. ended'
        BY <1>1, <1>2, OneFlusher
  <2>2. \A x \in Outs : x \in todo'[t] \/ x \in failed' \/ (~buffered'[x] /\ inBuffer'[x] = 0)
    <3>1. \A x \in Outs : x \in todo[t] \/ x \in failed \/ (~buffered[x] /\ inBuffer[x] = 0)
          BY <1>2, OneFlusher DEF Ending
    <3> QED BY <1>1, <3>1 DEF StreamType
  <2> QED BY <1>3, <2>1, <2>2 DEF Ending
<1>6. Arrives'
      BY <1>1 DEF Arrives
<1> QED BY <1>3, <1>4, <1>5, <1>6 DEF OnceInv

LEMMA UnbufferKept ==
  ASSUME StreamInv, NEW t \in Threads, NEW s \in Outs, Streams!Unbuffer(t, s)
  PROVE  StreamInv'
<1> USE DEF StreamInv
<1>1. /\ inits[t] = "unbuffer" /\ inits' = [inits EXCEPT ![t] = "flush"] /\ Streams!Turn(t, s)
      /\ buffered' = [buffered EXCEPT ![s] = FALSE] /\ inBuffer' = [inBuffer EXCEPT ![s] = 0]
      /\ todo' = [todo EXCEPT ![t] = todo[t] \ {s}]
      /\ UNCHANGED Streams!vars
      /\ UNCHANGED <<initcnt, ended, written, inFile, failed, othrows>>
      BY DEF Streams!Unbuffer, Streams!Phase, Streams!vars
<1>2. Flushing(t)
      BY <1>1 DEF Flushing
<1>3. /\ OnceInv' /\ Counting'
      /\ \A u \in Threads : Flushing(u)' <=> u = t
      /\ \A u \in Threads : inits'[u] # "unbuffer"
      BY <1>1, <1>2, FlusherKept
<1>4. inBuffer[s] = 0
      BY <1>1 DEF Ending
<1>5. inBuffer' = inBuffer
      BY <1>1, <1>4 DEF StreamType
<1>6. StreamType'
      BY <1>1, <1>5 DEF StreamType, Streams!Phases
<1>7. Ending'
  <2>1. ended'
        BY <1>1, <1>2, OneFlusher
  <2>2. \A x \in Outs : x \in todo'[t] \/ x \in failed' \/ (~buffered'[x] /\ inBuffer'[x] = 0)
    <3>1. \A x \in Outs : x \in todo[t] \/ x \in failed \/ (~buffered[x] /\ inBuffer[x] = 0)
          BY <1>2, OneFlusher DEF Ending
    <3> QED BY <1>1, <1>4, <1>5, <3>1 DEF StreamType
  <2> QED BY <1>3, <2>1, <2>2 DEF Ending
<1>8. Arrives'
      BY <1>1, <1>5 DEF Arrives
<1> QED BY <1>3, <1>6, <1>7, <1>8 DEF OnceInv

LEMMA DestroyedKept ==
  ASSUME StreamInv, NEW t \in Threads, Streams!Destroyed(t)
  PROVE  StreamInv'
<1> USE DEF StreamInv
<1>1. /\ inits[t] = "flush" /\ inits' = [inits EXCEPT ![t] = "none"] /\ todo[t] = {}
      /\ UNCHANGED Streams!vars
      /\ UNCHANGED <<initcnt, todo, ended, buffered, inBuffer, written, inFile, failed, othrows>>
      BY DEF Streams!Destroyed, Streams!Phase, Streams!streams, Streams!vars
<1>2. Flushing(t)
      BY <1>1 DEF Flushing
<1>3. /\ OnceInv' /\ Counting'
      /\ \A u \in Threads : ~Flushing(u)'
      /\ \A u \in Threads : inits'[u] # "unbuffer"
      BY <1>1, <1>2, FlusherKept
<1>4. StreamType'
      BY <1>1 DEF StreamType, Streams!Phases
<1>5. Ending'
  <2>1. \A x \in Outs : x \in failed \/ (~buffered[x] /\ inBuffer[x] = 0)
        BY <1>1, <1>2, OneFlusher DEF Ending
  <2> QED BY <1>1, <1>3, <2>1 DEF Ending
<1>6. Arrives'
      BY <1>1 DEF Arrives
<1> QED BY <1>3, <1>4, <1>5, <1>6 DEF OnceInv

LEMMA StreamsKept ==
  ASSUME ~LateInit, StreamInv, [Streams!StreamsNext]_Streams!allVars
  PROVE  StreamInv'
<1>1. CASE UNCHANGED Streams!allVars
  <2>1. /\ UNCHANGED <<state, mutex, opc, onext, view, flagView, mutexView, got, othrows>>
        /\ UNCHANGED <<initcnt, inits, todo, ended, buffered, inBuffer, written, inFile, failed>>
        BY <1>1 DEF Streams!allVars, Streams!vars, Streams!counts, Streams!streams
  <2>2. OnceType' /\ StreamType' /\ Arrives'
        BY <2>1 DEF StreamInv, OnceType, StreamType, Arrives
  <2>3. Carried' /\ \A t \in Threads : Sees(t)'
        BY <2>1 DEF StreamInv, Carried, Sees, Pc
  <2>4. Counting'
        BY <2>1 DEF StreamInv, Counting, Active
  <2>5. \A t \in Threads, s \in Outs : Streams!Turn(t, s)' <=> Streams!Turn(t, s)
        BY <2>1 DEF Streams!Turn
  <2>6. \A t \in Threads : Flushing(t)' <=> Flushing(t)
        BY <2>1 DEF Flushing
  <2>7. Ending'
        BY <2>1, <2>5, <2>6 DEF StreamInv, Ending
  <2> QED BY <2>2, <2>3, <2>4, <2>7 DEF StreamInv
<1>2. CASE Streams!StreamsNext
      BY <1>2, CountKept, CallOnceKept, OnceStepKept, ConstructedKept, WriteKept, DestroyKept,
         SyncKept, SyncFailsKept, UnbufferKept, DestroyedKept
      DEF Streams!StreamsNext, Outs
<1> QED BY <1>1, <1>2
-----------------------------------------------------------------------------
(* However many threads race for the first use of however many types, every   *)
(* use of a type is under one id, no other type's and none of the library's   *)
(* (facet.cpp:387).                                                          *)
THEOREM IdsRightAlways == MCSpec => []IdsRight
<1>1. MCInit => IdInv
      BY IdInit DEF MCInit
<1>2. IdInv /\ [MCNext]_allVars => IdInv'
  <2> SUFFICES ASSUME IdInv, [MCNext]_allVars PROVE IdInv'
      OBVIOUS
  <2>1. [Ids!Next]_Ids!vars
        BY DEF MCNext, LocaleStep, CatalogStep, StreamStep, IdStep, OfLocale, allVars, iVars, Ids!vars
  <2> QED BY <2>1, IdKept
<1>3. IdInv => IdsRight
      BY DEF IdInv, IdType, Distinct, Stored, IdsRight, Ids!IdsRight
<1> QED BY <1>1, <1>2, <1>3, PTL DEF MCSpec

(* As long as no catalog is closed while another thread reads it, a handle    *)
(* leads to the catalog it was given out for and to no other, through any     *)
(* growing and shrinking, none is forgotten, and what a get() uses without    *)
(* the guard is still there (messages.cpp:85, 307).                           *)
THEOREM CatalogsRightAlways == ASSUME ~CloseInUse PROVE MCSpec => []CatalogsRight
<1>1. MCInit => CatInv
      BY CatInit DEF MCInit
<1>2. CatInv /\ [MCNext]_allVars => CatInv'
  <2> SUFFICES ASSUME CatInv, [MCNext]_allVars PROVE CatInv'
      OBVIOUS
  <2>1. [Catalogs!Next]_Catalogs!vars
        BY DEF MCNext, LocaleStep, CatalogStep, StreamStep, IdStep, OfLocale, allVars, cVars,
               Catalogs!vars, Catalogs!repository
  <2> QED BY <2>1, CatKept
<1>3. CatInv => CatalogsRight
      BY CatRight
<1> QED BY <1>1, <1>2, <1>3, PTL DEF MCSpec

(* As long as no Init is constructed once the last one is being destroyed, an *)
(* Init object means streams that can be used, the count is of the objects    *)
(* there are, and what was written, also after the last of them, is in the    *)
(* files, but of a stream that could not be flushed (iostream.cpp:195, 278).  *)
THEOREM StreamsRightAlways == ASSUME ~LateInit PROVE MCSpec => []StreamsRight
<1>1. MCInit => StreamInv
      BY StreamsInitRight DEF MCInit
<1>2. StreamInv /\ [MCNext]_allVars => StreamInv'
  <2> SUFFICES ASSUME StreamInv, [MCNext]_allVars PROVE StreamInv'
      OBVIOUS
  <2>1. [Streams!StreamsNext]_Streams!allVars
        BY DEF MCNext, LocaleStep, CatalogStep, StreamStep, IdStep, OfLocale, allVars, sVars,
               Streams!allVars, Streams!vars, Streams!counts, Streams!streams
  <2> QED BY <2>1, StreamsKept
<1>3. StreamInv => StreamsRight
      BY StreamsAreRight
<1> QED BY <1>1, <1>2, <1>3, PTL DEF MCSpec
-----------------------------------------------------------------------------
(* The C library's locale.  CLocaleRight is not inductive: what a scope       *)
(* restores is what it has saved, so one must know at each of its steps who   *)
(* holds the lock, and how what is saved and what the C locale is relate to   *)
(* the program's.                                                             *)

\* the C locale is the program's
Clean == clocale = program

\* what the program's locale is in these categories
ProgramPart(cats) == {<<c, program[c]>> : c \in cats}

\* what was saved is enough to restore the C locale
SavedRight(t) ==
    \/ saved[t] = {} /\ Clean
    \/ /\ saved[t] = ProgramPart(req[t].cats)
       /\ \A c \in Cats \ req[t].cats : clocale[c] = program[c]

\* the steps with the lock; a scope that has no guard has given it up
Holds(t) == pc[t] \in {"locked", "save", "set", "restore", "unlock"} \/ (pc[t] = "scope" /\ owns[t])

\* what must be so where t is
Own(t) ==
    /\ Holds(t) => lock = t
    /\ pc[t] \in {"locked", "save", "set", "unlock"} => Clean
    /\ pc[t] \in {"lock", "locked"} => saved[t] = {}
    /\ pc[t] = "set" => saved[t] = ProgramPart(req[t].cats)
    /\ pc[t] = "restore" \/ (pc[t] = "scope" /\ owns[t]) => SavedRight(t)
    /\ pc[t] = "scope" /\ owns[t] => IsSet(req[t].cats, req[t].name)

CInv == TypeOK /\ Restored /\ \A t \in Threads : Own(t)
USE SetLocaleAssumption DEF At, Labels, Requests, CNames
-----------------------------------------------------------------------------
LEMMA CInit == Init => CInv
<1> SUFFICES ASSUME Init PROVE CInv
    OBVIOUS
<1>1. NoRequest \in Requests
      BY DEF NoRequest
<1>2. TypeOK BY <1>1 DEF Init, TypeOK
<1> QED BY <1>2 DEF Init, CInv, Restored, Own, Holds

LEMMA TypeStep == TypeOK /\ [Next]_vars => TypeOK'
<1> SUFFICES ASSUME TypeOK, Next PROVE TypeOK'
    BY DEF TypeOK, vars, scopeVars
<1> USE DEF TypeOK, scopeVars, Goto, Made, Return
<1>0. ASSUME NEW t \in Threads, Gone(t)
      PROVE  /\ req' \in [Threads -> Requests] /\ owns' \in [Threads -> BOOLEAN]
             /\ saved' \in [Threads -> SUBSET (Cats \X Known)]
  <2>1. NoRequest \in Requests BY DEF NoRequest
  <2> QED BY <1>0, <2>1 DEF Gone
<1>1. ASSUME NEW t \in Threads, NEW cats \in (SUBSET Cats) \ {{}}, NEW n \in Names \cup {NoName},
             Open(t, cats, n, FALSE)
      PROVE  TypeOK'
      BY <1>1 DEF Open
<1>2. ASSUME NEW t \in Threads, NEW cats \in {{c} : c \in Cats} \cup {Cats}, NEW n \in Names,
             Expand(t, cats, n)
      PROVE  TypeOK'
  <2>1. cats \in (SUBSET Cats) \ {{}}
    <3>1. CASE cats = Cats
          BY <3>1
    <3>2. CASE \E c \in Cats : cats = {c}
          BY <3>2
    <3> QED BY <3>1, <3>2
  <2>2. [cats |-> cats, name |-> n, nothrow |-> TRUE] \in Requests
        BY <2>1
  <2> HIDE DEF Requests
  <2> QED BY <1>2, <2>2 DEF Expand
<1>3. ASSUME NEW t \in Threads, NEW n \in Names \cup {NoName}, Global(t, n) PROVE TypeOK'
      BY <1>3 DEF Global
<1>4. ASSUME NEW t \in Threads, Lock(t) PROVE TypeOK'
      BY <1>4 DEF Lock
<1>5. ASSUME NEW t \in Threads, Query(t) PROVE TypeOK'
      BY <1>5 DEF Query
<1>6. ASSUME NEW t \in Threads, Save(t) PROVE TypeOK'
  <2>1. Part(req[t].cats) \subseteq Cats \X Known
        BY DEF Part
  <2> QED BY <1>6, <2>1 DEF Save
<1>7. ASSUME NEW t \in Threads, SaveThrow(t) PROVE TypeOK'
      BY <1>0, <1>7 DEF SaveThrow
<1>8. ASSUME NEW t \in Threads, Set(t) PROVE TypeOK'
  <2>1. req[t].name # NoName => With(req[t].cats, req[t].name) \in CNames
        BY <1>8 DEF Set, Accepts, With
  <2>2. CASE req[t].name = NoName
        BY <1>8, <2>2 DEF Set
  <2>3. CASE req[t].name # NoName
        BY <1>8, <2>1, <2>3 DEF Set
  <2> QED BY <2>2, <2>3
<1>9. ASSUME NEW t \in Threads, SetFail(t) PROVE TypeOK'
  <2>1. CASE req[t].nothrow
        BY <1>9, <2>1 DEF SetFail
  <2>2. CASE ~req[t].nothrow
        BY <1>0, <1>9, <2>2 DEF SetFail
  <2> QED BY <2>1, <2>2
<1>10. ASSUME NEW t \in Threads, Close(t) PROVE TypeOK'
  <2>1. CASE owns[t]
        BY <1>10, <2>1 DEF Close
  <2>2. CASE ~owns[t] /\ nameLock = t
        BY <1>10, <2>2 DEF Close
  <2>3. CASE ~owns[t] /\ nameLock # t
        BY <1>0, <1>10, <2>3 DEF Close
  <2> QED BY <2>1, <2>2, <2>3
<1>11. ASSUME NEW t \in Threads, Restore(t) PROVE TypeOK'
  <2>1. \A c \in Cats : (\E p \in saved[t] : p[1] = c)
                        => (CHOOSE p \in saved[t] : p[1] = c)[2] \in Known
        OBVIOUS
  <2> QED BY <1>11, <2>1 DEF Restore
<1>12. ASSUME NEW t \in Threads, Unlock(t) PROVE TypeOK'
  <2>1. CASE nameLock = t
        BY <1>12, <2>1 DEF Unlock
  <2>2. CASE nameLock # t
        BY <1>0, <1>12, <2>2 DEF Unlock
  <2> QED BY <2>1, <2>2
<1>13. ASSUME NEW t \in Threads, GlobalC(t) PROVE TypeOK'
      BY <1>13 DEF GlobalC, With
<1>14. ASSUME NEW t \in Threads, GlobalCxx(t) PROVE TypeOK'
      BY <1>14 DEF GlobalCxx
<1>15. ASSUME NEW t \in Threads, NEW c \in Cats, ExpandNext(t, c) PROVE TypeOK'
  <2>1. [req[t] EXCEPT !.cats = {c}] \in Requests
    <3>1. req[t] \in Requests /\ {c} \in (SUBSET Cats) \ {{}}
          OBVIOUS
    <3> QED BY <3>1
  <2>2. CASE Made(t, [req[t] EXCEPT !.cats = {c}]) /\ Goto(t, "lock") /\ UNCHANGED nameLock
        BY <1>15, <2>1, <2>2 DEF ExpandNext
  <2>3. CASE nameLock' = NoThread /\ Goto(t, "idle") /\ Gone(t)
        BY <1>0, <1>15, <2>3 DEF ExpandNext
  <2> QED BY <1>15, <2>2, <2>3 DEF ExpandNext
<1> QED BY <1>1, <1>2, <1>3, <1>4, <1>5, <1>6, <1>7, <1>8, <1>9, <1>10, <1>11, <1>12,
           <1>13, <1>14, <1>15 DEF Next, Begin, Step

\* the other threads are where they were
OthersStay(t) ==
    \A u \in Threads \ {t} :
        pc'[u] = pc[u] /\ req'[u] = req[u] /\ saved'[u] = saved[u] /\ owns'[u] = owns[u]

\* a step that the C locale and its lock have no part in
LEMMA Harmless ==
    ASSUME CInv, TypeOK', NEW t \in Threads, OthersStay(t),
           UNCHANGED <<clocale, program, lock>>,
           ~Holds(t)', pc'[t] = "lock" => saved'[t] = {}
    PROVE  CInv'
<1>1. Restored' BY DEF CInv, Restored
<1>2. Own(t)' BY DEF Own, Holds
<1>3. ASSUME NEW u \in Threads \ {t} PROVE Own(u)'
      BY <1>3 DEF CInv, Own, Holds, OthersStay, Clean, ProgramPart, SavedRight, IsSet
<1> QED BY <1>1, <1>2, <1>3 DEF CInv

\* a step of the thread that has the lock, or while nobody has: no other
\* thread is where something must be so
LEMMA Alone ==
    ASSUME CInv, TypeOK', NEW t \in Threads, OthersStay(t),
           lock \in {t, NoThread}, Restored', Own(t)'
    PROVE  CInv'
<1>1. ASSUME NEW u \in Threads \ {t} PROVE ~Holds(u)'
      BY <1>1 DEF CInv, Own, Holds, OthersStay
<1>2. ASSUME NEW u \in Threads \ {t} PROVE Own(u)'
      BY <1>1, <1>2 DEF CInv, Own, Holds, OthersStay
<1> QED BY <1>2 DEF CInv

LEMMA CStep == CInv /\ [Next]_vars => CInv'
<1> SUFFICES ASSUME CInv, TypeOK', Next PROVE CInv'
  <2>1. CInv /\ [Next]_vars => TypeOK' BY TypeStep DEF CInv
  <2>2. CInv /\ UNCHANGED vars => CInv'
        BY DEF CInv, TypeOK, Restored, Own, Holds, Clean, ProgramPart, SavedRight, IsSet,
               vars, scopeVars
  <2> QED BY <2>1, <2>2
<1>0. TypeOK BY DEF CInv
<1> USE DEF TypeOK, scopeVars, Goto, Gone, Made, Return, OthersStay
<1>1. ASSUME NEW t \in Threads, NEW cats \in (SUBSET Cats) \ {{}}, NEW n \in Names \cup {NoName},
             Open(t, cats, n, FALSE)
      PROVE  CInv'
      BY <1>0, <1>1, Harmless DEF Holds, Open
<1>2. ASSUME NEW t \in Threads, NEW cats \in {{c} : c \in Cats} \cup {Cats}, NEW n \in Names,
             Expand(t, cats, n)
      PROVE  CInv'
      BY <1>0, <1>2, Harmless DEF Holds, Expand
<1>3. ASSUME NEW t \in Threads, NEW n \in Names \cup {NoName}, Global(t, n) PROVE CInv'
      BY <1>0, <1>3, Harmless DEF Holds, Global
<1>4. ASSUME NEW t \in Threads, Lock(t) PROVE CInv'
  <2>1. Clean BY <1>4 DEF CInv, Restored, Lock, Clean
  <2>2. saved[t] = {} BY <1>4 DEF CInv, Own, Lock
  <2> QED BY <1>0, <1>4, <2>1, <2>2, Alone DEF Lock, Restored, Own, Holds, Clean
<1>5. ASSUME NEW t \in Threads, Query(t) PROVE CInv'
  <2>1. lock = t /\ Clean /\ saved[t] = {} BY <1>5 DEF CInv, Own, Holds, Query
  <2>2. Own(t)' BY <1>0, <1>5, <2>1 DEF Query, Own, Holds, Clean, SavedRight, IsSet
  <2> QED BY <1>0, <1>5, <2>1, <2>2, Alone DEF Query, Restored
<1>6. ASSUME NEW t \in Threads, Save(t) PROVE CInv'
  <2>1. lock = t /\ Clean BY <1>6 DEF CInv, Own, Holds, Save
  <2>2. Own(t)' BY <1>0, <1>6, <2>1 DEF Save, Own, Holds, Clean, Part, ProgramPart
  <2> QED BY <1>0, <1>6, <2>1, <2>2, Alone DEF Save, Restored
<1>7. ASSUME NEW t \in Threads, SaveThrow(t) PROVE CInv'
      BY <1>0, <1>7, Harmless DEF Holds, SaveThrow
<1>8. ASSUME NEW t \in Threads, Set(t) PROVE CInv'
  <2>1. lock = t /\ Clean /\ saved[t] = ProgramPart(req[t].cats)
        BY <1>8 DEF CInv, Own, Holds, Set
  <2>2. CASE req[t].name = NoName
        BY <1>0, <1>8, <2>1, <2>2, Alone DEF Set, Restored, Own, Holds, Clean
  <2>3. CASE req[t].name # NoName
    <3>1. lock' = t /\ Restored' BY <1>0, <1>8, <2>1, <2>3 DEF Set, Restored
    <3>2. IsSet(req[t].cats, req[t].name)' /\ SavedRight(t)'
          BY <1>0, <1>8, <2>1, <2>3 DEF Set, Clean, With, IsSet, SavedRight, ProgramPart
    <3>3. Own(t)' BY <1>0, <1>8, <2>3, <3>1, <3>2 DEF Set, Own, Holds
    <3>4. OthersStay(t) BY <1>0, <1>8, <2>3 DEF Set
    <3> QED BY <2>1, <3>1, <3>3, <3>4, Alone
  <2> QED BY <2>2, <2>3
<1>9. ASSUME NEW t \in Threads, SetFail(t) PROVE CInv'
  <2>1. lock = t /\ Clean BY <1>9 DEF CInv, Own, Holds, SetFail
  <2>2. Restored' /\ Own(t)' BY <1>0, <1>9, <2>1 DEF SetFail, Restored, Own, Holds, Clean
  <2>3. OthersStay(t) BY <1>0, <1>9 DEF SetFail
  <2> QED BY <2>1, <2>2, <2>3, Alone
<1>10. ASSUME NEW t \in Threads, Close(t) PROVE CInv'
  <2>1. CASE owns[t]
    <3>1. lock = t /\ SavedRight(t) BY <1>10, <2>1 DEF CInv, Own, Holds, Close
    <3>2. Own(t)' BY <1>0, <1>10, <2>1, <3>1 DEF Close, Own, Holds, SavedRight, Clean, ProgramPart
    <3>3. OthersStay(t) BY <1>0, <1>10, <2>1 DEF Close
    <3> QED BY <1>0, <1>10, <3>1, <3>2, <3>3, Alone DEF Close, Restored
  <2>2. CASE ~owns[t]
    <3>1. OthersStay(t) /\ ~Holds(t)' BY <1>0, <1>10, <2>2 DEF Close, Holds
    <3> QED BY <1>10, <3>1, Harmless DEF Close
  <2> QED BY <2>1, <2>2
<1>11. ASSUME NEW t \in Threads, Restore(t) PROVE CInv'
  <2>1. lock = t /\ SavedRight(t) BY <1>11 DEF CInv, Own, Holds, Restore
  <2>2. Clean'
    <3>1. CASE saved[t] = {} /\ Clean
          BY <1>0, <1>11, <3>1 DEF Restore, Clean
    <3>2. CASE /\ saved[t] = ProgramPart(req[t].cats)
               /\ \A c \in Cats \ req[t].cats : clocale[c] = program[c]
      <4>1. ASSUME NEW c \in req[t].cats
            PROVE  /\ \E p \in saved[t] : p[1] = c
                   /\ (CHOOSE p \in saved[t] : p[1] = c)[2] = program[c]
        <5>1. <<c, program[c]>> \in saved[t] BY <3>2, <4>1 DEF ProgramPart
        <5>2. \A p \in saved[t] : p[1] = c => p[2] = program[c] BY <3>2 DEF ProgramPart
        <5> QED BY <5>1, <5>2
      <4>2. ASSUME NEW c \in Cats \ req[t].cats
            PROVE  ~\E p \in saved[t] : p[1] = c
            BY <3>2, <4>2 DEF ProgramPart
      <4>3. \A c \in Cats : clocale'[c] = program[c]
            BY <1>11, <3>2, <4>1, <4>2 DEF Restore
      <4>4. clocale' = [c \in Cats |-> clocale'[c]] /\ program' = program
            BY <1>11 DEF Restore
      <4>5. program = [c \in Cats |-> program[c]]
            BY <1>0
      <4> QED BY <4>3, <4>4, <4>5 DEF Clean
    <3> QED BY <2>1, <3>1, <3>2 DEF SavedRight
  <2>3. Own(t)' BY <1>0, <1>11, <2>1, <2>2 DEF Restore, Own, Holds
  <2>4. OthersStay(t) BY <1>0, <1>11 DEF Restore
  <2> QED BY <1>11, <2>1, <2>2, <2>3, <2>4, Alone DEF Restore, Restored, Clean
<1>12. ASSUME NEW t \in Threads, Unlock(t) PROVE CInv'
  <2>1. lock = t /\ Clean BY <1>12 DEF CInv, Own, Holds, Unlock
  <2>2. Restored' BY <1>12, <2>1 DEF Unlock, Restored, Clean
  <2>3. OthersStay(t) /\ ~Holds(t)' /\ pc'[t] # "lock" BY <1>0, <1>12 DEF Unlock, Holds
  <2> QED BY <2>1, <2>2, <2>3, Alone DEF Own, Holds
<1>13. ASSUME NEW t \in Threads, GlobalC(t) PROVE CInv'
  <2>1. OthersStay(t) /\ ~Holds(t)' BY <1>0, <1>13 DEF GlobalC, Holds
  <2> QED BY <1>13, <2>1, Alone DEF GlobalC, Restored, Own, Holds
<1>14. ASSUME NEW t \in Threads, GlobalCxx(t) PROVE CInv'
      BY <1>0, <1>14, Harmless DEF Holds, GlobalCxx
<1>15. ASSUME NEW t \in Threads, NEW c \in Cats, ExpandNext(t, c) PROVE CInv'
  <2>1. CASE Made(t, [req[t] EXCEPT !.cats = {c}]) /\ Goto(t, "lock")
    <3>1. /\ OthersStay(t) /\ ~Holds(t)' /\ saved'[t] = {}
          /\ UNCHANGED <<clocale, program, lock>>
          BY <1>0, <1>15, <2>1 DEF Holds, ExpandNext
    <3> QED BY <3>1, Harmless
  <2>2. CASE Goto(t, "idle") /\ Gone(t)
    <3>1. /\ OthersStay(t) /\ ~Holds(t)' /\ pc'[t] # "lock"
          /\ UNCHANGED <<clocale, program, lock>>
          BY <1>0, <1>15, <2>2 DEF Holds, ExpandNext
    <3> QED BY <3>1, Harmless
  <2> QED BY <1>15, <2>1, <2>2 DEF ExpandNext
<1> QED BY <1>1, <1>2, <1>3, <1>4, <1>5, <1>6, <1>7, <1>8, <1>9, <1>10, <1>11, <1>12,
           <1>13, <1>14, <1>15 DEF Next, Begin, Step

(* At every moment the C locale is the program's or that of the one scope    *)
(* that holds the lock, and no scope, however it ends, leaves a trace or      *)
(* restores over what locale::global() has set (setlocale.cpp:68-138).        *)
THEOREM CLocaleAlways == MCSpec => []CLocaleRight
<1>1. MCInit => CInv
      BY CInit DEF MCInit
<1>2. CInv /\ [MCNext]_allVars => CInv'
  <2> SUFFICES ASSUME CInv, [MCNext]_allVars PROVE CInv'
      OBVIOUS
  <2>1. [Next]_vars
        BY DEF MCNext, LocaleStep, CatalogStep, StreamStep, IdStep, OfLocale, allVars, vars, scopeVars
  <2> QED BY <2>1, CStep
<1>3. CInv => CLocaleRight BY DEF CInv, Own, Holds, CLocaleRight, InForce
<1> QED BY <1>1, <1>2, <1>3, PTL DEF MCSpec
-----------------------------------------------------------------------------
\* one thread calls locale::global()
OneCaller == \A t, u \in GlobalCallers : t = u

\* it is on its way from the C locale's setting to the C++ locale's
GInv ==
    /\ TypeOK
    /\ \A t \in Threads : pc[t] \in {"global_c", "global_cxx"} => t \in GlobalCallers
    /\ \A t \in Threads :
          pc[t] = "global_cxx" /\ next[t] \in Known => program = [c \in Cats |-> next[t]]
    /\ GlobalAgrees

LEMMA GStep == OneCaller /\ GInv /\ [Next]_vars => GInv'
<1> SUFFICES ASSUME OneCaller, GInv, TypeOK', [Next]_vars PROVE GInv'
    BY TypeStep DEF GInv
<1>0. TypeOK BY DEF GInv
<1>1. ASSUME NEW t \in Threads, NEW n \in Names \cup {NoName}, Global(t, n) PROVE GInv'
      BY <1>0, <1>1 DEF Global, Goto, GInv, OneCaller, GlobalAgrees, TypeOK
<1>2. ASSUME NEW t \in Threads, GlobalC(t) PROVE GInv'
  <2>1. t \in GlobalCallers /\ pc' = [pc EXCEPT ![t] = "global_cxx"]
        BY <1>2 DEF GInv, GlobalC, Goto
  <2>2. next[t] \in Known => program' = [c \in Cats |-> next[t]]
        BY <1>2 DEF GlobalC, With
  <2>3. UNCHANGED <<global, next>> /\ pc'[t] = "global_cxx"
        BY <1>0, <1>2, <2>1 DEF GlobalC, TypeOK
  <2>4. \A u \in Threads : u # t => pc'[u] = pc[u]
        BY <1>0, <2>1 DEF TypeOK
  <2>5. \A u \in Threads : pc'[u] \in {"global_c", "global_cxx"} => u = t
        BY <2>1, <2>4 DEF GInv, OneCaller
  <2>6. GlobalAgrees' BY <2>3 DEF GlobalAgrees
  <2> QED BY <2>1, <2>2, <2>3, <2>5, <2>6 DEF GInv
<1>3. ASSUME NEW t \in Threads, GlobalCxx(t) PROVE GInv'
  <2>1. t \in GlobalCallers /\ (next[t] \in Known => program = [c \in Cats |-> next[t]])
        BY <1>3 DEF GInv, GlobalCxx
  <2> QED BY <1>0, <1>3, <2>1 DEF GlobalCxx, Goto, GInv, OneCaller, GlobalAgrees, TypeOK
<1>4. ASSUME UNCHANGED <<program, global, next>>,
             \A u \in Threads : (pc'[u] \in {"global_c", "global_cxx"} \/ pc[u] \in {"global_c", "global_cxx"})
                                 => pc'[u] = pc[u]
      PROVE  GInv'
      BY <1>4 DEF GInv, GlobalAgrees
<1>5. ASSUME NEW t \in Threads,
             \/ \E cats \in (SUBSET Cats) \ {{}}, n \in Names \cup {NoName} : Open(t, cats, n, FALSE)
             \/ \E cats \in {{c} : c \in Cats} \cup {Cats}, n \in Names : Expand(t, cats, n)
             \/ Lock(t) \/ Query(t) \/ Save(t) \/ Set(t) \/ SetFail(t) \/ SaveThrow(t)
             \/ Close(t) \/ Restore(t) \/ Unlock(t) \/ \E c \in Cats : ExpandNext(t, c)
      PROVE  GInv'
  <2>1. UNCHANGED <<program, global, next>>
        BY <1>5 DEF Open, Expand, Lock, Query, Save, Set, SetFail, SaveThrow, Close, Restore,
                    Unlock, ExpandNext
  <2>2. /\ pc[t] \notin {"global_c", "global_cxx"}
        /\ \E l \in Labels \ {"global_c", "global_cxx"} : pc' = [pc EXCEPT ![t] = l]
        BY <1>5 DEF Open, Expand, Lock, Query, Save, Set, SetFail, SaveThrow, Close, Restore,
                    Unlock, ExpandNext, Goto, Return
  <2> QED BY <1>0, <1>4, <2>1, <2>2 DEF TypeOK
<1>6. CASE UNCHANGED vars
      BY <1>4, <1>6 DEF vars
<1> QED BY <1>1, <1>2, <1>3, <1>5, <1>6 DEF Next, Begin, Step

(* If one thread calls locale::global(), the two global locales agree         *)
(* whenever it is not in a call, whatever scopes and expansions of other      *)
(* threads come in between (locale_global.cpp:64).                            *)
THEOREM GlobalAgreesAlways == ASSUME OneCaller PROVE MCSpec => []GlobalAgrees
<1>1. MCInit => GInv
      BY CInit DEF MCInit, CInv, Init, GInv, GlobalAgrees
<1>2. GInv /\ [MCNext]_allVars => GInv'
  <2> SUFFICES ASSUME GInv, [MCNext]_allVars PROVE GInv'
      OBVIOUS
  <2>1. [Next]_vars
        BY DEF MCNext, LocaleStep, CatalogStep, StreamStep, IdStep, OfLocale, allVars, vars, scopeVars
  <2> QED BY <2>1, GStep
<1>3. GInv => GlobalAgrees BY DEF GInv
<1> QED BY <1>1, <1>2, <1>3, PTL DEF MCSpec
=============================================================================
