---------------------------- MODULE LocaleValues ----------------------------
(***************************************************************************)
(* What std::locale promises (22.1.1 and doc/notes/ref-locale.md): a       *)
(* locale object is a value, a name and a facet in each slot, and only an  *)
(* operation on that object changes it; the global locale is one more      *)
(* object, which locale::global() exchanges in one step.  Nothing here     *)
(* knows of bodies that objects share, of their counts, or of threads.     *)
(***************************************************************************)
EXTENDS Naturals

CONSTANTS Objects,      \* the locale objects
          ClassicObj,   \* among them that of locale::classic()
          Global,       \* and the global locale
          None,         \* the value of an object not constructed
          NStd, NSlots, Plain, Ordinary, Heap, NoFacet,
          Names, CName, NoName

VARIABLE val

Slots == 1 .. NSlots
StdSlots == 1 .. NStd

Value(n, fs) == [name |-> n, facets |-> fs]

ClassicValue == Value([i \in StdSlots |-> CName],
                      [i \in Slots |-> IF i \in StdSlots THEN Ordinary[i] ELSE NoFacet])

Init == val = [x \in Objects |->
                  IF x \in {ClassicObj, Global} THEN ClassicValue ELSE None]

Constructed(x) == val[x] # None

\* a facet that no object has
Unused(f) ==
    f \in Heap /\ \A x \in Objects : Constructed(x) =>
                     \A i \in Slots : val[x].facets[i] # f
-----------------------------------------------------------------------------
\* copy, default construction (of the global) and assignment
Copy(x, y) ==
    /\ x # Global /\ Constructed(y)
    /\ val' = [val EXCEPT ![x] = val[y]]

Destroy(x) ==
    /\ Constructed(x) /\ x \notin {Global, ClassicObj}
    /\ val' = [val EXCEPT ![x] = None]

\* locale::global (y), which returns the previous global locale as x
Exchange(x, y) ==
    /\ ~Constructed(x) /\ Constructed(y)
    /\ val' = [val EXCEPT ![Global] = val[y], ![x] = val[Global]]

\* from a name: facets of the object's own, but for the ordinary ones
FromName(x, n) ==
    /\ ~Constructed(x)
    /\ \E fs \in [StdSlots -> Heap \cup {Ordinary[i] : i \in StdSlots}] :
          /\ \A i \in StdSlots : IF n[i] = CName \/ i \in Plain
                                 THEN fs[i] = Ordinary[i] ELSE Unused(fs[i])
          /\ val' = [val EXCEPT ![x] =
                        Value(n, [i \in Slots |-> IF i \in StdSlots THEN fs[i]
                                                  ELSE NoFacet])]

\* with one facet replaced or added: the result has no name
WithFacet(x, y, i, f) ==
    /\ ~Constructed(x) /\ Constructed(y)
    /\ Unused(f) \/ \E z \in Objects : Constructed(z) /\ val[z].facets[i] = f
    /\ val' = [val EXCEPT ![x] = Value(NoName, [val[y].facets EXCEPT ![i] = f])]

\* with the categories in cat from z: named if both are
WithCategories(x, y, z, cat) ==
    /\ ~Constructed(x) /\ Constructed(y) /\ Constructed(z)
    /\ val' = [val EXCEPT ![x] = Value(
           IF NoName \in {val[y].name, val[z].name} THEN NoName
           ELSE [i \in StdSlots |-> IF i \in cat THEN val[z].name[i]
                                    ELSE val[y].name[i]],
           [i \in Slots |-> IF i \in cat THEN val[z].facets[i]
                            ELSE val[y].facets[i]])]

Next ==
    \/ \E x \in Objects : Destroy(x)
    \/ \E x, y \in Objects : Copy(x, y) \/ Exchange(x, y)
    \/ \E x \in Objects, n \in [StdSlots -> Names] : FromName(x, n)
    \/ \E x, y \in Objects, i \in Slots, f \in Heap \cup {Ordinary[j] : j \in StdSlots} :
          WithFacet(x, y, i, f)
    \/ \E x, y, z \in Objects, cat \in SUBSET StdSlots : WithCategories(x, y, z, cat)

Spec == Init /\ [][Next]_val
=============================================================================
