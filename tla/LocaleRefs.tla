----------------------------- MODULE LocaleRefs -----------------------------
(***************************************************************************)
(* The reference counts of the locale: handles (std::locale), the bodies   *)
(* they share (__rw_locale, src/locale_body.cpp), the facets bodies share, *)
(* and the global locale, whose pointer alone is guarded by a mutex.       *)
(*                                                                         *)
(* Every step is one access to what threads share: an increment, a         *)
(* decrement with its test for zero, a read or write of the global pointer *)
(* under its guard, one facet of a body under construction or destruction. *)
(* A thread mutates its own handles only and copies from them and from     *)
(* locale::classic(); threads share bodies by way of the global locale.    *)
(* The first use of the classic and the global locale is module Once.      *)
(***************************************************************************)
EXTENDS Naturals, FiniteSets

CONSTANTS Threads, NoThread,
          Handles,     \* the std::locale objects of the threads
          Mine,        \* Mine[t]: those thread t constructs and destroys
          ClassicObj,  \* the object of locale::classic(), never destroyed
          Global,      \* __rw_global_body
          Self,        \* the reference the classic body holds to itself
          Bodies,      \* storage for bodies, reused when freed
          Classic,     \* the static body of _C_classic()
          NoBody,
          NStd, NSlots,  \* slots 1..NStd are standard, the rest the program's
          Plain,       \* the standard slots whose facet has no byname form
          Ordinary,    \* the ordinary facets, statics of their factories
          Heap,        \* storage for byname facets and the program's
          NoFacet,
          Names, CName, NoName,
          LongNames,   \* the name of a combination may need memory, and fail
          MaxThrows    \* bound: exceptions out of constructors

Slots == 1 .. NSlots
StdSlots == 1 .. NStd
Facets == {Ordinary[i] : i \in StdSlots} \cup Heap

\* what holds one reference each: a handle, the global pointer, the classic
\* body itself, and the reference an operation of a thread has in flight
Owners == Handles \cup {ClassicObj, Global, Self} \cup Threads

ASSUME LocaleAssumption ==
    /\ IsFiniteSet(Threads) /\ NoThread \notin Threads
    /\ IsFiniteSet(Handles) /\ Handles \cap Threads = {}
    /\ ClassicObj \notin Handles \cup Threads
    /\ Global \notin Handles \cup Threads \cup {ClassicObj}
    /\ Self \notin Handles \cup Threads \cup {ClassicObj, Global}
    /\ Mine \in [Threads -> SUBSET Handles]
    /\ \A t, u \in Threads : t # u => Mine[t] \cap Mine[u] = {}
    /\ IsFiniteSet(Bodies) /\ Classic \in Bodies /\ NoBody \notin Bodies
    /\ NoBody \notin [name : [StdSlots -> Names] \cup {NoName},
                     facets : [Slots -> Facets \cup {NoFacet}]]
    /\ NStd \in Nat /\ NSlots \in Nat /\ NStd <= NSlots
    /\ Plain \subseteq StdSlots
    /\ \A i, j \in StdSlots : Ordinary[i] = Ordinary[j] => i = j
    /\ \A i \in StdSlots : Ordinary[i] \notin Heap
    /\ NoFacet \notin Facets
    /\ CName \in Names /\ NoName \notin Names
    /\ MaxThrows \in Nat

ASSUME LongNamesAssumption == LongNames \in BOOLEAN

VARIABLES
    status,    \* of each body: "free", "building", "live", "dying"
    ref,       \* __rw_locale::_C_ref
    slot,      \* slot[b][i]: the facet b holds a reference to in slot i
    name,      \* _C_name, by category, or NoName
    body,      \* body[x]: the body x holds a reference to (handle: _C_body)
    fref,      \* __rw_facet::_C_ref
    falive,    \* the facets that exist
    floc,      \* the locale a byname facet is of; NoName: the program's
    extra,     \* references to a facet that no body holds: the program's own
               \* (a facet constructed with refs = 1)
    guard,     \* the holder of the guard of the global pointer
    pc, tgt,   \* where each thread is, and the handle it works for
    reg,       \* the body a thread has read the pointer of or is destroying
    want, todo,   \* facet pointers copied, and the slots not yet counted
    src, gift,    \* the handles copied from, and the facet to be installed
    throws

bodyVars == <<status, ref, name>>
facetVars == <<slot, fref, falive, floc, extra>>
buildVars == <<want, todo, src, gift>>
vars == <<bodyVars, body, facetVars, guard, pc, tgt, reg, buildVars, throws>>

Labels == {"idle", "global_read", "global_count", "set_global",
           "assign_drop", "assign_store",
           "copied", "count", "obtain", "name", "publish", "unwind", "delete"}

OrdinaryName(n) == [i \in StdSlots |-> n]
FullNames == [StdSlots -> Names]

Init ==
    /\ status = [b \in Bodies |-> IF b = Classic THEN "live" ELSE "free"]
    /\ ref = [b \in Bodies |-> IF b = Classic THEN 3 ELSE 0]
    /\ slot = [b \in Bodies |-> [i \in Slots |->
                  IF b = Classic /\ i \in StdSlots THEN Ordinary[i] ELSE NoFacet]]
    /\ name = [b \in Bodies |-> IF b = Classic THEN OrdinaryName(CName) ELSE NoName]
    /\ body = [x \in Owners |->
                  IF x \in {ClassicObj, Global, Self} THEN Classic ELSE NoBody]
    /\ fref = [f \in Facets |-> IF f \in Heap THEN 0 ELSE 1]
    /\ falive = Facets \ Heap
    /\ floc = [f \in Facets |-> IF f \in Heap THEN NoName ELSE CName]
    /\ extra = [f \in Facets |-> 0]
    /\ guard = NoThread
    /\ pc = [t \in Threads |-> "idle"]
    /\ tgt = [t \in Threads |-> ClassicObj]
    /\ reg = [t \in Threads |-> NoBody]
    /\ want = [t \in Threads |-> [i \in Slots |-> NoFacet]]
    /\ todo = [t \in Threads |-> {}]
    /\ src = [t \in Threads |-> {}]
    /\ gift = [t \in Threads |-> NoFacet]
    /\ throws = 0
-----------------------------------------------------------------------------
At(t, l) == pc[t] = l
Goto(t, l) == pc' = [pc EXCEPT ![t] = l]

\* a handle t may construct an object in, or read from
Fresh(t, h) == h \in Mine[t] /\ body[h] = NoBody
Readable(t, g) == g \in Mine[t] \cup {ClassicObj} /\ body[g] # NoBody

\* _RWSTD_ATOMIC_PREINCREMENT (b->_C_ref), the reference being x's
Retain(b, x) ==
    /\ ref' = [ref EXCEPT ![b] = @ + 1]
    /\ body' = [body EXCEPT ![x] = b]

\* locale::~locale(): the decrement and its test are one atomic operation,
\* and the thread that takes the count to zero deletes the body; t is at l
\* afterwards, or once the body is gone
Drop(t, x, l) ==
    LET b == body[x]
    IN  /\ ref' = [ref EXCEPT ![b] = @ - 1]
        /\ body' = [body EXCEPT ![x] = NoBody]
        /\ IF ref[b] = 1
           THEN /\ status' = [status EXCEPT ![b] = "dying"]
                /\ reg' = [reg EXCEPT ![t] = b]
                /\ Goto(t, "delete")
           ELSE /\ Goto(t, l)
                /\ UNCHANGED <<status, reg>>
-----------------------------------------------------------------------------
\* a mutant: no guard
UnguardedDefaultCtor(t, h) ==
    /\ At(t, "idle") /\ Fresh(t, h)
    /\ tgt' = [tgt EXCEPT ![t] = h]
    /\ Goto(t, "global_read")
    /\ UNCHANGED <<bodyVars, body, facetVars, guard, reg, buildVars, throws>>

\* locale::locale(): _C_get_global() takes its reference under the guard
DefaultCtor(t, h) ==
    /\ At(t, "idle") /\ Fresh(t, h)
    /\ guard = NoThread
    /\ guard' = t
    /\ tgt' = [tgt EXCEPT ![t] = h]
    /\ Goto(t, "global_read")
    /\ UNCHANGED <<bodyVars, body, facetVars, reg, buildVars, throws>>

GlobalRead(t) ==
    /\ At(t, "global_read")
    /\ reg' = [reg EXCEPT ![t] = body[Global]]
    /\ Goto(t, "global_count")
    /\ UNCHANGED <<bodyVars, body, facetVars, guard, tgt, buildVars, throws>>

GlobalCount(t) ==
    /\ At(t, "global_count")
    /\ Retain(reg[t], tgt[t])
    /\ guard' = NoThread
    /\ reg' = [reg EXCEPT ![t] = NoBody]
    /\ Goto(t, "idle")
    /\ UNCHANGED <<status, name, facetVars, tgt, buildVars, throws>>

\* the copy constructor, a combination with nothing to combine, and a facet
\* already installed (_C_get_body's first case): the same body again
CopyCtor(t, h, g) ==
    /\ At(t, "idle") /\ Fresh(t, h) /\ Readable(t, g)
    /\ Retain(body[g], h)
    /\ UNCHANGED <<status, name, facetVars, guard, pc, tgt, reg, buildVars, throws>>

Dtor(t, h) ==
    /\ At(t, "idle") /\ h \in Mine[t] /\ body[h] # NoBody
    /\ Drop(t, h, "idle")
    /\ UNCHANGED <<name, facetVars, guard, tgt, buildVars, throws>>

\* a mutant: no reference is taken for the value in flight
AssignUncounted(t, h, g) ==
    /\ At(t, "idle")
    /\ h \in Mine[t] /\ body[h] # NoBody /\ Readable(t, g)
    /\ body' = [body EXCEPT ![t] = body[g]]
    /\ tgt' = [tgt EXCEPT ![t] = h]
    /\ Goto(t, "assign_drop")
    /\ UNCHANGED <<bodyVars, facetVars, guard, reg, buildVars, throws>>

\* operator=: the new body is retained before the old one is dropped, which
\* is what makes assignment to itself harmless
AssignCount(t, h, g) ==
    /\ At(t, "idle")
    /\ h \in Mine[t] /\ body[h] # NoBody /\ Readable(t, g)
    /\ Retain(body[g], t)
    /\ tgt' = [tgt EXCEPT ![t] = h]
    /\ Goto(t, "assign_drop")
    /\ UNCHANGED <<status, name, facetVars, guard, reg, buildVars, throws>>

AssignDrop(t) ==
    /\ At(t, "assign_drop")
    /\ Drop(t, tgt[t], "assign_store")
    /\ UNCHANGED <<name, facetVars, guard, tgt, buildVars, throws>>

\* what t has in flight becomes the body of its handle
Store(t, x) == body' = [body EXCEPT ![x] = body[t], ![t] = NoBody]

AssignStore(t) ==
    /\ At(t, "assign_store")
    /\ Store(t, tgt[t])
    /\ Goto(t, "idle")
    /\ UNCHANGED <<bodyVars, facetVars, guard, tgt, reg, buildVars, throws>>

\* locale::global(): the reference for the global is taken before the guard,
\* and the previous body's passes to the returned object h
SetGlobalCount(t, g, h) ==
    /\ At(t, "idle") /\ Readable(t, g) /\ Fresh(t, h)
    /\ Retain(body[g], t)
    /\ tgt' = [tgt EXCEPT ![t] = h]
    /\ Goto(t, "set_global")
    /\ UNCHANGED <<status, name, facetVars, guard, reg, buildVars, throws>>

SetGlobalSwap(t) ==
    /\ At(t, "set_global")
    /\ guard = NoThread
    /\ body' = [body EXCEPT ![Global] = body[t], ![tgt[t]] = body[Global],
                            ![t] = NoBody]
    /\ Goto(t, "idle")
    /\ UNCHANGED <<bodyVars, facetVars, guard, tgt, reg, buildVars, throws>>
-----------------------------------------------------------------------------
\* new __rw_locale (...): a body with the count of 1, for the handle h
Allocate(t, h, b, n) ==
    /\ At(t, "idle") /\ Fresh(t, h)
    /\ status[b] = "free"
    /\ status' = [status EXCEPT ![b] = "building"]
    /\ ref' = [ref EXCEPT ![b] = 1]
    /\ name' = [name EXCEPT ![b] = n]
    /\ body' = [body EXCEPT ![t] = b]
    /\ tgt' = [tgt EXCEPT ![t] = h]

\* locale::locale (const char*) of a name other than "C"'s
NamedAlloc(t, h, b, n) ==
    /\ Allocate(t, h, b, n)
    /\ n # OrdinaryName(CName)
    /\ todo' = [todo EXCEPT ![t] = StdSlots]
    /\ Goto(t, "obtain")
    /\ UNCHANGED <<facetVars, guard, reg, want, src, gift, throws>>

\* the pointers copied from other bodies, with the slots to be counted
Copy(t, p, from, f) ==
    /\ want' = [want EXCEPT ![t] = p]
    /\ todo' = [todo EXCEPT ![t] = {i \in Slots : p[i] # NoFacet}]
    /\ src' = [src EXCEPT ![t] = from]
    /\ gift' = [gift EXCEPT ![t] = f]

\* locale::locale (const locale&, Facet*), f a facet that g has not installed:
\* a new one of the program, constructed with refs r, or one that another of
\* the thread's locales holds.  A facet that replaces one of slot i, or (i a
\* program's slot that g does not use) is appended.
CombineFacetAlloc(t, h, g, b, f, i, r) ==
    /\ Allocate(t, h, b, NoName)
    /\ Readable(t, g) /\ slot[body[g]][i] # f
    /\ \/ /\ f \in Heap \ falive
          /\ falive' = falive \cup {f}
          /\ fref' = [fref EXCEPT ![f] = r]
          /\ extra' = [extra EXCEPT ![f] = r]
          /\ floc' = [floc EXCEPT ![f] = NoName]
          /\ Copy(t, [slot[body[g]] EXCEPT ![i] = f], {g}, f)
       \/ \E k \in Handles :
          /\ Readable(t, k) /\ r = 0 /\ slot[body[k]][i] = f
          /\ Copy(t, [slot[body[g]] EXCEPT ![i] = f], {g, k}, NoFacet)
          /\ UNCHANGED <<falive, fref, extra, floc>>
    /\ Goto(t, "copied")
    /\ UNCHANGED <<slot, guard, reg, throws>>

\* a mutant: the first argument's name
NameOfOne(one, other, cat) == name[one]

\* the name of a combination: by category, if both have one (p15)
CombinedName(one, other, cat) ==
    IF NoName \in {name[one], name[other]} THEN NoName
    ELSE [i \in StdSlots |-> IF i \in cat THEN name[other][i] ELSE name[one][i]]

\* locale::locale (const locale&, const locale&, category)
CombineCatAlloc(t, h, g, k, b, cat) ==
    /\ Readable(t, g) /\ Readable(t, k)
    /\ body[g] # body[k] /\ cat # {}
    /\ Allocate(t, h, b, CombinedName(body[g], body[k], cat))
    /\ Copy(t, [i \in Slots |-> IF i \in cat THEN slot[body[k]][i]
                                ELSE slot[body[g]][i]], {g, k}, NoFacet)
    /\ Goto(t, "copied")
    /\ UNCHANGED <<facetVars, guard, reg, throws>>

\* the array of the program's facets, before any reference is taken; a new
\* facet is then still the caller's, which deletes it
ArrayNew(t) ==
    /\ At(t, "copied")
    /\ Goto(t, "count")
    /\ UNCHANGED <<bodyVars, body, facetVars, guard, tgt, reg, buildVars, throws>>

Throw == throws < MaxThrows /\ throws' = throws + 1

\* the constructor does not complete, and new gives its storage back
FreeUnbuilt(t) ==
    /\ status' = [status EXCEPT ![body[t]] = "free"]
    /\ ref' = [ref EXCEPT ![body[t]] = 0]
    /\ name' = [name EXCEPT ![body[t]] = NoName]
    /\ body' = [body EXCEPT ![t] = NoBody]
    /\ want' = [want EXCEPT ![t] = [i \in Slots |-> NoFacet]]
    /\ todo' = [todo EXCEPT ![t] = {}]
    /\ src' = [src EXCEPT ![t] = {}]
    /\ gift' = [gift EXCEPT ![t] = NoFacet]
    /\ Goto(t, "idle")

ArrayThrow(t) ==
    /\ At(t, "copied")
    /\ \E i \in todo[t] : i \notin StdSlots
    /\ Throw
    /\ FreeUnbuilt(t)
    /\ falive' = falive \ {gift[t]}
    /\ IF gift[t] = NoFacet THEN UNCHANGED <<fref, extra>>
       ELSE /\ fref' = [fref EXCEPT ![gift[t]] = 0]
            /\ extra' = [extra EXCEPT ![gift[t]] = 0]
    /\ UNCHANGED <<slot, floc, guard, tgt, reg>>

\* body b takes its reference to f (_C_add_ref)
Hold(t, b, i, f) ==
    /\ slot' = [slot EXCEPT ![b][i] = f]
    /\ fref' = [fref EXCEPT ![f] = @ + 1]
    /\ todo' = [todo EXCEPT ![t] = @ \ {i}]

\* the slots are taken in their order
First(i, S) == i \in S /\ \A j \in S : i <= j
Last(i, S) == i \in S /\ \A j \in S : j <= i

CountSlot(t, i) ==
    /\ At(t, "count") /\ First(i, todo[t])
    /\ Hold(t, body[t], i, want[t][i])
    /\ gift' = [gift EXCEPT ![t] = IF @ = want[t][i] THEN NoFacet ELSE @]
    /\ UNCHANGED <<bodyVars, body, falive, floc, extra, guard, pc, tgt, reg,
                   want, src, throws>>

Counted(t) ==
    /\ At(t, "count") /\ todo[t] = {}
    /\ Goto(t, IF name[body[t]] = NoName THEN "publish" ELSE "name")
    /\ UNCHANGED <<bodyVars, body, facetVars, guard, tgt, reg, buildVars, throws>>

\* the combined name is stored after the facets are counted; when it does not
\* fit in _C_namebuf and there is no memory for it, the body goes and nothing
\* gives the references back
NameNew(t) ==
    /\ At(t, "name")
    /\ Goto(t, "publish")
    /\ UNCHANGED <<bodyVars, body, facetVars, guard, tgt, reg, buildVars, throws>>

NameThrow(t) ==
    /\ LongNames
    /\ At(t, "name")
    /\ Throw
    /\ slot' = [slot EXCEPT ![body[t]] = [i \in Slots |-> NoFacet]]
    /\ FreeUnbuilt(t)
    /\ UNCHANGED <<fref, falive, floc, extra, guard, tgt, reg>>

\* _C_get_slot_facet() and _C_add_ref(): the ordinary facet when the slot's
\* category is of "C" or has no byname form, a new byname facet otherwise;
\* its factory throws when it cannot build it, or there is no memory for it
ObtainOrdinary(t, i) ==
    /\ At(t, "obtain") /\ First(i, todo[t])
    /\ name[body[t]][i] = CName \/ i \in Plain
    /\ Hold(t, body[t], i, Ordinary[i])
    /\ UNCHANGED <<bodyVars, body, falive, floc, extra, guard, pc, tgt, reg,
                   want, src, gift, throws>>

ObtainByname(t, i, f) ==
    /\ At(t, "obtain") /\ First(i, todo[t])
    /\ ~(name[body[t]][i] = CName \/ i \in Plain)
    /\ f \in Heap \ falive
    /\ falive' = falive \cup {f}
    /\ floc' = [floc EXCEPT ![f] = name[body[t]][i]]
    /\ Hold(t, body[t], i, f)
    /\ UNCHANGED <<bodyVars, body, extra, guard, pc, tgt, reg, want, src, gift,
                   throws>>

ObtainThrow(t) ==
    /\ At(t, "obtain") /\ todo[t] # {}
    /\ Throw \/ (Heap \subseteq falive /\ UNCHANGED throws)
    /\ Goto(t, "unwind")
    /\ UNCHANGED <<bodyVars, body, facetVars, guard, tgt, reg, buildVars>>

Obtained(t) ==
    /\ At(t, "obtain") /\ todo[t] = {}
    /\ Goto(t, "publish")
    /\ UNCHANGED <<bodyVars, body, facetVars, guard, tgt, reg, buildVars, throws>>

\* the constructor returns the body to the handle
Publish(t) ==
    /\ At(t, "publish")
    /\ status' = [status EXCEPT ![body[t]] = "live"]
    /\ Store(t, tgt[t])
    /\ want' = [want EXCEPT ![t] = [i \in Slots |-> NoFacet]]
    /\ src' = [src EXCEPT ![t] = {}]
    /\ Goto(t, "idle")
    /\ UNCHANGED <<ref, name, facetVars, guard, tgt, reg, todo, gift, throws>>
-----------------------------------------------------------------------------
\* two mutants: a facet is deleted whoever else has it, or only uncounted
DeleteHeld(b, i) ==
    LET f == slot[b][i]
    IN  /\ slot' = [slot EXCEPT ![b][i] = NoFacet]
        /\ fref' = [fref EXCEPT ![f] = @ - 1]
        /\ falive' = falive \ (Heap \cap {f})

\* _C_remove_ref(): b gives up its reference in slot i, and whoever takes the
\* count to zero deletes the facet unless it is a static of its factory
Release(b, i) ==
    LET f == slot[b][i]
    IN  /\ slot' = [slot EXCEPT ![b][i] = NoFacet]
        /\ fref' = [fref EXCEPT ![f] = @ - 1]
        /\ falive' = IF fref[f] = 1 /\ f \in Heap THEN falive \ {f} ELSE falive

Held(b) == {i \in Slots : slot[b][i] # NoFacet}

\* the destructor of a body walks its slots up, the named constructor whose
\* factory threw walks them down
DeleteSlot(t, i) ==
    /\ At(t, "delete") /\ First(i, Held(reg[t]))
    /\ Release(reg[t], i)
    /\ UNCHANGED <<bodyVars, body, floc, extra, guard, pc, tgt, reg, buildVars,
                   throws>>

DeleteBody(t) ==
    /\ At(t, "delete") /\ Held(reg[t]) = {}
    /\ status' = [status EXCEPT ![reg[t]] = "free"]
    /\ name' = [name EXCEPT ![reg[t]] = NoName]
    /\ reg' = [reg EXCEPT ![t] = NoBody]
    /\ Goto(t, IF body[t] = NoBody THEN "idle" ELSE "assign_store")
    /\ UNCHANGED <<ref, body, facetVars, guard, tgt, buildVars, throws>>

\* a mutant: the references taken before the throw are forgotten
UnwindNothing(t, i) ==
    /\ At(t, "unwind") /\ Last(i, Held(body[t]))
    /\ slot' = [slot EXCEPT ![body[t]][i] = NoFacet]
    /\ UNCHANGED <<bodyVars, body, fref, falive, floc, extra, guard, pc, tgt,
                   reg, buildVars, throws>>

UnwindSlot(t, i) ==
    /\ At(t, "unwind") /\ Last(i, Held(body[t]))
    /\ Release(body[t], i)
    /\ UNCHANGED <<bodyVars, body, floc, extra, guard, pc, tgt, reg, buildVars,
                   throws>>

UnwindBody(t) ==
    /\ At(t, "unwind") /\ Held(body[t]) = {}
    /\ FreeUnbuilt(t)
    /\ UNCHANGED <<facetVars, guard, tgt, reg, throws>>
-----------------------------------------------------------------------------
\* an operation t starts
Start(t) ==
    \/ \E h \in Mine[t] : DefaultCtor(t, h) \/ Dtor(t, h)
    \/ \E h \in Mine[t], g \in Mine[t] \cup {ClassicObj} :
          \/ CopyCtor(t, h, g) \/ AssignCount(t, h, g) \/ SetGlobalCount(t, g, h)
    \/ \E h \in Mine[t], b \in Bodies :
          \/ \E n \in FullNames : NamedAlloc(t, h, b, n)
          \/ \E g \in Mine[t] \cup {ClassicObj}, f \in Facets, i \in Slots, r \in 0 .. 1 :
                CombineFacetAlloc(t, h, g, b, f, i, r)
          \/ \E g, k \in Mine[t] \cup {ClassicObj}, cat \in SUBSET StdSlots :
                CombineCatAlloc(t, h, g, k, b, cat)

\* the next step of the operation t is in
Continue(t) ==
    \/ GlobalRead(t) \/ GlobalCount(t) \/ AssignDrop(t) \/ AssignStore(t)
    \/ SetGlobalSwap(t) \/ ArrayNew(t) \/ Counted(t) \/ NameNew(t)
    \/ Obtained(t) \/ Publish(t) \/ DeleteBody(t) \/ UnwindBody(t)
    \/ \E i \in Slots :
          \/ CountSlot(t, i) \/ DeleteSlot(t, i) \/ UnwindSlot(t, i)
          \/ \E f \in Heap : ObtainByname(t, i, f)
    \/ \E i \in StdSlots : ObtainOrdinary(t, i)

\* an exception
Fail(t) == ArrayThrow(t) \/ NameThrow(t) \/ ObtainThrow(t)

Next == \E t \in Threads : Start(t) \/ Continue(t) \/ Fail(t)

Spec == Init /\ [][Next]_vars
-----------------------------------------------------------------------------
TypeOK ==
    /\ status \in [Bodies -> {"free", "building", "live", "dying"}]
    /\ ref \in [Bodies -> Nat]
    /\ slot \in [Bodies -> [Slots -> Facets \cup {NoFacet}]]
    /\ name \in [Bodies -> FullNames \cup {NoName}]
    /\ body \in [Owners -> Bodies \cup {NoBody}]
    /\ fref \in [Facets -> Nat]
    /\ falive \in SUBSET Facets
    /\ floc \in [Facets -> Names \cup {NoName}]
    /\ extra \in [Facets -> Nat]
    /\ guard \in Threads \cup {NoThread}
    /\ pc \in [Threads -> Labels]
    /\ tgt \in [Threads -> Handles \cup {ClassicObj}]
    /\ reg \in [Threads -> Bodies \cup {NoBody}]
    /\ want \in [Threads -> [Slots -> Facets \cup {NoFacet}]]
    /\ todo \in [Threads -> SUBSET Slots]
    /\ src \in [Threads -> SUBSET (Handles \cup {ClassicObj})]
    /\ gift \in [Threads -> Facets \cup {NoFacet}]
    /\ throws \in 0 .. MaxThrows

Building == {"copied", "count", "obtain", "name", "publish", "unwind"}

\* The count of a body is the number of its references, and a body that has
\* a reference is not freed under it: not by the last handle of a thread that
\* races locale::global(), not by an assignment of a handle to itself.
CountExact ==
    \A b \in Bodies : ref[b] = Cardinality({x \in Owners : body[x] = b})

NoDangling ==
    /\ \A x \in Owners : body[x] # NoBody =>
          status[body[x]] = IF x \in Threads /\ pc[x] \in Building
                            THEN "building" ELSE "live"
    /\ \A t \in Threads : At(t, "global_count") => status[reg[t]] = "live"

\* Storage that is neither free nor live is one thread's to finish: no body
\* is deleted twice, none is left half built or half destroyed.
Custody ==
    /\ \A b \in Bodies : status[b] \in {"building", "dying"} =>
          \E t \in Threads : pc[t] # "idle" /\ b \in {body[t], reg[t]}
    /\ \A t, u \in Threads : At(t, "delete") /\ At(u, "delete") /\ t # u =>
          reg[t] # reg[u]
    /\ \A b \in Bodies : status[b] = "live" =>
          \E x \in Owners : body[x] = b

\* A thread that counts itself in does so before anyone can give the body's
\* last reference back, and one thread deletes a body: whoever races
\* locale::global(), the destructor and the assignment, of a handle to itself
\* too (locale_body.cpp:506-514, locale_core.cpp:60-69).
ReferencesRight == CountExact /\ NoDangling /\ Custody

\* A facet that a body has, or that a combination has read out of a body it
\* does not hold and is about to count, exists (locale_combine.cpp:232).
FacetsLive ==
    /\ \A b \in Bodies, i \in Slots : slot[b][i] # NoFacet => slot[b][i] \in falive
    /\ \A t \in Threads : \A i \in todo[t] :
          pc[t] \in {"copied", "count"} => want[t][i] \in falive

\* The count of a facet is that of the bodies that have it and of the
\* references given out besides.
FacetCountExact ==
    \A f \in Facets :
        fref[f] = extra[f] + Cardinality({p \in Bodies \X Slots :
                                             slot[p[1]][p[2]] = f})

\* A facet on the heap dies with the last body that has it: who else has a
\* reference to one that is alive is the program, to a facet of its own, or a
\* call that is yet to count it.  "A library-made named facet dies with the
\* last locale that holds it" (ref-locale.md:458).
FacetsDie ==
    \A f \in Heap \cap falive :
        \/ \E b \in Bodies, i \in Slots : slot[b][i] = f
        \/ floc[f] = NoName /\ (extra[f] > 0 \/ \E t \in Threads : gift[t] = f)

\* When a factory throws in the middle of a named body, or the array of the
\* program's facets cannot be had for a combination, the facets obtained are
\* given back, those and no others (locale_body.cpp:359-373).  When it is the
\* memory for a combination's name that cannot be had they are not
\* (locale_combine.cpp:268): with LongNames this does not hold.
FacetsRight == TypeOK /\ FacetCountExact /\ FacetsDie

\* The name of a locale tells its facets, which is what operator== relies on
\* when it compares names: a named body has no facet of the program, and its
\* standard facets are those of the locale its name gives for the category.
NameTells ==
    \A b \in Bodies : status[b] = "live" /\ name[b] # NoName =>
        /\ \A i \in Slots \ StdSlots : slot[b][i] = NoFacet
        /\ \A i \in StdSlots :
              floc[slot[b][i]] = IF i \in Plain THEN CName ELSE name[b][i]

\* The value of a locale object.  Assignment takes effect when the new body
\* is retained: until the old one is gone the handle is its thread's alone.
Objects == Handles \cup {ClassicObj, Global}

Assigning(t, x) ==
    tgt[t] = x /\ body[t] # NoBody /\ pc[t] \in {"assign_drop", "assign_store", "delete"}

BodyOf(x) ==
    IF \E t \in Threads : Assigning(t, x)
    THEN body[CHOOSE t \in Threads : Assigning(t, x)] ELSE body[x]

ValueOf(x) ==
    IF BodyOf(x) = NoBody THEN NoBody
    ELSE [name |-> name[BodyOf(x)], facets |-> slot[BodyOf(x)]]

ObjectValues == [x \in Objects |-> ValueOf(x)]

Values == INSTANCE LocaleValues WITH None <- NoBody, val <- ObjectValues

\* Locale objects behave as values, whatever bodies they share and whichever
\* thread has the global locale between its fingers: only an operation on an
\* object changes what it holds, and the global locale changes in one step
\* for all of them.
LocalesAreValues == Values!Spec
=============================================================================
