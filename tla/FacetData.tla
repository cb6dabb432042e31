----------------------------- MODULE FacetData -----------------------------
(***************************************************************************)
(* The data of a facet on first use: __rw_facet::_C_data() and             *)
(* _C_get_data(), which map the locale database (src/facet.cpp), and the   *)
(* builders that make the data from the C library when no database has it  *)
(* (src/punct.cpp, src/time_put.cpp).                                      *)
(*                                                                         *)
(* The two members _C_impdata and _C_impsize are written under two locks:  *)
(* the facet's own while mapping, the process-wide one of the C locale     *)
(* while building.  Readers take neither, so a value may be seen late: each *)
(* location keeps its history, a thread its view of how far it has seen    *)
(* each one, and a load returns any value not older than that.  An acquire *)
(* load joins the view a release store left with the value.                *)
(***************************************************************************)
EXTENDS Naturals, Sequences

CONSTANTS Threads, NoThread,
          Null, Mapped,   \* pointers: none, and the database mapped
          MaxThrows       \* bound: builders there was no memory for

ASSUME FacetDataAssumption ==
    /\ NoThread \notin Threads
    /\ Null # Mapped /\ {Null, Mapped} \cap Threads = {}
    /\ MaxThrows \in Nat

\* the members, and the bytes that _C_impdata points to
Locs == {"size", "data", "content"}

\* the pointer to what thread t built
Built(t) == t

\* the values of _C_impsize: not set, the size of a mapping, and size_t (-1)
Sizes == {"unset", "size", "none"}

VARIABLES
    facet,     \* [database, pid]: whether its locale has a database, and
               \* whether it was obtained through a locale; never changes
    history,   \* of each location, the values stored: [val, view]
    view,      \* view[t][x]: the first entry of x's history t may still read
    facetLock, clocaleLock,          \* the holders of the two mutexes
    facetView, clocaleView,          \* what their last release left
    pc,
    call,      \* which call of _C_data() t is in: the first, the second
               \* under the lock of the C locale, or the recursive one
    ptr,       \* what that call returns
    made,      \* who built data so far
    throws

locks == <<facetLock, clocaleLock, facetView, clocaleView>>
vars == <<facet, history, view, locks, pc, call, ptr, made, throws>>

Calls == {"first", "second", "last"}
Labels == {"idle", "size", "size_again", "lock", "size_locked", "map",
           "map_size", "data", "returned", "clocale", "build", "built",
           "built_size", "done"}

NoView == [x \in Locs |-> 1]

Init ==
    /\ facet \in [database : BOOLEAN, pid : BOOLEAN]
    /\ history = [x \in Locs |-> <<[val |-> IF x = "size" THEN "unset" ELSE Null,
                                    view |-> NoView]>>]
    /\ view = [t \in Threads |-> NoView]
    /\ facetLock = NoThread /\ clocaleLock = NoThread
    /\ facetView = NoView /\ clocaleView = NoView
    /\ pc = [t \in Threads |-> "idle"]
    /\ call = [t \in Threads |-> "first"]
    /\ ptr = [t \in Threads |-> Null]
    /\ made = {}
    /\ throws = 0
-----------------------------------------------------------------------------
At(t, l) == pc[t] = l
Goto(t, l) == pc' = [pc EXCEPT ![t] = l]

Join(v, w) == [x \in Locs |-> IF v[x] < w[x] THEN w[x] ELSE v[x]]

\* an acquire load of x by t that reads entry i
Acquire(t, x, i) ==
    /\ i \in view[t][x] .. Len(history[x])
    /\ view' = [view EXCEPT ![t] =
                   [Join(@, history[x][i].view) EXCEPT ![x] = i]]

\* a store of v to x by t: the entry carries t's view if it is a release
Entry(t, x, v, released) ==
    LET n == Len(history[x]) + 1
    IN  [val |-> v,
         view |-> [(IF released THEN view[t] ELSE NoView) EXCEPT ![x] = n]]

Put(t, x, v, released) ==
    /\ history' = [history EXCEPT ![x] = Append(@, Entry(t, x, v, released))]
    /\ view' = [view EXCEPT ![t][x] = Len(history[x]) + 1]

\* a mutant: a relaxed load
Relaxed(t, x, i) ==
    /\ i \in view[t][x] .. Len(history[x])
    /\ view' = [view EXCEPT ![t][x] = i]
-----------------------------------------------------------------------------
\* a member function of the facet asks for its data
Call(t) ==
    /\ At(t, "idle")
    /\ call' = [call EXCEPT ![t] = "first"]
    /\ Goto(t, "size")
    /\ UNCHANGED <<facet, history, view, locks, ptr, made, throws>>

\* _C_data(): a size that is set means the pointer is
LoadSize(t, i) ==
    /\ At(t, "size")
    /\ Acquire(t, "size", i)
    /\ Goto(t, IF history["size"][i].val # "unset" THEN "data" ELSE "size_again")
    /\ UNCHANGED <<facet, history, locks, call, ptr, made, throws>>

\* _C_get_data() reads it once more, and without a pid goes no further
LoadSizeAgain(t, i) ==
    /\ At(t, "size_again")
    /\ Acquire(t, "size", i)
    /\ Goto(t, IF history["size"][i].val # "unset" \/ ~facet.pid THEN "data" ELSE "lock")
    /\ UNCHANGED <<facet, history, locks, call, ptr, made, throws>>

LockFacet(t) ==
    /\ At(t, "lock")
    /\ facetLock = NoThread
    /\ facetLock' = t
    /\ view' = [view EXCEPT ![t] = Join(@, facetView)]
    /\ Goto(t, "size_locked")
    /\ UNCHANGED <<facet, history, clocaleLock, facetView, clocaleView, call, ptr,
                   made, throws>>

LoadSizeLocked(t, i) ==
    /\ At(t, "size_locked")
    /\ Acquire(t, "size", i)
    /\ Goto(t, IF history["size"][i].val # "unset" THEN "data" ELSE "map")
    /\ UNCHANGED <<facet, history, locks, call, ptr, made, throws>>

\* a mutant
RelaxedData(t, i) ==
    /\ At(t, "data")
    /\ Relaxed(t, "data", i)
    /\ ptr' = [ptr EXCEPT ![t] = history["data"][i].val]
    /\ IF facetLock = t
       THEN facetLock' = NoThread /\ facetView' = view'[t]
       ELSE UNCHANGED <<facetLock, facetView>>
    /\ Goto(t, "returned")
    /\ UNCHANGED <<facet, history, clocaleLock, clocaleView, call, made, throws>>

\* _C_impdata is loaded, and the facet's lock, if held, released
LoadData(t, i) ==
    /\ At(t, "data")
    /\ Acquire(t, "data", i)
    /\ ptr' = [ptr EXCEPT ![t] = history["data"][i].val]
    /\ IF facetLock = t
       THEN facetLock' = NoThread /\ facetView' = view'[t]
       ELSE UNCHANGED <<facetLock, facetView>>
    /\ Goto(t, "returned")
    /\ UNCHANGED <<facet, history, clocaleLock, clocaleView, call, made, throws>>

\* the pointer to the mapping is a plain store, published by the size's
MapData(t) ==
    /\ At(t, "map")
    /\ IF facet.database THEN Put(t, "data", Mapped, FALSE) ELSE UNCHANGED <<history, view>>
    /\ Goto(t, "map_size")
    /\ UNCHANGED <<facet, locks, call, ptr, made, throws>>

\* with no database the size is set nevertheless, against further attempts
MapSize(t) ==
    /\ At(t, "map_size")
    /\ Put(t, "size", IF facet.database THEN "size" ELSE "none", TRUE)
    /\ facetLock' = NoThread
    /\ facetView' = view'[t]
    /\ ptr' = [ptr EXCEPT ![t] = IF facet.database THEN Mapped ELSE Null]
    /\ Goto(t, "returned")
    /\ UNCHANGED <<facet, clocaleLock, clocaleView, call, made, throws>>

\* the data is there, or is to be built; what the second call finds another
\* thread has built while this one waited, and the caller is called again
Returned(t) ==
    /\ At(t, "returned")
    /\ IF ptr[t] # Null
       THEN IF call[t] = "second"
            THEN Goto(t, "size") /\ call' = [call EXCEPT ![t] = "last"]
            ELSE Goto(t, "done") /\ UNCHANGED call
       ELSE /\ Goto(t, IF call[t] = "second" THEN "build" ELSE "clocale")
            /\ UNCHANGED call
    /\ UNCHANGED <<facet, history, view, locks, ptr, made, throws>>

\* __rw_setlocale: the builders' lock, which is not recursive
LockCLocale(t) ==
    /\ At(t, "clocale")
    /\ clocaleLock = NoThread
    /\ clocaleLock' = t
    /\ view' = [view EXCEPT ![t] = Join(@, clocaleView)]
    /\ call' = [call EXCEPT ![t] = "second"]
    /\ Goto(t, "size")
    /\ UNCHANGED <<facet, history, facetLock, facetView, clocaleView, ptr, made, throws>>

\* the structure is filled in
Build(t) ==
    /\ At(t, "build")
    /\ Put(t, "content", Built(t), FALSE)
    /\ made' = made \cup {t}
    /\ Goto(t, "built")
    /\ UNCHANGED <<facet, locks, call, ptr, throws>>

UnlockCLocale(t) ==
    /\ clocaleLock' = NoThread
    /\ clocaleView' = view[t]

\* there is no memory for it: the destructor of __rw_setlocale unlocks
BuildThrow(t) ==
    /\ At(t, "build")
    /\ throws < MaxThrows /\ throws' = throws + 1
    /\ UnlockCLocale(t)
    /\ Goto(t, "idle")
    /\ UNCHANGED <<facet, history, view, facetLock, facetView, call, ptr, made>>

BuiltData(t) ==
    /\ At(t, "built")
    /\ Put(t, "data", Built(t), TRUE)
    /\ Goto(t, "built_size")
    /\ UNCHANGED <<facet, locks, call, ptr, made, throws>>

\* and the caller is called again
BuiltSize(t) ==
    /\ At(t, "built_size")
    /\ Put(t, "size", "none", TRUE)
    /\ call' = [call EXCEPT ![t] = "last"]
    /\ Goto(t, "size")
    /\ UNCHANGED <<facet, locks, ptr, made, throws>>

\* a mutant: the builder leaves the lock taken
KeepLock(t) ==
    /\ At(t, "done")
    /\ IF clocaleLock = t /\ t \notin made THEN UnlockCLocale(t)
       ELSE UNCHANGED <<clocaleLock, clocaleView>>
    /\ Goto(t, "idle")
    /\ UNCHANGED <<facet, history, view, facetLock, facetView, call, ptr, made, throws>>

\* the caller has used the data and returns
Done(t) ==
    /\ At(t, "done")
    /\ IF clocaleLock = t THEN UnlockCLocale(t) ELSE UNCHANGED <<clocaleLock, clocaleView>>
    /\ Goto(t, "idle")
    /\ UNCHANGED <<facet, history, view, facetLock, facetView, call, ptr, made, throws>>

Step(t) ==
    \/ LockFacet(t) \/ MapData(t) \/ MapSize(t) \/ Returned(t) \/ LockCLocale(t)
    \/ Build(t) \/ BuildThrow(t) \/ BuiltData(t) \/ BuiltSize(t) \/ Done(t)
    \/ \E i \in 1 .. Len(history["size"]) :
          LoadSize(t, i) \/ LoadSizeAgain(t, i) \/ LoadSizeLocked(t, i)
    \/ \E i \in 1 .. Len(history["data"]) : LoadData(t, i)

Next == \E t \in Threads : Call(t) \/ Step(t)

Spec == Init /\ [][Next]_vars
LiveSpec == Spec /\ \A t \in Threads : SF_vars(Step(t))
-----------------------------------------------------------------------------
TypeOK ==
    /\ facet \in [database : BOOLEAN, pid : BOOLEAN]
    /\ \A i \in 1 .. Len(history["size"]) : history["size"][i].val \in Sizes
    /\ \A x \in Locs : \A i \in 1 .. Len(history[x]) :
          /\ history[x][i].view \in [Locs -> Nat \ {0}]
          /\ history[x][i].view[x] <= Len(history[x])
    /\ \A t \in Threads, x \in Locs : view[t][x] \in 1 .. Len(history[x])
    /\ facetLock \in Threads \cup {NoThread}
    /\ clocaleLock \in Threads \cup {NoThread}
    /\ pc \in [Threads -> Labels]
    /\ call \in [Threads -> Calls]
    /\ ptr \in [Threads -> {Null, Mapped} \cup {Built(t) : t \in Threads}]
    /\ made \subseteq Threads
    /\ throws \in 0 .. MaxThrows

\* A thread that uses data another thread built sees all of it, though it
\* took no lock.
ContentSeen ==
    \A t \in Threads : At(t, "done") /\ ptr[t] \in {Built(u) : u \in Threads} =>
        history["content"][view[t]["content"]].val = ptr[t]

\* Of the threads that race the first use one builds, or one maps, and all
\* use the same data for good: a pointer into it, once returned by a member
\* function, stays what the others return.
OneData ==
    /\ Len(history["data"]) <= 2
    /\ Len(history["content"]) <= 2
    /\ \A t \in Threads : At(t, "done") =>
          ptr[t] = history["data"][Len(history["data"])].val

\* With a database nobody is told that there is none, and builds from the C
\* library data of another locale or takes the lock of the C locale.
DatabaseFound == facet.database /\ facet.pid => \A t \in Threads :
    pc[t] # "clocale" /\ made = {}

\* However the reads outside the locks interleave with the one that maps or
\* builds, there is one outcome, and all of it is seen (facet.cpp:159-183,
\* punct.cpp:125-137).
DataRight == TypeOK /\ OneData /\ DatabaseFound /\ ContentSeen

\* A call ends, whoever throws while others wait for it: the recursive call
\* made with the lock of the C locale held finds the data and does not wait
\* for its own lock (punct.cpp:233).
CallsEnd == \A t \in Threads : ~At(t, "idle") ~> At(t, "idle")
=============================================================================
