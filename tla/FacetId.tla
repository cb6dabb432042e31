------------------------------ MODULE FacetId -------------------------------
(***************************************************************************)
(* The ids of facets' types (__rw_facet_id::_C_init(), src/facet.cpp): an   *)
(* id is generated on the type's first use, which threads may race for, and *)
(* a facet is installed in a locale and looked for there under its id.  The *)
(* id is read without the lock, with acquire, and written under it, with    *)
(* release; a thread that reads before it is published reads zero.          *)
(***************************************************************************)
EXTENDS Naturals

CONSTANTS Threads, NoThread,
          Types,       \* of facets that are not the library's
          LastType     \* __rw_facet::_C_last_type: ids up to it are the library's

\* what the constants are; the module that gives them values assumes it
FacetIdAssumption == NoThread \notin Threads /\ LastType \in Nat

VARIABLES
    id,          \* _C_id of each type, zero at first
    gen,         \* __rw_id_gen
    guard,       \* the holder of the lock of all ids
    at,          \* where the thread is: [type, step]
    used         \* the ids that calls have returned: <<type, id>>

vars == <<id, gen, guard, at, used>>

Nowhere == [type |-> "none", step |-> "idle"]

Init ==
    /\ id = [f \in Types |-> 0] /\ gen = LastType + 1 /\ guard = NoThread
    /\ at = [t \in Threads |-> Nowhere] /\ used = {}
-----------------------------------------------------------------------------
Goto(t, f, l) == at' = [at EXCEPT ![t] = [type |-> f, step |-> l]]
Return(t, f, n) == at' = [at EXCEPT ![t] = Nowhere] /\ used' = used \cup {<<f, n>>}

\* the acquire load
TestSet(t, f) ==
    /\ at[t].step = "idle" /\ id[f] # 0
    /\ Return(t, f, id[f])
    /\ UNCHANGED <<id, gen, guard>>
TestUnset(t, f) ==
    /\ at[t].step = "idle" /\ id[f] = 0
    /\ Goto(t, f, "lock")
    /\ UNCHANGED <<id, gen, guard, used>>

Lock(t, f) ==
    /\ at[t] = [type |-> f, step |-> "lock"] /\ guard = NoThread
    /\ guard' = t
    /\ Goto(t, f, "locked")
    /\ UNCHANGED <<id, gen, used>>

\* somebody else was first
Found(t, f) ==
    /\ at[t] = [type |-> f, step |-> "locked"] /\ id[f] # 0
    /\ guard' = NoThread
    /\ Return(t, f, id[f])
    /\ UNCHANGED <<id, gen>>

\* a mutant: the id is not read again under the lock, as it once was not
GenerateAgain(t, f) ==
    /\ at[t] = [type |-> f, step |-> "locked"]
    /\ gen' = gen + 1
    /\ Goto(t, f, "store")
    /\ UNCHANGED <<id, guard, used>>

Generate(t, f) ==
    /\ at[t] = [type |-> f, step |-> "locked"] /\ id[f] = 0
    /\ gen' = gen + 1
    /\ Goto(t, f, "store")
    /\ UNCHANGED <<id, guard, used>>

\* the release store, and the end of the guard
Store(t, f) ==
    /\ at[t] = [type |-> f, step |-> "store"]
    /\ id' = [id EXCEPT ![f] = gen]
    /\ guard' = NoThread
    /\ Return(t, f, gen)
    /\ UNCHANGED gen

Next ==
    \E t \in Threads, f \in Types :
        TestSet(t, f) \/ TestUnset(t, f) \/ Lock(t, f) \/ Found(t, f) \/ Generate(t, f) \/ Store(t, f)

Spec == Init /\ [][Next]_vars
-----------------------------------------------------------------------------
(* Every use of a type, however many threads race for the first, is under the *)
(* same id, which is no other type's and none of the library's: "without the  *)
(* lock each generated an id of its own and the last store won"               *)
(* (facet.cpp:387).                                                          *)
IdsRight ==
    \A x, y \in used :
        /\ x[2] > LastType
        /\ (x[1] = y[1]) = (x[2] = y[2])
=============================================================================
