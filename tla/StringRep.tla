------------------------------ MODULE StringRep -----------------------------
(***************************************************************************)
(* basic_string's representation (include/string, include/string.cc,       *)
(* include/rw/_strref.h): string objects (handles) share counted bodies,   *)
(* copy them before they write, and stop sharing a body once a reference   *)
(* into it was given out.  Threads call const members of the same object   *)
(* and any members of different objects.                                   *)
(*                                                                         *)
(* A body's count is one less than its handles, and -1 when it may not be  *)
(* shared.  The null body of empty strings is static and not counted.      *)
(***************************************************************************)
EXTENDS Integers, FiniteSets

CONSTANTS Threads, Handles, Bodies,
          NullBody,         \* _C_nullref()
          None,             \* no body: the handle is not constructed
          Vals, Empty       \* contents

ASSUME StringRepAssumption ==
    /\ NullBody \notin Bodies /\ None \notin Bodies \cup {NullBody} \cup Vals
    /\ Empty \in Vals
    /\ IsFiniteSet(Threads) /\ IsFiniteSet(Handles)

VARIABLES
    data,       \* of each handle, the body _C_data is in
    live,       \* the bodies allocated
    refs,       \* _C_refs of each body
    content,    \* of each body
    given,      \* of each handle, the body a valid reference or iterator is in
    pc,
    call,       \* of each thread, its call: {} or {[op, h, g, v]}
    target,     \* the body that the thread's call moves its handle to
    victim      \* the body it is to free

bodyVars == <<live, refs, content>>
vars == <<data, bodyVars, given, pc, call, target, victim>>

\* the strings' values, and the calls with whether they have taken effect
Value == [h \in Handles |-> IF data[h] = None THEN None
                            ELSE IF data[h] = NullBody THEN Empty
                            ELSE content[data[h]]]
Done(t, c) == \/ pc[t] \in {"end", "free"}
              \/ c.op = "begin" /\ pc[t] = "unref"
              \/ c.op = "copy" /\ pc[t] = "inc"
Progress == [t \in Threads |-> {[op |-> c.op, h |-> c.h, g |-> c.g, v |-> c.v,
                                 done |-> Done(t, c)] : c \in call[t]}]

V == INSTANCE StringValues WITH value <- Value, call <- Progress

Labels == {"idle", "test", "settest", "inc", "alloc", "unlink", "free", "unref",
           "inplace", "swap", "write", "end"}

Init ==
    /\ data = [h \in Handles |-> None]
    /\ live = {} /\ refs = [b \in Bodies |-> 0] /\ content = [b \in Bodies |-> Empty]
    /\ given = [h \in Handles |-> None]
    /\ pc = [t \in Threads |-> "idle"]
    /\ call = [t \in Threads |-> {}]
    /\ target = [t \in Threads |-> None] /\ victim = [t \in Threads |-> None]
-----------------------------------------------------------------------------
At(t, l) == pc[t] = l
Goto(t, l) == pc' = [pc EXCEPT ![t] = l]
Call(t) == CHOOSE c \in call[t] : TRUE
Mine(t) == data[Call(t).h]
Other(t) == data[Call(t).g]

\* two mutants: a body that may not be shared is, and one more handle is not seen
GetRefOfAll(b) == IF b = NullBody THEN 1 ELSE IF refs[b] = -1 THEN 1 ELSE 1 + refs[b]
GetRefOfTwo(b) == IF b = NullBody THEN 1 ELSE IF refs[b] = 1 THEN 1 ELSE 1 + refs[b]

GetRef(b) == IF b = NullBody THEN 1 ELSE 1 + refs[b]
Shared(b) == GetRef(b) > 1
Content(b) == IF b = NullBody THEN Empty ELSE content[b]

\* what the call's new body contains
NewContent(t) ==
    LET c == Call(t)
    IN  IF c.op \in {"copy", "assign"} THEN Content(Other(t))
        ELSE IF c.op \in {"begin", "reserve"} THEN Content(Mine(t)) ELSE c.v

\* a call begins; it ends the validity of references, but for the accessors
Start(t, c) ==
    /\ At(t, "idle")
    /\ c.op \in {"new", "copy"} <=> data[c.h] = None
    /\ c.op \in {"copy", "assign", "swap"} => data[c.g] # None
    /\ c.op = "write" => /\ given[c.h] # None /\ content[given[c.h]] # Empty
                         /\ c.v # Empty
    /\ \A u \in Threads : \A d \in call[u] :
          /\ V!Changed(c) \cap (V!Changed(d) \cup V!ReadOnly(d)) = {}
          /\ V!Changed(d) \cap V!ReadOnly(c) = {}
    /\ call' = [call EXCEPT ![t] = {c}]
    /\ given' = [h \in Handles |-> IF h \in V!Changed(c) /\ c.op \notin {"begin", "write"}
                                   THEN None ELSE given[h]]
    /\ Goto(t, CASE c.op \in {"copy", "assign", "begin", "reserve"} -> "test"
                 [] c.op = "set" -> "settest"
                 [] c.op = "new" -> "alloc"
                 [] c.op = "dtor" -> "unlink"
                 [] OTHER -> c.op)
    /\ UNCHANGED <<data, bodyVars, target, victim>>

\* the copy constructor: the body is shared if it may be, and copied if not
TestCopy(t) ==
    /\ At(t, "test") /\ Call(t).op = "copy"
    /\ IF GetRef(Other(t)) > 0
       THEN data' = [data EXCEPT ![Call(t).h] = Other(t)] /\ Goto(t, "inc")
       ELSE Goto(t, "alloc") /\ UNCHANGED data
    /\ UNCHANGED <<bodyVars, given, call, target, victim>>

TestAssign(t) ==
    /\ At(t, "test") /\ Call(t).op = "assign"
    /\ Goto(t, IF GetRef(Other(t)) > 0 THEN "inc"
               ELSE IF Call(t).h # Call(t).g THEN "settest" ELSE "end")
    /\ UNCHANGED <<data, bodyVars, given, call, target, victim>>

\* begin() and the accessors: a shared body is cloned first
TestBegin(t) ==
    /\ At(t, "test") /\ Call(t).op = "begin"
    /\ Goto(t, IF Shared(Mine(t)) THEN "alloc" ELSE "unref")
    /\ UNCHANGED <<data, bodyVars, given, call, target, victim>>

\* reserve(): the body's capacity is enough, or a clone gets more
TestReserve(t) ==
    /\ At(t, "test") /\ Call(t).op = "reserve"
    /\ Goto(t, "alloc") \/ Goto(t, "end")
    /\ UNCHANGED <<data, bodyVars, given, call, target, victim>>

\* replace(), append(), push_back(), which leave some value, and clear(): in
\* place, if the body is not shared and has room
TestSet(t) ==
    /\ At(t, "settest")
    /\ IF NewContent(t) # Empty
       THEN /\ \/ Goto(t, "alloc")
               \/ ~Shared(Mine(t)) /\ Mine(t) # NullBody /\ Goto(t, "inplace")
            /\ UNCHANGED target
       ELSE IF Shared(Mine(t))
            THEN Goto(t, "unlink") /\ target' = [target EXCEPT ![t] = NullBody]
            ELSE Goto(t, "inplace") /\ UNCHANGED target
    /\ UNCHANGED <<data, bodyVars, given, call, victim>>

InPlace(t) ==
    /\ At(t, "inplace")
    /\ content' = [b \in Bodies |-> IF b = Mine(t) THEN NewContent(t) ELSE content[b]]
    /\ Goto(t, "end")
    /\ UNCHANGED <<data, live, refs, given, call, target, victim>>

Inc(t) ==
    /\ At(t, "inc")
    /\ LET b == Other(t)
       IN  /\ refs' = IF b = NullBody THEN refs ELSE [refs EXCEPT ![b] = @ + 1]
           /\ target' = [target EXCEPT ![t] = IF Call(t).op = "copy" THEN None ELSE b]
    /\ Goto(t, IF Call(t).op = "copy" THEN "end" ELSE "unlink")
    /\ UNCHANGED <<data, live, content, given, call, victim>>

\* _C_get_rep() and the copy of the characters; no room needed, no body
Alloc(t) ==
    /\ At(t, "alloc")
    /\ \E b \in {NullBody} \cup (Bodies \ live) :
          /\ b = NullBody <=> NewContent(t) = Empty /\ Call(t).op # "reserve"
          /\ IF b = NullBody THEN UNCHANGED bodyVars
             ELSE /\ live' = live \cup {b}
                  /\ refs' = [refs EXCEPT ![b] = 0]
                  /\ content' = [content EXCEPT ![b] = NewContent(t)]
          /\ IF Call(t).op \in {"new", "copy"}
             THEN /\ data' = [data EXCEPT ![Call(t).h] = b]
                  /\ Goto(t, "end") /\ UNCHANGED target
             ELSE /\ target' = [target EXCEPT ![t] = b]
                  /\ Goto(t, "unlink") /\ UNCHANGED data
    /\ UNCHANGED <<given, call, victim>>

\* bad_alloc or length_error
AllocThrow(t) ==
    /\ At(t, "alloc")
    /\ Goto(t, "end")
    /\ UNCHANGED <<data, bodyVars, given, call, target, victim>>

\* _C_unlink(): the decrement says whether the body is to be freed; the
\* handle, which is the thread's alone, gets its new body
Unlink(t) ==
    /\ At(t, "unlink")
    /\ LET b == Mine(t)
           n == IF b = NullBody THEN 1 ELSE refs[b]
       IN  /\ refs' = IF b = NullBody THEN refs ELSE [refs EXCEPT ![b] = n - 1]
           /\ victim' = [victim EXCEPT ![t] = IF n <= 0 THEN b ELSE None]
           /\ Goto(t, IF n <= 0 THEN "free" ELSE IF Call(t).op = "begin" THEN "unref" ELSE "end")
    /\ data' = [data EXCEPT ![Call(t).h] = target[t]]
    /\ target' = [target EXCEPT ![t] = None]
    /\ UNCHANGED <<live, content, given, call>>

Free(t) ==
    /\ At(t, "free")
    /\ live' = live \ {victim[t]}
    /\ refs' = [refs EXCEPT ![victim[t]] = 0]
    /\ content' = [content EXCEPT ![victim[t]] = Empty]
    /\ victim' = [victim EXCEPT ![t] = None]
    /\ Goto(t, IF Call(t).op = "begin" THEN "unref" ELSE "end")
    /\ UNCHANGED <<data, given, call, target>>

\* _C_unref(), a plain store
Unref(t) ==
    /\ At(t, "unref")
    /\ LET b == Mine(t)
       IN  IF b = NullBody THEN UNCHANGED <<refs, given>>
           ELSE /\ refs' = [refs EXCEPT ![b] = -1]
                /\ given' = [given EXCEPT ![Call(t).h] = b]
    /\ Goto(t, "end")
    /\ UNCHANGED <<data, live, content, call, target, victim>>

Swap(t) ==
    /\ At(t, "swap")
    /\ data' = [data EXCEPT ![Call(t).h] = Other(t), ![Call(t).g] = Mine(t)]
    /\ Goto(t, "end")
    /\ UNCHANGED <<bodyVars, given, call, target, victim>>

\* the program writes through a reference or an iterator that is valid
Write(t) ==
    /\ At(t, "write")
    /\ content' = [content EXCEPT ![given[Call(t).h]] = Call(t).v]
    /\ Goto(t, "end")
    /\ UNCHANGED <<data, live, refs, given, call, target, victim>>

End(t) ==
    /\ At(t, "end")
    /\ call' = [call EXCEPT ![t] = {}]
    /\ Goto(t, "idle")
    /\ UNCHANGED <<data, bodyVars, given, target, victim>>

Calls == [op : V!Ops, h : Handles, g : Handles, v : Vals]

\* the calls, with h and Empty for the arguments they do not have
Arguments == {c \in Calls : /\ c.op \notin {"copy", "assign", "swap"} => c.g = c.h
                            /\ c.op \notin {"new", "set", "write"} => c.v = Empty}

Step(t) ==
    \/ TestCopy(t) \/ TestAssign(t) \/ TestBegin(t) \/ TestReserve(t) \/ TestSet(t) \/ InPlace(t)
    \/ Inc(t) \/ Alloc(t) \/ AllocThrow(t) \/ Unlink(t) \/ Free(t) \/ Unref(t)
    \/ Swap(t) \/ Write(t) \/ End(t)

Next == \E t \in Threads : Step(t) \/ \E c \in Arguments : Start(t, c)

Spec == Init /\ [][Next]_vars
-----------------------------------------------------------------------------
TypeOK ==
    /\ data \in [Handles -> Bodies \cup {NullBody, None}]
    /\ live \subseteq Bodies /\ refs \in [Bodies -> Int] /\ content \in [Bodies -> Vals]
    /\ given \in [Handles -> Bodies \cup {None}]
    /\ pc \in [Threads -> Labels]
    /\ \A t \in Threads : call[t] \subseteq Calls /\ Cardinality(call[t]) = IF At(t, "idle") THEN 0 ELSE 1
    /\ target \in [Threads -> Bodies \cup {NullBody, None}]
    /\ victim \in [Threads -> Bodies \cup {NullBody, None}]

Holders(b) == {h \in Handles : data[h] = b}

\* those who counted themselves in and do not hold a handle yet, and those
\* who hold one and are still to count
Counting(b) == {t \in Threads : At(t, "unlink") /\ target[t] = b}
Uncounted(b) == {t \in Threads : At(t, "inc") /\ Call(t).op = "copy" /\ Mine(t) = b}

\* A body in use counts its handles, or says that it may not be shared and
\* has one: so a mutating call may trust the count to write in place.
CountExact ==
    \A b \in live : Holders(b) # {} =>
        \/ refs[b] = -1 /\ Cardinality(Holders(b)) = 1
        \/ refs[b] + 1 = Cardinality(Holders(b)) + Cardinality(Counting(b))
                            - Cardinality(Uncounted(b))

\* No string has its characters in a body that was freed, nor has a call.
NoDangling ==
    /\ \A h \in Handles : data[h] \in live \cup {NullBody, None}
    /\ \A t \in Threads : At(t, "unlink") => target[t] \in live \cup {NullBody, None}
    /\ \A t \in Threads : At(t, "free") => victim[t] \in live

\* Each body is some string's, or some call's that will release it.
NoLeak ==
    \A b \in live : \/ Holders(b) # {} \/ Counting(b) # {}
                    \/ \E t \in Threads : At(t, "free") /\ victim[t] = b

\* The bodies that a thread's next step writes without an atomic operation,
\* and those it touches at all.
Plain(t) ==
    CASE pc[t] \in {"unref", "inplace"} -> {Mine(t)}
      [] At(t, "write") -> {given[Call(t).h]}
      [] At(t, "free") -> {victim[t]}
      [] OTHER -> {}
Touched(t) ==
    IF pc[t] \in {"idle", "end", "swap"} THEN {}
    ELSE Plain(t) \cup {Mine(t), target[t]}
         \cup IF Call(t).op \in {"copy", "assign"} THEN {Other(t)} ELSE {}

\* No body is written by one thread while another touches it ("not thread
\* safe: there is exactly one body pointed to by this->_C_pref() at this
\* point", string:860): the count that was read is still good when it is
\* acted upon.
NoRace ==
    \A t, u \in Threads : t # u => Plain(t) \cap Touched(u) \cap Bodies = {}

\* A string that gave out a reference keeps its characters where they were
\* until a call on it ends the reference, and shares them with no other.
GivenHeld ==
    \A h \in Handles : given[h] # None =>
        /\ data[h] = given[h] /\ Holders(given[h]) = {h}

\* Whatever two threads do with strings that share a body, its count, its life
\* and the references into it stay right, and neither writes to it while the
\* other touches it (string:788-819, 852-867).
BodiesRight == TypeOK /\ CountExact /\ NoDangling /\ NoLeak /\ GivenHeld /\ NoRace

\* Strings are values, whatever they share: a call changes the strings it is
\* called on and no other, at one point, and if it throws it changes nothing.
StringsAreValues == V!Spec
=============================================================================
