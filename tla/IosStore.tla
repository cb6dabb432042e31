------------------------------ MODULE IosStore -------------------------------
(***************************************************************************)
(* The user data of a stream: ios_base's iword() and pword() arrays, its   *)
(* callbacks and its tie, kept in _C_usr, which exists once there is any   *)
(* (src/iostore.cpp, src/ios.cpp).  One thread calls the members; the      *)
(* callbacks that imbue(), copyfmt() and the destructor run call members   *)
(* in turn, so the calls in progress are a stack of frames.  A failed      *)
(* allocation before anything has changed is a step that does nothing.     *)
(***************************************************************************)
EXTENDS Integers, Sequences, FiniteSets, SequencesExt

CONSTANTS Streams, Locked,    \* the streams, and those that are locked
          Null, None,         \* no _C_usr; no tied stream
          Ties, Formats,      \* what a stream is tied to; flags, locale, fill
          Callbacks,
          MaxCallbacks,       \* bound: registered when one more is, in all
          Kinds, Indices,     \* "iword" and "pword", and what is passed to them
          MaxDepth,           \* bound: calls within calls
          MaxVaried,          \* bound: parts of streams that are not as at first
          TieFirst,           \* streams without user data are tied, too
          CopyWithin,         \* callbacks copy to a stream being copied to
          RegisterInDtor      \* callbacks of ~ios_base() register others

Values == {0, 1}         \* 0, and what a program stores
UsrData == [tie : Ties, words : [Kinds -> Seq(Values)], cbs : Seq(Callbacks), fire : BOOLEAN]

ASSUME IosStoreAssumption ==
    /\ Locked \subseteq Streams /\ None \in Ties /\ Formats # {}
    /\ Null \notin UsrData
    /\ Indices \subseteq Int /\ MaxDepth \in Nat \ {0} /\ MaxCallbacks \in Nat
    /\ MaxVaried \in Nat
    /\ {TieFirst, CopyWithin, RegisterInDtor} \subseteq BOOLEAN

VARIABLES
    usr,             \* _C_usr
    fmt, except,     \* the format; whether badbit is in exceptions()
    alive,           \* the streams that exist
    held,            \* the streams whose mutex is held
    stack,           \* the calls in progress that may run callbacks
    want             \* the value each stream is to have

state == <<usr, fmt, except, alive>>
vars == <<state, held, stack, want>>

Default == CHOOSE f \in Formats : TRUE

Usr0(fire) == [tie |-> None, words |-> [k \in Kinds |-> <<>>], cbs |-> <<>>,
               fire |-> fire]

\* the words of an array that any index finds: those past the end are 0
Word(a, i) == IF i < Len(a) THEN a[i + 1] ELSE 0
Natural == Indices \cap Nat
Words(u) == [k \in Kinds |-> [i \in Natural |-> IF u = Null THEN 0 ELSE Word(u.words[k], i)]]

Fresh == [tie |-> None, words |-> Words(Null), cbs |-> <<>>, fmt |-> Default,
          except |-> FALSE]

Init ==
    /\ usr = [s \in Streams |-> Null] /\ fmt = [s \in Streams |-> Default]
    /\ except = [s \in Streams |-> FALSE]
    /\ alive = Streams /\ held = {} /\ stack = <<>>
    /\ want = [s \in Streams |-> Fresh]
-----------------------------------------------------------------------------
Top == Last(stack)
Up(f) == stack' = Front(stack) \o <<f>>
At(pc) == stack # <<>> /\ Top.pc = pc
Within(op, s) == \E i \in DOMAIN stack : stack[i].op = op /\ stack[i].s = s

\* the program, or the callback that is running, may call a member of s
MayCall(s) == s \in alive /\ s \notin held /\ (stack # <<>> => Top.pc = "inside")
MayRun(s) == MayCall(s) /\ Len(stack) < MaxDepth

Frame(op, s, pc, ev) ==
    [op |-> op, s |-> s, pc |-> pc, ev |-> ev, todo |-> <<>>, made |-> <<>>,
     due |-> <<>>, lost |-> FALSE, live |-> FALSE, stale |-> FALSE, copy |-> Null]

Lock(s) == held' = held \cup ({s} \cap Locked)

\* the array of callbacks of s is freed: whoever reads it has a stale pointer
Freed(st, s) == [i \in DOMAIN st |-> IF st[i].live /\ st[i].s = s
                                     THEN [st[i] EXCEPT !.stale = TRUE] ELSE st[i]]

\* __rw_realloc(): at least n elements, the new ones 0
Grown(a, n) == [j \in 1 .. IF n > Len(a) THEN n ELSE Len(a) |->
                    IF j <= Len(a) THEN a[j] ELSE 0]

\* the callbacks of s, and how many the streams have
Array(s) == IF usr[s] = Null THEN <<>> ELSE usr[s].cbs
Registered == MapThenSumSet(LAMBDA s : Len(Array(s)), Streams)

\* the user data, allocated if there is none
Usr(s) == IF usr[s] = Null THEN Usr0(TRUE) ELSE usr[s]

\* bound: streams differ from new ones in few of these parts at a time
Parts == {{"tie", "words"}, {"fmt"}, {"except"}}
Room(what) ==
    Cardinality({p \in Parts : what \in p
                    \/ \E s \in Streams, w \in p : want[s][w] # Fresh[w]}) <= MaxVaried

\* no memory for the data, or for the array: nothing is stored
Fail(s) ==
    /\ usr' \in {usr, [usr EXCEPT ![s] = Usr(s)]}
    /\ UNCHANGED <<fmt, except, alive, held, stack, want>>

\* iword (i) = v, or pword (i) = v
SetWord(s, k, i, v) ==
    /\ MayCall(s) /\ Room("words")
    /\ \/ /\ i >= 0
          /\ usr' = [usr EXCEPT ![s] = [Usr(s) EXCEPT
                        !.words[k] = [Grown(@, i + 1) EXCEPT ![i + 1] = v]]]
          /\ want' = [want EXCEPT ![s].words[k][i] = v]
          /\ UNCHANGED <<fmt, except, alive, held, stack>>
       \/ /\ i < 0 \/ usr[s] = Null \/ i >= Len(Usr(s).words[k])
          /\ Fail(s)

RegisterCallback(s, c) ==
    /\ MayCall(s) /\ Registered < MaxCallbacks
    /\ Within("dtor", s) => RegisterInDtor
    /\ \/ /\ usr' = [usr EXCEPT ![s] = [Usr(s) EXCEPT !.cbs = Append(@, c)]]
          /\ stack' = Freed(stack, s)
          /\ want' = [want EXCEPT ![s].cbs = Append(@, c)]
          /\ UNCHANGED <<fmt, except, alive, held>>
       \/ Fail(s)

\* has the stream no data but its tie?
Bare(u) == u.cbs = <<>> /\ \A k \in Kinds : u.words[k] = <<>>

\* tie (p); data made for a tie has no _C_fire
Tie(s, p) ==
    /\ MayCall(s) /\ (usr[s] = Null /\ p # None => TieFirst)
    /\ p # None => Room("tie")
    /\ usr' = [usr EXCEPT ![s] =
                 IF @ = Null THEN IF p = None THEN Null ELSE [Usr0(FALSE) EXCEPT !.tie = p]
                 ELSE IF p = None /\ Bare(@) THEN Null
                 ELSE [@ EXCEPT !.tie = p]]
    /\ want' = [want EXCEPT ![s].tie = p]
    /\ UNCHANGED <<fmt, except, alive, held, stack>>

\* exceptions (e)
Exceptions(s, e) ==
    /\ MayCall(s) /\ (e => Room("except"))
    /\ except' = [except EXCEPT ![s] = e]
    /\ want' = [want EXCEPT ![s].except = e]
    /\ UNCHANGED <<usr, fmt, alive, held, stack>>
-----------------------------------------------------------------------------
(* The calls that fire events.                                             *)

Imbue(s, f) ==
    /\ MayRun(s) /\ (f # Default => Room("fmt"))
    /\ Lock(s)
    /\ fmt' = [fmt EXCEPT ![s] = f]
    /\ want' = [want EXCEPT ![s].fmt = f]
    /\ stack' = Append(stack, Frame("imbue", s, "fire", "imbue"))
    /\ UNCHANGED <<usr, except, alive>>

\* what copyfmt() takes from rhs while it is locked
Taken(r) == [usr |-> usr[r], fmt |-> fmt[r], except |-> except[r], want |-> want[r]]

Copyfmt(s, r) ==
    /\ MayRun(s) /\ s # r /\ r \in alive /\ r \notin held
    /\ CopyWithin \/ ~(Within("copyfmt", s) \/ Within("dtor", s))
    /\ Lock(s)
    /\ stack' = Append(stack, [Frame("copyfmt", s,
                                 IF usr[s] = Null THEN "install" ELSE "fire", "erase")
                               EXCEPT !.copy = Taken(r)])
    /\ UNCHANGED <<state, want>>

Destroy(s) ==
    /\ MayRun(s) /\ \A i \in DOMAIN stack : stack[i].s # s
    /\ stack' = Append(stack, Frame("dtor", s, "fire", "erase"))
    /\ UNCHANGED <<state, held, want>>

\* a stream that is not alive is as a new one will be
Construct(s) ==
    /\ stack = <<>> /\ s \notin alive
    /\ alive' = alive \cup {s}
    /\ UNCHANGED <<usr, fmt, except, held, stack, want>>

\* what is called when _C_fire is set
Listed(s) == IF usr[s] = Null THEN <<>> ELSE IF usr[s].fire THEN usr[s].cbs ELSE <<>>

\* the event of the top frame, with its callbacks in an array of its own or not
Start(live) == [Top EXCEPT !.todo = Listed(Top.s), !.due = Reverse(want[Top.s].cbs),
                           !.live = live,
                           !.pc = IF Listed(Top.s) = <<>> THEN "fired" ELSE "calling"]

\* _C_fire_event(): unlocked, from a copy of the array, unless in ~ios_base()
\* a mutant: the array is not copied
FireUncopied ==
    /\ At("fire")
    /\ Up(Start(TRUE))
    /\ held' = IF Listed(Top.s) = <<>> THEN held ELSE held \ {Top.s}
    /\ UNCHANGED <<state, want>>
Fire ==
    /\ At("fire")
    /\ Up(Start(Top.op = "dtor"))
    /\ held' = IF Listed(Top.s) = <<>> THEN held ELSE held \ {Top.s}
    /\ UNCHANGED <<state, want>>

\* the end of copyfmt() once the rest has been copied
Assign(f) == IF f.op = "copyfmt" /\ f.ev = "copyfmt"
             THEN /\ except' = [except EXCEPT ![f.s] = f.copy.except]
                  /\ want' = [want EXCEPT ![f.s].except = f.copy.want.except]
             ELSE UNCHANGED <<except, want>>

\* there is no memory for the copy: badbit, which may throw, not the event
FireFail ==
    /\ At("fire") /\ Top.op # "dtor" /\ Listed(Top.s) # <<>>
    /\ IF except[Top.s]
       THEN Assign(Top) /\ stack' = Front(stack) /\ held' = held \ {Top.s}
       ELSE Up([Top EXCEPT !.lost = TRUE, !.pc = "fired"]) /\ UNCHANGED <<except, want, held>>
    /\ UNCHANGED <<usr, fmt, alive>>

\* a mutant: in the order of registration
CallFirst ==
    /\ At("calling") /\ Top.todo # <<>>
    /\ Up([Top EXCEPT !.todo = Tail(@), !.made = Append(@, Head(Top.todo)),
                      !.pc = "inside"])
    /\ UNCHANGED <<state, held, want>>
Call ==
    /\ At("calling") /\ Top.todo # <<>>
    /\ Up([Top EXCEPT !.todo = Front(@), !.made = Append(@, Last(Top.todo)),
                      !.pc = "inside"])
    /\ UNCHANGED <<state, held, want>>

CallbackReturns ==
    /\ At("inside")
    /\ Up([Top EXCEPT !.pc = "calling"])
    /\ UNCHANGED <<state, held, want>>

\* a mutant: the exceptions to throw are not assigned
CallbackThrowsOut ==
    /\ At("inside") /\ Top.op # "dtor"
    /\ stack' = Front(stack)
    /\ want' = IF Top.ev = "copyfmt"
               THEN [want EXCEPT ![Top.s].except = Top.copy.want.except] ELSE want
    /\ UNCHANGED <<state, held>>
\* locked again to be unlocked at once by the caller's guard
CallbackThrows ==
    /\ At("inside") /\ Top.op # "dtor"
    /\ stack' = Front(stack)
    /\ Assign(Top)
    /\ UNCHANGED <<usr, fmt, alive, held>>

\* all called: locked again
AllCalled ==
    /\ At("calling") /\ Top.todo = <<>>
    /\ Up([Top EXCEPT !.pc = "fired"])
    /\ IF Top.op = "dtor" THEN UNCHANGED held ELSE Lock(Top.s)
    /\ UNCHANGED <<state, want>>

\* the rest of copyfmt() up to the exceptions
Install ==
    LET f == Top
        c == f.copy
        some == c.usr # Null /\ (c.usr.tie # None \/ ~Bare(c.usr))
    IN  /\ stack # <<>> /\ f.op = "copyfmt" /\ f.ev = "erase"
        /\ \/ f.pc = "fired" /\ usr[f.s] # Null
           \/ f.pc = "install"
        /\ usr' = [usr EXCEPT ![f.s] = IF some THEN [c.usr EXCEPT !.fire = TRUE] ELSE Null]
        /\ fmt' = [fmt EXCEPT ![f.s] = c.fmt]
        /\ want' = [want EXCEPT ![f.s] = [c.want EXCEPT !.except = want[f.s].except]]
        /\ stack' = Freed(Front(stack), f.s) \o
                    <<[Frame("copyfmt", f.s, "fire", "copyfmt") EXCEPT !.copy = c]>>
        /\ UNCHANGED <<except, alive, held>>

Return ==
    /\ At("fired") /\ Top.op # "dtor" /\ ~(Top.op = "copyfmt" /\ Top.ev = "erase")
    /\ Assign(Top)
    /\ stack' = Front(stack) /\ held' = held \ {Top.s}
    /\ UNCHANGED <<usr, fmt, alive>>

Destroyed ==
    /\ At("fired") /\ Top.op = "dtor"
    /\ usr' = [usr EXCEPT ![Top.s] = Null] /\ fmt' = [fmt EXCEPT ![Top.s] = Default]
    /\ except' = [except EXCEPT ![Top.s] = FALSE]
    /\ want' = [want EXCEPT ![Top.s] = Fresh]
    /\ alive' = alive \ {Top.s}
    /\ stack' = Front(stack)
    /\ UNCHANGED held

Next ==
    \/ \E s \in Streams :
        \/ \E k \in Kinds, i \in Indices, v \in Values \ {0} : SetWord(s, k, i, v)
        \/ \E c \in Callbacks : RegisterCallback(s, c)
        \/ \E p \in Ties : Tie(s, p)
        \/ \E e \in BOOLEAN : Exceptions(s, e)
        \/ \E f \in Formats : Imbue(s, f)
        \/ \E r \in Streams : Copyfmt(s, r)
        \/ Destroy(s) \/ Construct(s)
    \/ Fire \/ FireFail \/ Call \/ CallbackReturns \/ CallbackThrows
    \/ AllCalled \/ Install \/ Return \/ Destroyed

Spec == Init /\ [][Next]_vars
-----------------------------------------------------------------------------
\* A stream has user data or none and a format; a mutex is held of a
\* locked stream only; a call in progress is one of an event's.
TypeOK ==
    /\ \A s \in Streams : usr[s] = Null \/ usr[s] \in UsrData
    /\ fmt \in [Streams -> Formats]
    /\ except \in [Streams -> BOOLEAN]
    /\ alive \subseteq Streams /\ held \subseteq Locked
    /\ \A i \in DOMAIN stack :
        /\ stack[i].op \in {"imbue", "copyfmt", "dtor"} /\ stack[i].s \in Streams
        /\ stack[i].pc \in {"fire", "calling", "inside", "fired", "install"}
        /\ i < Len(stack) => stack[i].pc = "inside"

\* Between calls a stream has what the calls on it left, whatever failed or
\* threw, and whatever the callbacks did meanwhile: the words set, 0 for the
\* others, its tie, its callbacks, its format and its exceptions, or another
\* stream's after copyfmt(), of which all or nothing shows.
AsWanted ==
    \A s \in alive : (\A i \in DOMAIN stack : stack[i].s # s) =>
        want[s] = [tie |-> IF usr[s] = Null THEN None ELSE usr[s].tie,
                   words |-> Words(usr[s]),
                   cbs |-> Array(s),
                   fmt |-> fmt[s], except |-> except[s]]

\* An event calls every callback registered when it is fired, in the opposite
\* order, or is lost for want of memory; those registered by the callbacks
\* themselves are not called, nor does what they change disturb the rest.
EventsDelivered == At("fired") => Top.lost \/ Top.made = Top.due

\* The array that callbacks are called from is not freed by one of them.
NoStaleArray == At("calling") /\ Top.todo # <<>> => ~Top.stale

\* A callback may call the members that lock: a stream is locked while one of
\* its own members runs and never while a callback does.
LocksRight ==
    held = IF stack = <<>> \/ At("calling") \/ At("inside") THEN {}
           ELSE IF Top.op = "dtor" THEN {} ELSE {Top.s} \cap Locked

\* copyfmt() still has the data whose erase event it has fired.
DataKept == At("fired") /\ Top.op = "copyfmt" /\ Top.ev = "erase" => usr[Top.s] # Null

\* What a call read before its callbacks ran is still there when it goes on
\* with it after them, and the lock is not held meanwhile (iostore.cpp:162-206,
\* 324).
NothingStale == TypeOK /\ NoStaleArray /\ DataKept /\ LocksRight
=============================================================================
