----------------------------- MODULE SetLocale -----------------------------
(***************************************************************************)
(* The C library's locale, which is the process's, and those who set it:   *)
(* the scopes of the library (__rw_setlocale, src/setlocale.cpp), among    *)
(* them the expansion of a locale's name (src/locale_body.cpp), and        *)
(* locale::global() (src/locale_global.cpp), which sets the C locale and   *)
(* the global C++ locale under two locks, one after the other.             *)
(*                                                                         *)
(* A scope is the life of a __rw_setlocale object: it locks, saves the     *)
(* name of some categories, sets them, and its destructor restores them    *)
(* and unlocks.  The constructor can fail at two places, with the lock.    *)
(***************************************************************************)
EXTENDS Naturals

CONSTANTS Threads, NoThread,
          GlobalCallers,   \* the threads that call locale::global()
          Cats,            \* the categories
          Names, NoName,   \* names, and the null pointer (or an unnamed locale)
          Known,           \* the names the C library has a locale for
          MaxThrows        \* bound: names there was no memory for

ASSUME SetLocaleAssumption ==
    /\ NoThread \notin Threads /\ GlobalCallers \subseteq Threads /\ Cats # {}
    /\ NoName \notin Names /\ Known \subseteq Names /\ Known # {}
    /\ MaxThrows \in Nat

VARIABLES
    clocale,    \* the C locale: a name for each category
    program,    \* what it is but for the library's scopes
    global,     \* the name of the global C++ locale, NoName if it has none
    lock,       \* the holder of __rw_setlocale_mutex
    nameLock,   \* the holder of the guard of the expansion of names
    pc,
    req,        \* the scope's arguments: [cats, name, nothrow]
    saved,      \* _C_name: what cats were, or {} for the null pointer
    owns,       \* _C_guard
    next,       \* the name the thread's call of global() is for
    throws

scopeVars == <<req, saved, owns>>
vars == <<clocale, program, global, lock, nameLock, pc, scopeVars, next, throws>>

Labels == {"idle", "expand", "lock", "locked", "save", "set", "scope",
           "restore", "unlock", "global_c", "global_cxx"}
Requests == [cats : (SUBSET Cats) \ {{}}, name : Names \cup {NoName}, nothrow : BOOLEAN]
NoRequest == [cats |-> Cats, name |-> NoName, nothrow |-> FALSE]
CNames == [Cats -> Known]

Init ==
    /\ clocale \in CNames /\ program = clocale
    /\ global = NoName
    /\ lock = NoThread /\ nameLock = NoThread
    /\ pc = [t \in Threads |-> "idle"]
    /\ req = [t \in Threads |-> NoRequest]
    /\ saved = [t \in Threads |-> {}]
    /\ owns = [t \in Threads |-> FALSE]
    /\ next = [t \in Threads |-> NoName]
    /\ throws = 0
-----------------------------------------------------------------------------
At(t, l) == pc[t] = l
Goto(t, l) == pc' = [pc EXCEPT ![t] = l]

\* there is no object (any longer), or a fresh one
Gone(t) ==
    /\ req' = [req EXCEPT ![t] = NoRequest]
    /\ saved' = [saved EXCEPT ![t] = {}]
    /\ owns' = [owns EXCEPT ![t] = FALSE]
Made(t, r) ==
    /\ req' = [req EXCEPT ![t] = r]
    /\ saved' = [saved EXCEPT ![t] = {}]
    /\ owns' = [owns EXCEPT ![t] = TRUE]

\* the C library: the name of some categories, whether a name is theirs, and
\* its answer to setlocale() with a name or the null pointer
Part(cats) == {<<c, clocale[c]>> : c \in cats}
IsSet(cats, n) == \A c \in cats : clocale[c] = n
IsLong(cats) == \E c, d \in cats : clocale[c] # clocale[d]
With(cats, n) == [c \in Cats |-> IF c \in cats THEN n ELSE clocale[c]]
Accepts(n) == n \in Known \cup {NoName}

\* a facet's call, or a reparse of a number: a scope with a name
Open(t, cats, n, nothrow) ==
    /\ At(t, "idle")
    /\ Made(t, [cats |-> cats, name |-> n, nothrow |-> nothrow])
    /\ Goto(t, "lock")
    /\ UNCHANGED <<clocale, program, global, lock, nameLock, next, throws>>

\* _C_get_named_body(): names are expanded one thread at a time, each
\* category's (or the native locale's, of all) in a scope of its own that
\* does not throw; a name that is not known ends the expansion
Expand(t, cats, n) ==
    /\ At(t, "idle") /\ nameLock = NoThread
    /\ nameLock' = t
    /\ Made(t, [cats |-> cats, name |-> n, nothrow |-> TRUE])
    /\ Goto(t, "lock")
    /\ UNCHANGED <<clocale, program, global, lock, next, throws>>

ExpandNext(t, c) ==
    /\ At(t, "expand")
    /\ \/ /\ saved[t] # {}
          /\ Made(t, [req[t] EXCEPT !.cats = {c}])
          /\ Goto(t, "lock")
          /\ UNCHANGED nameLock
       \/ /\ nameLock' = NoThread
          /\ Goto(t, "idle")
          /\ Gone(t)
    /\ UNCHANGED <<clocale, program, global, lock, next, throws>>

Lock(t) ==
    /\ At(t, "lock")
    /\ lock = NoThread
    /\ lock' = t
    /\ Goto(t, "locked")
    /\ UNCHANGED <<clocale, program, global, nameLock, scopeVars, next, throws>>

\* nothing is saved, nor restored, when the locale is set as asked for
Query(t) ==
    /\ At(t, "locked")
    /\ LET r == req[t]
       IN  Goto(t, IF r.name # NoName /\ ~r.nothrow /\ IsSet(r.cats, r.name)
                   THEN "scope" ELSE "save")
    /\ UNCHANGED <<clocale, program, global, lock, nameLock, scopeVars, next, throws>>

Save(t) ==
    /\ At(t, "save")
    /\ saved' = [saved EXCEPT ![t] = Part(req[t].cats)]
    /\ Goto(t, "set")
    /\ UNCHANGED <<clocale, program, global, lock, nameLock, req, owns, next, throws>>

\* there is no memory for a name that the object has no room for (a mixed
\* one): the constructor throws, and nothing unlocks
SaveThrow(t) ==
    /\ At(t, "save") /\ IsLong(req[t].cats)
    /\ throws < MaxThrows /\ throws' = throws + 1
    /\ nameLock' = IF nameLock = t THEN NoThread ELSE nameLock
    /\ Gone(t)
    /\ Goto(t, "idle")
    /\ UNCHANGED <<clocale, program, global, lock, next>>

\* a scope with no name is there to retrieve one: it unlocks at once
Set(t) ==
    /\ At(t, "set") /\ Accepts(req[t].name)
    /\ IF req[t].name = NoName
       THEN /\ owns' = [owns EXCEPT ![t] = FALSE]
            /\ lock' = NoThread
            /\ UNCHANGED clocale
       ELSE /\ clocale' = With(req[t].cats, req[t].name)
            /\ UNCHANGED <<owns, lock>>
    /\ Goto(t, "scope")
    /\ UNCHANGED <<program, global, nameLock, req, saved, next, throws>>

\* a mutant: the constructor tries again
SetFailAgain(t) ==
    /\ At(t, "set") /\ ~Accepts(req[t].name)
    /\ Goto(t, "locked")
    /\ UNCHANGED <<clocale, program, global, lock, nameLock, scopeVars, next, throws>>

\* the C library has no such locale: the constructor unlocks, and throws
\* unless it was asked not to
SetFail(t) ==
    /\ At(t, "set") /\ ~Accepts(req[t].name)
    /\ lock' = NoThread
    /\ IF req[t].nothrow
       THEN /\ Goto(t, "scope")
            /\ owns' = [owns EXCEPT ![t] = FALSE]
            /\ saved' = [saved EXCEPT ![t] = {}]
            /\ UNCHANGED req
       ELSE Goto(t, "idle") /\ Gone(t)
    /\ UNCHANGED <<clocale, program, global, nameLock, next, throws>>

\* the destructor; an expansion still looks at what the scope was for
Return(t) ==
    IF nameLock = t THEN Goto(t, "expand") /\ UNCHANGED scopeVars
    ELSE Goto(t, "idle") /\ Gone(t)

Close(t) ==
    /\ At(t, "scope")
    /\ IF owns[t] THEN Goto(t, "restore") /\ UNCHANGED scopeVars ELSE Return(t)
    /\ UNCHANGED <<clocale, program, global, lock, nameLock, next, throws>>

Restore(t) ==
    /\ At(t, "restore")
    /\ clocale' = [c \in Cats |->
                      IF \E p \in saved[t] : p[1] = c
                      THEN (CHOOSE p \in saved[t] : p[1] = c)[2] ELSE clocale[c]]
    /\ Goto(t, "unlock")
    /\ UNCHANGED <<program, global, lock, nameLock, scopeVars, next, throws>>

Unlock(t) ==
    /\ At(t, "unlock")
    /\ lock' = NoThread
    /\ Return(t)
    /\ UNCHANGED <<clocale, program, global, nameLock, next, throws>>
-----------------------------------------------------------------------------
\* locale::global(): an unnamed locale leaves the C locale alone
Global(t, n) ==
    /\ At(t, "idle") /\ t \in GlobalCallers
    /\ next' = [next EXCEPT ![t] = n]
    /\ Goto(t, IF n = NoName THEN "global_cxx" ELSE "global_c")
    /\ UNCHANGED <<clocale, program, global, lock, nameLock, scopeVars, throws>>

\* two mutants: no lock, and one category set of all
GlobalCUnlocked(t) ==
    /\ At(t, "global_c")
    /\ clocale' = IF next[t] \in Known THEN With(Cats, next[t]) ELSE clocale
    /\ program' = IF next[t] \in Known THEN With(Cats, next[t]) ELSE program
    /\ Goto(t, "global_cxx")
    /\ UNCHANGED <<global, lock, nameLock, scopeVars, next, throws>>

GlobalCOne(t) ==
    /\ At(t, "global_c") /\ lock = NoThread
    /\ clocale' = IF next[t] \in Known THEN With({CHOOSE c \in Cats : TRUE}, next[t])
                  ELSE clocale
    /\ program' = clocale'
    /\ Goto(t, "global_cxx")
    /\ UNCHANGED <<global, lock, nameLock, scopeVars, next, throws>>

\* under the lock of the C locale; one the C library does not know (a mixed
\* name is one) leaves it as it was
GlobalC(t) ==
    /\ At(t, "global_c") /\ lock = NoThread
    /\ clocale' = IF next[t] \in Known THEN With(Cats, next[t]) ELSE clocale
    /\ program' = clocale'
    /\ Goto(t, "global_cxx")
    /\ UNCHANGED <<global, lock, nameLock, scopeVars, next, throws>>

\* under the lock of the global locale (LocaleRefs)
GlobalCxx(t) ==
    /\ At(t, "global_cxx")
    /\ global' = next[t]
    /\ next' = [next EXCEPT ![t] = NoName]
    /\ Goto(t, "idle")
    /\ UNCHANGED <<clocale, program, lock, nameLock, scopeVars, throws>>
-----------------------------------------------------------------------------
Begin(t) ==
    \/ \E cats \in (SUBSET Cats) \ {{}}, n \in Names \cup {NoName} : Open(t, cats, n, FALSE)
    \/ \E cats \in {{c} : c \in Cats} \cup {Cats}, n \in Names : Expand(t, cats, n)
    \/ \E n \in Names \cup {NoName} : Global(t, n)

Step(t) ==
    \/ Lock(t) \/ Query(t) \/ Save(t) \/ Set(t) \/ SetFail(t) \/ SaveThrow(t)
    \/ Close(t) \/ Restore(t) \/ Unlock(t) \/ GlobalC(t) \/ GlobalCxx(t)
    \/ \E c \in Cats : ExpandNext(t, c)

Next == \E t \in Threads : Begin(t) \/ Step(t)

Spec == Init /\ [][Next]_vars

\* a thread gets a lock that is free again and again, and an expansion has
\* finitely many categories
Finish(t) == \E c \in Cats : ExpandNext(t, c) /\ nameLock' = NoThread
LiveSpec == Spec /\ \A t \in Threads : SF_vars(Step(t)) /\ SF_vars(Finish(t))
-----------------------------------------------------------------------------
TypeOK ==
    /\ clocale \in CNames /\ program \in CNames
    /\ global \in Names \cup {NoName}
    /\ lock \in Threads \cup {NoThread} /\ nameLock \in Threads \cup {NoThread}
    /\ pc \in [Threads -> Labels]
    /\ req \in [Threads -> Requests]
    /\ saved \in [Threads -> SUBSET (Cats \X Known)]
    /\ owns \in [Threads -> BOOLEAN]
    /\ next \in [Threads -> Names \cup {NoName}]
    /\ throws \in 0 .. MaxThrows

\* When no scope of the library's holds the lock the C locale is the
\* program's: no scope, ended normally or with an exception, leaves a trace,
\* and none restores over what locale::global() has set meanwhile.
Restored == lock = NoThread => clocale = program

\* In a scope the C locale is the one asked for until the destructor runs,
\* whatever other scopes, expansions and calls of locale::global() do.
InForce ==
    \A t \in Threads : At(t, "scope") /\ owns[t] =>
        lock = t /\ IsSet(req[t].cats, req[t].name)

\* At every moment the C locale is either the program's or that of the one
\* scope that holds the lock (setlocale.cpp:68-138).
CLocaleRight == TypeOK /\ Restored /\ InForce

\* "dtor then resets the global C locale to what it was before the ctor
\* invocation and unlocks" (setlocale.h): the lock is held by a scope only.
LockScoped ==
    \A t \in Threads : lock = t => ~(pc[t] \in {"idle", "expand", "global_c", "global_cxx"})

\* With one caller of locale::global() the C locale and the global C++ locale
\* agree once it has returned, if the C library knows the name.
GlobalAgrees ==
    (\A t \in Threads : pc[t] \notin {"global_c", "global_cxx"}) /\ global \in Known
        => program = [c \in Cats |-> global]

\* Scopes, expansions and calls of locale::global() end, unless a constructor
\* has thrown for want of memory, which leaves the lock held (LockScoped): the
\* two locks are always taken in the same order (locale_body.cpp, setlocale.cpp).
CallsEnd == \A t \in Threads : ~At(t, "idle") ~> At(t, "idle") \/ throws # 0
=============================================================================
