-------------------------------- MODULE Once --------------------------------
(***************************************************************************)
(* One-time initialization: __rw_once() of src/once.cpp, reentrant build.  *)
(*                                                                         *)
(* The thread a flag elects runs the flag's function outside the mutex;    *)
(* the function may initialize through another flag, may throw, and its    *)
(* writes are published by the release store of the flag.  One mutex and   *)
(* one condition variable serve every flag, so that the broadcast for one  *)
(* flag wakes the waiters of all of them.                                  *)
(*                                                                         *)
(* What a store makes visible to whom is part of the model: view[t] is the *)
(* set of flags whose function's writes happen before the present of t,    *)
(* flagView[f] what the last release store of f carries, and mutexView     *)
(* what the last unlock of the mutex carries.                              *)
(***************************************************************************)
EXTENDS Naturals

CONSTANTS Threads,    \* the threads
          Flags,      \* the __rw_once_t objects
          NoFlag,     \* "the function initializes through no other flag"
          NoThread,   \* "nobody holds the mutex"
          Callee,     \* Callee[f]: the flag the function of f goes through
          Depth,      \* ranks the flags: a function calls downwards only
          AtomicOps,  \* FALSE: _RWSTD_NO_ATOMIC_OPS, no test before the mutex
          MaxThrows   \* bound: functions thrown out of and waits cancelled

\* "A call from func through the same flag never returns" (_once.h:53): the
\* library's own functions call downwards (the streams through the global
\* locale, and that through the classic one)
ASSUME OnceAssumption ==
    /\ NoFlag \notin Flags
    /\ NoThread \notin Threads
    /\ Callee \in [Flags -> Flags \cup {NoFlag}]
    /\ Depth \in [Flags -> Nat]
    /\ \A f \in Flags : Callee[f] # NoFlag => Depth[Callee[f]] < Depth[f]
    /\ AtomicOps \in BOOLEAN
    /\ MaxThrows \in Nat

VARIABLES
    state,      \* __rw_once_t::_C_state of each flag
    mutex,      \* the holder of __rw_once_mutex
    pc,         \* pc[t][f]: where thread t is in its call on flag f
    next,       \* next[t][f]: what that call is to leave the flag as
    view, flagView, mutexView,   \* what has been published (see above)
    got,        \* got[t]: the flags on which a call of t returned normally
    throws      \* exceptions and cancellations so far, at most MaxThrows

vars == <<state, mutex, pc, next, view, flagView, mutexView, got, throws>>

States == {"ready", "running", "done"}

\* "holding" is inside the loop of __rw_once_enter with the mutex held,
\* "waiting" in pthread_cond_wait, "woken" woken and after the mutex again,
\* "cancelled" the same in a thread cancelled there; "run" is the function
\* before, "nested" in, and "body" after its own call on Callee[f]
PCs == {"idle", "test", "enter", "holding", "waiting", "woken", "cancelled",
        "run", "nested", "body", "leave", "store", "broadcast"}

Init ==
    /\ state = [f \in Flags |-> "ready"]
    /\ mutex = NoThread
    /\ pc = [t \in Threads |-> [f \in Flags |-> "idle"]]
    /\ next = [t \in Threads |-> [f \in Flags |-> "done"]]
    /\ view = [t \in Threads |-> {}]
    /\ flagView = [f \in Flags |-> {}]
    /\ mutexView = {}
    /\ got = [t \in Threads |-> {}]
    /\ throws = 0

-----------------------------------------------------------------------------
At(t, f, l) == pc[t][f] = l

Goto(t, f, l) == pc' = [pc EXCEPT ![t][f] = l]

\* locking the mutex acquires what the last unlock released
Lock(t) ==
    /\ mutex = NoThread
    /\ mutex' = t
    /\ view' = [view EXCEPT ![t] = @ \cup mutexView]

Unlock(t) ==
    /\ mutex' = NoThread
    /\ mutexView' = view[t]

\* __rw_once_store: a release store, made under the mutex
StoreFlag(t, f, value) ==
    /\ state' = [state EXCEPT ![f] = value]
    /\ flagView' = [flagView EXCEPT ![f] = view[t]]

\* the functions of t that are in a nested call on f (at most one is)
CallersOf(t, f) == {g \in Flags : At(t, g, "nested") /\ Callee[g] = f}

\* The call of t on f ends.  If the function of another flag made it, that
\* function goes on to its body or, after an exception, catch (...) leaves
\* its flag ready.  q is pc with the threads this step wakes.
Finish(t, f, ok, q) ==
    /\ pc' = [q EXCEPT ![t] = [g \in Flags |->
                 IF g = f THEN "idle"
                 ELSE IF g \notin CallersOf(t, f) THEN q[t][g]
                 ELSE IF ok THEN "body" ELSE "leave"]]
    /\ next' = [next EXCEPT ![t] = [g \in Flags |->
                 IF g \in CallersOf(t, f) /\ ~ok THEN "ready" ELSE next[t][g]]]
    /\ got' = [got EXCEPT ![t] = IF ok THEN @ \cup {f} ELSE @]

Throw == throws < MaxThrows /\ throws' = throws + 1
-----------------------------------------------------------------------------
\* a call from outside any function
Call(t, f) ==
    /\ \A g \in Flags : At(t, g, "idle")
    /\ Goto(t, f, "test")
    /\ UNCHANGED <<state, mutex, next, view, flagView, mutexView, got, throws>>

\* a mutant: the load is relaxed
RelaxedTestDone(t, f) ==
    /\ At(t, f, "test")
    /\ AtomicOps /\ state[f] = "done"
    /\ Finish(t, f, TRUE, pc)
    /\ UNCHANGED <<state, mutex, view, flagView, mutexView, throws>>

\* __rw_once_is_done is an acquire load, outside the mutex
TestDone(t, f) ==
    /\ At(t, f, "test")
    /\ AtomicOps /\ state[f] = "done"
    /\ view' = [view EXCEPT ![t] = @ \cup flagView[f]]
    /\ Finish(t, f, TRUE, pc)
    /\ UNCHANGED <<state, mutex, flagView, mutexView, throws>>

TestNotDone(t, f) ==
    /\ At(t, f, "test")
    /\ ~(AtomicOps /\ state[f] = "done")
    /\ Goto(t, f, "enter")
    /\ UNCHANGED <<state, mutex, next, view, flagView, mutexView, got, throws>>

\* into the loop of __rw_once_enter, the first time or after a wait
EnterLock(t, f) ==
    /\ At(t, f, "enter") \/ At(t, f, "woken")
    /\ Lock(t)
    /\ Goto(t, f, "holding")
    /\ UNCHANGED <<state, next, flagView, mutexView, got, throws>>

\* the three cases of its switch, each up to the release of the mutex
EnterReady(t, f) ==
    /\ At(t, f, "holding") /\ state[f] = "ready"
    /\ StoreFlag(t, f, "running")
    /\ Unlock(t)
    /\ Goto(t, f, "run")
    /\ UNCHANGED <<next, view, got, throws>>

EnterDone(t, f) ==
    /\ At(t, f, "holding") /\ state[f] = "done"
    /\ Unlock(t)
    /\ Finish(t, f, TRUE, pc)
    /\ UNCHANGED <<state, view, flagView, throws>>

EnterWait(t, f) ==
    /\ At(t, f, "holding") /\ state[f] = "running"
    /\ Unlock(t)
    /\ Goto(t, f, "waiting")
    /\ UNCHANGED <<state, next, view, flagView, got, throws>>

\* pthread_cond_wait may return with no broadcast
SpuriousWakeup(t, f) ==
    /\ At(t, f, "waiting")
    /\ Goto(t, f, "woken")
    /\ UNCHANGED <<state, mutex, next, view, flagView, mutexView, got, throws>>

\* a thread cancelled in pthread_cond_wait first gets the mutex back
Cancel(t, f) ==
    /\ At(t, f, "waiting") \/ At(t, f, "woken")
    /\ Throw
    /\ Goto(t, f, "cancelled")
    /\ UNCHANGED <<state, mutex, next, view, flagView, mutexView, got>>

\* and the dtor of __rw_once_lock releases it as the thread unwinds
CancelUnwind(t, f) ==
    /\ At(t, f, "cancelled")
    /\ mutex = NoThread
    /\ view' = [view EXCEPT ![t] = @ \cup mutexView]
    /\ mutexView' = view[t] \cup mutexView
    /\ Finish(t, f, FALSE, pc)
    /\ UNCHANGED <<state, mutex, flagView, throws>>
-----------------------------------------------------------------------------
\* func, which no thread runs under the mutex
RunCall(t, f) ==
    /\ At(t, f, "run")
    /\ pc' = [pc EXCEPT ![t] = [g \in Flags |->
                 IF g = Callee[f] THEN "test"
                 ELSE IF g # f THEN @[g]
                 ELSE IF Callee[f] = NoFlag THEN "body" ELSE "nested"]]
    /\ UNCHANGED <<state, mutex, next, view, flagView, mutexView, got, throws>>

RunReturn(t, f) ==
    /\ At(t, f, "body")
    /\ view' = [view EXCEPT ![t] = @ \cup {f}]
    /\ next' = [next EXCEPT ![t][f] = "done"]
    /\ Goto(t, f, "leave")
    /\ UNCHANGED <<state, mutex, flagView, mutexView, got, throws>>

\* two mutants: no catch clause, and one that leaves the flag running
NoCatch(t, f) ==
    /\ At(t, f, "body")
    /\ Throw
    /\ Finish(t, f, FALSE, pc)
    /\ UNCHANGED <<state, mutex, view, flagView, mutexView>>

CatchLeavesRunning(t, f) ==
    /\ At(t, f, "body")
    /\ Throw
    /\ next' = [next EXCEPT ![t][f] = "running"]
    /\ Goto(t, f, "leave")
    /\ UNCHANGED <<state, mutex, view, flagView, mutexView, got>>

RunThrow(t, f) ==
    /\ At(t, f, "body")
    /\ Throw
    /\ next' = [next EXCEPT ![t][f] = "ready"]
    /\ Goto(t, f, "leave")
    /\ UNCHANGED <<state, mutex, view, flagView, mutexView, got>>
-----------------------------------------------------------------------------
\* __rw_once_leave: the store under the mutex, the broadcast after it
LeaveLock(t, f) ==
    /\ At(t, f, "leave")
    /\ Lock(t)
    /\ Goto(t, f, "store")
    /\ UNCHANGED <<state, next, flagView, mutexView, got, throws>>

LeaveStore(t, f) ==
    /\ At(t, f, "store")
    /\ StoreFlag(t, f, next[t][f])
    /\ Unlock(t)
    /\ Goto(t, f, "broadcast")
    /\ UNCHANGED <<next, view, got, throws>>

\* the waiters of every flag wake
Woken == [u \in Threads |-> [g \in Flags |->
              IF At(u, g, "waiting") THEN "woken" ELSE pc[u][g]]]

\* a mutant: nobody is woken after an exception
BroadcastWhenDone(t, f) ==
    /\ At(t, f, "broadcast")
    /\ LET ok == next[t][f] = "done"
       IN  Finish(t, f, ok, IF ok THEN Woken ELSE pc)
    /\ UNCHANGED <<state, mutex, view, flagView, mutexView, throws>>

LeaveBroadcast(t, f) ==
    /\ At(t, f, "broadcast")
    /\ Finish(t, f, next[t][f] = "done", Woken)
    /\ UNCHANGED <<state, mutex, view, flagView, mutexView, throws>>
-----------------------------------------------------------------------------
\* the steps __rw_once takes by itself once called
Step(t, f) ==
    \/ TestDone(t, f) \/ TestNotDone(t, f)
    \/ EnterLock(t, f) \/ EnterReady(t, f) \/ EnterDone(t, f) \/ EnterWait(t, f)
    \/ CancelUnwind(t, f)
    \/ RunCall(t, f) \/ RunReturn(t, f)
    \/ LeaveLock(t, f) \/ LeaveStore(t, f) \/ LeaveBroadcast(t, f)

Next ==
    \E t \in Threads, f \in Flags :
        \/ Call(t, f)
        \/ Step(t, f)
        \/ SpuriousWakeup(t, f) \/ Cancel(t, f) \/ RunThrow(t, f)

Spec == Init /\ [][Next]_vars

\* The scheduler runs every thread, a thread that wants the mutex often
\* enough when it is free gets it, and a function that is run returns or
\* throws.  Nothing makes a program call, cancel, throw or wake spuriously.
Fairness == \A t \in Threads : SF_vars(\E f \in Flags : Step(t, f))

FairSpec == Spec /\ Fairness
-----------------------------------------------------------------------------
TypeOK ==
    /\ state \in [Flags -> States]
    /\ mutex \in Threads \cup {NoThread}
    /\ pc \in [Threads -> [Flags -> PCs]]
    /\ next \in [Threads -> [Flags -> {"ready", "done"}]]
    /\ view \in [Threads -> SUBSET Flags]
    /\ flagView \in [Flags -> SUBSET Flags]
    /\ mutexView \in SUBSET Flags
    /\ got \in [Threads -> SUBSET Flags]
    /\ throws \in 0 .. MaxThrows

\* t has been elected by f and has not yet left it
Owns(t, f) == pc[t][f] \in {"run", "nested", "body", "leave", "store"}

\* A flag is marked running exactly while one thread is between its election
\* and the store that leaves the flag, exceptions and cancellations included:
\* no second thread runs the function, and no flag stays running with nobody
\* to leave it, which would park every later caller for good (once.cpp:134,
\* 169).
OneRunner ==
    \A f \in Flags :
        /\ \A t \in Threads : Owns(t, f) => state[f] = "running"
        /\ \A t, u \in Threads : Owns(t, f) /\ Owns(u, f) => t = u
        /\ state[f] = "running" => \E t \in Threads : Owns(t, f)

\* A call that returns normally has everything the function wrote, and what
\* the functions it called wrote, whichever way it returned: the acquire load
\* outside the mutex, the switch under it, or its own run (once.cpp:162).
Published ==
    \A t \in Threads : \A f \in got[t] :
        /\ f \in view[t]
        /\ Callee[f] # NoFlag => Callee[f] \in view[t]

\* A waiter has a flag that is still running, or a broadcast that is still to
\* come: the store under the mutex leaves no gap for a waiter that has just
\* read "running" to miss it (once.cpp:139).
NoLostWakeup ==
    \A t \in Threads, f \in Flags :
        At(t, f, "waiting") =>
            \/ state[f] = "running"
            \/ \E u \in Threads : At(u, f, "broadcast")

\* Every call from outside ends, with the calls its function makes, whether the
\* function was run or given up by an exception: with one broadcast for all
\* flags nobody waits for good, and a flag whose runner threw elects one of its
\* waiters (_once.h:50-53).
CallsEnd ==
    \A t \in Threads :
        (\E f \in Flags : ~At(t, f, "idle")) ~> \A f \in Flags : At(t, f, "idle")
=============================================================================
