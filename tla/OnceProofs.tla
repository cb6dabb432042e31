----------------------------- MODULE OnceProofs -----------------------------
(***************************************************************************)
(* The safety of __rw_once() for every number of threads and flags and     *)
(* every way the flags' functions call one another downwards.  OneRunner   *)
(* and Published are not inductive: that a flag whose function a thread    *)
(* calls is not one that this thread is already in rests on the discipline *)
(* of its stack of calls, and that a call through the mutex has the        *)
(* function's writes on what the mutex carries from its last holder.       *)
(***************************************************************************)
EXTENDS Once, TLAPS

\* the calls of a thread that are not suspended in a deeper one
Active(t, f) == pc[t][f] \notin {"idle", "nested"}

\* The calls a thread is in form a stack: its active call is the lowest, a
\* nested one waits for a call that exists, and nothing is between the two.
ActiveIsLowest ==
    \A t \in Threads : \A f, g \in Flags :
        Active(t, f) /\ g # f /\ ~At(t, g, "idle") => Depth[f] < Depth[g]

NestedHasCallee ==
    \A t \in Threads : \A g \in Flags :
        At(t, g, "nested") =>
            Callee[g] \in Flags /\ ~At(t, Callee[g], "idle")

NestedIsNext ==
    \A t \in Threads : \A g, k \in Flags :
        At(t, g, "nested") /\ k # g /\ ~At(t, k, "idle")
            /\ Depth[Callee[g]] < Depth[k] => Depth[g] < Depth[k]

StackInv == ActiveIsLowest /\ NestedHasCallee /\ NestedIsNext

\* the mutex is held where the code says it is
MutexInv ==
    \A t \in Threads, f \in Flags :
        pc[t][f] \in {"holding", "store"} => mutex = t

\* S has what the function of f wrote, and what the function it called wrote
Full(f, S) == f \in S /\ (Callee[f] # NoFlag => Callee[f] \in S)

\* A flag that is done carries its function's writes, and so does the mutex,
\* or the thread that is holding it.
DoneIsPublished ==
    \A f \in Flags : state[f] = "done" =>
        /\ Full(f, flagView[f])
        /\ IF mutex = NoThread THEN Full(f, mutexView) ELSE Full(f, view[mutex])

\* A function that has returned has its own writes and its callee's.
RunnerHasWrites ==
    \A t \in Threads, f \in Flags :
        /\ At(t, f, "body") /\ Callee[f] # NoFlag => Callee[f] \in view[t]
        /\ pc[t][f] \in {"leave", "store", "broadcast"} /\ next[t][f] = "done"
               => Full(f, view[t])

ViewInv == DoneIsPublished /\ RunnerHasWrites /\ Published
-----------------------------------------------------------------------------
\* A step of __rw_once by a thread t in its call on f, or a caller's.
LEMMA NextCases ==
    ASSUME Next
    PROVE  \E t \in Threads, f \in Flags :
               \/ Call(t, f) \/ TestDone(t, f) \/ TestNotDone(t, f)
               \/ EnterLock(t, f) \/ EnterReady(t, f) \/ EnterDone(t, f)
               \/ EnterWait(t, f) \/ SpuriousWakeup(t, f) \/ Cancel(t, f)
               \/ CancelUnwind(t, f) \/ RunCall(t, f) \/ RunReturn(t, f)
               \/ RunThrow(t, f) \/ LeaveLock(t, f) \/ LeaveStore(t, f)
               \/ LeaveBroadcast(t, f)
BY DEF Next, Step

\* The end of a call leaves its state well typed.
LEMMA FinishType ==
    ASSUME NEW t \in Threads, NEW f \in Flags, NEW ok \in BOOLEAN, NEW q,
           TypeOK, q \in [Threads -> [Flags -> PCs]], Finish(t, f, ok, q)
    PROVE  /\ pc' \in [Threads -> [Flags -> PCs]]
           /\ next' \in [Threads -> [Flags -> {"ready", "done"}]]
           /\ got' \in [Threads -> SUBSET Flags]
<1>1. pc' \in [Threads -> [Flags -> PCs]]
  <2>1. [g \in Flags |-> IF g = f THEN "idle"
                         ELSE IF g \notin CallersOf(t, f) THEN q[t][g]
                         ELSE IF ok THEN "body" ELSE "leave"]
            \in [Flags -> PCs]
    BY DEF PCs
  <2>2. QED
    BY <2>1 DEF Finish
<1>2. next' \in [Threads -> [Flags -> {"ready", "done"}]]
  <2>1. [g \in Flags |->
            IF g \in CallersOf(t, f) /\ ~ok THEN "ready" ELSE next[t][g]]
            \in [Flags -> {"ready", "done"}]
    BY DEF TypeOK
  <2>2. QED
    BY <2>1 DEF Finish, TypeOK
<1>3. got' \in [Threads -> SUBSET Flags]
  BY DEF Finish, TypeOK
<1>4. QED
  BY <1>1, <1>2, <1>3

\* Waking the waiters leaves the program counters well typed.
LEMMA WokenType ==
    ASSUME TypeOK
    PROVE  Woken \in [Threads -> [Flags -> PCs]]
BY DEF TypeOK, Woken, PCs

LEMMA TypeStep ==
    ASSUME TypeOK, [Next]_vars
    PROVE  TypeOK'
<1>1. CASE UNCHANGED vars
  BY <1>1 DEF TypeOK, vars
<1>2. ASSUME NEW t \in Threads, NEW f \in Flags
      PROVE  /\ Call(t, f) => TypeOK'
             /\ TestNotDone(t, f) => TypeOK'
             /\ EnterLock(t, f) => TypeOK'
             /\ SpuriousWakeup(t, f) => TypeOK'
             /\ LeaveLock(t, f) => TypeOK'
  <2>1. ASSUME NEW l \in PCs, Goto(t, f, l)
        PROVE  pc' \in [Threads -> [Flags -> PCs]]
    BY <2>1 DEF TypeOK, Goto
  <2>2. {"test", "enter", "holding", "woken", "store"} \subseteq PCs
    BY DEF PCs
  <2>3. QED
    BY <2>1, <2>2 DEF TypeOK, Call, TestNotDone, EnterLock, SpuriousWakeup,
                      LeaveLock, Lock
<1>3. ASSUME NEW t \in Threads, NEW f \in Flags
      PROVE  /\ EnterReady(t, f) => TypeOK'
             /\ EnterWait(t, f) => TypeOK'
             /\ RunReturn(t, f) => TypeOK'
             /\ LeaveStore(t, f) => TypeOK'
  <2>1. CASE EnterReady(t, f)
    BY <2>1 DEF TypeOK, EnterReady, Goto, Unlock, StoreFlag, PCs, States
  <2>2. CASE EnterWait(t, f)
    BY <2>2 DEF TypeOK, EnterWait, Goto, Unlock, PCs
  <2>3. CASE RunReturn(t, f)
    BY <2>3 DEF TypeOK, RunReturn, Goto, PCs
  <2>4. CASE LeaveStore(t, f)
    BY <2>4 DEF TypeOK, LeaveStore, Goto, Unlock, StoreFlag, PCs, States
  <2>5. QED
    BY <2>1, <2>2, <2>3, <2>4
<1>4. ASSUME NEW t \in Threads, NEW f \in Flags
      PROVE  /\ Cancel(t, f) => TypeOK'
             /\ RunThrow(t, f) => TypeOK'
  <2>1. Throw => throws' \in 0 .. MaxThrows
    BY OnceAssumption DEF TypeOK, Throw
  <2>2. CASE Cancel(t, f)
    BY <2>1, <2>2 DEF TypeOK, Cancel, Goto, PCs
  <2>3. CASE RunThrow(t, f)
    BY <2>1, <2>3 DEF TypeOK, RunThrow, Goto, PCs
  <2>4. QED
    BY <2>2, <2>3
<1>5. ASSUME NEW t \in Threads, NEW f \in Flags
      PROVE  RunCall(t, f) => TypeOK'
  <2>1. [g \in Flags |-> IF g = Callee[f] THEN "test"
                         ELSE IF g # f THEN pc[t][g]
                         ELSE IF Callee[f] = NoFlag THEN "body" ELSE "nested"]
            \in [Flags -> PCs]
    BY DEF TypeOK, PCs
  <2>2. QED
    BY <2>1 DEF TypeOK, RunCall
<1>6. ASSUME NEW t \in Threads, NEW f \in Flags
      PROVE  /\ TestDone(t, f) => TypeOK'
             /\ EnterDone(t, f) => TypeOK'
             /\ CancelUnwind(t, f) => TypeOK'
             /\ LeaveBroadcast(t, f) => TypeOK'
  <2>1. pc \in [Threads -> [Flags -> PCs]]
    BY DEF TypeOK
  <2>2. CASE TestDone(t, f)
    <3>1. Finish(t, f, TRUE, pc)
      BY <2>2 DEF TestDone
    <3>2. QED
      BY <2>1, <2>2, <3>1, FinishType DEF TypeOK, TestDone
  <2>3. CASE EnterDone(t, f)
    <3>1. Finish(t, f, TRUE, pc)
      BY <2>3 DEF EnterDone
    <3>2. QED
      BY <2>1, <2>3, <3>1, FinishType DEF TypeOK, EnterDone, Unlock
  <2>4. CASE CancelUnwind(t, f)
    <3>1. Finish(t, f, FALSE, pc)
      BY <2>4 DEF CancelUnwind
    <3>2. QED
      BY <2>1, <2>4, <3>1, FinishType DEF TypeOK, CancelUnwind
  <2>5. CASE LeaveBroadcast(t, f)
    <3>1. Finish(t, f, next[t][f] = "done", Woken)
      BY <2>5 DEF LeaveBroadcast
    <3>2. QED
      BY <2>5, <3>1, WokenType, FinishType DEF TypeOK, LeaveBroadcast
  <2>6. QED
    BY <2>2, <2>3, <2>4, <2>5
<1>7. QED
  BY <1>1, <1>2, <1>3, <1>4, <1>5, <1>6, NextCases

LEMMA TypeInit == Init => TypeOK
BY OnceAssumption DEF Init, TypeOK, States, PCs

\* Type correctness of every state of __rw_once().
THEOREM TypeCorrect == Spec => []TypeOK
BY TypeInit, TypeStep, PTL DEF Spec
-----------------------------------------------------------------------------
\* p has the same calls idle and the same calls nested as pc.
SameCalls(p) ==
    \A u \in Threads, g \in Flags :
        /\ p[u][g] = "idle" <=> pc[u][g] = "idle"
        /\ p[u][g] = "nested" <=> pc[u][g] = "nested"

LEMMA SameStack ==
    ASSUME StackInv, SameCalls(pc')
    PROVE  StackInv'
BY DEF StackInv, ActiveIsLowest, NestedHasCallee, NestedIsNext, Active, At,
       SameCalls

\* At most one function of a thread is waiting for a call on f, and it is
\* the lowest one above f.
LEMMA OneCaller ==
    ASSUME TypeOK, StackInv, NEW t \in Threads, NEW f \in Flags, Active(t, f),
           NEW g \in CallersOf(t, f)
    PROVE  /\ g \in Flags /\ At(t, g, "nested") /\ Callee[g] = f /\ g # f
           /\ \A k \in Flags : ~At(t, k, "idle") /\ k \notin {f, g}
                                   => Depth[g] < Depth[k]
           /\ \A k \in CallersOf(t, f) : k = g
<1>1. g \in Flags /\ At(t, g, "nested") /\ Callee[g] = f /\ g # f
  BY OnceAssumption DEF CallersOf, Active, At
<1>2. ASSUME NEW k \in Flags, ~At(t, k, "idle"), k \notin {f, g}
      PROVE  Depth[g] < Depth[k]
  <2>1. Depth[f] < Depth[k]
    BY <1>2 DEF StackInv, ActiveIsLowest
  <2>2. QED
    BY <1>1, <1>2, <2>1 DEF StackInv, NestedIsNext
<1>3. ASSUME NEW k \in CallersOf(t, f), k # g
      PROVE  FALSE
  <2>1. k \in Flags /\ At(t, k, "nested") /\ Callee[k] = f /\ k # f
    BY <1>3, OnceAssumption DEF CallersOf, Active, At
  <2>2. Depth[g] < Depth[k]
    BY <1>2, <1>3, <2>1 DEF At
  <2>3. Depth[f] < Depth[g]
    BY <1>1 DEF StackInv, ActiveIsLowest, At
  <2>4. Depth[k] < Depth[g]
    BY <1>1, <1>3, <2>1, <2>3 DEF StackInv, NestedIsNext, At
  <2>5. Depth[k] \in Nat /\ Depth[g] \in Nat
    BY <1>1, <2>1, OnceAssumption
  <2>6. QED
    BY <2>2, <2>4, <2>5
<1>4. QED
  BY <1>1, <1>2, <1>3

\* The calls of the other threads stand, and of t's only f and its caller
\* change.
LEMMA FinishCalls ==
    ASSUME TypeOK, NEW t \in Threads, NEW f \in Flags, NEW ok, NEW q,
           q \in [Threads -> [Flags -> PCs]], SameCalls(q),
           Finish(t, f, ok, q)
    PROVE  /\ \A u \in Threads \ {t} : pc'[u] = q[u]
           /\ pc'[t][f] = "idle"
           /\ \A g \in Flags : g # f =>
                  pc'[t][g] = IF g \notin CallersOf(t, f) THEN q[t][g]
                              ELSE IF ok THEN "body" ELSE "leave"
BY DEF Finish, TypeOK

LEMMA FinishStack ==
    ASSUME TypeOK, StackInv, NEW t \in Threads, NEW f \in Flags, NEW ok, NEW q,
           q \in [Threads -> [Flags -> PCs]], SameCalls(q), Active(t, f),
           Finish(t, f, ok, q)
    PROVE  StackInv'
<1>1. ASSUME NEW u \in Threads \ {t}, NEW g \in Flags
      PROVE  /\ pc'[u][g] = "idle" <=> pc[u][g] = "idle"
             /\ pc'[u][g] = "nested" <=> pc[u][g] = "nested"
  BY <1>1, FinishCalls DEF SameCalls
<1>2. ASSUME NEW g \in Flags
      PROVE  /\ pc'[t][g] = "idle" <=> g = f \/ pc[t][g] = "idle"
             /\ pc'[t][g] = "nested" <=>
                    pc[t][g] = "nested" /\ g \notin CallersOf(t, f)
  <2>1. pc[t][f] # "nested" /\ f \notin CallersOf(t, f)
    BY DEF Active, CallersOf, At
  <2>2. g \in CallersOf(t, f) => pc[t][g] = "nested"
    BY DEF CallersOf, At
  <2>3. q[t][g] = "idle" <=> pc[t][g] = "idle"
    BY DEF SameCalls
  <2>4. q[t][g] = "nested" <=> pc[t][g] = "nested"
    BY DEF SameCalls
  <2>5. CASE g = f
    BY <2>1, <2>5, FinishCalls
  <2>6. CASE g # f /\ g \in CallersOf(t, f)
    BY <2>2, <2>6, FinishCalls
  <2>7. CASE g # f /\ g \notin CallersOf(t, f)
    BY <2>3, <2>4, <2>7, FinishCalls
  <2>8. QED
    BY <2>5, <2>6, <2>7
<1>3. ActiveIsLowest'
  <2>1. SUFFICES ASSUME NEW u \in Threads, NEW g \in Flags, NEW k \in Flags,
                        Active(u, g)', k # g, pc'[u][k] # "idle"
                 PROVE  Depth[g] < Depth[k]
    BY DEF ActiveIsLowest, At
  <2>2. CASE u # t
    BY <1>1, <2>1, <2>2 DEF StackInv, ActiveIsLowest, Active, At
  <2>3. CASE u = t
    <3>1. g # f /\ k # f /\ pc[t][g] # "idle" /\ pc[t][k] # "idle"
      BY <1>2, <2>1, <2>3 DEF Active
    <3>2. CASE g \in CallersOf(t, f)
      BY <2>1, <3>1, <3>2, OneCaller DEF At
    <3>3. CASE g \notin CallersOf(t, f)
      \* g would be a second active call
      <4>1. Active(t, g)
        BY <1>2, <2>1, <2>3, <3>1, <3>3 DEF Active
      <4>2. Depth[f] < Depth[g] /\ Depth[g] < Depth[f]
        BY <3>1, <4>1 DEF StackInv, ActiveIsLowest, Active, At
      <4>3. QED
        BY <4>2, OnceAssumption
    <3>4. QED
      BY <3>2, <3>3
  <2>4. QED
    BY <2>2, <2>3
<1>4. NestedHasCallee'
  <2>1. SUFFICES ASSUME NEW u \in Threads, NEW g \in Flags,
                        pc'[u][g] = "nested"
                 PROVE  Callee[g] \in Flags /\ pc'[u][Callee[g]] # "idle"
    BY DEF NestedHasCallee, At
  <2>2. pc[u][g] = "nested"
    BY <1>1, <1>2, <2>1
  <2>3. Callee[g] \in Flags /\ pc[u][Callee[g]] # "idle"
    BY <2>2 DEF StackInv, NestedHasCallee, At
  <2>4. CASE u # t
    BY <1>1, <2>3, <2>4
  <2>5. CASE u = t
    <3>1. Callee[g] # f
      BY <1>2, <2>1, <2>2, <2>5 DEF CallersOf, At
    <3>2. QED
      BY <1>2, <2>3, <2>5, <3>1
  <2>6. QED
    BY <2>4, <2>5
<1>5. NestedIsNext'
  <2>1. ASSUME NEW u \in Threads, NEW g \in Flags
        PROVE  /\ pc'[u][g] = "nested" => pc[u][g] = "nested"
               /\ pc'[u][g] # "idle" => pc[u][g] # "idle"
    BY <1>1, <1>2
  <2>2. QED
    BY <2>1 DEF StackInv, NestedIsNext, At
<1>6. QED
  BY <1>3, <1>4, <1>5 DEF StackInv

\* The flag a function goes through is none that its thread is in.
LEMMA CalleeIsIdle ==
    ASSUME TypeOK, StackInv, NEW t \in Threads, NEW f \in Flags, Active(t, f),
           Callee[f] # NoFlag
    PROVE  /\ Callee[f] \in Flags /\ Depth[Callee[f]] < Depth[f]
           /\ Callee[f] # f /\ pc[t][Callee[f]] = "idle"
<1>1. /\ Callee[f] \in Flags /\ Depth[Callee[f]] < Depth[f]
      /\ Depth[f] \in Nat /\ Depth[Callee[f]] \in Nat
  BY OnceAssumption
<1>2. Callee[f] # f
  BY <1>1
<1>3. pc[t][Callee[f]] # "idle" => Depth[f] < Depth[Callee[f]]
  BY <1>1, <1>2 DEF StackInv, ActiveIsLowest, At
<1>4. QED
  BY <1>1, <1>2, <1>3

LEMMA RunCallStack ==
    ASSUME TypeOK, StackInv, NEW t \in Threads, NEW f \in Flags, RunCall(t, f)
    PROVE  StackInv'
<1>1. Active(t, f)
  BY DEF RunCall, Active, At
<1>2. CASE Callee[f] = NoFlag
  <2>1. SameCalls(pc')
    BY <1>2, OnceAssumption DEF SameCalls, RunCall, TypeOK, At
  <2>2. QED
    BY <2>1, SameStack
<1>3. CASE Callee[f] # NoFlag
  <2> DEFINE c == Callee[f]
  <2>1. c \in Flags /\ c # f /\ pc[t][c] = "idle" /\ Depth[c] < Depth[f]
    BY <1>1, <1>3, CalleeIsIdle
  <2>2. \A u \in Threads \ {t} : pc'[u] = pc[u]
    BY DEF RunCall, TypeOK
  <2>3. \A g \in Flags : pc'[t][g] = IF g = c THEN "test"
                                     ELSE IF g # f THEN pc[t][g] ELSE "nested"
    BY <1>3 DEF RunCall, TypeOK
  <2>4. \A k \in Flags : k # f /\ pc[t][k] # "idle" => Depth[f] < Depth[k]
    BY <1>1 DEF StackInv, ActiveIsLowest, At
  <2>5. \A k \in Flags : Depth[k] \in Nat
    BY OnceAssumption
  <2> HIDE DEF c
  <2>6. ActiveIsLowest'
    <3>1. SUFFICES ASSUME NEW u \in Threads, NEW g \in Flags, NEW k \in Flags,
                          Active(u, g)', k # g, pc'[u][k] # "idle"
                   PROVE  Depth[g] < Depth[k]
      BY DEF ActiveIsLowest, At
    <3>2. CASE u # t
      BY <2>2, <3>1, <3>2 DEF StackInv, ActiveIsLowest, Active, At
    <3>3. CASE u = t
      <4>1. g = c
        \* any other active call of t would have been beside f
        <5>1. SUFFICES ASSUME g # c PROVE FALSE
          OBVIOUS
        <5>2. g # f /\ Active(t, g)
          BY <2>3, <3>1, <3>3, <5>1 DEF Active
        <5>3. Depth[g] < Depth[f] /\ Depth[f] < Depth[g]
          BY <1>1, <2>4, <5>2 DEF StackInv, ActiveIsLowest, Active, At
        <5>4. QED
          BY <2>5, <5>3
      <4>2. k = f \/ (k # f /\ pc[t][k] # "idle")
        BY <2>3, <3>1, <3>3, <4>1
      <4>3. QED
        BY <2>1, <2>4, <2>5, <4>1, <4>2
    <3>4. QED
      BY <3>2, <3>3
  <2>7. NestedHasCallee'
    <3>1. SUFFICES ASSUME NEW u \in Threads, NEW g \in Flags,
                          pc'[u][g] = "nested"
                   PROVE  Callee[g] \in Flags /\ pc'[u][Callee[g]] # "idle"
      BY DEF NestedHasCallee, At
    <3>2. CASE u = t /\ g = f
      BY <2>1, <2>3, <3>2 DEF c
    <3>3. CASE ~(u = t /\ g = f)
      <4>1. pc[u][g] = "nested"
        BY <2>2, <2>3, <3>1, <3>3
      <4>2. Callee[g] \in Flags /\ pc[u][Callee[g]] # "idle"
        BY <4>1 DEF StackInv, NestedHasCallee, At
      <4>3. QED
        BY <2>2, <2>3, <4>2
    <3>4. QED
      BY <3>2, <3>3
  <2>8. NestedIsNext'
    <3>1. SUFFICES ASSUME NEW u \in Threads, NEW g \in Flags, NEW k \in Flags,
                          pc'[u][g] = "nested", k # g, pc'[u][k] # "idle",
                          Depth[Callee[g]] < Depth[k]
                   PROVE  Depth[g] < Depth[k]
      BY DEF NestedIsNext, At
    <3>2. CASE u # t
      BY <2>2, <3>1, <3>2 DEF StackInv, NestedIsNext, At
    <3>3. CASE u = t /\ g = f
      <4>1. k # c
        BY <2>5, <3>1, <3>3 DEF c
      <4>2. pc[t][k] # "idle"
        BY <2>3, <3>1, <3>3, <4>1
      <4>3. QED
        BY <2>4, <3>1, <3>3, <4>2
    <3>4. CASE u = t /\ g # f
      <4>1. pc[t][g] = "nested"
        BY <2>3, <3>1, <3>4
      <4>2. Callee[g] \in Flags /\ pc[t][Callee[g]] # "idle"
        BY <4>1 DEF StackInv, NestedHasCallee, At
      <4>3. k # c
        \* the call below g is f's or one above it, so not below c
        <5>1. Callee[g] = f \/ Depth[f] < Depth[Callee[g]]
          BY <2>4, <4>2
        <5>2. Depth[c] < Depth[Callee[g]]
          BY <2>1, <2>5, <4>2, <5>1
        <5>3. QED
          BY <2>1, <2>5, <3>1, <4>2, <5>2
      <4>4. pc[t][k] # "idle"
        <5>1. k = f => pc[t][k] # "idle"
          BY <1>1 DEF Active
        <5>2. QED
          BY <2>3, <3>1, <3>4, <4>3, <5>1
      <4>5. QED
        BY <3>1, <4>1, <4>4 DEF StackInv, NestedIsNext, At
    <3>5. QED
      BY <3>2, <3>3, <3>4
  <2>9. QED
    BY <2>6, <2>7, <2>8 DEF StackInv
<1>4. QED
  BY <1>2, <1>3

\* An action that moves one active call from one label to another.
LEMMA GotoSame ==
    ASSUME TypeOK, NEW t \in Threads, NEW f \in Flags, Active(t, f), NEW l,
           l \notin {"idle", "nested"}, Goto(t, f, l)
    PROVE  SameCalls(pc')
BY DEF TypeOK, Goto, SameCalls, Active

LEMMA WokenSame ==
    ASSUME TypeOK
    PROVE  SameCalls(Woken) /\ SameCalls(pc)
BY DEF Woken, SameCalls, At

LEMMA CallStack ==
    ASSUME TypeOK, NEW t \in Threads, NEW f \in Flags, Call(t, f), StackInv
    PROVE  StackInv'
<1>1. /\ \A u \in Threads \ {t} : pc'[u] = pc[u]
      /\ \A g \in Flags : pc'[t][g] = IF g = f THEN "test" ELSE "idle"
  BY DEF Call, Goto, At, TypeOK
<1>2. QED
  BY <1>1 DEF StackInv, ActiveIsLowest, NestedHasCallee, NestedIsNext, Active,
              At

LEMMA StackStep ==
    ASSUME TypeOK, StackInv, [Next]_vars
    PROVE  StackInv'
<1>1. CASE UNCHANGED vars
  BY <1>1, SameStack DEF vars, SameCalls
<1>2. pc \in [Threads -> [Flags -> PCs]] /\ Woken \in [Threads -> [Flags -> PCs]]
  BY WokenType DEF TypeOK
<1>3. ASSUME NEW t \in Threads, NEW f \in Flags
      PROVE  /\ TestNotDone(t, f) => StackInv'
             /\ EnterLock(t, f) => StackInv'
             /\ EnterReady(t, f) => StackInv'
             /\ EnterWait(t, f) => StackInv'
             /\ SpuriousWakeup(t, f) => StackInv'
             /\ Cancel(t, f) => StackInv'
             /\ RunReturn(t, f) => StackInv'
             /\ RunThrow(t, f) => StackInv'
             /\ LeaveLock(t, f) => StackInv'
             /\ LeaveStore(t, f) => StackInv'
  <2>1. ASSUME NEW l \in PCs \ {"idle", "nested"}, Active(t, f), Goto(t, f, l)
        PROVE  StackInv'
    BY <2>1, GotoSame, SameStack
  <2>2. {"enter", "holding", "run", "waiting", "woken", "cancelled", "leave",
         "store", "broadcast"} \subseteq PCs \ {"idle", "nested"}
    BY DEF PCs
  <2>3. QED
    BY <2>1, <2>2 DEF TestNotDone, EnterLock, EnterReady, EnterWait,
           SpuriousWakeup, Cancel, RunReturn, RunThrow, LeaveLock, LeaveStore,
           Active, At
<1>4. ASSUME NEW t \in Threads, NEW f \in Flags
      PROVE  /\ TestDone(t, f) => StackInv'
             /\ EnterDone(t, f) => StackInv'
             /\ CancelUnwind(t, f) => StackInv'
             /\ LeaveBroadcast(t, f) => StackInv'
  <2>1. ASSUME NEW ok, Active(t, f), Finish(t, f, ok, pc)
        PROVE  StackInv'
    BY <1>2, <2>1, WokenSame, FinishStack
  <2>2. ASSUME NEW ok, Active(t, f), Finish(t, f, ok, Woken)
        PROVE  StackInv'
    BY <1>2, <2>2, WokenSame, FinishStack
  <2>3. QED
    BY <2>1, <2>2 DEF TestDone, EnterDone, CancelUnwind, LeaveBroadcast,
                      Active, At
<1>5. QED
  BY <1>1, <1>3, <1>4, CallStack, RunCallStack, NextCases
-----------------------------------------------------------------------------
\* The owner of a flag is the thread whose call is in one of these labels;
\* the end of a call on f leaves the owners of every flag as they are.
LEMMA FinishOwns ==
    ASSUME TypeOK, StackInv, NEW t \in Threads, NEW f \in Flags, NEW ok, NEW q,
           q \in {pc, Woken}, Active(t, f), ~Owns(t, f), Finish(t, f, ok, q)
    PROVE  \A u \in Threads, g \in Flags : Owns(u, g)' <=> Owns(u, g)
<1>1. q \in [Threads -> [Flags -> PCs]] /\ SameCalls(q)
  BY WokenType, WokenSame DEF TypeOK
<1>2. \A u \in Threads, g \in Flags :
          q[u][g] \in {"run", "nested", "body", "leave", "store"} <=> Owns(u, g)
  BY DEF Owns, Woken, At
<1>3. \A g \in CallersOf(t, f) : Owns(t, g)
  BY DEF CallersOf, Owns, At
<1>4. QED
  BY <1>1, <1>2, <1>3, FinishCalls DEF Owns

\* An action that moves one call within, or outside, the labels of an owner.
LEMMA GotoOwns ==
    ASSUME TypeOK, NEW t \in Threads, NEW f \in Flags, NEW l, Goto(t, f, l),
           l \in {"run", "nested", "body", "leave", "store"} <=> Owns(t, f)
    PROVE  \A u \in Threads, g \in Flags : Owns(u, g)' <=> Owns(u, g)
BY DEF TypeOK, Goto, Owns

LEMMA OneRunnerStep ==
    ASSUME TypeOK, StackInv, OneRunner, [Next]_vars
    PROVE  OneRunner'
<1>1. ASSUME \A u \in Threads, g \in Flags : Owns(u, g)' <=> Owns(u, g),
             state' = state
      PROVE  OneRunner'
  BY <1>1 DEF OneRunner
<1>2. CASE UNCHANGED vars
  BY <1>1, <1>2 DEF vars, Owns
<1>3. ASSUME NEW t \in Threads, NEW f \in Flags
      PROVE  /\ Call(t, f) => OneRunner'
             /\ TestNotDone(t, f) => OneRunner'
             /\ EnterLock(t, f) => OneRunner'
             /\ EnterWait(t, f) => OneRunner'
             /\ SpuriousWakeup(t, f) => OneRunner'
             /\ Cancel(t, f) => OneRunner'
             /\ RunReturn(t, f) => OneRunner'
             /\ RunThrow(t, f) => OneRunner'
             /\ LeaveLock(t, f) => OneRunner'
  BY <1>1, GotoOwns DEF Call, TestNotDone, EnterLock, EnterWait,
         SpuriousWakeup, Cancel, RunReturn, RunThrow, LeaveLock, At, Owns
<1>4. ASSUME NEW t \in Threads, NEW f \in Flags
      PROVE  /\ TestDone(t, f) => OneRunner'
             /\ EnterDone(t, f) => OneRunner'
             /\ CancelUnwind(t, f) => OneRunner'
             /\ LeaveBroadcast(t, f) => OneRunner'
  BY <1>1, FinishOwns DEF TestDone, EnterDone, CancelUnwind, LeaveBroadcast,
         Active, Owns, At
<1>5. ASSUME NEW t \in Threads, NEW f \in Flags, RunCall(t, f)
      PROVE  OneRunner'
  <2>1. Active(t, f) /\ Owns(t, f)
    BY <1>5 DEF RunCall, Active, Owns, At
  <2>2. ASSUME Callee[f] \in Flags
        PROVE  Callee[f] # f /\ ~Owns(t, Callee[f])
    BY <2>1, <2>2, CalleeIsIdle, OnceAssumption DEF Owns
  <2>3. Callee[f] \in Flags \/ Callee[f] = NoFlag
    BY OnceAssumption
  <2>4. \A u \in Threads, g \in Flags : Owns(u, g)' <=> Owns(u, g)
    BY <1>5, <2>1, <2>2, <2>3, OnceAssumption DEF RunCall, TypeOK, Owns
  <2>5. QED
    BY <1>1, <1>5, <2>4 DEF RunCall
<1>6. ASSUME NEW t \in Threads, NEW f \in Flags, EnterReady(t, f)
      PROVE  OneRunner'
  <2>1. \A u \in Threads : ~Owns(u, f)
    BY <1>6 DEF OneRunner, EnterReady
  <2>2. \A u \in Threads, g \in Flags :
            Owns(u, g)' <=> Owns(u, g) \/ (u = t /\ g = f)
    BY <1>6 DEF EnterReady, Goto, TypeOK, Owns
  <2>3. /\ state'[f] = "running"
        /\ \A g \in Flags \ {f} : state'[g] = state[g]
    BY <1>6 DEF EnterReady, StoreFlag, TypeOK
  <2>4. QED
    BY <2>1, <2>2, <2>3 DEF OneRunner
<1>7. ASSUME NEW t \in Threads, NEW f \in Flags, LeaveStore(t, f)
      PROVE  OneRunner'
  <2>1. Owns(t, f) /\ \A u \in Threads : Owns(u, f) => u = t
    BY <1>7 DEF OneRunner, LeaveStore, Owns, At
  <2>2. \A u \in Threads, g \in Flags :
            Owns(u, g)' <=> Owns(u, g) /\ ~(u = t /\ g = f)
    BY <1>7 DEF LeaveStore, Goto, TypeOK, Owns, At
  <2>3. /\ state'[f] # "running"
        /\ \A g \in Flags \ {f} : state'[g] = state[g]
    BY <1>7 DEF LeaveStore, StoreFlag, TypeOK
  <2>4. QED
    BY <2>1, <2>2, <2>3 DEF OneRunner
<1>8. QED
  BY <1>2, <1>3, <1>4, <1>5, <1>6, <1>7, NextCases

LEMMA CallsInit == Init => StackInv /\ OneRunner
BY DEF Init, StackInv, ActiveIsLowest, NestedHasCallee, NestedIsNext,
       OneRunner, Owns, Active, At

\* One thread at a time runs the function of a flag, and it leaves the flag.
THEOREM OneRunnerAlways == Spec => []OneRunner
<1>1. Init => TypeOK /\ StackInv /\ OneRunner
  BY TypeInit, CallsInit
<1>2. TypeOK /\ StackInv /\ OneRunner /\ [Next]_vars
          => (TypeOK /\ StackInv /\ OneRunner)'
  BY TypeStep, StackStep, OneRunnerStep
<1>3. QED
  BY <1>1, <1>2, PTL DEF Spec
-----------------------------------------------------------------------------
LEMMA OneActive ==
    ASSUME StackInv, NEW t \in Threads, NEW f \in Flags, NEW g \in Flags,
           Active(t, f), Active(t, g)
    PROVE  f = g
<1>1. f # g => Depth[f] < Depth[g] /\ Depth[g] < Depth[f]
  BY DEF StackInv, ActiveIsLowest, Active, At
<1>2. QED
  BY <1>1, OnceAssumption

\* A call is inside the lock's scope in these labels.
InLock(t, f) == pc[t][f] \in {"holding", "store"}

LEMMA FinishInLock ==
    ASSUME TypeOK, StackInv, NEW t \in Threads, NEW f \in Flags, NEW ok, NEW q,
           q \in {pc, Woken}, Active(t, f), Finish(t, f, ok, q)
    PROVE  \A u \in Threads, g \in Flags :
               InLock(u, g)' <=> InLock(u, g) /\ ~(u = t /\ g = f)
<1>1. q \in [Threads -> [Flags -> PCs]] /\ SameCalls(q)
  BY WokenType, WokenSame DEF TypeOK
<1>2. \A u \in Threads, g \in Flags :
          q[u][g] \in {"holding", "store"} <=> InLock(u, g)
  BY DEF InLock, Woken, At
<1>3. \A g \in CallersOf(t, f) : ~InLock(t, g)
  BY DEF CallersOf, InLock, At
<1>4. QED
  BY <1>1, <1>2, <1>3, FinishCalls DEF InLock

LEMMA GotoInLock ==
    ASSUME TypeOK, NEW t \in Threads, NEW f \in Flags, NEW l, Goto(t, f, l)
    PROVE  \A u \in Threads, g \in Flags :
               InLock(u, g)' <=> IF u = t /\ g = f THEN l \in {"holding", "store"}
                                 ELSE InLock(u, g)
BY DEF TypeOK, Goto, InLock

LEMMA MutexStep ==
    ASSUME TypeOK, StackInv, MutexInv, [Next]_vars
    PROVE  MutexInv'
<1> USE DEF MutexInv
<1>1. CASE UNCHANGED vars
  BY <1>1 DEF vars
<1>2. ASSUME NEW t \in Threads, NEW f \in Flags
      PROVE  /\ Call(t, f) => MutexInv'
             /\ TestNotDone(t, f) => MutexInv'
             /\ SpuriousWakeup(t, f) => MutexInv'
             /\ Cancel(t, f) => MutexInv'
             /\ RunReturn(t, f) => MutexInv'
             /\ RunThrow(t, f) => MutexInv'
  BY GotoInLock DEF Call, TestNotDone, SpuriousWakeup, Cancel, RunReturn,
         RunThrow, InLock
<1>3. ASSUME NEW t \in Threads, NEW f \in Flags
      PROVE  /\ EnterLock(t, f) => MutexInv'
             /\ LeaveLock(t, f) => MutexInv'
  <2>1. ASSUME NEW l, Lock(t), Goto(t, f, l)
        PROVE  MutexInv'
    BY <2>1, GotoInLock, OnceAssumption DEF Lock, InLock
  <2>2. QED
    BY <2>1 DEF EnterLock, LeaveLock
<1>4. ASSUME NEW t \in Threads, NEW f \in Flags, InLock(t, f)
      PROVE  \A u \in Threads, g \in Flags : InLock(u, g) => u = t /\ g = f
  <2>1. \A u \in Threads, g \in Flags : InLock(u, g) => u = t
    BY <1>4 DEF InLock
  <2>2. \A g \in Flags : InLock(t, g) => g = f
    BY <1>4, OneActive DEF InLock, Active
  <2>3. QED
    BY <2>1, <2>2
<1>5. ASSUME NEW t \in Threads, NEW f \in Flags
      PROVE  /\ EnterReady(t, f) => MutexInv'
             /\ EnterWait(t, f) => MutexInv'
             /\ LeaveStore(t, f) => MutexInv'
  <2>1. ASSUME NEW l, l \notin {"holding", "store"}, InLock(t, f), Goto(t, f, l)
        PROVE  \A u \in Threads, g \in Flags : ~InLock(u, g)'
    BY <1>4, <2>1, GotoInLock
  <2>2. QED
    BY <2>1 DEF EnterReady, EnterWait, LeaveStore, At, InLock
<1>6. ASSUME NEW t \in Threads, NEW f \in Flags
      PROVE  /\ TestDone(t, f) => MutexInv'
             /\ LeaveBroadcast(t, f) => MutexInv'
  <2>1. ASSUME NEW ok, NEW q \in {pc, Woken}, Active(t, f), Finish(t, f, ok, q),
               mutex' = mutex
        PROVE  MutexInv'
    BY <2>1, FinishInLock DEF InLock
  <2>2. QED
    BY <2>1 DEF TestDone, LeaveBroadcast, Active, At
<1>7. ASSUME NEW t \in Threads, NEW f \in Flags, EnterDone(t, f)
      PROVE  MutexInv'
  <2>1. Active(t, f) /\ InLock(t, f) /\ Finish(t, f, TRUE, pc)
    BY <1>7 DEF EnterDone, Active, At, InLock
  <2>2. \A u \in Threads, g \in Flags :
            InLock(u, g)' <=> InLock(u, g) /\ ~(u = t /\ g = f)
    BY <2>1, FinishInLock
  <2>3. \A u \in Threads, g \in Flags : ~InLock(u, g)'
    BY <1>4, <2>1, <2>2
  <2>4. QED
    BY <2>3 DEF InLock
<1>8. ASSUME NEW t \in Threads, NEW f \in Flags, CancelUnwind(t, f)
      PROVE  MutexInv'
  <2>1. \A u \in Threads, g \in Flags : ~InLock(u, g)
    BY <1>8, OnceAssumption DEF CancelUnwind, InLock
  <2>2. \A u \in Threads, g \in Flags : ~InLock(u, g)'
    BY <1>8, <2>1, FinishInLock DEF CancelUnwind, Active, At
  <2>3. QED
    BY <2>2 DEF InLock
<1>9. ASSUME NEW t \in Threads, NEW f \in Flags, RunCall(t, f)
      PROVE  MutexInv'
  <2>1. \A u \in Threads, g \in Flags : InLock(u, g)' => InLock(u, g)
    BY <1>9 DEF RunCall, TypeOK, InLock
  <2>2. QED
    BY <1>9, <2>1 DEF RunCall, InLock
<1>10. QED
  BY <1>1, <1>2, <1>3, <1>5, <1>6, <1>7, <1>8, <1>9, NextCases
-----------------------------------------------------------------------------
\* The end of a call on f that returns normally to a thread that has the
\* writes of f, or with an exception, keeps what the runners have.
LEMMA FinishWrites ==
    ASSUME TypeOK, StackInv, RunnerHasWrites, Published,
           NEW t \in Threads, NEW f \in Flags, NEW ok \in BOOLEAN,
           NEW q \in {pc, Woken}, Active(t, f), Finish(t, f, ok, q),
           view' \in [Threads -> SUBSET Flags],
           \A u \in Threads : view[u] \subseteq view'[u],
           ok => Full(f, view'[t])
    PROVE  RunnerHasWrites' /\ Published'
<1>1. q \in [Threads -> [Flags -> PCs]] /\ SameCalls(q)
  BY WokenType, WokenSame DEF TypeOK
<1>2. \A u \in Threads, g \in Flags :
          /\ q[u][g] = "body" <=> pc[u][g] = "body"
          /\ q[u][g] \in {"leave", "store", "broadcast"} <=>
                 pc[u][g] \in {"leave", "store", "broadcast"}
  BY DEF Woken, At
<1>3. \A g \in CallersOf(t, f) : g \in Flags /\ Callee[g] = f
  BY DEF CallersOf
<1>4. /\ \A u \in Threads \ {t} : next'[u] = next[u]
      /\ \A g \in Flags : next'[t][g] = IF g \in CallersOf(t, f) /\ ~ok
                                        THEN "ready" ELSE next[t][g]
  BY DEF Finish, TypeOK
<1>5. /\ \A u \in Threads \ {t} : got'[u] = got[u]
      /\ got'[t] = IF ok THEN got[t] \cup {f} ELSE got[t]
  BY DEF Finish, TypeOK
<1>6. RunnerHasWrites'
  <2>1. SUFFICES ASSUME NEW u \in Threads, NEW g \in Flags
                 PROVE  /\ pc'[u][g] = "body" /\ Callee[g] # NoFlag
                               => Callee[g] \in view'[u]
                        /\ pc'[u][g] \in {"leave", "store", "broadcast"}
                               /\ next'[u][g] = "done" => Full(g, view'[u])
    BY DEF RunnerHasWrites, At, Full
  <2>2. CASE u # t \/ (g # f /\ g \notin CallersOf(t, f))
    BY <1>1, <1>2, <1>4, <2>2, FinishCalls DEF RunnerHasWrites, At, Full
  <2>3. CASE u = t /\ g = f
    BY <1>1, <2>3, FinishCalls
  <2>4. CASE u = t /\ g # f /\ g \in CallersOf(t, f)
    BY <1>1, <1>3, <1>4, <2>4, FinishCalls DEF Full
  <2>5. QED
    BY <2>2, <2>3, <2>4
<1>7. Published'
  BY <1>5 DEF Published, Full, TypeOK
<1>8. QED
  BY <1>6, <1>7

\* A step that ends no call keeps what the runners have if no call comes to
\* its end with less.
LEMMA StepWrites ==
    ASSUME TypeOK, RunnerHasWrites, Published, got' = got,
           \A u \in Threads : view[u] \subseteq view'[u],
           \A u \in Threads, g \in Flags :
               /\ pc'[u][g] = "body" =>
                      pc[u][g] = "body" \/ Callee[g] = NoFlag
               /\ pc'[u][g] \in {"leave", "store", "broadcast"}
                      /\ next'[u][g] = "done" =>
                      \/ /\ pc[u][g] \in {"leave", "store", "broadcast"}
                         /\ next[u][g] = "done"
                      \/ Full(g, view'[u])
    PROVE  RunnerHasWrites' /\ Published'
BY DEF RunnerHasWrites, Published, At, Full

\* What is marked done stays published when the flags stand and the mutex is
\* taken, held or let go.
LEMMA DonePublished ==
    ASSUME TypeOK, DoneIsPublished, state' = state, flagView' = flagView,
           \A u \in Threads : view[u] \subseteq view'[u],
           \/ mutex' = mutex /\ mutexView' = mutexView
           \/ mutex = NoThread /\ mutex' \in Threads
                  /\ mutexView \subseteq view'[mutex']
           \/ mutex \in Threads /\ mutex' = NoThread /\ mutexView' = view[mutex]
           \/ mutex = NoThread /\ mutex' = NoThread
                  /\ mutexView \subseteq mutexView'
    PROVE  DoneIsPublished'
<1>1. mutex \in Threads \cup {NoThread} /\ NoThread \notin Threads
  BY OnceAssumption DEF TypeOK
<1>2. \A f \in Flags : \A S, T : Full(f, S) /\ S \subseteq T => Full(f, T)
  BY DEF Full
<1>3. ASSUME NEW f \in Flags, state'[f] = "done"
      PROVE  /\ Full(f, flagView'[f])
             /\ IF mutex' = NoThread THEN Full(f, mutexView')
                ELSE Full(f, view'[mutex'])
  <2>1. /\ Full(f, flagView[f])
        /\ IF mutex = NoThread THEN Full(f, mutexView) ELSE Full(f, view[mutex])
    BY <1>3 DEF DoneIsPublished
  <2>2. QED
    BY <1>1, <1>2, <2>1
<1>4. QED
  BY <1>3 DEF DoneIsPublished, Full

LEMMA ViewStep ==
    ASSUME TypeOK, TypeOK', StackInv, MutexInv, ViewInv, [Next]_vars
    PROVE  ViewInv'
<1> USE DEF ViewInv
<1>1. CASE UNCHANGED vars
  BY <1>1 DEF vars, DoneIsPublished, RunnerHasWrites, Published, At, Full
<1>2. ASSUME NEW t \in Threads, NEW f \in Flags
      PROVE  /\ Call(t, f) => ViewInv'
             /\ TestNotDone(t, f) => ViewInv'
             /\ SpuriousWakeup(t, f) => ViewInv'
             /\ Cancel(t, f) => ViewInv'
  <2>1. ASSUME NEW l \in {"test", "enter", "woken", "cancelled"}, Goto(t, f, l),
               view' = view, next' = next, got' = got
        PROVE  RunnerHasWrites' /\ Published'
    BY <2>1, StepWrites DEF Goto, TypeOK
  <2>2. ASSUME state' = state, flagView' = flagView, view' = view,
               mutex' = mutex, mutexView' = mutexView
        PROVE  DoneIsPublished'
    BY <2>2, DonePublished
  <2>3. QED
    BY <2>1, <2>2 DEF Call, TestNotDone, SpuriousWakeup, Cancel
<1>3. ASSUME NEW t \in Threads, NEW f \in Flags, Lock(t)
      PROVE  /\ EnterLock(t, f) => ViewInv'
             /\ LeaveLock(t, f) => ViewInv'
  <2>1. \A u \in Threads : view[u] \subseteq view'[u]
    BY <1>3 DEF Lock, TypeOK
  <2>2. mutex = NoThread /\ mutex' = t /\ mutexView \subseteq view'[t]
    BY <1>3 DEF Lock, TypeOK
  <2>3. ASSUME EnterLock(t, f) PROVE RunnerHasWrites' /\ Published'
    BY <2>1, <2>3, StepWrites DEF EnterLock, Goto, TypeOK
  <2>4. ASSUME LeaveLock(t, f) PROVE RunnerHasWrites' /\ Published'
    BY <2>1, <2>4, StepWrites DEF LeaveLock, Goto, TypeOK, At
  <2>5. QED
    BY <2>1, <2>2, <2>3, <2>4, DonePublished DEF EnterLock, LeaveLock
<1>4. ASSUME NEW t \in Threads, NEW f \in Flags, EnterWait(t, f)
      PROVE  ViewInv'
  <2>1. mutex = t
    BY <1>4 DEF EnterWait, MutexInv, At
  <2>2. RunnerHasWrites' /\ Published'
    BY <1>4, StepWrites DEF EnterWait, Goto, TypeOK
  <2>3. DoneIsPublished'
    BY <1>4, <2>1, DonePublished DEF EnterWait, Unlock
  <2>4. QED
    BY <2>2, <2>3
<1>5. ASSUME NEW t \in Threads, NEW f \in Flags
      PROVE  /\ RunReturn(t, f) => ViewInv'
             /\ RunThrow(t, f) => ViewInv'
  <2>1. CASE RunReturn(t, f)
    <3>1. /\ \A u \in Threads : view[u] \subseteq view'[u]
          /\ Full(f, view'[t])
      BY <2>1 DEF RunReturn, RunnerHasWrites, Full, TypeOK
    <3>2. \A u \in Threads, g \in Flags :
              \/ u = t /\ g = f /\ pc'[u][g] = "leave"
              \/ pc'[u][g] = pc[u][g] /\ next'[u][g] = next[u][g]
      BY <2>1 DEF RunReturn, Goto, TypeOK
    <3>3. RunnerHasWrites' /\ Published'
      BY <2>1, <3>1, <3>2, StepWrites DEF RunReturn
    <3>4. QED
      BY <2>1, <3>1, <3>3, DonePublished DEF RunReturn
  <2>2. CASE RunThrow(t, f)
    <3>1. RunnerHasWrites' /\ Published'
      BY <2>2, StepWrites DEF RunThrow, Goto, TypeOK
    <3>2. QED
      BY <2>2, <3>1, DonePublished DEF RunThrow
  <2>3. QED
    BY <2>1, <2>2
<1>6. ASSUME NEW t \in Threads, NEW f \in Flags, RunCall(t, f)
      PROVE  ViewInv'
  <2>1. \A u \in Threads, g \in Flags :
            \/ pc'[u][g] = pc[u][g]
            \/ pc'[u][g] \in {"test", "nested"}
            \/ g = f /\ Callee[f] = NoFlag /\ pc'[u][g] = "body"
    BY <1>6 DEF RunCall, TypeOK
  <2>2. RunnerHasWrites' /\ Published'
    BY <1>6, <2>1, StepWrites DEF RunCall
  <2>3. QED
    BY <1>6, <2>2, DonePublished DEF RunCall
<1>7. ASSUME NEW t \in Threads, NEW f \in Flags, NEW value,
             mutex = t, StoreFlag(t, f, value), Unlock(t), view' = view,
             value = "done" => Full(f, view[t])
      PROVE  DoneIsPublished'
  <2>1. mutex' = NoThread /\ mutexView' = view[t] /\ mutex # NoThread
    BY <1>7, OnceAssumption DEF Unlock
  <2>2. /\ state'[f] = value /\ flagView'[f] = view[t]
        /\ \A g \in Flags \ {f} : state'[g] = state[g] /\ flagView'[g] = flagView[g]
    BY <1>7 DEF StoreFlag, TypeOK
  <2>3. QED
    BY <1>7, <2>1, <2>2 DEF DoneIsPublished, Full
<1>8. ASSUME NEW t \in Threads, NEW f \in Flags
      PROVE  /\ EnterReady(t, f) => ViewInv'
             /\ LeaveStore(t, f) => ViewInv'
  <2>1. CASE EnterReady(t, f)
    <3>1. RunnerHasWrites' /\ Published'
      BY <2>1, StepWrites DEF EnterReady, Goto, TypeOK
    <3>2. mutex = t
      BY <2>1 DEF EnterReady, MutexInv, At
    <3>3. QED
      BY <1>7, <2>1, <3>1, <3>2 DEF EnterReady
  <2>2. CASE LeaveStore(t, f)
    <3>1. RunnerHasWrites' /\ Published'
      BY <2>2, StepWrites DEF LeaveStore, Goto, TypeOK, At
    <3>2. mutex = t /\ (next[t][f] = "done" => Full(f, view[t]))
      BY <2>2 DEF LeaveStore, MutexInv, RunnerHasWrites, At
    <3>3. QED
      BY <1>7, <2>2, <3>1, <3>2 DEF LeaveStore
  <2>3. QED
    BY <2>1, <2>2
<1>9. ASSUME NEW t \in Threads, NEW f \in Flags, TestDone(t, f)
      PROVE  ViewInv'
  <2>1. /\ \A u \in Threads : view[u] \subseteq view'[u]
        /\ flagView[f] \subseteq view'[t]
    BY <1>9 DEF TestDone, TypeOK
  <2>2. Full(f, view'[t])
    BY <1>9, <2>1 DEF TestDone, DoneIsPublished, Full
  <2>3. /\ Active(t, f) /\ Finish(t, f, TRUE, pc)
        /\ view' \in [Threads -> SUBSET Flags]
    BY <1>9 DEF TestDone, Active, At, TypeOK
  <2>4. RunnerHasWrites' /\ Published'
    BY <2>1, <2>2, <2>3, FinishWrites
  <2>5. DoneIsPublished'
    BY <1>9, <2>1, DonePublished DEF TestDone
  <2>6. QED
    BY <2>4, <2>5
<1>10. ASSUME NEW t \in Threads, NEW f \in Flags, EnterDone(t, f)
       PROVE  ViewInv'
  <2>1. mutex = t /\ mutex # NoThread
    BY <1>10, OnceAssumption DEF EnterDone, MutexInv, At
  <2>2. Full(f, view'[t]) /\ view' = view /\ view' \in [Threads -> SUBSET Flags]
    BY <1>10, <2>1 DEF EnterDone, DoneIsPublished, TypeOK
  <2>3. Active(t, f) /\ Finish(t, f, TRUE, pc)
    BY <1>10 DEF EnterDone, Active, At
  <2>4. RunnerHasWrites' /\ Published'
    BY <2>2, <2>3, FinishWrites
  <2>5. DoneIsPublished'
    BY <1>10, <2>1, <2>2, DonePublished DEF EnterDone, Unlock
  <2>6. QED
    BY <2>4, <2>5
<1>11. ASSUME NEW t \in Threads, NEW f \in Flags, CancelUnwind(t, f)
       PROVE  ViewInv'
  <2>1. /\ \A u \in Threads : view[u] \subseteq view'[u]
        /\ view' \in [Threads -> SUBSET Flags]
    BY <1>11 DEF CancelUnwind, TypeOK
  <2>2. Active(t, f) /\ Finish(t, f, FALSE, pc)
    BY <1>11 DEF CancelUnwind, Active, At
  <2>3. RunnerHasWrites' /\ Published'
    BY <2>1, <2>2, FinishWrites
  <2>4. DoneIsPublished'
    BY <1>11, <2>1, DonePublished DEF CancelUnwind
  <2>5. QED
    BY <2>3, <2>4
<1>12. ASSUME NEW t \in Threads, NEW f \in Flags, LeaveBroadcast(t, f)
       PROVE  ViewInv'
  <2>1. view' = view /\ view' \in [Threads -> SUBSET Flags]
    BY <1>12 DEF LeaveBroadcast, TypeOK
  <2>2. /\ Active(t, f)
        /\ Finish(t, f, next[t][f] = "done", Woken)
        /\ next[t][f] = "done" => Full(f, view'[t])
    BY <1>12, <2>1 DEF LeaveBroadcast, RunnerHasWrites, Active, At
  <2>3. RunnerHasWrites' /\ Published'
    BY <2>1, <2>2, FinishWrites
  <2>4. DoneIsPublished'
    BY <1>12, <2>1, DonePublished DEF LeaveBroadcast
  <2>5. QED
    BY <2>3, <2>4
<1>13. QED
  BY <1>1, <1>2, <1>3, <1>4, <1>5, <1>6, <1>8, <1>9, <1>10, <1>11, <1>12,
     NextCases DEF EnterLock, LeaveLock

LEMMA ViewInit == Init => MutexInv /\ ViewInv
BY DEF Init, MutexInv, ViewInv, DoneIsPublished, RunnerHasWrites, Published,
       At

\* Whatever way a call returned, its thread has the function's writes.
THEOREM PublishedAlways == Spec => []Published
<1> DEFINE Inv == TypeOK /\ StackInv /\ MutexInv /\ ViewInv
<1>1. Init => Inv
  BY TypeInit, CallsInit, ViewInit
<1>2. Inv /\ [Next]_vars => Inv'
  BY TypeStep, StackStep, MutexStep, ViewStep
<1>3. Inv => Published
  BY DEF ViewInv
<1>4. QED
  BY <1>1, <1>2, <1>3, PTL DEF Spec
-----------------------------------------------------------------------------
\* A step that lets no broadcast go and adds no waiter keeps the promise.
LEMMA KeepsBroadcast ==
    ASSUME NoLostWakeup,
           \A u \in Threads, g \in Flags :
               /\ pc'[u][g] = "waiting" =>
                      pc[u][g] = "waiting" \/ state'[g] = "running"
               /\ pc[u][g] = "broadcast" => pc'[u][g] = "broadcast"
               /\ state[g] = "running" =>
                      \/ state'[g] = "running"
                      \/ \E w \in Threads : pc'[w][g] = "broadcast"
    PROVE  NoLostWakeup'
BY DEF NoLostWakeup, At

\* After the broadcast nobody waits.
LEMMA BroadcastWakes ==
    ASSUME TypeOK, StackInv, NEW t \in Threads, NEW f \in Flags,
           LeaveBroadcast(t, f)
    PROVE  NoLostWakeup'
<1>1. Finish(t, f, next[t][f] = "done", Woken)
  BY DEF LeaveBroadcast
<1>2. Woken \in [Threads -> [Flags -> PCs]] /\ SameCalls(Woken)
  BY WokenType, WokenSame
<1>3. \A u \in Threads, g \in Flags : Woken[u][g] # "waiting"
  BY DEF Woken, At
<1>4. \A u \in Threads, g \in Flags : pc'[u][g] # "waiting"
  BY <1>1, <1>2, <1>3, FinishCalls
<1>5. QED
  BY <1>4 DEF NoLostWakeup, At

LEMMA WakeupStep ==
    ASSUME TypeOK, StackInv, NoLostWakeup, [Next]_vars
    PROVE  NoLostWakeup'
<1>1. CASE UNCHANGED vars
  BY <1>1 DEF vars, NoLostWakeup, At
<1>2. ASSUME NEW t \in Threads, NEW f \in Flags, NEW l, Goto(t, f, l),
             pc[t][f] # "broadcast", l # "waiting", state' = state
      PROVE  NoLostWakeup'
  BY <1>2, KeepsBroadcast DEF Goto, TypeOK
<1>3. ASSUME NEW t \in Threads, NEW f \in Flags
      PROVE  /\ Call(t, f) => NoLostWakeup'
             /\ TestNotDone(t, f) => NoLostWakeup'
             /\ EnterLock(t, f) => NoLostWakeup'
             /\ SpuriousWakeup(t, f) => NoLostWakeup'
             /\ Cancel(t, f) => NoLostWakeup'
             /\ RunReturn(t, f) => NoLostWakeup'
             /\ RunThrow(t, f) => NoLostWakeup'
             /\ LeaveLock(t, f) => NoLostWakeup'
  BY <1>2 DEF Call, TestNotDone, EnterLock, SpuriousWakeup, Cancel, RunReturn,
              RunThrow, LeaveLock, At
<1>4. ASSUME NEW t \in Threads, NEW f \in Flags
      PROVE  /\ EnterReady(t, f) => NoLostWakeup'
             /\ EnterWait(t, f) => NoLostWakeup'
             /\ LeaveStore(t, f) => NoLostWakeup'
  <2>1. CASE EnterReady(t, f)
    BY <2>1, KeepsBroadcast DEF EnterReady, StoreFlag, Goto, TypeOK, At
  <2>2. CASE EnterWait(t, f)
    BY <2>2, KeepsBroadcast DEF EnterWait, Goto, TypeOK, At
  <2>3. CASE LeaveStore(t, f)
    BY <2>3, KeepsBroadcast DEF LeaveStore, StoreFlag, Goto, TypeOK, At
  <2>4. QED
    BY <2>1, <2>2, <2>3
<1>5. ASSUME NEW t \in Threads, NEW f \in Flags, NEW ok, Active(t, f),
             pc[t][f] # "broadcast", Finish(t, f, ok, pc), state' = state
      PROVE  NoLostWakeup'
  <2>1. pc \in [Threads -> [Flags -> PCs]] /\ SameCalls(pc)
    BY WokenSame DEF TypeOK
  <2>2. \A g \in CallersOf(t, f) : pc[t][g] = "nested"
    BY DEF CallersOf, At
  <2>3. QED
    BY <1>5, <2>1, <2>2, FinishCalls, KeepsBroadcast
<1>6. ASSUME NEW t \in Threads, NEW f \in Flags
      PROVE  /\ TestDone(t, f) => NoLostWakeup'
             /\ EnterDone(t, f) => NoLostWakeup'
             /\ CancelUnwind(t, f) => NoLostWakeup'
  BY <1>5 DEF TestDone, EnterDone, CancelUnwind, Active, At
<1>7. ASSUME NEW t \in Threads, NEW f \in Flags, RunCall(t, f)
      PROVE  NoLostWakeup'
  <2>1. Active(t, f) /\ pc[t][f] = "run"
    BY <1>7 DEF RunCall, Active, At
  <2>2. \A g \in Flags : g = Callee[f] => pc[t][g] = "idle"
    BY <2>1, CalleeIsIdle, OnceAssumption
  <2>3. \A u \in Threads, g \in Flags :
            \/ pc'[u][g] = pc[u][g]
            \/ /\ pc'[u][g] # "waiting"
               /\ u = t /\ (g = f \/ g = Callee[f])
    BY <1>7 DEF RunCall, TypeOK
  <2>4. QED
    BY <1>7, <2>1, <2>2, <2>3, KeepsBroadcast DEF RunCall
<1>8. QED
  BY <1>1, <1>3, <1>4, <1>6, <1>7, BroadcastWakes, NextCases

\* No thread waits for a broadcast that has already been made.
THEOREM NoLostWakeupAlways == Spec => []NoLostWakeup
<1> DEFINE Inv == TypeOK /\ StackInv /\ NoLostWakeup
<1>1. Init => Inv
  BY TypeInit, CallsInit DEF Init, NoLostWakeup, At
<1>2. Inv /\ [Next]_vars => Inv'
  BY TypeStep, StackStep, WakeupStep
<1>3. QED
  BY <1>1, <1>2, PTL DEF Spec
=============================================================================
