--------------------------- MODULE StringRepProofs ---------------------------
(***************************************************************************)
(* StringRep for any threads, strings, bodies and contents: what strings    *)
(* share is counted, is there as long as somebody uses it, and is written   *)
(* by one who has it alone; and therefore strings are values.               *)
(*                                                                         *)
(* CountExact is not inductive: whether a body may be written, given out or *)
(* freed is decided by a test of its count and done later, so one must know *)
(* at each step of a call what its test has shown and that nobody can have  *)
(* changed it since.  Place says so; Counted is CountExact as a sum over    *)
(* owners, strings that have counted themselves in and calls that have for  *)
(* a string that is yet to get the body.                                   *)
(***************************************************************************)
EXTENDS StringRep, FiniteSetTheorems, TLAPS

\* the string is being copied from another and not counted yet
Pending(h) == \E t \in Threads : pc[t] = "inc" /\ Call(t).op = "copy" /\ Call(t).h = h

\* the bodies that strings, and calls, are counted in
Owned == [h \in Handles |-> IF Pending(h) THEN None ELSE data[h]]
Due == [t \in Threads |-> IF pc[t] = "unlink" THEN target[t] ELSE None]

Fiber(f, b) == {x \in DOMAIN f : f[x] = b}
Total(b) == Cardinality(Fiber(Owned, b)) + Cardinality(Fiber(Due, b))

Dying(b) == \E t \in Threads : pc[t] = "free" /\ victim[t] = b

\* what a thread's call and the string it is on have in a total
Bit(p) == IF p THEN 1 ELSE 0
Part(t, b) == Bit(~(pc[t] = "inc" /\ Call(t).op = "copy") /\ Mine(t) = b)
                  + Bit(pc[t] = "unlink" /\ target[t] = b)

\* one string has it, and nobody is about to
Sole(h, b) == /\ \A k \in Handles : data[k] = b => k = h
              /\ \A t \in Threads : Due[t] # b

\* nobody has it or is about to
Unused(b) == /\ \A k \in Handles : data[k] # b
             /\ \A t \in Threads : Due[t] # b

\* nobody has it, and only t is about to
Fresh(t, b) == /\ \A k \in Handles : data[k] # b
               /\ \A u \in Threads \ {t} : Due[u] # b

Typed ==
    /\ data \in [Handles -> Bodies \cup {NullBody, None}]
    /\ live \in SUBSET Bodies /\ refs \in [Bodies -> Int] /\ content \in [Bodies -> Vals]
    /\ given \in [Handles -> Bodies \cup {None}]
    /\ pc \in [Threads -> Labels] /\ call \in [Threads -> SUBSET Calls]
    /\ target \in [Threads -> Bodies \cup {NullBody, None}]
    /\ victim \in [Threads -> Bodies \cup {NullBody, None}]
    /\ \A t \in Threads : IF pc[t] = "idle" THEN call[t] = {} ELSE \E c \in Calls : call[t] = {c}

Held == \A h \in Handles : data[h] \in live \cup {NullBody, None}

Counted ==
    \A b \in live : ~Dying(b) =>
        \/ refs[b] = -1 /\ \E h \in Handles : data[h] = b /\ Sole(h, b)
        \/ refs[b] >= 0 /\ refs[b] + 1 = Total(b)

Given == \A h \in Handles : given[h] # None => data[h] = given[h] /\ refs[given[h]] = -1

Changed(t) == V!Changed(Call(t))
ReadOnly(t) == V!ReadOnly(Call(t))

\* the bodies a call is concerned with
Uses(t, d) == \/ \E k \in Changed(t) \cup ReadOnly(t) : data[k] = d
              \/ target[t] = d \/ victim[t] = d

\* A step of t leaves the other calls and their strings alone, spreads no body
\* that t does not use, and takes none away that another uses.
Frame(t) ==
    /\ call' = call
    /\ \A u \in Threads \ {t} : pc'[u] = pc[u] /\ target'[u] = target[u] /\ victim'[u] = victim[u]
    /\ \A k \in Handles \ Changed(t) : data'[k] = data[k] /\ given'[k] = given[k]
    /\ \A d \in live :
          /\ (\E k \in Changed(t) : data'[k] = d) \/ Due'[t] = d \/ victim'[t] = d => Uses(t, d)
          /\ \/ d \in live' /\ content'[d] = content[d] /\ (refs[d] >= 0 => refs'[d] >= 0)
             \/ \A u \in Threads \ {t} : pc[u] # "idle" => ~Uses(u, d)

\* calls at the same time are on different strings
Exclusive ==
    \A t, u \in Threads : t # u /\ pc[t] # "idle" /\ pc[u] # "idle" =>
        Changed(t) \cap (Changed(u) \cup ReadOnly(u)) = {}

\* which calls come by which steps
Fits(t, op) ==
    /\ pc[t] = "test" => op \in {"copy", "assign", "begin", "reserve"}
    /\ pc[t] = "settest" => op \in {"assign", "set"}
    /\ pc[t] = "inc" => op \in {"copy", "assign"}
    /\ pc[t] = "alloc" => op \in {"new", "copy", "assign", "set", "begin", "reserve"}
    /\ pc[t] \in {"unlink", "free"} => op \in {"assign", "set", "begin", "reserve", "dtor"}
    /\ pc[t] = "unref" => op = "begin"
    /\ pc[t] = "inplace" => op \in {"assign", "set"}
    /\ pc[t] = "swap" => op = "swap"
    /\ pc[t] = "write" => op = "write"

\* what must be so of the strings and references of a call where it is
Strings(t, c) ==
    /\ pc[t] \notin {"idle", "end"} /\ ~(pc[t] = "free" /\ c.op = "dtor") =>
           (data[c.h] = None <=> c.op \in {"new", "copy"} /\ pc[t] # "inc")
    /\ pc[t] \notin {"idle", "end"} /\ c.op \in {"copy", "assign", "swap"} => data[c.g] # None
    /\ pc[t] # "idle" /\ c.op = "copy" => c.h # c.g
    /\ pc[t] = "inc" =>
          /\ data[c.g] \in Bodies => refs[data[c.g]] >= 0
          /\ c.op = "copy" => data[c.h] = data[c.g]
    /\ pc[t] \in {"inplace", "unref"} \/ (pc[t] = "free" /\ c.op = "begin") =>
           (data[c.h] \in Bodies => Sole(c.h, data[c.h]))
    /\ pc[t] = "inplace" /\ data[c.h] = NullBody => NewContent(t) = Empty
    /\ pc[t] = "write" => given[c.h] # None
    /\ pc[t] \notin {"idle", "end"} /\ c.op \notin {"begin", "write"} =>
           \A k \in V!Changed(c) : given[k] = None
    /\ pc[t] \in {"alloc", "unlink", "free"} /\ c.op = "begin" => given[c.h] = None

\* and of the bodies that it is to take and to free
Own(t, c) ==
    /\ pc[t] # "unlink" => target[t] = None
    /\ pc[t] = "unlink" =>
          /\ target[t] \in live \cup {NullBody, None}
          /\ target[t] = None <=> c.op = "dtor"
          /\ c.op # "dtor" => Content(target[t]) = NewContent(t)
          /\ c.op = "begin" /\ target[t] \in Bodies => Fresh(t, target[t])
    /\ pc[t] # "free" => victim[t] = None
    /\ pc[t] = "free" =>
          /\ victim[t] \in live /\ Unused(victim[t])
          /\ \A u \in Threads : u # t => victim[u] # victim[t]

Place(t) == Fits(t, Call(t).op) /\ Strings(t, Call(t)) /\ Own(t, Call(t))

Inv == Typed /\ Held /\ Counted /\ Given /\ Exclusive /\ \A t \in Threads : Place(t)
-----------------------------------------------------------------------------
\* Calls, and counting.

LEMMA CallIs ==
    ASSUME Typed, NEW t \in Threads, pc[t] # "idle"
    PROVE  /\ call[t] = {Call(t)} /\ Call(t) \in Calls
           /\ Call(t).h \in Handles /\ Call(t).g \in Handles /\ Call(t).op \in V!Ops
           /\ Call(t).v \in Vals
           /\ Changed(t) \subseteq Handles /\ ReadOnly(t) \subseteq Handles
           /\ Call(t).h \in Changed(t)
<1>1. PICK c \in Calls : call[t] = {c} BY DEF Typed
<1>2. Call(t) = c BY <1>1 DEF Call
<1>3. c.h \in Handles /\ c.g \in Handles /\ c.op \in V!Ops /\ c.v \in Vals BY DEF Calls
<1> QED BY <1>1, <1>2, <1>3 DEF Changed, ReadOnly, V!Changed, V!ReadOnly

LEMMA SameCalls ==
    ASSUME call' = call
    PROVE  \A t \in Threads : Call(t)' = Call(t)
BY DEF Call

\* A function that changes at one argument.
LEMMA FiberStep ==
    ASSUME NEW S, IsFiniteSet(S), NEW x \in S, NEW f, NEW g, DOMAIN f = S, DOMAIN g = S,
           \A y \in S \ {x} : g[y] = f[y], NEW b
    PROVE  /\ Cardinality(Fiber(f, b)) \in Nat /\ Cardinality(Fiber(g, b)) \in Nat
           /\ Cardinality(Fiber(g, b)) = Cardinality(Fiber(f, b))
                  + (IF g[x] = b THEN 1 ELSE 0) - (IF f[x] = b THEN 1 ELSE 0)
<1> DEFINE rest == {y \in S \ {x} : f[y] = b}
<1>1. IsFiniteSet(rest) /\ Cardinality(rest) \in Nat
  <2>1. IsFiniteSet(rest) BY FS_Subset
  <2> QED BY <2>1, FS_CardinalityType
<1>2. ASSUME NEW e, DOMAIN e = S, \A y \in S \ {x} : e[y] = f[y]
      PROVE  Cardinality(Fiber(e, b)) = Cardinality(rest) + (IF e[x] = b THEN 1 ELSE 0)
  <2>1. x \notin rest OBVIOUS
  <2>2. Cardinality(rest \cup {x}) = Cardinality(rest) + 1
        BY <1>1, <2>1, FS_AddElement
  <2>3. CASE e[x] = b
    <3>1. Fiber(e, b) = rest \cup {x} BY <1>2, <2>3 DEF Fiber
    <3> QED BY <2>2, <2>3, <3>1
  <2>4. CASE e[x] # b
    <3>1. Fiber(e, b) = rest BY <1>2, <2>4 DEF Fiber
    <3> QED BY <1>1, <2>4, <3>1
  <2> QED BY <2>3, <2>4
<1>3. Cardinality(Fiber(f, b)) = Cardinality(rest) + (IF f[x] = b THEN 1 ELSE 0)
      BY <1>2
<1>4. Cardinality(Fiber(g, b)) = Cardinality(rest) + (IF g[x] = b THEN 1 ELSE 0)
      BY <1>2
<1> HIDE DEF rest
<1> QED BY <1>1, <1>3, <1>4

LEMMA Finite ==
    ASSUME StringRepAssumption, NEW b
    PROVE  /\ IsFiniteSet(Fiber(Owned, b)) /\ Cardinality(Fiber(Owned, b)) \in Nat
           /\ IsFiniteSet(Fiber(Due, b)) /\ Cardinality(Fiber(Due, b)) \in Nat
           /\ Total(b) \in Nat
<1>1. Fiber(Owned, b) \in SUBSET Handles BY DEF Fiber, Owned
<1>2. Fiber(Due, b) \in SUBSET Threads BY DEF Fiber, Due
<1>3. IsFiniteSet(Fiber(Owned, b)) /\ IsFiniteSet(Fiber(Due, b))
      BY <1>1, <1>2, FS_Subset DEF StringRepAssumption
<1> QED BY <1>3, FS_CardinalityType DEF Total

\* While a call copies, no other is on its strings: a string is pending by its
\* own call, and the string that it is copied from is not pending.
LEMMA OwnedIs ==
    ASSUME Typed, Exclusive, NEW t \in Threads, pc[t] # "idle"
    PROVE  /\ \A k \in Changed(t) \cup ReadOnly(t) :
                 Pending(k) <=> pc[t] = "inc" /\ Call(t).op = "copy" /\ Call(t).h = k
<1> SUFFICES ASSUME NEW k \in Changed(t) \cup ReadOnly(t),
                    NEW u \in Threads, pc[u] = "inc", Call(u).op = "copy", Call(u).h = k
             PROVE  u = t
    BY DEF Pending
<1>1. k \in Changed(u) BY CallIs
<1> QED BY <1>1 DEF Exclusive

\* What a step of a call adds to a body's owners is what it adds to its own part.
LEMMA Tally ==
    ASSUME StringRepAssumption, Typed, Exclusive, NEW t \in Threads, pc[t] # "idle",
           call' = call,
           \A u \in Threads \ {t} : pc'[u] = pc[u] /\ target'[u] = target[u],
           \A k \in Handles \ {Call(t).h} : data'[k] = data[k],
           NEW b \in Bodies
    PROVE  /\ Total(b) \in Nat /\ Total(b)' \in Nat
           /\ Total(b)' = Total(b) + Part(t, b)' - Part(t, b)
<1>h. PICK h \in Handles : h = Call(t).h BY CallIs
<1> DEFINE own == Owned
           due == Due
<1>0. h \in Handles /\ h = Call(t).h /\ h \in Changed(t) /\ None # b
      BY <1>h, CallIs DEF StringRepAssumption
<1>1. \A u \in Threads : Call(u)' = Call(u) BY SameCalls
<1>2. \A k \in Handles \ {h} : Owned'[k] = Owned[k]
  <2> SUFFICES ASSUME NEW k \in Handles \ {h} PROVE Owned'[k] = Owned[k]
      OBVIOUS
  <2>1. Pending(k)' <=> Pending(k) BY <1>0, <1>1 DEF Pending
  <2> QED BY <1>0, <2>1 DEF Owned
<1>3. Pending(h) <=> pc[t] = "inc" /\ Call(t).op = "copy"
      BY <1>0, OwnedIs
<1>4. Pending(h)' <=> pc'[t] = "inc" /\ Call(t).op = "copy"
  <2>1. ASSUME NEW u \in Threads \ {t}, pc[u] = "inc", Call(u).h = h PROVE FALSE
    <3>1. h \in Changed(u) BY <2>1, CallIs
    <3> QED BY <1>0, <2>1, <3>1 DEF Exclusive
  <2> QED BY <1>0, <1>1, <2>1 DEF Pending
<1>5. Owned[h] = IF pc[t] = "inc" /\ Call(t).op = "copy" THEN None ELSE data[h]
      BY <1>0, <1>3 DEF Owned
<1>6. Owned'[h] = IF pc'[t] = "inc" /\ Call(t).op = "copy" THEN None ELSE data'[h]
      BY <1>0, <1>4 DEF Owned
<1>7. \A u \in Threads \ {t} : Due'[u] = Due[u] BY DEF Due
<1>8. /\ Due[t] = IF pc[t] = "unlink" THEN target[t] ELSE None
      /\ Due'[t] = IF pc'[t] = "unlink" THEN target'[t] ELSE None
      BY DEF Due
<1>9. /\ Cardinality(Fiber(own, b)) \in Nat /\ Cardinality(Fiber(own', b)) \in Nat
      /\ Cardinality(Fiber(own', b)) = Cardinality(Fiber(own, b))
             + (IF own'[h] = b THEN 1 ELSE 0) - (IF own[h] = b THEN 1 ELSE 0)
  <2>1. DOMAIN own = Handles /\ DOMAIN own' = Handles BY DEF Owned
  <2>2. IsFiniteSet(Handles) BY DEF StringRepAssumption
  <2>3. \A k \in Handles \ {h} : own'[k] = own[k] BY <1>2
  <2> HIDE DEF own
  <2> QED BY <1>0, <2>1, <2>2, <2>3, FiberStep
<1>10. /\ Cardinality(Fiber(due, b)) \in Nat /\ Cardinality(Fiber(due', b)) \in Nat
       /\ Cardinality(Fiber(due', b)) = Cardinality(Fiber(due, b))
              + (IF due'[t] = b THEN 1 ELSE 0) - (IF due[t] = b THEN 1 ELSE 0)
  <2>1. DOMAIN due = Threads /\ DOMAIN due' = Threads BY DEF Due
  <2>2. IsFiniteSet(Threads) BY DEF StringRepAssumption
  <2>3. \A u \in Threads \ {t} : due'[u] = due[u] BY <1>7
  <2> HIDE DEF due
  <2> QED BY <2>1, <2>2, <2>3, FiberStep
<1>11. /\ Total(b) = Cardinality(Fiber(own, b)) + Cardinality(Fiber(due, b))
       /\ Total(b)' = Cardinality(Fiber(own', b)) + Cardinality(Fiber(due', b))
       BY DEF Total
<1>12. Part(t, b) = (IF own[h] = b THEN 1 ELSE 0) + (IF due[t] = b THEN 1 ELSE 0)
       BY <1>0, <1>5, <1>8 DEF Part, Mine, Bit
<1>13. Part(t, b)' = (IF own'[h] = b THEN 1 ELSE 0) + (IF due'[t] = b THEN 1 ELSE 0)
       BY <1>0, <1>1, <1>6, <1>8 DEF Part, Mine, Bit
<1> HIDE DEF own, due
<1> QED BY <1>9, <1>10, <1>11, <1>12, <1>13

\* A body that nobody owns counts for nothing.
LEMMA NoOwner ==
    ASSUME StringRepAssumption, NEW b \in Bodies, Unused(b)
    PROVE  Total(b) = 0
<1>0. None # b BY DEF StringRepAssumption
<1>1. Fiber(Owned, b) = {} BY <1>0 DEF Fiber, Owned, Unused
<1>2. Fiber(Due, b) = {} BY DEF Fiber, Due, Unused
<1> QED BY <1>1, <1>2, FS_EmptySet DEF Total

\* A string that is not shared, by its body's count, is alone with its body.
LEMMA OneOwner ==
    ASSUME StringRepAssumption, Inv, NEW t \in Threads, pc[t] # "idle",
           ~(pc[t] = "inc" /\ Call(t).op = "copy"),
           NEW h \in Changed(t), data[h] \in live, ~Dying(data[h]), refs[data[h]] <= 0
    PROVE  Sole(h, data[h])
<1> DEFINE b == data[h]
<1>0. h \in Handles /\ b \in Bodies /\ refs[b] \in Int /\ None # b
      BY CallIs DEF Inv, Typed, StringRepAssumption
<1>1. CASE \E k \in Handles : data[k] = b /\ Sole(k, b) BY <1>0, <1>1 DEF Sole
<1>2. CASE refs[b] >= 0 /\ refs[b] + 1 = Total(b)
  <2>1. Total(b) = 1 BY <1>0, <1>2
  <2>2. ~Pending(h) BY OwnedIs DEF Inv
  <2>3. h \in Fiber(Owned, b) BY <1>0, <2>2 DEF Fiber, Owned
  <2>4. Cardinality(Fiber(Owned, b)) = 1 /\ Cardinality(Fiber(Due, b)) = 0
    <3>1. Cardinality(Fiber(Owned, b)) # 0 BY <2>3, Finite, FS_EmptySet
    <3> QED BY <2>1, <3>1, Finite DEF Total
  <2>5. Fiber(Owned, b) = {h} BY <2>3, <2>4, Finite, FS_Singleton
  <2>6. Fiber(Due, b) = {} BY <2>4, Finite, FS_EmptySet
  <2>7. \A u \in Threads : Due[u] # b BY <2>6 DEF Fiber, Due
  <2>8. ASSUME NEW k \in Handles, data[k] = b, k # h PROVE FALSE
    <3>1. PICK u \in Threads : pc[u] = "inc" /\ Call(u).op = "copy" /\ Call(u).h = k
      <4>1. k \notin Fiber(Owned, b) BY <2>5, <2>8
      <4> QED BY <2>8, <4>1 DEF Fiber, Owned, Pending
    <3> DEFINE g == Call(u).g
    <3>2. g \in Handles /\ g \in ReadOnly(u) BY <3>1, CallIs DEF Inv, ReadOnly, V!ReadOnly
    <3>3. data[g] = b /\ g # k BY <2>8, <3>1 DEF Inv, Place, Strings
    <3>4. ~Pending(g) BY <3>1, <3>2, <3>3, OwnedIs DEF Inv
    <3>5. g = h
      <4>1. g \in Fiber(Owned, b) BY <3>2, <3>3, <3>4 DEF Fiber, Owned
      <4> QED BY <2>5, <4>1
    <3>6. u # t BY <3>1
    <3> QED BY <3>1, <3>2, <3>5, <3>6 DEF Inv, Exclusive
  <2> QED BY <2>7, <2>8 DEF Sole
<1> QED BY <1>1, <1>2 DEF Inv, Counted

-----------------------------------------------------------------------------
\* What a step does to the calls of other threads: nothing.

\* The body of a string that is alone with it, and the one a call is to free,
\* concern no other call.
LEMMA Apart ==
    ASSUME StringRepAssumption, Inv, NEW t \in Threads, NEW u \in Threads, t # u,
           pc[t] # "idle", pc[u] # "idle"
    PROVE  /\ \A k \in Changed(t) : data[k] \in Bodies /\ Sole(k, data[k]) => ~Uses(u, data[k])
           /\ pc[t] = "free" => ~Uses(u, victim[t])
<1>0. /\ Changed(t) \subseteq Handles /\ Changed(u) \subseteq Handles /\ ReadOnly(u) \subseteq Handles
      /\ None \notin Bodies
      BY CallIs DEF Inv, StringRepAssumption
<1>1. ASSUME NEW d \in Bodies, target[u] = d PROVE Due[u] = d
      BY <1>0, <1>1 DEF Inv, Place, Own, Due
<1>2. ASSUME NEW d \in Bodies, victim[u] = d PROVE Unused(d)
      BY <1>0, <1>2 DEF Inv, Place, Own
<1>3. ASSUME NEW k \in Changed(t), data[k] \in Bodies, Sole(k, data[k]) PROVE ~Uses(u, data[k])
  <2>1. \A j \in Changed(u) \cup ReadOnly(u) : data[j] # data[k]
        BY <1>0, <1>3 DEF Inv, Exclusive, Sole
  <2>2. target[u] # data[k] BY <1>1, <1>3 DEF Sole
  <2>3. victim[u] # data[k] BY <1>0, <1>2, <1>3 DEF Unused
  <2> QED BY <2>1, <2>2, <2>3 DEF Uses
<1>4. ASSUME pc[t] = "free" PROVE ~Uses(u, victim[t])
  <2>1. victim[t] \in Bodies /\ Unused(victim[t]) /\ victim[u] # victim[t]
        BY <1>4 DEF Inv, Typed, Place, Own
  <2>2. target[u] # victim[t] BY <1>1, <2>1 DEF Unused
  <2> QED BY <1>0, <2>1, <2>2 DEF Uses, Unused
<1> QED BY <1>3, <1>4

LEMMA Others ==
    ASSUME StringRepAssumption, Inv, NEW t \in Threads, pc[t] # "idle", Frame(t),
           NEW u \in Threads \ {t}
    PROVE  Place(u)'
<1>1. PICK c : c = Call(u) OBVIOUS
<1>2. c = Call(u)' BY <1>1, SameCalls DEF Frame
<1>3. pc'[u] = pc[u] /\ target'[u] = target[u] /\ victim'[u] = victim[u] BY DEF Frame
<1>4. Place(u) BY DEF Inv
<1>5. CASE pc[u] = "idle"
      BY <1>3, <1>4, <1>5 DEF Place, Fits, Strings, Own
<1>6. CASE pc[u] # "idle"
  <2>1. /\ c.h \in Changed(u) /\ c.h \in Handles /\ c.g \in Handles
        /\ c.op \in {"copy", "assign"} => c.g \in ReadOnly(u)
        /\ c.op = "swap" => c.g \in Changed(u)
        /\ Changed(u) = V!Changed(c) /\ Changed(u) \subseteq Handles /\ ReadOnly(u) \subseteq Handles
        BY <1>1, <1>6, CallIs DEF Inv, Changed, ReadOnly, V!Changed, V!ReadOnly
  <2>2. \A k \in Changed(u) \cup ReadOnly(u) : data'[k] = data[k] /\ given'[k] = given[k]
    <3>1. \A k \in Changed(u) \cup ReadOnly(u) : k \in Handles /\ k \notin Changed(t)
          BY <1>6, <2>1 DEF Inv, Exclusive
    <3> QED BY <3>1 DEF Frame
  <2>3. ASSUME NEW d \in live, Uses(u, d)
        PROVE  d \in live' /\ content'[d] = content[d] /\ (refs[d] >= 0 => refs'[d] >= 0)
        BY <1>6, <2>3 DEF Frame
  <2>4. \A k \in Changed(u) \cup ReadOnly(u) : data[k] \in live => Uses(u, data[k])
        BY DEF Uses
  <2>5. \A k \in Changed(u) \cup ReadOnly(u) : data[k] \in live \cup {NullBody, None}
        BY <2>1 DEF Inv, Held
  <2>6. live \subseteq Bodies /\ NullBody \notin Bodies /\ None \notin Bodies /\ None # NullBody
        BY DEF Inv, Typed, StringRepAssumption
  <2>7. ASSUME NEW d \in live, ~Uses(t, d)
        PROVE  /\ \A k \in Handles : data'[k] = d => data[k] = d
               /\ \A v \in Threads : Due'[v] = d => Due[v] = d
               /\ victim'[t] # d
    <3>1. ASSUME NEW k \in Handles, data'[k] = d PROVE data[k] = d
          BY <2>7, <3>1 DEF Frame
    <3>2. ASSUME NEW v \in Threads, Due'[v] = d PROVE Due[v] = d
          BY <2>7, <3>2 DEF Frame, Due
    <3> QED BY <2>7, <3>1, <3>2 DEF Frame
  <2>8. ASSUME NEW k \in Changed(u), data[k] \in live, Sole(k, data[k]) PROVE Sole(k, data[k])'
    <3>1. ~Uses(t, data[k]) BY <1>6, <2>6, <2>8, Apart
    <3>2. data'[k] = data[k] BY <2>2
    <3> QED BY <2>7, <2>8, <3>1, <3>2 DEF Sole
  <2>9. pc[u] \in {"inplace", "unlink"} => NewContent(u)' = NewContent(u)
    <3>1. ASSUME NEW k \in Changed(u) \cup ReadOnly(u), data[k] # None
          PROVE  Content(data[k])' = Content(data[k])
          BY <2>2, <2>3, <2>4, <2>5, <2>6, <3>1 DEF Content
    <3>2. pc[u] \in {"inplace", "unlink"} /\ c.op \in {"copy", "assign"} =>
             Content(data[c.g])' = Content(data[c.g])
          BY <1>1, <1>4, <2>1, <3>1 DEF Place, Strings
    <3>3. pc[u] \in {"inplace", "unlink"} /\ c.op \in {"begin", "reserve"} =>
             Content(data[c.h])' = Content(data[c.h])
          BY <1>1, <1>4, <2>1, <3>1 DEF Place, Strings
    <3> QED BY <1>1, <1>2, <3>2, <3>3 DEF NewContent, Mine, Other
  <2>10. Fits(u, c.op)'
         BY <1>1, <1>2, <1>3, <1>4 DEF Place, Fits
  <2>11. Strings(u, c)'
    <3>1. Strings(u, c) BY <1>1, <1>4 DEF Place
    <3>2. data'[c.h] = data[c.h] /\ given'[c.h] = given[c.h]
          BY <2>1, <2>2
    <3>3. c.op \in {"copy", "assign", "swap"} => data'[c.g] = data[c.g]
          BY <2>1, <2>2
    <3>4. pc[u] = "inc" => c.op \in {"copy", "assign"}
          BY <1>1, <1>4 DEF Place, Fits
    <3>5. pc[u] = "inc" /\ data[c.g] \in Bodies => refs'[data[c.g]] >= 0
          BY <2>1, <2>3, <2>4, <2>5, <2>6, <3>1, <3>4 DEF Strings
    <3>6. pc[u] \in {"inplace", "unref"} \/ (pc[u] = "free" /\ c.op = "begin") =>
              (data[c.h] \in Bodies => Sole(c.h, data[c.h])')
          BY <2>1, <2>5, <2>6, <2>8, <3>1 DEF Strings
    <3>7. pc[u] = "inplace" /\ data[c.h] = NullBody => NewContent(u)' = Empty
          BY <2>9, <3>1 DEF Strings
    <3>8. \A k \in V!Changed(c) : given'[k] = given[k]
          BY <2>1, <2>2
    <3> QED BY <1>3, <3>1, <3>2, <3>3, <3>4, <3>5, <3>6, <3>7, <3>8 DEF Strings
  <2>12. Own(u, c)'
    <3>1. Own(u, c) BY <1>1, <1>4 DEF Place
    <3>2. pc[u] # "unlink" => target[u] = None BY <3>1 DEF Own
    <3>3. ASSUME pc[u] = "unlink"
          PROVE  /\ target[u] \in live' \cup {NullBody, None}
                 /\ target[u] # None => Content(target[u])' = Content(target[u])
      <4>1. target[u] \in live => Uses(u, target[u]) BY DEF Uses
      <4> QED BY <1>3, <2>3, <2>6, <3>1, <3>3, <4>1 DEF Own, Content
    <3>4. ASSUME pc[u] = "free"
          PROVE  /\ victim[u] \in live' /\ Unused(victim[u])'
                 /\ \A v \in Threads \ {u} : victim'[v] # victim[u]
      <4>1. victim[u] \in live /\ Unused(victim[u]) /\ \A v \in Threads \ {u} : victim[v] # victim[u]
            BY <3>1, <3>4 DEF Own
      <4>2. Uses(u, victim[u]) BY DEF Uses
      <4>3. ~Uses(t, victim[u]) BY <3>4, Apart
      <4>4. Unused(victim[u])' BY <1>3, <2>7, <4>1, <4>3 DEF Unused
      <4> QED BY <2>3, <2>7, <4>1, <4>2, <4>3, <4>4 DEF Frame
    <3>5. ASSUME pc[u] = "unlink", c.op = "begin", target[u] \in Bodies
          PROVE  Fresh(u, target[u])'
      <4>1. target[u] \in live /\ Fresh(u, target[u]) /\ Due[u] = target[u]
            BY <2>6, <3>1, <3>5 DEF Own, Due
      <4>2. ~Uses(t, target[u])
        <5>1. Changed(t) \subseteq Handles /\ ReadOnly(t) \subseteq Handles
              BY CallIs DEF Inv
        <5>2. \A k \in Changed(t) \cup ReadOnly(t) : data[k] # target[u] BY <4>1, <5>1 DEF Fresh
        <5>3. target[t] # target[u]
          <6>1. Due[t] # target[u] BY <4>1 DEF Fresh
          <6> QED BY <2>6, <4>1, <6>1 DEF Inv, Place, Own, Due
        <5>4. victim[t] # target[u]
              BY <2>6, <4>1 DEF Inv, Place, Own, Unused
        <5> QED BY <5>2, <5>3, <5>4 DEF Uses
      <4> QED BY <1>3, <2>7, <4>1, <4>2 DEF Fresh
    <3> QED BY <1>3, <2>9, <3>1, <3>2, <3>3, <3>4, <3>5 DEF Own
  <2> QED BY <1>2, <2>10, <2>11, <2>12 DEF Place
<1> QED BY <1>5, <1>6

-----------------------------------------------------------------------------
\* Types, and what a step of a call does not disturb.

LEMMA NewContentIs ==
    ASSUME StringRepAssumption, Inv, NEW t \in Threads, pc[t] \notin {"idle", "end", "free"}
    PROVE  NewContent(t) \in Vals
<1> DEFINE c == Call(t)
<1>1. c.h \in Handles /\ c.g \in Handles /\ c.op \in V!Ops /\ c.v \in Vals BY CallIs DEF Inv
<1>2. Strings(t, c) BY DEF Inv, Place
<1>3. c.op \in {"copy", "assign"} => data[c.g] \in Bodies \cup {NullBody}
      BY <1>1, <1>2 DEF Strings, Inv, Typed
<1>4. c.op \in {"begin", "reserve"} => data[c.h] \in Bodies \cup {NullBody}
      BY <1>1, <1>2 DEF Strings, Inv, Typed
<1>5. \A b \in Bodies \cup {NullBody} : Content(b) \in Vals
      BY DEF Content, Inv, Typed, StringRepAssumption
<1> QED BY <1>1, <1>3, <1>4, <1>5 DEF NewContent, Mine, Other

LEMMA TypedStart ==
    ASSUME Typed, NEW t \in Threads, NEW c \in Arguments, Start(t, c)
    PROVE  Typed'
<1> USE DEF Start
<1>1. given' \in [Handles -> Bodies \cup {None}] BY DEF Typed
<1>2. pc' \in [Threads -> Labels] /\ pc'[t] # "idle"
  <2>1. c \in Calls /\ c.op \in V!Ops BY DEF Arguments, Calls
  <2> QED BY <2>1 DEF Typed, Labels, Goto, V!Ops
<1>3. call' \in [Threads -> SUBSET Calls] BY DEF Typed, Arguments
<1>4. \A u \in Threads : IF pc'[u] = "idle" THEN call'[u] = {} ELSE \E d \in Calls : call'[u] = {d}
  <2>1. \A u \in Threads \ {t} : pc'[u] = pc[u] /\ call'[u] = call[u] BY DEF Typed, Goto
  <2>2. pc'[t] # "idle" /\ call'[t] = {c} /\ c \in Calls BY <1>2 DEF Typed, Arguments
  <2> QED BY <2>1, <2>2 DEF Typed
<1> QED BY <1>1, <1>2, <1>3, <1>4 DEF Typed, bodyVars, Labels

LEMMA TypedStep ==
    ASSUME StringRepAssumption, Inv, NEW t \in Threads, Step(t)
    PROVE  Typed' /\ pc[t] # "idle"
<1> USE DEF Inv
<1>1. ASSUME pc[t] # "idle", call' = call, pc' \in [Threads -> Labels], pc'[t] # "idle",
             \A u \in Threads \ {t} : pc'[u] = pc[u]
      PROVE  \A u \in Threads : IF pc'[u] = "idle" THEN call'[u] = {}
                                ELSE \E d \in Calls : call'[u] = {d}
      BY <1>1 DEF Typed
<1>2. ASSUME NEW l \in Labels, Goto(t, l)
      PROVE  /\ pc' \in [Threads -> Labels] /\ pc'[t] = l
             /\ \A u \in Threads \ {t} : pc'[u] = pc[u]
      BY <1>2 DEF Goto, Typed
<1>3. CASE TestCopy(t)
  <2>1. Other(t) \in Bodies \cup {NullBody, None} BY <1>3, CallIs DEF TestCopy, At, Typed, Other
  <2> QED BY <1>1, <1>2, <1>3, <2>1 DEF TestCopy, At, Typed, Labels, bodyVars
<1>4. CASE TestAssign(t)
      BY <1>1, <1>2, <1>4 DEF TestAssign, At, Typed, Labels, bodyVars
<1>5. CASE TestBegin(t)
      BY <1>1, <1>2, <1>5 DEF TestBegin, At, Typed, Labels, bodyVars
<1>6. CASE TestReserve(t)
      BY <1>1, <1>2, <1>6 DEF TestReserve, At, Typed, Labels, bodyVars
<1>7. CASE TestSet(t)
  <2>1. target' \in [Threads -> Bodies \cup {NullBody, None}] BY <1>7 DEF TestSet, Typed
  <2> QED BY <1>1, <1>2, <1>7, <2>1 DEF TestSet, At, Typed, Labels, bodyVars
<1>8. CASE InPlace(t)
  <2>1. NewContent(t) \in Vals BY <1>8, NewContentIs DEF InPlace, At
  <2> QED BY <1>1, <1>2, <1>8, <2>1 DEF InPlace, At, Typed, Labels
<1>9. CASE Inc(t)
  <2>1. Other(t) \in Bodies \cup {NullBody}
    <3>1. Call(t).g \in Handles BY <1>9, CallIs DEF Inc, At
    <3>2. Other(t) # None BY <1>9 DEF Inc, At, Place, Fits, Strings, Other
    <3> QED BY <3>1, <3>2 DEF Typed, Other
  <2>2. refs' \in [Bodies -> Int] BY <1>9, <2>1 DEF Inc, Typed
  <2>3. target' \in [Threads -> Bodies \cup {NullBody, None}] BY <1>9, <2>1 DEF Inc, Typed
  <2> QED BY <1>1, <1>2, <1>9, <2>2, <2>3 DEF Inc, At, Typed, Labels
<1>10. CASE Alloc(t)
  <2>1. NewContent(t) \in Vals BY <1>10, NewContentIs DEF Alloc, At
  <2>2. PICK b \in {NullBody} \cup (Bodies \ live) :
           /\ IF b = NullBody THEN UNCHANGED bodyVars
              ELSE /\ live' = live \cup {b}
                   /\ refs' = [refs EXCEPT ![b] = 0]
                   /\ content' = [content EXCEPT ![b] = NewContent(t)]
           /\ IF Call(t).op \in {"new", "copy"}
              THEN /\ data' = [data EXCEPT ![Call(t).h] = b]
                   /\ Goto(t, "end") /\ UNCHANGED target
              ELSE /\ target' = [target EXCEPT ![t] = b]
                   /\ Goto(t, "unlink") /\ UNCHANGED data
        BY <1>10 DEF Alloc
  <2>3. live' \in SUBSET Bodies /\ refs' \in [Bodies -> Int] /\ content' \in [Bodies -> Vals]
        BY <2>1, <2>2 DEF Typed, bodyVars
  <2>4. /\ data' \in [Handles -> Bodies \cup {NullBody, None}]
        /\ target' \in [Threads -> Bodies \cup {NullBody, None}]
        BY <2>2 DEF Typed
  <2> QED BY <1>1, <1>2, <1>10, <2>2, <2>3, <2>4 DEF Alloc, At, Typed, Labels
<1>11. CASE AllocThrow(t)
       BY <1>1, <1>2, <1>11 DEF AllocThrow, At, Typed, Labels, bodyVars
<1>12. CASE Unlink(t)
  <2>1. Mine(t) \in Bodies \cup {NullBody}
    <3>1. Call(t).h \in Handles BY <1>12, CallIs DEF Unlink, At
    <3>2. Mine(t) # None BY <1>12 DEF Unlink, At, Place, Fits, Strings, Mine
    <3> QED BY <3>1, <3>2 DEF Typed, Mine
  <2>2. refs' \in [Bodies -> Int] BY <1>12, <2>1 DEF Unlink, Typed
  <2>3. victim' \in [Threads -> Bodies \cup {NullBody, None}] BY <1>12, <2>1 DEF Unlink, Typed
  <2>4. /\ data' \in [Handles -> Bodies \cup {NullBody, None}]
        /\ target' \in [Threads -> Bodies \cup {NullBody, None}]
        BY <1>12 DEF Unlink, Typed
  <2> QED BY <1>1, <1>2, <1>12, <2>2, <2>3, <2>4 DEF Unlink, At, Typed, Labels
<1>13. CASE Free(t)
  <2>1. live' \in SUBSET Bodies BY <1>13 DEF Free, Typed
  <2>2. refs' \in [Bodies -> Int]
    <3>1. refs' = [refs EXCEPT ![victim[t]] = 0] BY <1>13 DEF Free
    <3>2. refs \in [Bodies -> Int] BY DEF Typed
    <3> QED BY <3>1, <3>2, 0 \in Int
  <2>3. content' \in [Bodies -> Vals] BY <1>13 DEF Free, Typed, StringRepAssumption
  <2>4. victim' \in [Threads -> Bodies \cup {NullBody, None}] BY <1>13 DEF Free, Typed
  <2> QED BY <1>1, <1>2, <1>13, <2>1, <2>2, <2>3, <2>4 DEF Free, At, Typed, Labels
<1>14. CASE Unref(t)
  <2>1. Mine(t) \in Bodies \cup {NullBody}
    <3>1. Call(t).h \in Handles BY <1>14, CallIs DEF Unref, At
    <3>2. Mine(t) # None
          BY <1>14 DEF Unref, At, Place, Fits, Strings, Mine
    <3> QED BY <3>1, <3>2 DEF Typed, Mine
  <2>2. refs' \in [Bodies -> Int] /\ given' \in [Handles -> Bodies \cup {None}]
        BY <1>14, <2>1 DEF Unref, Typed
  <2> QED BY <1>1, <1>2, <1>14, <2>2 DEF Unref, At, Typed, Labels
<1>15. CASE Swap(t)
  <2>1. Mine(t) \in Bodies \cup {NullBody, None} /\ Other(t) \in Bodies \cup {NullBody, None}
        BY <1>15, CallIs DEF Swap, At, Typed, Mine, Other
  <2>2. data' \in [Handles -> Bodies \cup {NullBody, None}] BY <1>15, <2>1 DEF Swap, Typed
  <2> QED BY <1>1, <1>2, <1>15, <2>2 DEF Swap, At, Typed, Labels, bodyVars
<1>16. CASE Write(t)
  <2>1. content' \in [Bodies -> Vals] BY <1>16, CallIs DEF Write, At, Typed
  <2> QED BY <1>1, <1>2, <1>16, <2>1 DEF Write, At, Typed, Labels
<1>17. CASE End(t)
       BY <1>2, <1>17 DEF End, At, Typed, Labels, bodyVars
<1> QED BY <1>3, <1>4, <1>5, <1>6, <1>7, <1>8, <1>9, <1>10, <1>11, <1>12, <1>13, <1>14, <1>15,
           <1>16, <1>17 DEF Step

LEMMA ExclusiveKept ==
    ASSUME Exclusive, \A u \in Threads : pc'[u] # "idle" => pc[u] # "idle" /\ call'[u] = call[u]
    PROVE  Exclusive'
<1>1. \A u \in Threads : pc'[u] # "idle" => Call(u)' = Call(u) BY DEF Call
<1> QED BY <1>1 DEF Exclusive, Changed, ReadOnly, V!Changed, V!ReadOnly

\* A body that somebody has, or is about to, is not to be freed.
LEMMA NotDying ==
    ASSUME Inv, NEW b, ~Unused(b)
    PROVE  ~Dying(b)
BY DEF Inv, Place, Own, Dying

\* The bodies that a call's strings are in.
LEMMA StringBodies ==
    ASSUME StringRepAssumption, Inv, NEW t \in Threads, pc[t] \notin {"idle", "end", "free"},
           pc[t] = "inc" \/ Call(t).op \notin {"new", "copy"}
    PROVE  /\ Call(t).h \in Handles /\ Call(t).h \in Changed(t)
           /\ Mine(t) \in live \cup {NullBody} /\ Mine(t) = data[Call(t).h]
           /\ Mine(t) \in Bodies <=> Mine(t) \in live
<1>1. Call(t).h \in Handles /\ Call(t).h \in Changed(t) BY CallIs DEF Inv
<1>2. Mine(t) # None BY DEF Inv, Place, Strings, Mine
<1> QED BY <1>1, <1>2 DEF Inv, Held, Typed, Mine, StringRepAssumption

\* A mutating call that sees that its string is not shared may count on it: the
\* string stays alone until the call is done.
LEMMA SoleMine ==
    ASSUME StringRepAssumption, Inv, NEW t \in Threads, pc[t] \notin {"idle", "end", "free", "inc"},
           Call(t).op \notin {"new", "copy"}, Mine(t) \in Bodies, refs[Mine(t)] <= 0
    PROVE  Sole(Call(t).h, Mine(t))
<1>1. /\ Call(t).h \in Handles /\ Call(t).h \in Changed(t)
      /\ Mine(t) \in live /\ Mine(t) = data[Call(t).h]
      BY StringBodies
<1>2. ~Dying(Mine(t)) BY <1>1, NotDying DEF Unused
<1> QED BY <1>1, <1>2, OneOwner

\* A step of a call that only moves on, or writes to a body no other call uses.
LEMMA Control ==
    ASSUME StringRepAssumption, Inv, NEW t \in Threads,
           pc[t] \notin {"idle", "inc", "unlink", "free"}, Typed', call' = call,
           UNCHANGED <<data, live, refs, given, victim>>,
           \A u \in Threads \ {t} : pc'[u] = pc[u] /\ target'[u] = target[u],
           pc'[t] \notin {"idle", "free"}, pc'[t] = "inc" => Call(t).op # "copy",
           pc'[t] = "unlink" => target'[t] = NullBody,
           \A d \in live : \/ content'[d] = content[d]
                           \/ \A u \in Threads \ {t} : pc[u] # "idle" => ~Uses(u, d),
           Place(t)'
    PROVE  Inv'
<1> USE DEF Inv
<1>1. \A u \in Threads : Call(u)' = Call(u) BY SameCalls
<1>2. \A d \in live : d \in Bodies /\ d # None /\ d # NullBody
      BY DEF Typed, StringRepAssumption
<1>3. \A u \in Threads, d \in live : Due'[u] = d <=> Due[u] = d
  <2>1. \A d \in live : Due[t] # d /\ Due'[t] # d BY <1>2 DEF Due
  <2>2. \A u \in Threads \ {t} : Due'[u] = Due[u] BY DEF Due
  <2> QED BY <2>1, <2>2
<1>4. Frame(t)
  <2>1. \A d \in live : Due'[t] # d BY <1>2 DEF Due
  <2> QED BY <2>1 DEF Frame, Uses
<1>5. Held' BY DEF Held
<1>6. Counted'
  <2> SUFFICES ASSUME NEW b \in live, ~Dying(b)'
               PROVE  \/ refs[b] = -1 /\ \E h \in Handles : data[h] = b /\ Sole(h, b)'
                      \/ refs[b] >= 0 /\ refs[b] + 1 = Total(b)'
      BY DEF Counted
  <2>1. ~Dying(b) BY DEF Dying
  <2>2. \A h \in Handles : Sole(h, b) => Sole(h, b)' BY <1>3 DEF Sole
  <2>3. Part(t, b)' = Part(t, b) BY <1>1, <1>2 DEF Part, Mine
  <2>4. Total(b)' = Total(b) BY <1>2, <2>3, Tally DEF Part, Bit
  <2> QED BY <2>1, <2>2, <2>4 DEF Counted
<1>7. Given' BY DEF Given
<1>8. Exclusive' BY ExclusiveKept
<1>9. \A u \in Threads : Place(u)' BY <1>4, Others
<1> QED BY <1>5, <1>6, <1>7, <1>8, <1>9

-----------------------------------------------------------------------------
\* Each step keeps the invariant.

LEMMA TestCopyAllocStep ==
    ASSUME StringRepAssumption, Inv, NEW t \in Threads, TestCopy(t), Typed', ~(GetRef(Other(t)) > 0)
    PROVE  Inv'
<1>1. Call(t)' = Call(t) BY SameCalls DEF TestCopy
<1>2. pc[t] = "test" /\ pc'[t] = "alloc" /\ \A u \in Threads \ {t} : pc'[u] = pc[u]
      BY DEF TestCopy, At, Goto, Inv, Typed
<1>3. Place(t)' BY <1>1, <1>2 DEF TestCopy, Inv, Place, Fits, Strings, Own, bodyVars
<1> QED BY <1>2, <1>3, Control DEF TestCopy, bodyVars

LEMMA TestAssignStep ==
    ASSUME StringRepAssumption, Inv, NEW t \in Threads, TestAssign(t), Typed'
    PROVE  Inv'
<1>1. Call(t)' = Call(t) /\ Call(t).op = "assign" BY SameCalls DEF TestAssign
<1>2. /\ pc[t] = "test" /\ \A u \in Threads \ {t} : pc'[u] = pc[u]
      /\ pc'[t] = IF GetRef(Other(t)) > 0 THEN "inc"
                  ELSE IF Call(t).h # Call(t).g THEN "settest" ELSE "end"
      BY DEF TestAssign, At, Goto, Inv, Typed
<1>3. Place(t)'
  <2>1. Other(t) \in Bodies /\ pc'[t] = "inc" => refs[Other(t)] >= 0
        BY <1>2 DEF GetRef, Inv, Typed, StringRepAssumption
  <2> QED BY <1>1, <1>2, <2>1
          DEF TestAssign, Inv, Place, Fits, Strings, Own, bodyVars, Other
<1> QED BY <1>1, <1>2, <1>3, Control DEF TestAssign, bodyVars

LEMMA TestBeginStep ==
    ASSUME StringRepAssumption, Inv, NEW t \in Threads, TestBegin(t), Typed'
    PROVE  Inv'
<1>1. Call(t)' = Call(t) /\ Call(t).op = "begin" BY SameCalls DEF TestBegin
<1>2. /\ pc[t] = "test" /\ pc'[t] = (IF Shared(Mine(t)) THEN "alloc" ELSE "unref")
      /\ \A u \in Threads \ {t} : pc'[u] = pc[u]
      BY DEF TestBegin, At, Goto, Inv, Typed
<1>3. pc'[t] = "unref" /\ Mine(t) \in Bodies => Sole(Call(t).h, Mine(t))
  <2> SUFFICES ASSUME ~Shared(Mine(t)), Mine(t) \in Bodies PROVE refs[Mine(t)] <= 0
      BY <1>1, <1>2, SoleMine
  <2> QED BY DEF Shared, GetRef, Inv, Typed, StringRepAssumption
<1>4. Place(t)'
  <2>1. pc'[t] = "alloc" => given[Call(t).h] = None
    <3> SUFFICES ASSUME Shared(Mine(t)), given[Call(t).h] # None PROVE FALSE
        BY <1>2
    <3>1. Call(t).h \in Handles BY <1>2, CallIs DEF Inv
    <3>2. Mine(t) \in Bodies /\ refs[Mine(t)] = -1
          BY <3>1 DEF Inv, Typed, Given, Mine
    <3> QED BY <3>2 DEF Shared, GetRef, StringRepAssumption
  <2>2. pc'[t] = "unref" /\ Mine(t) \in Bodies => Sole(Call(t).h, Mine(t))'
    <3>1. \A u \in Threads : Due'[u] = Due[u]
          BY <1>2 DEF TestBegin, Due
    <3> QED BY <1>1, <1>3, <3>1 DEF TestBegin, Sole, Mine
  <2> QED BY <1>1, <1>2, <2>1, <2>2
          DEF TestBegin, Inv, Place, Fits, Strings, Own, bodyVars, Mine
<1> QED BY <1>1, <1>2, <1>4, Control DEF TestBegin, bodyVars

LEMMA TestReserveStep ==
    ASSUME StringRepAssumption, Inv, NEW t \in Threads, TestReserve(t), Typed'
    PROVE  Inv'
<1>1. Call(t)' = Call(t) /\ Call(t).op = "reserve" BY SameCalls DEF TestReserve
<1>2. pc[t] = "test" /\ pc'[t] \in {"alloc", "end"} /\ \A u \in Threads \ {t} : pc'[u] = pc[u]
      BY DEF TestReserve, At, Goto, Inv, Typed
<1>3. Place(t)' BY <1>1, <1>2 DEF TestReserve, Inv, Place, Fits, Strings, Own, bodyVars
<1> QED BY <1>2, <1>3, Control DEF TestReserve, bodyVars

LEMMA AllocThrowStep ==
    ASSUME StringRepAssumption, Inv, NEW t \in Threads, AllocThrow(t), Typed'
    PROVE  Inv'
<1>1. Call(t)' = Call(t) BY SameCalls DEF AllocThrow
<1>2. pc[t] = "alloc" /\ pc'[t] = "end" /\ \A u \in Threads \ {t} : pc'[u] = pc[u]
      BY DEF AllocThrow, At, Goto, Inv, Typed
<1>3. Place(t)' BY <1>1, <1>2 DEF AllocThrow, Inv, Place, Fits, Strings, Own, bodyVars
<1> QED BY <1>2, <1>3, Control DEF AllocThrow, bodyVars

LEMMA TestSetStep ==
    ASSUME StringRepAssumption, Inv, NEW t \in Threads, TestSet(t), Typed'
    PROVE  Inv'
<1>1. Call(t)' = Call(t) /\ Call(t).op \in {"assign", "set"}
      BY SameCalls DEF TestSet, At, Inv, Place, Fits
<1>2. /\ pc[t] = "settest" /\ \A u \in Threads \ {t} : pc'[u] = pc[u] /\ target'[u] = target[u]
      /\ \/ pc'[t] = "alloc" /\ target' = target
         \/ /\ pc'[t] = "inplace" /\ target' = target /\ ~Shared(Mine(t))
            /\ Mine(t) = NullBody => NewContent(t) = Empty
         \/ pc'[t] = "unlink" /\ target'[t] = NullBody /\ NewContent(t) = Empty
      BY DEF TestSet, At, Goto, Inv, Typed
<1>3. pc'[t] = "inplace" /\ Mine(t) \in Bodies => Sole(Call(t).h, Mine(t))
  <2> SUFFICES ASSUME ~Shared(Mine(t)), Mine(t) \in Bodies PROVE refs[Mine(t)] <= 0
      BY <1>1, <1>2, SoleMine
  <2> QED BY DEF Shared, GetRef, Inv, Typed, StringRepAssumption
<1>4. NewContent(t)' = NewContent(t)
      BY <1>1 DEF TestSet, bodyVars, NewContent, Content, Mine, Other
<1>5. Place(t)'
  <2>1. pc'[t] = "inplace" /\ Mine(t) \in Bodies => Sole(Call(t).h, Mine(t))'
    <3>1. pc'[t] = "inplace" => \A u \in Threads : Due'[u] = Due[u]
          BY <1>2 DEF Due
    <3> QED BY <1>1, <1>3, <3>1 DEF TestSet, Sole, Mine
  <2>2. Fits(t, Call(t).op)' BY <1>1, <1>2 DEF Fits
  <2>3. Strings(t, Call(t))'
        BY <1>1, <1>2, <1>4, <2>1 DEF TestSet, Inv, Place, Strings, bodyVars, Mine
  <2>4. Own(t, Call(t))'
        BY <1>1, <1>2, <1>4
        DEF TestSet, Inv, Place, Own, bodyVars, Content, StringRepAssumption
  <2> QED BY <2>2, <2>3, <2>4 DEF Place
<1> QED BY <1>1, <1>2, <1>5, Control DEF TestSet, bodyVars

LEMMA InPlaceStep ==
    ASSUME StringRepAssumption, Inv, NEW t \in Threads, InPlace(t), Typed'
    PROVE  Inv'
<1>1. Call(t)' = Call(t) BY SameCalls DEF InPlace
<1>2. pc[t] = "inplace" /\ pc'[t] = "end" /\ \A u \in Threads \ {t} : pc'[u] = pc[u]
      BY DEF InPlace, At, Goto, Inv, Typed
<1>3. Place(t)' BY <1>1, <1>2 DEF InPlace, Inv, Place, Fits, Strings, Own
<1>4. ASSUME NEW d \in live
      PROVE  \/ content'[d] = content[d]
             \/ \A u \in Threads \ {t} : pc[u] # "idle" => ~Uses(u, d)
  <2>1. d \in Bodies BY DEF Inv, Typed
  <2>2. CASE d # Mine(t) BY <2>1, <2>2 DEF InPlace
  <2>3. CASE d = Mine(t)
    <3>1. /\ Call(t).h \in Changed(t) /\ Mine(t) = data[Call(t).h]
          BY <1>2, CallIs DEF Inv, Mine
    <3>2. Sole(Call(t).h, data[Call(t).h])
      <4>1. Strings(t, Call(t)) BY DEF Inv, Place
      <4> QED BY <1>2, <2>1, <2>3, <3>1, <4>1 DEF Strings
    <3> QED BY <1>2, <2>1, <2>3, <3>1, <3>2, Apart
  <2> QED BY <2>2, <2>3
<1> QED BY <1>2, <1>3, <1>4, Control DEF InPlace

\* A string that gave a reference out is alone with its body.
LEMMA GivenSole ==
    ASSUME StringRepAssumption, Inv, NEW h \in Handles, given[h] # None
    PROVE  /\ given[h] \in live /\ data[h] = given[h] /\ refs[given[h]] = -1
           /\ Sole(h, data[h])
<1>1. /\ given[h] \in Bodies /\ data[h] = given[h] /\ refs[given[h]] = -1
      BY DEF Inv, Given, Typed
<1>2. given[h] \in live BY <1>1 DEF Inv, Held, StringRepAssumption
<1>3. ~Dying(given[h]) BY <1>1, NotDying DEF Unused
<1>4. \E k \in Handles : data[k] = given[h] /\ Sole(k, given[h])
      BY <1>1, <1>2, <1>3 DEF Inv, Counted
<1> QED BY <1>1, <1>2, <1>4 DEF Sole

LEMMA WriteStep ==
    ASSUME StringRepAssumption, Inv, NEW t \in Threads, Write(t), Typed'
    PROVE  Inv'
<1>1. Call(t)' = Call(t) BY SameCalls DEF Write
<1>2. pc[t] = "write" /\ pc'[t] = "end" /\ \A u \in Threads \ {t} : pc'[u] = pc[u]
      BY DEF Write, At, Goto, Inv, Typed
<1>3. Place(t)' BY <1>1, <1>2 DEF Write, Inv, Place, Fits, Strings, Own
<1>4. /\ Call(t).h \in Changed(t) /\ Call(t).h \in Handles /\ given[Call(t).h] # None
      BY <1>2, CallIs DEF Inv, Place, Strings
<1>5. ASSUME NEW d \in live
      PROVE  \/ content'[d] = content[d]
             \/ \A u \in Threads \ {t} : pc[u] # "idle" => ~Uses(u, d)
  <2>1. d \in Bodies BY DEF Inv, Typed
  <2>2. CASE d # given[Call(t).h] BY <2>1, <2>2 DEF Write, Inv, Typed
  <2>3. CASE d = given[Call(t).h]
    <3>1. d = data[Call(t).h] /\ Sole(Call(t).h, data[Call(t).h])
          BY <1>4, <2>3, GivenSole
    <3> QED BY <1>2, <1>4, <2>1, <3>1, Apart
  <2> QED BY <2>2, <2>3
<1> QED BY <1>2, <1>3, <1>5, Control DEF Write

LEMMA TestCopyShareStep ==
    ASSUME StringRepAssumption, Inv, NEW t \in Threads, TestCopy(t), Typed', GetRef(Other(t)) > 0
    PROVE  Inv'
<1> USE DEF Inv
<1>1. PICK c : c = Call(t) /\ c = Call(t)' /\ c.op = "copy" BY SameCalls DEF TestCopy
<1>2. /\ pc[t] = "test" /\ pc'[t] = "inc" /\ \A u \in Threads \ {t} : pc'[u] = pc[u]
      /\ data' = [data EXCEPT ![c.h] = data[c.g]]
      /\ UNCHANGED <<live, refs, content, given, call, target, victim>>
      BY <1>1 DEF TestCopy, At, Goto, Typed, bodyVars, Other
<1>3. /\ c.h \in Handles /\ c.g \in Handles /\ c.h \in Changed(t) /\ c.g \in ReadOnly(t)
      /\ data[c.h] = None /\ data[c.g] # None /\ c.h # c.g /\ given[c.h] = None
      BY <1>1, <1>2, CallIs DEF Place, Strings, ReadOnly, V!ReadOnly, Changed, V!Changed
<1>4. data'[c.h] = data[c.g] /\ \A k \in Handles \ {c.h} : data'[k] = data[k]
      BY <1>2, <1>3 DEF Typed
<1>5. data[c.g] \in live \cup {NullBody} /\ (data[c.g] \in Bodies => refs[data[c.g]] >= 0)
  <2>1. data[c.g] \in live \cup {NullBody} BY <1>3 DEF Held
  <2> QED BY <1>1, <2>1 DEF GetRef, Other, Typed, StringRepAssumption
<1>6. \A u \in Threads : Due'[u] = Due[u] BY <1>2 DEF Due
<1>7. Frame(t)
  <2>1. \A k \in Handles \ Changed(t) : data'[k] = data[k] BY <1>3, <1>4
  <2>2. ASSUME NEW d \in live,
               (\E k \in Changed(t) : data'[k] = d) \/ Due'[t] = d \/ victim'[t] = d
        PROVE  Uses(t, d)
    <3>1. Changed(t) = {c.h} BY <1>1 DEF Changed, V!Changed
    <3>2. Due[t] = d => target[t] = d
          BY DEF Due, Typed, StringRepAssumption
    <3> QED BY <1>2, <1>3, <1>4, <1>6, <2>2, <3>1, <3>2 DEF Uses
  <2> QED BY <1>2, <2>1, <2>2 DEF Frame
<1>8. Held' BY <1>2, <1>4, <1>5 DEF Held
<1>9. Counted'
  <2> SUFFICES ASSUME NEW b \in live, ~Dying(b)'
               PROVE  \/ refs[b] = -1 /\ \E h \in Handles : data'[h] = b /\ Sole(h, b)'
                      \/ refs[b] >= 0 /\ refs[b] + 1 = Total(b)'
      BY <1>2 DEF Counted
  <2>1. ~Dying(b) BY <1>2 DEF Dying
  <2>2. b \in Bodies /\ b # None BY DEF Typed, StringRepAssumption
  <2>3. CASE refs[b] = -1
    <3>1. b # data[c.g] BY <1>5, <2>2, <2>3
    <3>2. PICK h \in Handles : data[h] = b /\ Sole(h, b)
          BY <2>1, <2>3 DEF Counted
    <3> QED BY <1>3, <1>4, <1>6, <2>2, <2>3, <3>1, <3>2 DEF Sole
  <2>4. CASE refs[b] >= 0 /\ refs[b] + 1 = Total(b)
    <3>1. Part(t, b) = 0 BY <1>1, <1>2, <1>3, <2>2 DEF Part, Bit, Mine
    <3>2. Part(t, b)' = 0 BY <1>1, <1>2 DEF Part, Bit
    <3>3. \A k \in Handles \ {Call(t).h} : data'[k] = data[k] BY <1>1, <1>4
    <3>4. Total(b) \in Nat /\ Total(b)' = Total(b) + Part(t, b)' - Part(t, b)
          BY <1>2, <2>2, <3>3, Tally
    <3> QED BY <1>2, <2>4, <3>1, <3>2, <3>4
  <2> QED BY <2>1, <2>3, <2>4 DEF Counted
<1>10. Given' BY <1>2, <1>3, <1>4 DEF Given
<1>11. Exclusive' BY <1>2, ExclusiveKept
<1>12. Place(t)'
  <2>1. Strings(t, c)' BY <1>1, <1>2, <1>3, <1>4, <1>5 DEF Strings, Place
  <2>2. Own(t, c)' BY <1>1, <1>2 DEF Own, Place
  <2> QED BY <1>1, <1>2, <2>1, <2>2 DEF Place, Fits
<1> QED BY <1>2, <1>7, <1>8, <1>9, <1>10, <1>11, <1>12, Others

LEMMA IncStep ==
    ASSUME StringRepAssumption, Inv, NEW t \in Threads, Inc(t), Typed'
    PROVE  Inv'
<1> USE DEF Inv
<1>1. PICK c : c = Call(t) /\ c = Call(t)' BY SameCalls DEF Inc
<1>2. PICK b : b = Other(t) OBVIOUS
<1>3. /\ pc[t] = "inc" /\ pc'[t] = (IF c.op = "copy" THEN "end" ELSE "unlink")
      /\ \A u \in Threads \ {t} : pc'[u] = pc[u] /\ target'[u] = target[u]
      /\ target'[t] = IF c.op = "copy" THEN None ELSE b
      /\ UNCHANGED <<data, live, content, given, call, victim>>
      BY <1>1, <1>2 DEF Inc, At, Goto, Typed
<1>4. /\ c.h \in Handles /\ c.g \in Handles /\ c.h \in Changed(t) /\ c.g \in ReadOnly(t)
      /\ c.op \in {"copy", "assign"} /\ data[c.h] # None /\ data[c.g] # None /\ b = data[c.g]
      /\ c.op = "copy" => data[c.h] = b
      /\ \A k \in V!Changed(c) : given[k] = None
  <2>1. Fits(t, c.op) /\ Strings(t, c) BY <1>1 DEF Place
  <2>2. c.op \in {"copy", "assign"} BY <1>3, <2>1 DEF Fits
  <2>3. c.h \in Handles /\ c.g \in Handles /\ c.h \in Changed(t) /\ c.g \in ReadOnly(t)
        BY <1>1, <1>3, <2>2, CallIs DEF ReadOnly, V!ReadOnly
  <2>4. b = data[c.g] BY <1>1, <1>2 DEF Other
  <2> QED BY <1>3, <2>1, <2>2, <2>3, <2>4 DEF Strings
<1>5. b \in live \cup {NullBody} /\ (b \in live => refs[b] >= 0 /\ refs[b] \in Int)
  <2>1. b \in live \cup {NullBody} BY <1>4 DEF Held
  <2> QED BY <1>1, <1>3, <1>4, <2>1 DEF Typed, Place, Strings
<1>6. \A d \in live : d \in Bodies /\ d # None /\ d # NullBody /\ refs[d] \in Int
      BY DEF Typed, StringRepAssumption
<1>7. \A d \in live : refs'[d] = IF d = b THEN refs[d] + 1 ELSE refs[d]
      BY <1>2, <1>6 DEF Inc, Typed
<1>8. \A u \in Threads \ {t} : Due'[u] = Due[u] BY <1>3 DEF Due
<1>9. Due'[t] = IF c.op = "copy" THEN None ELSE b BY <1>3 DEF Due
<1>10. Frame(t)
  <2>1. ASSUME NEW d \in live,
               (\E k \in Changed(t) : data'[k] = d) \/ Due'[t] = d \/ victim'[t] = d
        PROVE  Uses(t, d)
        BY <1>3, <1>4, <1>6, <1>9, <2>1 DEF Uses
  <2>2. \A d \in live : refs[d] >= 0 => refs'[d] >= 0 BY <1>6, <1>7
  <2> QED BY <1>3, <2>1, <2>2 DEF Frame
<1>11. Held' BY <1>3 DEF Held
<1>12. Counted'
  <2> SUFFICES ASSUME NEW d \in live, ~Dying(d)'
               PROVE  \/ refs'[d] = -1 /\ \E h \in Handles : data[h] = d /\ Sole(h, d)'
                      \/ refs'[d] >= 0 /\ refs'[d] + 1 = Total(d)'
      BY <1>3 DEF Counted
  <2>1. ~Dying(d) BY <1>3 DEF Dying
  <2>2. Total(d) \in Nat /\ Total(d)' = Total(d) + Part(t, d)' - Part(t, d)
        BY <1>1, <1>3, <1>6, Tally
  <2>3. CASE d = b
    <3>1. refs[d] + 1 = Total(d) BY <1>5, <1>6, <2>1, <2>3 DEF Counted
    <3>2. Part(t, d)' = Part(t, d) + 1
          BY <1>1, <1>3, <1>4, <2>3 DEF Part, Bit, Mine
    <3>3. Part(t, d) \in Int BY DEF Part, Bit
    <3> QED BY <1>5, <1>7, <2>2, <2>3, <3>1, <3>2, <3>3
  <2>4. CASE d # b
    <3>1. CASE refs[d] = -1
      <4>1. PICK h \in Handles : data[h] = d /\ Sole(h, d)
            BY <1>6, <2>1, <3>1 DEF Counted
      <4> QED BY <1>3, <1>6, <1>7, <1>8, <1>9, <2>4, <3>1, <4>1 DEF Sole
    <3>2. CASE refs[d] >= 0 /\ refs[d] + 1 = Total(d)
      <4>1. Part(t, d)' = Part(t, d) /\ Part(t, d) \in Int
            BY <1>1, <1>3, <1>4, <1>6, <2>4 DEF Part, Bit, Mine
      <4> QED BY <1>7, <2>2, <2>4, <3>2, <4>1
    <3> QED BY <2>1, <3>1, <3>2 DEF Counted
  <2> QED BY <2>3, <2>4
<1>13. Given'
  <2>1. ASSUME NEW h \in Handles, given[h] # None PROVE given[h] # b /\ given[h] \in live
        BY <1>5, <2>1, GivenSole
  <2> QED BY <1>3, <1>7, <2>1 DEF Given
<1>14. Exclusive' BY <1>3, ExclusiveKept
<1>15. Place(t)'
  <2>1. Strings(t, c)' BY <1>1, <1>3, <1>4 DEF Strings, Place
  <2>2. NewContent(t)' = NewContent(t)
        BY <1>1, <1>3 DEF NewContent, Content, Mine, Other
  <2>3. NewContent(t) = Content(b) BY <1>1, <1>2, <1>4 DEF NewContent
  <2>4. Content(b)' = Content(b) BY <1>3 DEF Content
  <2>5. victim[t] = None BY <1>3 DEF Place, Own
  <2>6. Own(t, c)' BY <1>3, <1>4, <1>5, <2>2, <2>3, <2>4, <2>5 DEF Own
  <2> QED BY <1>1, <1>3, <1>4, <2>1, <2>6 DEF Place, Fits
<1> QED BY <1>3, <1>10, <1>11, <1>12, <1>13, <1>14, <1>15, Others

LEMMA AllocStep ==
    ASSUME StringRepAssumption, Inv, NEW t \in Threads, Alloc(t), Typed'
    PROVE  Inv'
<1> USE DEF Inv
<1>1. PICK c : c = Call(t) /\ c = Call(t)' BY SameCalls DEF Alloc
<1>2. PICK b \in {NullBody} \cup (Bodies \ live) :
         /\ b = NullBody <=> NewContent(t) = Empty /\ c.op # "reserve"
         /\ IF b = NullBody THEN UNCHANGED bodyVars
            ELSE /\ live' = live \cup {b}
                 /\ refs' = [refs EXCEPT ![b] = 0]
                 /\ content' = [content EXCEPT ![b] = NewContent(t)]
         /\ IF c.op \in {"new", "copy"}
            THEN data' = [data EXCEPT ![c.h] = b] /\ Goto(t, "end") /\ UNCHANGED target
            ELSE target' = [target EXCEPT ![t] = b] /\ Goto(t, "unlink") /\ UNCHANGED data
      BY <1>1 DEF Alloc
<1>3. /\ pc[t] = "alloc" /\ pc'[t] = (IF c.op \in {"new", "copy"} THEN "end" ELSE "unlink")
      /\ \A u \in Threads \ {t} : pc'[u] = pc[u] /\ target'[u] = target[u]
      /\ target'[t] = IF c.op \in {"new", "copy"} THEN target[t] ELSE b
      /\ UNCHANGED <<given, call, victim>>
      BY <1>1, <1>2 DEF Alloc, At, Goto, Typed
<1>4. /\ c.h \in Handles /\ c.h \in Changed(t) /\ target[t] = None /\ victim[t] = None
      /\ data[c.h] = None <=> c.op \in {"new", "copy"}
      /\ c.op \in {"new", "copy", "assign", "set", "begin", "reserve"}
      /\ given[c.h] = None /\ V!Changed(c) = {c.h}
  <2>1. Fits(t, c.op) /\ Strings(t, c) /\ Own(t, c) BY <1>1 DEF Place
  <2>2. c.op \in {"new", "copy", "assign", "set", "begin", "reserve"} BY <1>3, <2>1 DEF Fits
  <2>3. c.h \in Handles /\ c.h \in Changed(t) BY <1>1, <1>3, CallIs
  <2>4. V!Changed(c) = {c.h} BY <2>2 DEF V!Changed
  <2>5. given[c.h] = None BY <1>3, <2>1, <2>2, <2>4 DEF Strings
  <2>6. data[c.h] = None <=> c.op \in {"new", "copy"} BY <1>3, <2>1 DEF Strings
  <2>7. target[t] = None /\ victim[t] = None BY <1>3, <2>1 DEF Own
  <2> QED BY <2>2, <2>3, <2>4, <2>5, <2>6, <2>7
<1>5. /\ \A k \in Handles \ {c.h} : data'[k] = data[k]
      /\ data'[c.h] = IF c.op \in {"new", "copy"} THEN b ELSE data[c.h]
      BY <1>2, <1>4 DEF Typed
<1>6. b \notin live /\ b # None /\ \A d \in live : d \in Bodies /\ d # None /\ d # NullBody /\ refs[d] \in Int
      BY DEF Typed, StringRepAssumption
<1>7. /\ \A d \in live : d \in live' /\ refs'[d] = refs[d] /\ content'[d] = content[d]
      /\ live' = live \cup ({b} \ {NullBody})
      /\ b # NullBody => b \in Bodies /\ refs'[b] = 0 /\ content'[b] = NewContent(t)
      BY <1>2, <1>6 DEF Typed, bodyVars
<1>8. /\ \A u \in Threads \ {t} : Due'[u] = Due[u]
      /\ Due[t] = None /\ Due'[t] = IF c.op \in {"new", "copy"} THEN None ELSE b
      BY <1>3 DEF Due
<1>9. b # NullBody => Unused(b)
  <2>1. \A u \in Threads : Due[u] \in live \cup {NullBody, None}
        BY DEF Place, Own, Due
  <2> QED BY <1>6, <2>1 DEF Held, Unused
<1>10. Frame(t)
  <2>1. ASSUME NEW d \in live,
               (\E k \in Changed(t) : data'[k] = d) \/ Due'[t] = d \/ victim'[t] = d
        PROVE  Uses(t, d)
    <3>1. Changed(t) \subseteq Handles BY <1>3, CallIs
    <3> QED BY <1>3, <1>4, <1>5, <1>6, <1>8, <2>1, <3>1 DEF Uses
  <2> QED BY <1>3, <1>4, <1>5, <1>7, <2>1 DEF Frame
<1>11. Held' BY <1>5, <1>7 DEF Held
<1>12. Counted'
  <2> SUFFICES ASSUME NEW d \in live', ~Dying(d)'
               PROVE  \/ refs'[d] = -1 /\ \E h \in Handles : data'[h] = d /\ Sole(h, d)'
                      \/ refs'[d] >= 0 /\ refs'[d] + 1 = Total(d)'
      BY DEF Counted
  <2>1. d \in Bodies /\ d # None /\ d # NullBody BY <1>6, <1>7
  <2>2. Total(d) \in Nat /\ Total(d)' = Total(d) + Part(t, d)' - Part(t, d)
        BY <1>1, <1>3, <1>5, <2>1, Tally
  <2>3. CASE d = b
    <3>1. Total(d) = 0 BY <1>9, <2>1, <2>3, NoOwner
    <3>2. Part(t, d) = 0
          BY <1>1, <1>3, <1>4, <1>9, <2>1, <2>3 DEF Part, Bit, Mine, Unused
    <3>3. Part(t, d)' = 1
      <4>1. data[c.h] # d BY <1>4, <1>9, <2>1, <2>3 DEF Unused
      <4> QED BY <1>1, <1>3, <1>4, <1>5, <2>1, <2>3, <4>1 DEF Part, Bit, Mine
    <3> QED BY <1>7, <2>1, <2>2, <2>3, <3>1, <3>2, <3>3
  <2>4. CASE d # b
    <3>0. d \in live /\ ~Dying(d) BY <1>3, <1>4, <1>7, <2>4 DEF Dying
    <3>1. CASE refs[d] = -1
      <4>1. PICK h \in Handles : data[h] = d /\ Sole(h, d)
            BY <1>6, <3>0, <3>1 DEF Counted
      <4>2. data'[h] = d BY <1>4, <1>5, <2>1, <4>1
      <4>3. Sole(h, d)' BY <1>5, <1>8, <2>1, <2>4, <4>1 DEF Sole
      <4> QED BY <1>7, <3>0, <3>1, <4>2, <4>3
    <3>2. CASE refs[d] >= 0 /\ refs[d] + 1 = Total(d)
      <4>1. Part(t, d)' = Part(t, d) /\ Part(t, d) \in Int
            BY <1>1, <1>3, <1>4, <1>5, <2>1, <2>4 DEF Part, Bit, Mine
      <4> QED BY <1>7, <2>2, <3>0, <3>2, <4>1
    <3> QED BY <3>0, <3>1, <3>2 DEF Counted
  <2> QED BY <2>3, <2>4
<1>13. Given'
  <2>1. ASSUME NEW h \in Handles, given[h] # None
        PROVE  data'[h] = given[h] /\ refs'[given[h]] = -1
    <3>1. h # c.h BY <1>4, <2>1
    <3>2. given[h] \in live /\ data[h] = given[h] /\ refs[given[h]] = -1 BY <2>1, GivenSole
    <3> QED BY <1>5, <1>7, <3>1, <3>2
  <2> QED BY <1>3, <2>1 DEF Given
<1>14. Exclusive' BY <1>3, ExclusiveKept
<1>15. Place(t)'
  <2>1. Strings(t, c)'
    <3>1. Strings(t, c) BY <1>1 DEF Place
    <3>2. c.op \notin {"new", "copy"} => data' = data BY <1>2
    <3> QED BY <1>3, <1>4, <3>1, <3>2 DEF Strings
  <2>2. c.op \notin {"new", "copy"} => NewContent(t)' = NewContent(t)
    <3>1. c.op \notin {"new", "copy"} => data' = data BY <1>2
    <3>2. \A k \in Handles : data[k] # None => Content(data[k])' = Content(data[k]) \/ data' # data
          BY <1>7 DEF Content, Held
    <3>3. c.op = "assign" => data[c.g] # None /\ c.g \in Handles
          BY <1>1, <1>3, CallIs DEF Place, Strings
    <3> QED BY <1>1, <1>4, <3>1, <3>2, <3>3 DEF NewContent, Mine, Other
  <2>3. c.op \notin {"new", "copy"} => Content(b)' = NewContent(t)
        BY <1>2, <1>7 DEF Content
  <2>4. c.op \notin {"new", "copy"} /\ b \in Bodies => Fresh(t, b)'
    <3> SUFFICES ASSUME c.op \notin {"new", "copy"}, b \in Bodies PROVE Fresh(t, b)'
        OBVIOUS
    <3>1. Unused(b) /\ data' = data BY <1>2, <1>9 DEF StringRepAssumption
    <3> QED BY <1>8, <3>1 DEF Unused, Fresh
  <2>5. Own(t, c)' BY <1>3, <1>4, <1>6, <1>7, <2>2, <2>3, <2>4 DEF Own
  <2> QED BY <1>1, <1>3, <1>4, <2>1, <2>5 DEF Place, Fits
<1> QED BY <1>3, <1>10, <1>11, <1>12, <1>13, <1>14, <1>15, Others

LEMMA UnlinkStep ==
    ASSUME StringRepAssumption, Inv, NEW t \in Threads, Unlink(t), Typed'
    PROVE  Inv'
<1> USE DEF Inv
<1>1. PICK c : c = Call(t) /\ c = Call(t)' BY SameCalls DEF Unlink
<1>2. PICK b : b = Mine(t) OBVIOUS
<1>3. PICK x : x = target[t] OBVIOUS
<1>4. /\ pc[t] = "unlink" /\ target'[t] = None
      /\ \A u \in Threads \ {t} : pc'[u] = pc[u] /\ target'[u] = target[u] /\ victim'[u] = victim[u]
      /\ UNCHANGED <<live, content, given, call>>
      BY DEF Unlink, At, Goto, Typed
<1>5. /\ c.op \in {"assign", "set", "begin", "reserve", "dtor"}
      /\ V!Changed(c) = {c.h} /\ Changed(t) = {c.h} /\ c.h \in Handles
      /\ given[c.h] = None
      /\ b \in live \cup {NullBody} /\ b = data[c.h]
  <2>1. Fits(t, c.op) /\ Strings(t, c) BY <1>1 DEF Place
  <2>2. c.op \in {"assign", "set", "begin", "reserve", "dtor"} BY <1>4, <2>1 DEF Fits
  <2>3. V!Changed(c) = {c.h} /\ Changed(t) = {c.h} BY <1>1, <2>2 DEF V!Changed, Changed
  <2>4. given[c.h] = None BY <1>4, <2>1, <2>2, <2>3 DEF Strings
  <2>5. c.h \in Handles /\ b \in live \cup {NullBody} /\ b = data[c.h]
        BY <1>1, <1>2, <1>4, <2>2, StringBodies
  <2> QED BY <2>2, <2>3, <2>4, <2>5
<1>6. \A d \in live : d \in Bodies /\ d # None /\ d # NullBody /\ refs[d] \in Int
      BY DEF Typed, StringRepAssumption
<1>7. /\ x \in live \cup {NullBody, None} /\ (x = None <=> c.op = "dtor")
      /\ c.op = "begin" /\ x \in Bodies => Fresh(t, x)
      BY <1>1, <1>3, <1>4 DEF Place, Own
<1>8. /\ data'[c.h] = x /\ \A k \in Handles \ {c.h} : data'[k] = data[k]
      BY <1>1, <1>3, <1>5 DEF Unlink, Typed
<1>9. /\ \A d \in live : refs'[d] = IF d = b THEN refs[d] - 1 ELSE refs[d]
      /\ victim'[t] = IF b \in live /\ refs[b] <= 0 THEN b ELSE None
      /\ pc'[t] = IF b \in live /\ refs[b] <= 0 THEN "free"
                  ELSE IF c.op = "begin" THEN "unref" ELSE "end"
  <2>1. CASE b = NullBody
    <3>1. refs' = refs /\ victim' = [victim EXCEPT ![t] = None]
          BY <1>2, <2>1 DEF Unlink
    <3>2. pc' = [pc EXCEPT ![t] = IF c.op = "begin" THEN "unref" ELSE "end"]
          BY <1>1, <1>2, <2>1 DEF Unlink, Goto
    <3> QED BY <1>6, <2>1, <3>1, <3>2 DEF Typed
  <2>2. CASE b \in live
    <3>1. /\ refs' = [refs EXCEPT ![b] = refs[b] - 1]
          /\ victim' = [victim EXCEPT ![t] = IF refs[b] <= 0 THEN b ELSE None]
          BY <1>2, <1>6, <2>2 DEF Unlink
    <3>2. pc' = [pc EXCEPT ![t] = IF refs[b] <= 0 THEN "free"
                                  ELSE IF c.op = "begin" THEN "unref" ELSE "end"]
          BY <1>1, <1>2, <1>6, <2>2 DEF Unlink, Goto
    <3> QED BY <1>6, <2>2, <3>1, <3>2 DEF Typed
  <2> QED BY <1>5, <2>1, <2>2
<1>10. b \in live /\ refs[b] <= 0 => Sole(c.h, b)
       BY <1>1, <1>2, <1>4, <1>5, <1>6, SoleMine
<1>11. /\ \A u \in Threads \ {t} : Due'[u] = Due[u]
       /\ Due[t] = x /\ Due'[t] = None
  <2>1. pc'[t] # "unlink" BY <1>9
  <2> QED BY <1>3, <1>4, <2>1 DEF Due
<1>12. Frame(t)
  <2>1. ASSUME NEW d \in live,
               (\E k \in Changed(t) : data'[k] = d) \/ Due'[t] = d \/ victim'[t] = d
        PROVE  Uses(t, d)
        BY <1>3, <1>5, <1>6, <1>8, <1>9, <1>11, <2>1 DEF Uses
  <2>2. ASSUME NEW d \in live
        PROVE  \/ refs[d] >= 0 => refs'[d] >= 0
               \/ \A u \in Threads \ {t} : pc[u] # "idle" => ~Uses(u, d)
    <3>1. CASE d = b /\ refs[d] <= 0
      <4>1. Sole(c.h, data[c.h]) /\ data[c.h] \in Bodies BY <1>5, <1>6, <1>10, <3>1
      <4>2. \A u \in Threads \ {t} : pc[u] # "idle" => ~Uses(u, data[c.h])
            BY <1>4, <1>5, <4>1, Apart
      <4> QED BY <1>5, <3>1, <4>2
    <3>2. CASE ~(d = b /\ refs[d] <= 0) BY <1>6, <1>9, <3>2
    <3> QED BY <3>1, <3>2
  <2> QED BY <1>4, <1>5, <1>8, <2>1, <2>2 DEF Frame
<1>13. Held' BY <1>4, <1>7, <1>8 DEF Held
<1>14. Counted'
  <2> SUFFICES ASSUME NEW d \in live, ~Dying(d)'
               PROVE  \/ refs'[d] = -1 /\ \E h \in Handles : data'[h] = d /\ Sole(h, d)'
                      \/ refs'[d] >= 0 /\ refs'[d] + 1 = Total(d)'
      BY <1>4 DEF Counted
  <2>1. ~Dying(d) BY <1>4 DEF Dying
  <2>2. Total(d) \in Nat /\ Total(d)' = Total(d) + Part(t, d)' - Part(t, d)
        BY <1>1, <1>4, <1>6, <1>8, Tally
  <2>3. /\ Part(t, d) = Bit(d = b) + Bit(d = x)
        /\ Part(t, d)' = Bit(d = x)
        /\ Part(t, d) \in Int /\ Part(t, d)' \in Int
    <3>1. pc'[t] \notin {"inc", "unlink"} /\ pc[t] = "unlink" BY <1>4, <1>9
    <3>2. Mine(t) = b /\ Mine(t)' = x BY <1>1, <1>2, <1>8 DEF Mine
    <3>3. Part(t, d) = Bit(d = b) + Bit(d = x) BY <1>3, <3>1, <3>2 DEF Part, Bit
    <3>4. Part(t, d)' = Bit(d = x) BY <3>1, <3>2 DEF Part, Bit
    <3> QED BY <3>3, <3>4 DEF Bit
  <2>4. CASE d = b
    <3>1. refs[d] > 0
      <4> SUFFICES ASSUME refs[d] <= 0 PROVE FALSE BY <1>6
      <4> QED BY <1>9, <2>4 DEF Dying
    <3>2. refs[d] + 1 = Total(d) BY <1>6, <2>1, <3>1 DEF Counted
    <3>3. Total(d)' = Total(d) - 1 BY <2>2, <2>3, <2>4 DEF Bit
    <3> QED BY <1>6, <1>9, <2>2, <2>4, <3>1, <3>2, <3>3
  <2>5. CASE d # b
    <3>1. CASE refs[d] = -1
      <4>1. PICK h \in Handles : data[h] = d /\ Sole(h, d)
            BY <1>6, <2>1, <3>1 DEF Counted
      <4>2. h # c.h /\ x # d BY <1>5, <1>11, <2>5, <4>1 DEF Sole
      <4>3. Sole(h, d)' BY <1>6, <1>8, <1>11, <4>1, <4>2 DEF Sole
      <4> QED BY <1>8, <1>9, <2>5, <3>1, <4>1, <4>2, <4>3
    <3>2. CASE refs[d] >= 0 /\ refs[d] + 1 = Total(d)
      <4>1. Total(d)' = Total(d) BY <2>2, <2>3, <2>5 DEF Bit
      <4> QED BY <1>9, <2>5, <3>2, <4>1
    <3> QED BY <2>1, <3>1, <3>2 DEF Counted
  <2> QED BY <2>4, <2>5
<1>15. Given'
  <2>1. ASSUME NEW h \in Handles, given[h] # None
        PROVE  data'[h] = given[h] /\ refs'[given[h]] = -1
    <3>1. h # c.h BY <1>5, <2>1
    <3>2. /\ given[h] \in live /\ data[h] = given[h] /\ refs[given[h]] = -1
          /\ Sole(h, given[h])
          BY <2>1, GivenSole
    <3>3. given[h] # b BY <1>5, <3>1, <3>2 DEF Sole
    <3> QED BY <1>8, <1>9, <3>1, <3>2, <3>3
  <2> QED BY <1>4, <2>1 DEF Given
<1>16. Exclusive' BY <1>4, ExclusiveKept
<1>17. Place(t)'
  <2>1. Strings(t, c)'
    <3>1. Strings(t, c) BY <1>1 DEF Place
    <3>2. pc'[t] \in {"free", "unref", "end"} /\ (pc'[t] = "unref" => c.op = "begin") BY <1>9
    <3>3. c.op = "begin" /\ x \in Bodies => Sole(c.h, x)'
      <4> SUFFICES ASSUME c.op = "begin", x \in Bodies PROVE Sole(c.h, x)'
          OBVIOUS
      <4>1. Fresh(t, x) /\ x # None BY <1>7 DEF StringRepAssumption
      <4> QED BY <1>8, <1>11, <4>1 DEF Fresh, Sole
    <3>4. c.op \in {"assign"} => data'[c.g] # None
      <4> SUFFICES ASSUME c.op = "assign" PROVE data'[c.g] # None
          OBVIOUS
      <4>1. c.g \in Handles /\ data[c.g] # None BY <1>1, <1>4, <3>1, CallIs DEF Strings
      <4> QED BY <1>7, <1>8, <4>1
    <3> QED BY <1>4, <1>5, <1>7, <1>8, <3>2, <3>3, <3>4 DEF Strings
  <2>2. Own(t, c)'
    <3>1. pc'[t] \in {"free", "unref", "end"} BY <1>9
    <3>2. ASSUME pc'[t] = "free"
          PROVE  /\ victim'[t] = b /\ b \in live' /\ Unused(b)'
                 /\ \A u \in Threads \ {t} : victim'[u] # b
      <4>1. b \in live /\ refs[b] <= 0 /\ victim'[t] = b BY <1>9, <3>2
      <4>2. Sole(c.h, b) /\ x # b BY <1>10, <1>11, <4>1 DEF Sole
      <4>3. Unused(b)' BY <1>6, <1>8, <1>11, <4>1, <4>2 DEF Sole, Unused
      <4>4. ASSUME NEW u \in Threads \ {t}, victim[u] = b PROVE FALSE
        <5>1. Unused(b) BY <1>6, <4>1, <4>4 DEF Place, Own
        <5> QED BY <1>5, <5>1 DEF Unused
      <4> QED BY <1>4, <4>1, <4>3, <4>4
    <3>3. pc'[t] # "free" => victim'[t] = None BY <1>9
    <3> QED BY <1>4, <3>1, <3>2, <3>3 DEF Own
  <2> QED BY <1>1, <1>5, <1>9, <2>1, <2>2 DEF Place, Fits
<1> QED BY <1>4, <1>12, <1>13, <1>14, <1>15, <1>16, <1>17, Others

LEMMA FreeStep ==
    ASSUME StringRepAssumption, Inv, NEW t \in Threads, Free(t), Typed'
    PROVE  Inv'
<1> USE DEF Inv
<1>1. PICK c : c = Call(t) /\ c = Call(t)' BY SameCalls DEF Free
<1>2. PICK b : b = victim[t] OBVIOUS
<1>3. /\ pc[t] = "free" /\ pc'[t] = (IF c.op = "begin" THEN "unref" ELSE "end")
      /\ \A u \in Threads \ {t} : pc'[u] = pc[u] /\ victim'[u] = victim[u]
      /\ victim'[t] = None /\ live' = live \ {b}
      /\ UNCHANGED <<data, given, call, target>>
      BY <1>1, <1>2 DEF Free, At, Goto, Typed
<1>4. /\ b \in live /\ Unused(b) /\ \A u \in Threads \ {t} : victim[u] # b
      /\ target[t] = None
      BY <1>2, <1>3 DEF Place, Own
<1>5. \A d \in live : d \in Bodies /\ d # None /\ d # NullBody /\ refs[d] \in Int
      BY DEF Typed, StringRepAssumption
<1>6. \A d \in live' : d \in live /\ d # b /\ refs'[d] = refs[d] /\ content'[d] = content[d]
      BY <1>2, <1>3, <1>5 DEF Free, Typed
<1>7. \A u \in Threads : Due'[u] = Due[u] BY <1>3 DEF Due
<1>8. Frame(t)
  <2>1. \A u \in Threads \ {t} : pc[u] # "idle" => ~Uses(u, b)
        BY <1>2, <1>3, Apart
  <2>2. ASSUME NEW d \in live,
               (\E k \in Changed(t) : data'[k] = d) \/ Due'[t] = d \/ victim'[t] = d
        PROVE  Uses(t, d)
    <3>1. Due[t] = None BY <1>3 DEF Due
    <3> QED BY <1>3, <1>5, <1>7, <2>2, <3>1 DEF Uses
  <2>3. \A d \in live \ {b} : d \in live' /\ content'[d] = content[d] /\ refs'[d] = refs[d]
        BY <1>3, <1>6
  <2> QED BY <1>3, <2>1, <2>2, <2>3 DEF Frame
<1>9. Held' BY <1>3, <1>4 DEF Held, Unused
<1>10. Counted'
  <2> SUFFICES ASSUME NEW d \in live', ~Dying(d)'
               PROVE  \/ refs'[d] = -1 /\ \E h \in Handles : data[h] = d /\ Sole(h, d)'
                      \/ refs'[d] >= 0 /\ refs'[d] + 1 = Total(d)'
      BY <1>3 DEF Counted
  <2>1. ~Dying(d)
    <3>1. ASSUME NEW u \in Threads, pc[u] = "free", victim[u] = d PROVE FALSE
          BY <1>2, <1>3, <1>6, <3>1 DEF Dying
    <3> QED BY <3>1 DEF Dying
  <2>2. Total(d) \in Nat /\ Total(d)' = Total(d) + Part(t, d)' - Part(t, d)
        BY <1>1, <1>3, <1>5, <1>6, Tally
  <2>3. Part(t, d)' = Part(t, d) /\ Part(t, d) \in Int
        BY <1>1, <1>3, <1>5, <1>6 DEF Part, Bit, Mine
  <2>4. \A h \in Handles : Sole(h, d) => Sole(h, d)' BY <1>3, <1>7 DEF Sole
  <2> QED BY <1>6, <2>1, <2>2, <2>3, <2>4 DEF Counted
<1>11. Given'
  <2>1. ASSUME NEW h \in Handles, given[h] # None
        PROVE  refs'[given[h]] = refs[given[h]]
    <3>1. given[h] \in live /\ data[h] = given[h] BY <2>1, GivenSole
    <3>2. given[h] # b BY <1>4, <3>1 DEF Unused
    <3> QED BY <1>3, <1>6, <3>1, <3>2
  <2> QED BY <1>3, <2>1 DEF Given
<1>12. Exclusive' BY <1>3, ExclusiveKept
<1>13. Place(t)'
  <2>1. Strings(t, c)'
    <3>1. Strings(t, c) /\ Fits(t, c.op) BY <1>1 DEF Place
    <3>2. c.op \in {"assign", "set", "begin", "reserve", "dtor"} BY <1>3, <3>1 DEF Fits
    <3>3. Sole(c.h, data[c.h])' <=> Sole(c.h, data[c.h]) BY <1>3, <1>7 DEF Sole
    <3> QED BY <1>3, <3>1, <3>2, <3>3 DEF Strings
  <2>2. Own(t, c)' BY <1>3, <1>4 DEF Own
  <2> QED BY <1>1, <1>3, <2>1, <2>2 DEF Place, Fits
<1> QED BY <1>3, <1>8, <1>9, <1>10, <1>11, <1>12, <1>13, Others

LEMMA UnrefStep ==
    ASSUME StringRepAssumption, Inv, NEW t \in Threads, Unref(t), Typed'
    PROVE  Inv'
<1> USE DEF Inv
<1>1. PICK c : c = Call(t) /\ c = Call(t)' BY SameCalls DEF Unref
<1>2. PICK b : b = Mine(t) OBVIOUS
<1>3. /\ pc[t] = "unref" /\ pc'[t] = "end" /\ \A u \in Threads \ {t} : pc'[u] = pc[u]
      /\ UNCHANGED <<data, live, content, call, target, victim>>
      BY DEF Unref, At, Goto, Typed
<1>4. /\ c.op = "begin" /\ c.h \in Handles /\ c.h \in Changed(t)
      /\ b \in live \cup {NullBody} /\ b = data[c.h] /\ b # None
  <2>1. c.op = "begin" BY <1>1, <1>3 DEF Place, Fits
  <2> QED BY <1>1, <1>2, <1>3, <2>1, StringBodies DEF StringRepAssumption, Typed
<1>5. b \in live => Sole(c.h, b)
      BY <1>1, <1>3, <1>4 DEF Typed, Place, Strings
<1>6. \A d \in live : d \in Bodies /\ d # None /\ d # NullBody /\ refs[d] \in Int
      BY DEF Typed, StringRepAssumption
<1>7. \A d \in live : refs'[d] = IF d = b THEN -1 ELSE refs[d]
      BY <1>2, <1>6 DEF Unref, Typed
<1>8. \A h \in Handles : given'[h] = IF b \in live /\ h = c.h THEN b ELSE given[h]
  <2>1. b = NullBody => given' = given BY <1>2 DEF Unref
  <2>2. b # NullBody => given' = [given EXCEPT ![c.h] = b] BY <1>1, <1>2 DEF Unref
  <2> QED BY <1>4, <1>6, <2>1, <2>2 DEF Typed
<1>9. \A u \in Threads : Due'[u] = Due[u] BY <1>3 DEF Due
<1>10. Frame(t)
  <2>1. ASSUME NEW d \in live,
               (\E k \in Changed(t) : data'[k] = d) \/ Due'[t] = d \/ victim'[t] = d
        PROVE  Uses(t, d)
    <3>1. Due[t] = None BY <1>3 DEF Due
    <3> QED BY <1>3, <1>6, <1>9, <2>1, <3>1 DEF Uses
  <2>2. ASSUME NEW d \in live
        PROVE  \/ refs'[d] = refs[d]
               \/ \A u \in Threads \ {t} : pc[u] # "idle" => ~Uses(u, d)
    <3>1. CASE d = b
      <4>1. data[c.h] \in Bodies /\ Sole(c.h, data[c.h]) BY <1>4, <1>5, <1>6, <3>1
      <4> QED BY <1>3, <1>4, <3>1, <4>1, Apart
    <3>2. CASE d # b BY <1>7, <3>2
    <3> QED BY <3>1, <3>2
  <2> QED BY <1>3, <1>4, <1>8, <2>1, <2>2 DEF Frame
<1>11. Held' BY <1>3 DEF Held
<1>12. Counted'
  <2> SUFFICES ASSUME NEW d \in live, ~Dying(d)'
               PROVE  \/ refs'[d] = -1 /\ \E h \in Handles : data[h] = d /\ Sole(h, d)'
                      \/ refs'[d] >= 0 /\ refs'[d] + 1 = Total(d)'
      BY <1>3 DEF Counted
  <2>1. ~Dying(d) BY <1>3 DEF Dying
  <2>2. \A h \in Handles : Sole(h, d) => Sole(h, d)' BY <1>3, <1>9 DEF Sole
  <2>3. CASE d = b BY <1>4, <1>5, <1>7, <2>2, <2>3
  <2>4. CASE d # b
    <3>1. Total(d) \in Nat /\ Total(d)' = Total(d) + Part(t, d)' - Part(t, d)
          BY <1>3, <1>6, Tally
    <3>2. Part(t, d)' = Part(t, d) /\ Part(t, d) \in Int
          BY <1>1, <1>3, <1>6 DEF Part, Bit, Mine
    <3> QED BY <1>7, <2>1, <2>2, <2>4, <3>1, <3>2 DEF Counted
  <2> QED BY <2>3, <2>4
<1>13. Given'
  <2>1. ASSUME NEW h \in Handles, given'[h] # None
        PROVE  data[h] = given'[h] /\ refs'[data[h]] = -1
    <3>1. CASE h = c.h /\ b \in live BY <1>4, <1>7, <1>8, <3>1
    <3>2. CASE ~(h = c.h /\ b \in live)
      <4>1. given'[h] = given[h] BY <1>8, <3>2
      <4>2. given[h] \in live /\ data[h] = given[h] /\ refs[given[h]] = -1
            BY <2>1, <4>1, GivenSole
      <4> QED BY <1>7, <4>1, <4>2
    <3> QED BY <3>1, <3>2
  <2> QED BY <1>3, <2>1 DEF Given
<1>14. Exclusive' BY <1>3, ExclusiveKept
<1>15. Place(t)'
       BY <1>1, <1>3, <1>4 DEF Place, Fits, Strings, Own
<1> QED BY <1>3, <1>10, <1>11, <1>12, <1>13, <1>14, <1>15, Others

LEMMA EndStep ==
    ASSUME StringRepAssumption, Inv, NEW t \in Threads, End(t), Typed'
    PROVE  Inv'
<1> USE DEF Inv
<1>1. /\ pc[t] = "end" /\ pc'[t] = "idle"
      /\ \A u \in Threads \ {t} : pc'[u] = pc[u] /\ call'[u] = call[u]
      /\ UNCHANGED <<data, live, refs, content, given, target, victim>>
      BY DEF End, At, Goto, Typed, bodyVars
<1>2. \A u \in Threads \ {t} : Call(u)' = Call(u) BY <1>1 DEF Call
<1>3. Owned' = Owned /\ Due' = Due /\ \A d : Dying(d)' <=> Dying(d)
  <2>1. ASSUME NEW k \in Handles PROVE Pending(k)' <=> Pending(k) BY <1>1, <1>2 DEF Pending
  <2> QED BY <1>1, <2>1 DEF Owned, Due, Dying
<1>4. Held' /\ Given' BY <1>1 DEF Held, Given
<1>5. Counted'
  <2>1. \A h \in Handles, d \in live : Sole(h, d)' <=> Sole(h, d) BY <1>1, <1>3 DEF Sole
  <2>2. \A d \in live : Total(d)' = Total(d) BY <1>3 DEF Total
  <2> QED BY <1>1, <1>3, <2>1, <2>2 DEF Counted
<1>6. Exclusive' BY <1>1, ExclusiveKept
<1>7. Place(t)' BY <1>1 DEF Place, Fits, Strings, Own
<1>8. ASSUME NEW u \in Threads \ {t} PROVE Place(u)'
  <2>1. PICK c : c = Call(u) /\ c = Call(u)' BY <1>2
  <2>2. Place(u) BY DEF Inv
  <2>3. NewContent(u)' = NewContent(u)
        BY <1>1, <2>1 DEF NewContent, Content, Mine, Other
  <2>4. /\ Sole(c.h, data[c.h])' <=> Sole(c.h, data[c.h])
        /\ Fresh(u, target[u])' <=> Fresh(u, target[u])
        /\ Unused(victim[u])' <=> Unused(victim[u])
        /\ Content(target[u])' = Content(target[u])
        BY <1>1, <1>3 DEF Sole, Fresh, Unused, Content
  <2>5. Strings(u, c)' BY <1>1, <2>1, <2>2, <2>3, <2>4 DEF Place, Strings
  <2>6. Own(u, c)' BY <1>1, <2>1, <2>2, <2>3, <2>4 DEF Place, Own
  <2> QED BY <1>1, <2>1, <2>2, <2>5, <2>6 DEF Place, Fits
<1> QED BY <1>4, <1>5, <1>6, <1>7, <1>8

LEMMA SwapStep ==
    ASSUME StringRepAssumption, Inv, NEW t \in Threads, Swap(t), Typed'
    PROVE  Inv'
<1> USE DEF Inv
<1>1. PICK c : c = Call(t) /\ c = Call(t)' BY SameCalls DEF Swap
<1>2. PICK h, g : h = c.h /\ g = c.g OBVIOUS
<1>3. /\ pc[t] = "swap" /\ pc'[t] = "end" /\ \A u \in Threads \ {t} : pc'[u] = pc[u]
      /\ UNCHANGED <<live, refs, content, given, call, target, victim>>
      BY DEF Swap, At, Goto, Typed, bodyVars
<1>4. /\ h \in Handles /\ g \in Handles /\ c.op = "swap"
      /\ V!Changed(c) = {h, g} /\ Changed(t) = {h, g}
      /\ given[h] = None /\ given[g] = None
  <2>1. c.op = "swap" /\ Strings(t, c) BY <1>1, <1>3 DEF Place, Fits
  <2>2. V!Changed(c) = {h, g} /\ Changed(t) = {h, g} BY <1>1, <1>2, <2>1 DEF Changed, V!Changed
  <2>3. h \in Handles /\ g \in Handles BY <1>1, <1>2, <1>3, CallIs
  <2> QED BY <1>3, <2>1, <2>2, <2>3 DEF Strings
<1> DEFINE pi(k) == IF k = h THEN g ELSE IF k = g THEN h ELSE k
<1>5. \A k \in Handles : pi(k) \in Handles /\ pi(pi(k)) = k BY <1>4
<1>6. \A k \in Handles : data'[k] = data[pi(k)]
  <2>1. data' = [data EXCEPT ![h] = data[g], ![g] = data[h]]
        BY <1>1, <1>2 DEF Swap, Mine, Other
  <2> QED BY <1>4, <2>1 DEF Typed
<1>7. \A u \in Threads : Due'[u] = Due[u] BY <1>3 DEF Due
<1>8. Frame(t)
  <2>1. ASSUME NEW d \in live,
               (\E k \in Changed(t) : data'[k] = d) \/ Due'[t] = d \/ victim'[t] = d
        PROVE  Uses(t, d)
    <3>1. Due[t] = None /\ d # None BY <1>3 DEF Due, Typed, StringRepAssumption
    <3> QED BY <1>3, <1>4, <1>6, <1>7, <2>1, <3>1 DEF Uses
  <2>2. \A k \in Handles \ Changed(t) : data'[k] = data[k] BY <1>4, <1>6
  <2> QED BY <1>3, <2>1, <2>2 DEF Frame
<1>9. Held' BY <1>3, <1>5, <1>6 DEF Held
<1>10. \A d : \A k \in Handles : Sole(k, d) => Sole(pi(k), d)'
  <2> SUFFICES ASSUME NEW k \in Handles, NEW d, Sole(k, d),
                      NEW j \in Handles, data'[j] = d
               PROVE  j = pi(k)
      BY <1>7 DEF Sole
  <2>1. pi(j) = k BY <1>5, <1>6 DEF Sole
  <2> QED BY <1>5, <2>1
<1>11. \A d : Total(d)' = Total(d)
  <2>1. \A k \in Handles : Pending(k)' <=> Pending(k)
    <3>1. \A u \in Threads : Call(u)' = Call(u) BY <1>3, SameCalls
    <3> QED BY <1>3, <3>1 DEF Pending
  <2>2. ~Pending(h) /\ ~Pending(g) BY <1>3, <1>4, OwnedIs
  <2>3. \A k \in Handles : Owned'[k] = Owned[pi(k)]
        BY <1>4, <1>5, <1>6, <2>1, <2>2 DEF Owned
  <2> DEFINE own == Owned
             mid == [Owned EXCEPT ![h] = Owned[g]]
  <2>4. /\ DOMAIN own = Handles /\ DOMAIN mid = Handles /\ DOMAIN own' = Handles
        /\ \A k \in Handles \ {h} : mid[k] = own[k]
        /\ \A k \in Handles \ {g} : own'[k] = mid[k]
        /\ mid[h] = own[g] /\ mid[g] = own[g] /\ own'[g] = own[h]
    <3>1. DOMAIN Owned = Handles /\ DOMAIN Owned' = Handles BY DEF Owned
    <3> QED BY <1>4, <2>3, <3>1
  <2>5. Due' = Due BY <1>7 DEF Due
  <2>6. IsFiniteSet(Handles) BY DEF StringRepAssumption
  <2> HIDE DEF own, mid, pi
  <2> SUFFICES ASSUME NEW d PROVE Cardinality(Fiber(own', d)) = Cardinality(Fiber(own, d))
      BY <2>5 DEF Total, own
  <2>7. /\ Cardinality(Fiber(own, d)) \in Nat /\ Cardinality(Fiber(mid, d)) \in Nat
        /\ Cardinality(Fiber(mid, d)) = Cardinality(Fiber(own, d))
               + (IF mid[h] = d THEN 1 ELSE 0) - (IF own[h] = d THEN 1 ELSE 0)
        BY <1>4, <2>4, <2>6, FiberStep
  <2>8. Cardinality(Fiber(own', d)) = Cardinality(Fiber(mid, d))
               + (IF own'[g] = d THEN 1 ELSE 0) - (IF mid[g] = d THEN 1 ELSE 0)
        BY <1>4, <2>4, <2>6, FiberStep
  <2> QED BY <2>4, <2>7, <2>8
<1>12. Counted'
  <2> SUFFICES ASSUME NEW d \in live, ~Dying(d)'
               PROVE  \/ refs[d] = -1 /\ \E k \in Handles : data'[k] = d /\ Sole(k, d)'
                      \/ refs[d] >= 0 /\ refs[d] + 1 = Total(d)'
      BY <1>3 DEF Counted
  <2>1. ~Dying(d) BY <1>3 DEF Dying
  <2>2. ASSUME NEW k \in Handles, data[k] = d, Sole(k, d)
        PROVE  pi(k) \in Handles /\ data'[pi(k)] = d /\ Sole(pi(k), d)'
        BY <1>5, <1>6, <1>10, <2>2
  <2> HIDE DEF pi
  <2> QED BY <1>11, <2>1, <2>2 DEF Counted
<1>13. Given' BY <1>3, <1>4, <1>6 DEF Given
<1>14. Exclusive' BY <1>3, ExclusiveKept
<1>15. Place(t)'
  <2>1. target[t] = None /\ victim[t] = None BY <1>1, <1>3 DEF Place, Own
  <2> QED BY <1>1, <1>3, <1>4, <2>1 DEF Place, Fits, Strings, Own
<1> QED BY <1>3, <1>8, <1>9, <1>12, <1>13, <1>14, <1>15, Others

LEMMA StartStep ==
    ASSUME StringRepAssumption, Inv, NEW t \in Threads, NEW c \in Arguments, Start(t, c)
    PROVE  Inv'
<1> USE DEF Inv
<1>1. /\ pc[t] = "idle" /\ call'[t] = {c} /\ \A u \in Threads \ {t} : call'[u] = call[u] /\ pc'[u] = pc[u]
      /\ UNCHANGED <<data, live, refs, content, target, victim>>
      BY DEF Start, At, Goto, Typed, bodyVars
<1>2. Typed' BY TypedStart
<1>3. c.h \in Handles /\ c.g \in Handles /\ c.op \in V!Ops BY DEF Arguments, Calls
<1>4. Call(t)' = c /\ \A u \in Threads \ {t} : Call(u)' = Call(u)
  <2>1. Call(t)' = c BY <1>1 DEF Call
  <2> QED BY <1>1, <2>1 DEF Call
<1>5. pc'[t] = CASE c.op \in {"copy", "assign", "begin", "reserve"} -> "test"
                 [] c.op = "set" -> "settest"
                 [] c.op = "new" -> "alloc"
                 [] c.op = "dtor" -> "unlink"
                 [] OTHER -> c.op
      BY DEF Start, Goto, Typed
<1>6. /\ pc'[t] \in {"test", "settest", "alloc", "unlink", "swap", "write"}
      /\ pc'[t] = "test" => c.op \in {"copy", "assign", "begin", "reserve"}
      /\ pc'[t] = "settest" => c.op = "set"
      /\ pc'[t] = "alloc" => c.op = "new"
      /\ pc'[t] = "unlink" => c.op = "dtor"
      /\ pc'[t] = "swap" => c.op = "swap"
      /\ pc'[t] = "write" => c.op = "write"
      BY <1>3, <1>5 DEF V!Ops
<1>7. /\ c.op \in {"new", "copy"} <=> data[c.h] = None
      /\ c.op \in {"copy", "assign", "swap"} => data[c.g] # None
      /\ c.op = "write" => given[c.h] # None
      BY DEF Start
<1>8. target[t] = None /\ victim[t] = None BY <1>1 DEF Place, Own
<1>9. \A u \in Threads \ {t} : pc[u] # "idle" =>
         /\ V!Changed(c) \cap (Changed(u) \cup ReadOnly(u)) = {}
         /\ Changed(u) \cap (V!Changed(c) \cup V!ReadOnly(c)) = {}
  <2> SUFFICES ASSUME NEW u \in Threads \ {t}, pc[u] # "idle"
               PROVE  /\ V!Changed(c) \cap (Changed(u) \cup ReadOnly(u)) = {}
                      /\ Changed(u) \cap (V!Changed(c) \cup V!ReadOnly(c)) = {}
      OBVIOUS
  <2>1. Call(u) \in call[u] BY CallIs
  <2>2. /\ V!Changed(c) \cap (V!Changed(Call(u)) \cup V!ReadOnly(Call(u))) = {}
        /\ V!Changed(Call(u)) \cap V!ReadOnly(c) = {}
        BY <2>1 DEF Start
  <2> QED BY <2>2 DEF Changed, ReadOnly
<1>10. \A h \in Handles : given'[h] = IF h \in V!Changed(c) /\ c.op \notin {"begin", "write"}
                                      THEN None ELSE given[h]
       BY DEF Start
<1>11. Due' = Due /\ Owned' = Owned /\ \A d : Dying(d)' <=> Dying(d)
  <2>1. Due' = Due
    <3>1. \A u \in Threads : (IF pc'[u] = "unlink" THEN target'[u] ELSE None)
                                = (IF pc[u] = "unlink" THEN target[u] ELSE None)
          BY <1>1, <1>8
    <3> QED BY <3>1 DEF Due
  <2>2. \A k \in Handles : Pending(k)' <=> Pending(k)
        BY <1>1, <1>4, <1>6 DEF Pending
  <2>3. Owned' = Owned BY <1>1, <2>2 DEF Owned
  <2>4. \A d : Dying(d)' <=> Dying(d) BY <1>1, <1>6 DEF Dying
  <2> QED BY <2>1, <2>3, <2>4
<1>12. Held' BY <1>1 DEF Held
<1>13. Counted'
  <2>1. \A h \in Handles, d \in live : Sole(h, d)' <=> Sole(h, d) BY <1>1, <1>11 DEF Sole
  <2>2. \A d \in live : Total(d)' = Total(d) BY <1>11 DEF Total
  <2> QED BY <1>1, <1>11, <2>1, <2>2 DEF Counted
<1>14. Given' BY <1>1, <1>10 DEF Given
<1>15. Exclusive'
  <2> SUFFICES ASSUME NEW u \in Threads, NEW v \in Threads, u # v, pc'[u] # "idle", pc'[v] # "idle"
               PROVE  Changed(u)' \cap (Changed(v)' \cup ReadOnly(v)') = {}
      BY DEF Exclusive
  <2>1. Changed(t)' = V!Changed(c) /\ ReadOnly(t)' = V!ReadOnly(c)
        BY <1>4 DEF Changed, ReadOnly, V!Changed, V!ReadOnly
  <2>2. \A w \in Threads \ {t} : Changed(w)' = Changed(w) /\ ReadOnly(w)' = ReadOnly(w)
        BY <1>4 DEF Changed, ReadOnly, V!Changed, V!ReadOnly
  <2>3. CASE u = t BY <1>1, <1>9, <2>1, <2>2, <2>3
  <2>4. CASE v = t BY <1>1, <1>9, <2>1, <2>2, <2>4
  <2>5. CASE u # t /\ v # t BY <1>1, <2>2, <2>5 DEF Exclusive
  <2> QED BY <2>3, <2>4, <2>5
<1>16. Place(t)'
  <2>1. Strings(t, c)'
    <3>1. c.op \notin {"begin", "write"} => \A k \in V!Changed(c) : given'[k] = None
      <4>1. V!Changed(c) \subseteq Handles BY <1>3 DEF V!Changed
      <4> QED BY <1>10, <4>1
    <3>2. c.op = "write" => given'[c.h] # None BY <1>3, <1>7, <1>10
    <3> QED BY <1>1, <1>6, <1>7, <3>1, <3>2 DEF Strings
  <2>2. Own(t, c)' BY <1>1, <1>6, <1>8 DEF Own
  <2> QED BY <1>4, <1>6, <2>1, <2>2 DEF Place, Fits
<1>17. ASSUME NEW u \in Threads \ {t} PROVE Place(u)'
  <2>1. PICK d : d = Call(u) /\ d = Call(u)' BY <1>4
  <2>2. Place(u) BY DEF Inv
  <2>3. NewContent(u)' = NewContent(u)
        BY <1>1, <2>1 DEF NewContent, Content, Mine, Other
  <2>4. /\ Sole(d.h, data[d.h])' <=> Sole(d.h, data[d.h])
        /\ Fresh(u, target[u])' <=> Fresh(u, target[u])
        /\ Unused(victim[u])' <=> Unused(victim[u])
        /\ Content(target[u])' = Content(target[u])
        BY <1>1, <1>11 DEF Sole, Fresh, Unused, Content
  <2>5. pc[u] # "idle" => /\ \A k \in V!Changed(d) : given'[k] = given[k]
                          /\ given'[d.h] = given[d.h]
    <3>1. pc[u] # "idle" => /\ V!Changed(d) \subseteq Handles /\ d.h \in V!Changed(d)
                            /\ V!Changed(d) \cap V!Changed(c) = {}
          BY <1>9, <2>1, CallIs DEF Changed
    <3> QED BY <1>10, <3>1
  <2>6. Strings(u, d)' BY <1>1, <2>1, <2>2, <2>3, <2>4, <2>5 DEF Place, Strings
  <2>7. Own(u, d)' BY <1>1, <2>1, <2>2, <2>3, <2>4 DEF Place, Own
  <2> QED BY <1>1, <2>1, <2>2, <2>6, <2>7 DEF Place, Fits
<1> QED BY <1>2, <1>12, <1>13, <1>14, <1>15, <1>16, <1>17

-----------------------------------------------------------------------------
\* What the invariant says.

LEMMA InvType ==
    ASSUME Inv
    PROVE  TypeOK
<1>1. ASSUME NEW t \in Threads
      PROVE  call[t] \subseteq Calls /\ Cardinality(call[t]) = IF At(t, "idle") THEN 0 ELSE 1
  <2>1. CASE pc[t] = "idle"
    <3>1. call[t] = {} BY <2>1 DEF Inv, Typed
    <3> QED BY <2>1, <3>1, FS_EmptySet DEF At
  <2>2. CASE pc[t] # "idle"
    <3>1. PICK c \in Calls : call[t] = {c} BY <2>2 DEF Inv, Typed
    <3> QED BY <2>2, <3>1, FS_Singleton DEF At
  <2> QED BY <2>1, <2>2
<1> QED BY <1>1 DEF Inv, Typed, TypeOK

\* Each string that is pending is so by one call, and so the strings in a body
\* are its owners and as many as the calls that are still to count.
LEMMA PendingCount ==
    ASSUME StringRepAssumption, Inv, NEW b \in Bodies
    PROVE  /\ IsFiniteSet(Holders(b)) /\ IsFiniteSet(Uncounted(b))
           /\ Cardinality(Uncounted(b)) \in Nat
           /\ Cardinality(Holders(b)) = Cardinality(Fiber(Owned, b)) + Cardinality(Uncounted(b))
<1> DEFINE pend == {h \in Handles : data[h] = b /\ Pending(h)}
           by == [t \in Uncounted(b) |-> Call(t).h]
<1>0. None # b BY DEF StringRepAssumption
<1>1. IsFiniteSet(Holders(b)) /\ IsFiniteSet(pend) /\ IsFiniteSet(Uncounted(b))
  <2>1. /\ Holders(b) \in SUBSET Handles /\ pend \in SUBSET Handles
        /\ Uncounted(b) \in SUBSET Threads
        BY DEF Holders, Uncounted
  <2> HIDE DEF pend
  <2> QED BY <2>1, FS_Subset DEF StringRepAssumption
<1>2. by \in Bijection(Uncounted(b), pend)
  <2>1. ASSUME NEW t \in Uncounted(b) PROVE by[t] \in pend
    <3>1. t \in Threads /\ pc[t] = "inc" /\ Call(t).op = "copy" /\ data[Call(t).h] = b
          BY DEF Uncounted, At, Mine
    <3>2. Call(t).h \in Handles BY <3>1, CallIs DEF Inv
    <3> QED BY <3>1, <3>2 DEF Pending
  <2>2. ASSUME NEW t \in Uncounted(b), NEW u \in Uncounted(b), by[t] = by[u] PROVE t = u
    <3>1. t \in Threads /\ u \in Threads /\ pc[t] # "idle" /\ pc[u] # "idle" /\ Call(t).h = Call(u).h
          BY <2>2 DEF Uncounted, At
    <3>2. Call(t).h \in Changed(t) /\ Call(u).h \in Changed(u) BY <3>1, CallIs DEF Inv
    <3> QED BY <3>1, <3>2 DEF Inv, Exclusive
  <2>3. ASSUME NEW h \in pend PROVE \E t \in Uncounted(b) : by[t] = h
    <3>1. PICK t \in Threads : pc[t] = "inc" /\ Call(t).op = "copy" /\ Call(t).h = h
          BY DEF Pending
    <3>2. t \in Uncounted(b) BY <3>1 DEF Uncounted, At, Mine
    <3> QED BY <3>1, <3>2
  <2>4. by \in [Uncounted(b) -> pend] BY <2>1
  <2> HIDE DEF by, pend
  <2> QED BY <2>2, <2>3, <2>4 DEF Bijection, Injection, Surjection, IsInjective
<1>3. Cardinality(pend) = Cardinality(Uncounted(b))
  <2> HIDE DEF by, pend
  <2> QED BY <1>1, <1>2, FS_Bijection DEF ExistsBijection
<1>4. Holders(b) = Fiber(Owned, b) \cup pend /\ Fiber(Owned, b) \cap pend = {}
      BY <1>0 DEF Holders, Fiber, Owned
<1>5. Cardinality(Holders(b)) = Cardinality(Fiber(Owned, b)) + Cardinality(pend)
  <2>1. IsFiniteSet(Fiber(Owned, b)) BY Finite
  <2>2. Cardinality(Fiber(Owned, b)) \in Nat BY Finite
  <2>3. IsFiniteSet(pend) BY <1>1
  <2>4. Cardinality(pend) \in Nat BY <1>1, FS_CardinalityType
  <2>5. Cardinality(Fiber(Owned, b) \cap pend) = 0 BY <1>4, FS_EmptySet
  <2> HIDE DEF pend
  <2>6. Cardinality(Fiber(Owned, b) \cup pend)
            = Cardinality(Fiber(Owned, b)) + Cardinality(pend) - Cardinality(Fiber(Owned, b) \cap pend)
        BY <2>1, <2>3, FS_Union
  <2> QED BY <1>4, <2>2, <2>4, <2>5, <2>6
<1> HIDE DEF pend, by
<1> QED BY <1>1, <1>3, <1>5, FS_CardinalityType

LEMMA InvCountExact ==
    ASSUME StringRepAssumption, Inv
    PROVE  CountExact
<1> SUFFICES ASSUME NEW b \in live, NEW k \in Handles, data[k] = b
             PROVE  \/ refs[b] = -1 /\ Cardinality(Holders(b)) = 1
                    \/ refs[b] + 1 = Cardinality(Holders(b)) + Cardinality(Counting(b))
                                         - Cardinality(Uncounted(b))
    BY DEF CountExact, Holders
<1>1. b \in Bodies /\ None # b BY DEF Inv, Typed, StringRepAssumption
<1>2. ~Dying(b) BY NotDying DEF Unused
<1>3. CASE refs[b] = -1 /\ \E h \in Handles : data[h] = b /\ Sole(h, b)
  <2>1. PICK h \in Handles : data[h] = b /\ Sole(h, b) BY <1>3
  <2>2. Holders(b) = {h} BY <2>1 DEF Holders, Sole
  <2> QED BY <1>3, <2>2, FS_Singleton
<1>4. CASE refs[b] >= 0 /\ refs[b] + 1 = Total(b)
  <2>1. Counting(b) = Fiber(Due, b) BY <1>1 DEF Counting, Fiber, Due, At
  <2> QED BY <1>1, <1>4, <2>1, PendingCount, Finite DEF Total
<1> QED BY <1>2, <1>3, <1>4 DEF Inv, Counted

LEMMA InvNoDangling ==
    ASSUME Inv
    PROVE  NoDangling
BY DEF Inv, Held, Place, Own, NoDangling, At

LEMMA InvNoLeak ==
    ASSUME StringRepAssumption, Inv
    PROVE  NoLeak
<1> SUFFICES ASSUME NEW b \in live, ~Dying(b), Holders(b) = {}, Counting(b) = {}
             PROVE  FALSE
    BY DEF NoLeak, Dying, At
<1>1. b \in Bodies /\ None # b /\ refs[b] \in Int BY DEF Inv, Typed, StringRepAssumption
<1>2. Unused(b) BY <1>1 DEF Holders, Counting, At, Unused, Due
<1>3. Total(b) = 0 BY <1>1, <1>2, NoOwner
<1> QED BY <1>1, <1>2, <1>3 DEF Inv, Counted, Unused

LEMMA InvGivenHeld ==
    ASSUME StringRepAssumption, Inv
    PROVE  GivenHeld
BY GivenSole DEF GivenHeld, Holders, Sole

LEMMA InvNoRace ==
    ASSUME StringRepAssumption, Inv
    PROVE  NoRace
<1> SUFFICES ASSUME NEW t \in Threads, NEW u \in Threads, t # u,
                    NEW d \in Bodies, d \in Plain(t), d \in Touched(u)
             PROVE  FALSE
    BY DEF NoRace
<1>1. ASSUME NEW v \in Threads, d \in Plain(v)
      PROVE  /\ pc[v] \in {"unref", "inplace", "write", "free"}
             /\ pc[v] # "free" => d = data[Call(v).h] /\ Sole(Call(v).h, d)
             /\ pc[v] = "free" => d = victim[v]
             /\ Call(v).h \in Changed(v)
  <2>1. pc[v] \in {"unref", "inplace", "write", "free"} BY <1>1 DEF Plain, At
  <2>2. Call(v).h \in Changed(v) /\ Call(v).h \in Handles BY <2>1, CallIs DEF Inv
  <2>3. Strings(v, Call(v)) BY DEF Inv, Place
  <2>4. CASE pc[v] \in {"unref", "inplace"}
    <3>1. d = data[Call(v).h]
      <4>1. Plain(v) = {Mine(v)} BY <2>4 DEF Plain, At
      <4> QED BY <1>1, <4>1 DEF Mine
    <3> QED BY <2>2, <2>3, <2>4, <3>1 DEF Strings
  <2>5. CASE pc[v] = "write"
    <3>1. d = given[Call(v).h] BY <1>1, <2>5 DEF Plain, At
    <3>2. d # None BY DEF StringRepAssumption
    <3> QED BY <2>2, <2>5, <3>1, <3>2, GivenSole
  <2>6. CASE pc[v] = "free" BY <1>1, <2>2, <2>6 DEF Plain, At
  <2> QED BY <2>1, <2>4, <2>5, <2>6
<1>2. pc[u] # "idle" BY DEF Touched
<1>3. Uses(u, d)
  <2>1. CASE d \in Plain(u) BY <1>1, <2>1 DEF Uses
  <2>2. CASE d \in {Mine(u), target[u]}
    <3>1. Call(u).h \in Changed(u) BY <1>2, CallIs DEF Inv
    <3> QED BY <2>2, <3>1 DEF Uses, Mine
  <2>3. CASE Call(u).op \in {"copy", "assign"} /\ d = Other(u)
    <3>1. Call(u).g \in ReadOnly(u) BY <2>3 DEF ReadOnly, V!ReadOnly
    <3> QED BY <2>3, <3>1 DEF Uses, Other
  <2> QED BY <2>1, <2>2, <2>3 DEF Touched
<1>4. ~Uses(u, d)
  <2>1. CASE pc[t] = "free" BY <1>1, <1>2, <2>1, Apart
  <2>2. CASE pc[t] # "free" BY <1>1, <1>2, <2>2, Apart
  <2> QED BY <2>1, <2>2
<1> QED BY <1>3, <1>4

-----------------------------------------------------------------------------
LEMMA InvInit == StringRepAssumption /\ Init => Inv
<1> SUFFICES ASSUME StringRepAssumption, Init PROVE Inv
    OBVIOUS
<1> USE DEF Init
<1>1. Typed BY DEF Typed, Labels, StringRepAssumption
<1>2. Held /\ Counted /\ Given /\ Exclusive BY DEF Held, Counted, Given, Exclusive
<1>3. \A t \in Threads : Place(t) BY DEF Place, Fits, Strings, Own
<1> QED BY <1>1, <1>2, <1>3 DEF Inv

LEMMA InvStep == StringRepAssumption /\ Inv /\ [Next]_vars => Inv'
<1> SUFFICES ASSUME StringRepAssumption, Inv, [Next]_vars PROVE Inv'
    OBVIOUS
<1>1. ASSUME NEW t \in Threads, NEW c \in Arguments, Start(t, c) PROVE Inv'
      BY <1>1, StartStep
<1>2. ASSUME NEW t \in Threads, Step(t) PROVE Inv'
  <2>1. Typed' BY <1>2, TypedStep
  <2>2. CASE TestCopy(t)
        BY <2>1, <2>2, TestCopyShareStep, TestCopyAllocStep
  <2>3. CASE TestAssign(t) BY <2>1, <2>3, TestAssignStep
  <2>4. CASE TestBegin(t) BY <2>1, <2>4, TestBeginStep
  <2>5. CASE TestReserve(t) BY <2>1, <2>5, TestReserveStep
  <2>6. CASE TestSet(t) BY <2>1, <2>6, TestSetStep
  <2>7. CASE InPlace(t) BY <2>1, <2>7, InPlaceStep
  <2>8. CASE Inc(t) BY <2>1, <2>8, IncStep
  <2>9. CASE Alloc(t) BY <2>1, <2>9, AllocStep
  <2>10. CASE AllocThrow(t) BY <2>1, <2>10, AllocThrowStep
  <2>11. CASE Unlink(t) BY <2>1, <2>11, UnlinkStep
  <2>12. CASE Free(t) BY <2>1, <2>12, FreeStep
  <2>13. CASE Unref(t) BY <2>1, <2>13, UnrefStep
  <2>14. CASE Swap(t) BY <2>1, <2>14, SwapStep
  <2>15. CASE Write(t) BY <2>1, <2>15, WriteStep
  <2>16. CASE End(t) BY <2>1, <2>16, EndStep
  <2> QED BY <1>2, <2>2, <2>3, <2>4, <2>5, <2>6, <2>7, <2>8, <2>9, <2>10, <2>11, <2>12, <2>13,
             <2>14, <2>15, <2>16 DEF Step
<1>3. CASE UNCHANGED vars
  <2>1. /\ \A t \in Threads : Call(t)' = Call(t)
        /\ UNCHANGED <<data, live, refs, content, given, pc, call, target, victim>>
        BY <1>3, SameCalls DEF vars, bodyVars
  <2>2. Owned' = Owned /\ Due' = Due /\ \A d : Dying(d)' <=> Dying(d)
        BY <2>1 DEF Owned, Pending, Due, Dying
  <2>3. Typed' /\ Held' /\ Given' BY <2>1 DEF Inv, Typed, Held, Given
  <2>4. Counted'
    <3>1. \A h \in Handles, d \in live : Sole(h, d)' <=> Sole(h, d) BY <2>1, <2>2 DEF Sole
    <3>2. \A d \in live : Total(d)' = Total(d) BY <2>2 DEF Total
    <3> QED BY <2>1, <2>2, <3>1, <3>2 DEF Inv, Counted
  <2>5. Exclusive' BY <2>1, ExclusiveKept DEF Inv
  <2>6. ASSUME NEW u \in Threads PROVE Place(u)'
    <3>1. PICK c : c = Call(u) /\ c = Call(u)' BY <2>1
    <3>2. Place(u) BY DEF Inv
    <3>3. NewContent(u)' = NewContent(u)
          BY <2>1, <3>1 DEF NewContent, Content, Mine, Other
    <3>4. /\ Sole(c.h, data[c.h])' <=> Sole(c.h, data[c.h])
          /\ Fresh(u, target[u])' <=> Fresh(u, target[u])
          /\ Unused(victim[u])' <=> Unused(victim[u])
          /\ Content(target[u])' = Content(target[u])
          BY <2>1, <2>2 DEF Sole, Fresh, Unused, Content
    <3>5. Strings(u, c)' BY <2>1, <3>1, <3>2, <3>3, <3>4 DEF Place, Strings
    <3>6. Own(u, c)' BY <2>1, <3>1, <3>2, <3>3, <3>4 DEF Place, Own
    <3> QED BY <2>1, <3>1, <3>2, <3>5, <3>6 DEF Place, Fits
  <2> QED BY <2>3, <2>4, <2>5, <2>6 DEF Inv
<1> QED BY <1>1, <1>2, <1>3 DEF Next

LEMMA InvImplies == StringRepAssumption /\ Inv => BodiesRight
BY InvType, InvCountExact, InvNoDangling, InvNoLeak, InvGivenHeld, InvNoRace DEF BodiesRight

(* Whatever any number of threads do with strings that share bodies, a body's *)
(* count is that of its strings, it lives as long as one has it and no longer, *)
(* references into it stay good, and nobody writes to it while another touches *)
(* it (string:788-819, 852-867; _strref.h:155-198).                          *)
THEOREM BodiesRightAlways == Spec => []BodiesRight
<1>1. Init => Inv BY StringRepAssumption, InvInit
<1>2. Inv /\ [Next]_vars => Inv' BY StringRepAssumption, InvStep
<1>3. Inv => BodiesRight BY StringRepAssumption, InvImplies
<1> QED BY <1>1, <1>2, <1>3, PTL DEF Spec

-----------------------------------------------------------------------------
\* Strings are values.

Moved(c, d) == [op |-> c.op, h |-> c.h, g |-> c.g, v |-> c.v, done |-> d]

LEMMA MovedOn ==
    ASSUME NEW c, NEW d, NEW e
    PROVE  [Moved(c, d) EXCEPT !.done = e] = Moved(c, e)
<1>1. PICK o, h, g, v : o = c.op /\ h = c.h /\ g = c.g /\ v = c.v OBVIOUS
<1>2. \A x : Moved(c, x) = [op |-> o, h |-> h, g |-> g, v |-> v, done |-> x]
      BY <1>1 DEF Moved
<1>3. [[op |-> o, h |-> h, g |-> g, v |-> v, done |-> d] EXCEPT !.done = e]
          = [op |-> o, h |-> h, g |-> g, v |-> v, done |-> e]
      BY SMT
<1> QED BY <1>2, <1>3

LEMMA ProgressIs ==
    ASSUME Typed, NEW t \in Threads
    PROVE  /\ pc[t] = "idle" => Progress[t] = {}
           /\ pc[t] # "idle" => Progress[t] = {Moved(Call(t), Done(t, Call(t)))}
<1>1. CASE pc[t] = "idle" BY <1>1 DEF Typed, Progress
<1>2. CASE pc[t] # "idle"
  <2>1. call[t] = {Call(t)} BY <1>2, CallIs
  <2> QED BY <1>2, <2>1 DEF Progress, Moved
<1> QED BY <1>1, <1>2

LEMMA ValueIs ==
    ASSUME StringRepAssumption, Inv, NEW h \in Handles
    PROVE  /\ Value[h] = IF data[h] = None THEN None ELSE Content(data[h])
           /\ data[h] = None <=> Value[h] = None
<1>1. data[h] # None => Content(data[h]) \in Vals
  <2>1. data[h] # None => data[h] = NullBody \/ data[h] \in Bodies BY DEF Inv, Typed
  <2> QED BY <2>1 DEF Inv, Typed, Content, StringRepAssumption
<1> QED BY <1>1 DEF Value, Content, StringRepAssumption

\* A step of t's call moves no other call on.
LEMMA ProgressStep ==
    ASSUME Typed, Typed', NEW t \in Threads, call' = call, pc[t] # "idle", pc'[t] # "idle",
           \A u \in Threads \ {t} : pc'[u] = pc[u]
    PROVE  Progress' = [Progress EXCEPT ![t] = {Moved(Call(t), Done(t, Call(t))')}]
<1>1. \A u \in Threads : Call(u)' = Call(u) BY SameCalls
<1>2. \A u \in Threads \ {t} : Progress'[u] = Progress[u] BY DEF Progress, Done
<1>3. Progress'[t] = {Moved(Call(t), Done(t, Call(t))')}
  <2>1. call'[t] = {Call(t)} BY CallIs
  <2> QED BY <1>1, <2>1 DEF Progress, Moved, Done
<1> QED BY <1>2, <1>3 DEF Progress

LEMMA Stutters ==
    ASSUME Typed, Typed', NEW t \in Threads, call' = call, pc[t] # "idle", pc'[t] # "idle",
           \A u \in Threads \ {t} : pc'[u] = pc[u],
           Done(t, Call(t))' <=> Done(t, Call(t)), Value' = Value
    PROVE  Value' = Value /\ Progress' = Progress
<1>1. Progress' = [Progress EXCEPT ![t] = {Moved(Call(t), Done(t, Call(t))')}]
      BY ProgressStep
<1>2. Done(t, Call(t))' = Done(t, Call(t)) BY DEF Done
<1>3. Progress[t] = {Moved(Call(t), Done(t, Call(t)))} BY ProgressIs
<1> QED BY <1>1, <1>2, <1>3 DEF Progress

\* what a call does to the values of strings
Effect(c) ==
    CASE c.op \in {"new", "set", "write"} -> [Value EXCEPT ![c.h] = c.v]
      [] c.op \in {"copy", "assign"} -> [Value EXCEPT ![c.h] = Value[c.g]]
      [] c.op = "swap" -> [Value EXCEPT ![c.h] = Value[c.g], ![c.g] = Value[c.h]]
      [] c.op = "dtor" -> [Value EXCEPT ![c.h] = None]
      [] OTHER -> Value

LEMMA Does ==
    ASSUME Typed, Typed', NEW t \in Threads, call' = call, pc[t] # "idle", pc'[t] # "idle",
           \A u \in Threads \ {t} : pc'[u] = pc[u],
           ~Done(t, Call(t)), Done(t, Call(t))',
           Value' = Effect(Call(t)) \/ (Value' = Value /\ Call(t).op \notin {"swap", "dtor", "write"})
    PROVE  V!Do(t) \/ V!Throw(t)
<1>1. PICK c : c = Call(t) OBVIOUS
<1>2. Progress[t] = {Moved(c, FALSE)}
  <2>1. Done(t, Call(t)) = FALSE BY DEF Done
  <2> QED BY <1>1, <2>1, ProgressIs
<1>3. Progress' = [Progress EXCEPT ![t] = {Moved(c, TRUE)}]
  <2>1. Done(t, Call(t))' = TRUE BY DEF Done
  <2> QED BY <1>1, <2>1, ProgressStep
<1>4. PICK d : d = Moved(c, FALSE) OBVIOUS
<1>5. /\ ~d.done /\ d.op = c.op /\ d.h = c.h /\ d.g = c.g /\ d.v = c.v
      /\ [d EXCEPT !.done = TRUE] = Moved(c, TRUE)
  <2>1. d.done = FALSE BY <1>4 DEF Moved
  <2>2. d.op = c.op /\ d.h = c.h /\ d.g = c.g /\ d.v = c.v BY <1>4 DEF Moved
  <2>3. [Moved(c, FALSE) EXCEPT !.done = TRUE] = Moved(c, TRUE) BY ONLY MovedOn
  <2>4. [d EXCEPT !.done = TRUE] = [Moved(c, FALSE) EXCEPT !.done = TRUE] BY <1>4
  <2> QED BY <2>1, <2>2, <2>3, <2>4
<1>6. CASE Value' = Effect(c)
      BY <1>2, <1>3, <1>4, <1>5, <1>6 DEF V!Do, Effect
<1>7. CASE Value' = Value /\ c.op \notin {"swap", "dtor", "write"}
      BY <1>2, <1>3, <1>4, <1>5, <1>7 DEF V!Throw
<1> QED BY <1>1, <1>6, <1>7

LEMMA ValueSame ==
    ASSUME StringRepAssumption, Inv, data' = data,
           \A h \in Handles : data[h] \in live => content'[data[h]] = content[data[h]]
    PROVE  Value' = Value
<1>1. \A h \in Handles : data[h] \in live \cup {NullBody, None} BY DEF Inv, Held
<1>2. \A h \in Handles : (IF data'[h] = None THEN None
                          ELSE IF data'[h] = NullBody THEN Empty ELSE content'[data'[h]])
                       = (IF data[h] = None THEN None
                          ELSE IF data[h] = NullBody THEN Empty ELSE content[data[h]])
      BY <1>1
<1> QED BY <1>2 DEF Value

\* A call that gives its string a value: there is a value, and it is as promised.
LEMMA Gives ==
    ASSUME NEW c, NEW x, c.h \in Handles,
           c.op \in {"new", "set", "write"} => x = c.v,
           c.op \in {"copy", "assign"} => x = Value[c.g],
           c.op = "dtor" => x = None,
           c.op \in {"begin", "reserve"} => x = Value[c.h],
           c.op \in {"new", "set", "write", "copy", "assign", "dtor", "begin", "reserve"},
           Value'[c.h] = x, \A k \in Handles \ {c.h} : Value'[k] = Value[k]
    PROVE  Value' = Effect(c)
<1>1. Value' = [Value EXCEPT ![c.h] = x] BY DEF Value
<1>2. c.op \in {"begin", "reserve"} => Value' = Value BY <1>1 DEF Value
<1> QED BY <1>1, <1>2 DEF Effect

LEMMA TestsRefine ==
    ASSUME StringRepAssumption, Inv, Inv', NEW t \in Threads,
           TestAssign(t) \/ TestBegin(t) \/ TestReserve(t) \/ TestSet(t) \/ AllocThrow(t)
    PROVE  V!Do(t) \/ V!Throw(t) \/ (Value' = Value /\ Progress' = Progress)
<1> USE DEF Inv
<1>1. PICK c : c = Call(t) OBVIOUS
<1>2. /\ pc[t] \in {"test", "settest", "alloc"} /\ pc'[t] # "idle"
      /\ \A u \in Threads \ {t} : pc'[u] = pc[u]
      /\ UNCHANGED <<data, live, refs, content, given, call, victim>>
      /\ pc[t] = "alloc" => pc'[t] = "end"
      BY DEF TestAssign, TestBegin, TestReserve, TestSet, AllocThrow, At, Goto, Typed, bodyVars
<1>3. Value' = Value BY <1>2, ValueSame
<1>4. Fits(t, c.op) BY <1>1 DEF Place
<1>5. ~Done(t, c) BY <1>2 DEF Done
<1>6. c.op \notin {"swap", "dtor", "write"} BY <1>2, <1>4 DEF Fits
<1>7. CASE Done(t, c)'
  <2>1. Done(t, Call(t))'
        BY <1>1, <1>2, <1>7, SameCalls DEF Done
  <2> QED BY <1>1, <1>2, <1>3, <1>5, <1>6, <2>1, Does
<1>8. CASE ~Done(t, c)'
  <2>1. ~Done(t, Call(t))'
        BY <1>1, <1>2, <1>8, SameCalls DEF Done
  <2> QED BY <1>1, <1>2, <1>3, <1>5, <2>1, Stutters
<1> QED BY <1>7, <1>8

LEMMA TestCopyRefine ==
    ASSUME StringRepAssumption, Inv, Inv', NEW t \in Threads, TestCopy(t)
    PROVE  V!Do(t) \/ V!Throw(t) \/ (Value' = Value /\ Progress' = Progress)
<1> USE DEF Inv
<1>1. PICK c : c = Call(t) /\ c = Call(t)' BY SameCalls DEF TestCopy
<1>2. /\ pc[t] = "test" /\ pc'[t] \in {"inc", "alloc"} /\ c.op = "copy"
      /\ \A u \in Threads \ {t} : pc'[u] = pc[u]
      /\ UNCHANGED <<live, refs, content, given, call, target, victim>>
      /\ data' = IF pc'[t] = "inc" THEN [data EXCEPT ![c.h] = data[c.g]] ELSE data
      BY <1>1 DEF TestCopy, At, Goto, Typed, bodyVars, Other
<1>3. c.h \in Handles /\ c.g \in Handles /\ data[c.g] # None
      BY <1>1, <1>2, CallIs DEF Place, Strings
<1>4. ~Done(t, Call(t)) /\ (Done(t, Call(t))' <=> pc'[t] = "inc")
      BY <1>1, <1>2 DEF Done
<1>5. CASE pc'[t] = "inc"
  <2>1. data'[c.h] = data[c.g] /\ \A k \in Handles \ {c.h} : data'[k] = data[k]
        BY <1>2, <1>3, <1>5 DEF Typed
  <2>2. Value'[c.h] = Value[c.g] /\ \A k \in Handles \ {c.h} : Value'[k] = Value[k]
        BY <1>2, <1>3, <2>1 DEF Value
  <2>3. Value' = Effect(c) BY <1>2, <1>3, <2>2, Gives
  <2> QED BY <1>1, <1>2, <1>4, <1>5, <2>3, Does
<1>6. CASE pc'[t] = "alloc"
  <2>1. Value' = Value BY <1>2, <1>6, ValueSame
  <2> QED BY <1>2, <1>4, <1>6, <2>1, Stutters
<1> QED BY <1>2, <1>5, <1>6

LEMMA IncRefine ==
    ASSUME StringRepAssumption, Inv, Inv', NEW t \in Threads, Inc(t)
    PROVE  Value' = Value /\ Progress' = Progress
<1> USE DEF Inv
<1>1. PICK c : c = Call(t) /\ c = Call(t)' BY SameCalls DEF Inc
<1>2. /\ pc[t] = "inc" /\ pc'[t] = (IF c.op = "copy" THEN "end" ELSE "unlink")
      /\ \A u \in Threads \ {t} : pc'[u] = pc[u]
      /\ UNCHANGED <<data, live, content, given, call, victim>>
      BY <1>1 DEF Inc, At, Goto, Typed
<1>3. Value' = Value BY <1>2, ValueSame
<1>4. Done(t, Call(t))' <=> Done(t, Call(t)) BY <1>1, <1>2 DEF Done
<1> QED BY <1>2, <1>3, <1>4, Stutters

LEMMA FreeUnrefRefine ==
    ASSUME StringRepAssumption, Inv, Inv', NEW t \in Threads, Free(t) \/ Unref(t)
    PROVE  Value' = Value /\ Progress' = Progress
<1> USE DEF Inv
<1>1. PICK c : c = Call(t) /\ c = Call(t)' BY SameCalls DEF Free, Unref
<1>2. /\ pc[t] \in {"free", "unref"} /\ pc'[t] \in {"unref", "end"}
      /\ pc'[t] = "unref" => c.op = "begin"
      /\ \A u \in Threads \ {t} : pc'[u] = pc[u]
      /\ UNCHANGED <<data, call>>
      BY <1>1 DEF Free, Unref, At, Goto, Typed
<1>3. \A h \in Handles : data[h] \in live => content'[data[h]] = content[data[h]]
  <2>1. CASE Free(t)
    <3>1. Unused(victim[t]) BY <2>1 DEF Free, At, Place, Own
    <3> QED BY <2>1, <3>1 DEF Free, Unused, Typed
  <2>2. CASE Unref(t) BY <2>2 DEF Unref
  <2> QED BY <2>1, <2>2
<1>4. Value' = Value BY <1>2, <1>3, ValueSame
<1>5. pc[t] = "unref" => c.op = "begin" BY <1>1 DEF Place, Fits
<1>6. Done(t, Call(t))' <=> Done(t, Call(t)) BY <1>1, <1>2, <1>5 DEF Done
<1> QED BY <1>2, <1>4, <1>6, Stutters

LEMMA WriteRefine ==
    ASSUME StringRepAssumption, Inv, Inv', NEW t \in Threads, Write(t)
    PROVE  V!Do(t) \/ V!Throw(t)
<1> USE DEF Inv
<1>1. PICK c : c = Call(t) /\ c = Call(t)' BY SameCalls DEF Write
<1>2. /\ pc[t] = "write" /\ pc'[t] = "end" /\ \A u \in Threads \ {t} : pc'[u] = pc[u]
      /\ UNCHANGED <<data, live, refs, given, call, target, victim>>
      /\ content' = [content EXCEPT ![given[c.h]] = c.v]
      BY <1>1 DEF Write, At, Goto, Typed
<1>3. c.op = "write" /\ c.h \in Handles /\ given[c.h] # None
      BY <1>1, <1>2, CallIs DEF Place, Fits, Strings
<1>4. given[c.h] \in live /\ data[c.h] = given[c.h] /\ Sole(c.h, data[c.h])
      BY <1>3, GivenSole
<1>5. given[c.h] \in Bodies /\ given[c.h] # NullBody BY <1>4 DEF Typed, StringRepAssumption
<1>6. Value'[c.h] = c.v BY <1>2, <1>3, <1>4, <1>5 DEF Value, Typed
<1>7. \A k \in Handles \ {c.h} : Value'[k] = Value[k]
  <2>1. \A k \in Handles \ {c.h} : data[k] # given[c.h] BY <1>4 DEF Sole
  <2> QED BY <1>2, <2>1 DEF Value, Typed
<1>8. Value' = Effect(c) BY <1>3, <1>6, <1>7, Gives
<1>9. ~Done(t, Call(t)) /\ Done(t, Call(t))' BY <1>1, <1>2, <1>3 DEF Done
<1> QED BY <1>1, <1>2, <1>8, <1>9, Does

LEMMA NewValue ==
    ASSUME StringRepAssumption, Inv, NEW t \in Threads, pc[t] \in {"alloc", "inplace", "unlink"}
    PROVE  /\ Call(t).op \in {"copy", "assign"} => NewContent(t) = Value[Call(t).g]
           /\ Call(t).op \in {"begin", "reserve"} => NewContent(t) = Value[Call(t).h]
           /\ Call(t).op \in {"new", "set"} => NewContent(t) = Call(t).v
<1>1. Call(t).h \in Handles /\ Call(t).g \in Handles BY CallIs DEF Inv
<1>2. Call(t).op \in {"copy", "assign"} => data[Call(t).g] # None
      BY DEF Inv, Place, Strings
<1>3. Call(t).op \in {"begin", "reserve"} => data[Call(t).h] # None
      BY DEF Inv, Place, Strings
<1> QED BY <1>1, <1>2, <1>3, ValueIs DEF NewContent, Mine, Other

LEMMA InPlaceRefine ==
    ASSUME StringRepAssumption, Inv, Inv', NEW t \in Threads, InPlace(t)
    PROVE  V!Do(t) \/ V!Throw(t)
<1> USE DEF Inv
<1>1. PICK c : c = Call(t) /\ c = Call(t)' BY SameCalls DEF InPlace
<1>2. /\ pc[t] = "inplace" /\ pc'[t] = "end" /\ \A u \in Threads \ {t} : pc'[u] = pc[u]
      /\ UNCHANGED <<data, live, refs, given, call, target, victim>>
      /\ content' = [b \in Bodies |-> IF b = data[c.h] THEN NewContent(t) ELSE content[b]]
      BY <1>1 DEF InPlace, At, Goto, Typed, Mine
<1>3. /\ c.op \in {"assign", "set"} /\ c.h \in Handles /\ data[c.h] # None
      /\ data[c.h] \in Bodies => Sole(c.h, data[c.h])
      /\ data[c.h] = NullBody => NewContent(t) = Empty
  <2>1. Fits(t, c.op) /\ Strings(t, c) BY <1>1 DEF Place
  <2>2. c.op \in {"assign", "set"} BY <1>2, <2>1 DEF Fits
  <2>3. c.h \in Handles BY <1>1, <1>2, CallIs
  <2> QED BY <1>2, <2>1, <2>2, <2>3 DEF Strings
<1>4. data[c.h] \in Bodies \cup {NullBody} /\ NullBody \notin Bodies
      BY <1>3 DEF Typed, StringRepAssumption
<1>5. Value'[c.h] = NewContent(t) BY <1>2, <1>3, <1>4 DEF Value
<1>6. \A k \in Handles \ {c.h} : Value'[k] = Value[k]
  <2>1. \A k \in Handles \ {c.h} : data[k] \in Bodies => data[k] # data[c.h] BY <1>3 DEF Sole
  <2>2. \A k \in Handles : data[k] \in Bodies \cup {NullBody, None} BY DEF Typed
  <2> QED BY <1>2, <2>1, <2>2 DEF Value
<1>7. Value' = Effect(c)
  <2>1. c.op = "assign" => NewContent(t) = Value[c.g] BY <1>1, <1>2, NewValue
  <2>2. c.op = "set" => NewContent(t) = c.v BY <1>1, <1>2, NewValue
  <2> QED BY <1>3, <1>5, <1>6, <2>1, <2>2, Gives
<1>8. ~Done(t, Call(t)) /\ Done(t, Call(t))' BY <1>1, <1>2, <1>3 DEF Done
<1> QED BY <1>1, <1>2, <1>7, <1>8, Does

LEMMA AllocRefine ==
    ASSUME StringRepAssumption, Inv, Inv', NEW t \in Threads, Alloc(t)
    PROVE  V!Do(t) \/ V!Throw(t) \/ (Value' = Value /\ Progress' = Progress)
<1> USE DEF Inv
<1>1. PICK c : c = Call(t) /\ c = Call(t)' BY SameCalls DEF Alloc
<1>2. PICK b \in {NullBody} \cup (Bodies \ live) :
         /\ b = NullBody <=> NewContent(t) = Empty /\ c.op # "reserve"
         /\ IF b = NullBody THEN UNCHANGED bodyVars
            ELSE content' = [content EXCEPT ![b] = NewContent(t)]
         /\ IF c.op \in {"new", "copy"}
            THEN data' = [data EXCEPT ![c.h] = b] /\ Goto(t, "end")
            ELSE Goto(t, "unlink") /\ UNCHANGED data
      BY <1>1 DEF Alloc
<1>3. /\ pc[t] = "alloc" /\ pc'[t] = (IF c.op \in {"new", "copy"} THEN "end" ELSE "unlink")
      /\ \A u \in Threads \ {t} : pc'[u] = pc[u]
      /\ call' = call
      BY <1>1, <1>2 DEF Alloc, At, Goto, Typed
<1>4. c.h \in Handles BY <1>1, <1>3, CallIs
<1>5. /\ \A d \in Bodies \ {b} : content'[d] = content[d]
      /\ b # NullBody => content'[b] = NewContent(t)
      BY <1>2 DEF Typed, bodyVars
<1>6. \A k \in Handles : data[k] \in live => content'[data[k]] = content[data[k]]
      BY <1>2, <1>5 DEF Typed, StringRepAssumption
<1>7. CASE c.op \in {"new", "copy"}
  <2>1. data' = [data EXCEPT ![c.h] = b] BY <1>2, <1>7
  <2>2. Value'[c.h] = NewContent(t)
    <3>1. b # None BY DEF StringRepAssumption
    <3> QED BY <1>2, <1>4, <1>5, <1>7, <2>1, <3>1 DEF Value, Typed
  <2>3. \A k \in Handles \ {c.h} : Value'[k] = Value[k]
    <3>1. \A k \in Handles : data[k] \in live \cup {NullBody, None} BY DEF Held
    <3> QED BY <1>6, <2>1, <3>1 DEF Value, Typed
  <2>4. Value' = Effect(c)
    <3>1. c.op = "copy" => NewContent(t) = Value[c.g] BY <1>1, <1>3, NewValue
    <3>2. c.op = "new" => NewContent(t) = c.v BY <1>1, <1>3, NewValue
    <3> QED BY <1>4, <1>7, <2>2, <2>3, <3>1, <3>2, Gives
  <2>5. ~Done(t, Call(t)) /\ Done(t, Call(t))' BY <1>1, <1>3, <1>7 DEF Done
  <2> QED BY <1>1, <1>3, <2>4, <2>5, Does
<1>8. CASE c.op \notin {"new", "copy"}
  <2>1. Value' = Value BY <1>2, <1>6, <1>8, ValueSame
  <2>2. Done(t, Call(t))' <=> Done(t, Call(t)) BY <1>1, <1>3, <1>8 DEF Done
  <2> QED BY <1>3, <2>1, <2>2, Stutters
<1> QED BY <1>7, <1>8

LEMMA UnlinkRefine ==
    ASSUME StringRepAssumption, Inv, Inv', NEW t \in Threads, Unlink(t)
    PROVE  V!Do(t) \/ V!Throw(t)
<1> USE DEF Inv
<1>1. PICK c : c = Call(t) /\ c = Call(t)' BY SameCalls DEF Unlink
<1>2. PICK x : x = target[t] OBVIOUS
<1>3. /\ pc[t] = "unlink" /\ pc'[t] \in {"free", "unref", "end"}
      /\ pc'[t] = "unref" => c.op = "begin"
      /\ \A u \in Threads \ {t} : pc'[u] = pc[u]
      /\ UNCHANGED <<live, content, given, call>>
      /\ data' = [data EXCEPT ![c.h] = x]
      BY <1>1, <1>2 DEF Unlink, At, Goto, Typed
<1>4. c.op \in {"assign", "set", "begin", "reserve", "dtor"} /\ c.h \in Handles
      BY <1>1, <1>3, CallIs DEF Place, Fits
<1>5. /\ x = None <=> c.op = "dtor"
      /\ c.op # "dtor" => Content(x) = NewContent(t)
      BY <1>1, <1>2, <1>3 DEF Place, Own
<1>6. Value'[c.h] = (IF x = None THEN None ELSE Content(x))
      BY <1>3, <1>4 DEF Value, Typed, Content
<1>7. \A k \in Handles \ {c.h} : Value'[k] = Value[k] BY <1>3, <1>4 DEF Value, Typed
<1>8. Value' = Effect(c)
  <2>1. /\ c.op = "assign" => NewContent(t) = Value[c.g]
        /\ c.op \in {"begin", "reserve"} => NewContent(t) = Value[c.h]
        /\ c.op = "set" => NewContent(t) = c.v
        BY <1>1, <1>3, NewValue
  <2> QED BY <1>4, <1>5, <1>6, <1>7, <2>1, Gives
<1>9. ~Done(t, Call(t)) /\ Done(t, Call(t))' BY <1>1, <1>3, <1>4 DEF Done
<1>10. pc'[t] # "idle" /\ pc[t] # "idle" BY <1>3
<1> QED BY <1>1, <1>3, <1>8, <1>9, <1>10, Does

LEMMA SwapRefine ==
    ASSUME StringRepAssumption, Inv, Inv', NEW t \in Threads, Swap(t)
    PROVE  V!Do(t) \/ V!Throw(t)
<1> USE DEF Inv
<1>1. PICK c : c = Call(t) /\ c = Call(t)' BY SameCalls DEF Swap
<1>2. /\ pc[t] = "swap" /\ pc'[t] = "end" /\ \A u \in Threads \ {t} : pc'[u] = pc[u]
      /\ UNCHANGED <<live, refs, content, given, call, target, victim>>
      /\ data' = [data EXCEPT ![c.h] = data[c.g], ![c.g] = data[c.h]]
      BY <1>1 DEF Swap, At, Goto, Typed, bodyVars, Mine, Other
<1>3. c.op = "swap" /\ c.h \in Handles /\ c.g \in Handles
      BY <1>1, <1>2, CallIs DEF Place, Fits
<1>4. \A k \in Handles : data'[k] = IF k = c.g THEN data[c.h] ELSE IF k = c.h THEN data[c.g] ELSE data[k]
      BY <1>2, <1>3 DEF Typed
<1>5. \A k \in Handles : Value'[k] = IF k = c.g THEN Value[c.h] ELSE IF k = c.h THEN Value[c.g] ELSE Value[k]
  <2>1. ASSUME NEW k \in Handles, NEW j \in Handles, data'[k] = data[j] PROVE Value'[k] = Value[j]
        BY <1>2, <2>1 DEF Value
  <2> QED BY <1>3, <1>4, <2>1
<1>6. Value' = [Value EXCEPT ![c.h] = Value[c.g], ![c.g] = Value[c.h]]
      BY <1>3, <1>5 DEF Value
<1>7. Value' = Effect(c) BY <1>3, <1>6 DEF Effect
<1>8. ~Done(t, Call(t)) /\ Done(t, Call(t))' BY <1>1, <1>2, <1>3 DEF Done
<1> QED BY <1>1, <1>2, <1>7, <1>8, Does

LEMMA EndRefine ==
    ASSUME StringRepAssumption, Inv, Inv', NEW t \in Threads, End(t)
    PROVE  V!End(t)
<1> USE DEF Inv
<1>1. /\ pc[t] = "end" /\ pc'[t] = "idle"
      /\ \A u \in Threads \ {t} : pc'[u] = pc[u] /\ call'[u] = call[u]
      /\ UNCHANGED <<data, live, refs, content, given, target, victim>>
      BY DEF End, At, Goto, Typed, bodyVars
<1>2. Value' = Value BY <1>1, ValueSame
<1>3. Progress' = [Progress EXCEPT ![t] = {}]
  <2>1. \A u \in Threads \ {t} : Progress'[u] = Progress[u] BY <1>1 DEF Progress, Done
  <2>2. Progress'[t] = {} BY <1>1, ProgressIs DEF End, Typed, Progress
  <2> QED BY <2>1, <2>2 DEF Progress
<1>4. \E c \in Progress[t] : c.done
  <2>1. Done(t, Call(t)) BY <1>1 DEF Done
  <2>2. Done(t, Call(t)) = TRUE BY <2>1 DEF Done
  <2>3. Progress[t] = {Moved(Call(t), TRUE)} BY <1>1, <2>2, ProgressIs
  <2>4. Moved(Call(t), TRUE).done = TRUE BY DEF Moved
  <2> QED BY <2>3, <2>4
<1> QED BY <1>2, <1>3, <1>4 DEF V!End

LEMMA StartRefine ==
    ASSUME StringRepAssumption, Inv, Inv', NEW t \in Threads, NEW c \in Arguments, Start(t, c)
    PROVE  V!Begin(t)
<1> USE DEF Inv
<1>1. /\ pc[t] = "idle" /\ call'[t] = {c}
      /\ \A u \in Threads \ {t} : call'[u] = call[u] /\ pc'[u] = pc[u]
      /\ UNCHANGED <<data, live, refs, content, target, victim>>
      BY DEF Start, At, Goto, Typed, bodyVars
<1>2. c.h \in Handles /\ c.g \in Handles /\ c.op \in V!Ops /\ c.v \in Vals
      BY DEF Arguments, Calls
<1>3. pc'[t] \notin {"end", "free", "unref", "inc"}
  <2>1. pc'[t] = CASE c.op \in {"copy", "assign", "begin", "reserve"} -> "test"
                   [] c.op = "set" -> "settest"
                   [] c.op = "new" -> "alloc"
                   [] c.op = "dtor" -> "unlink"
                   [] OTHER -> c.op
        BY DEF Start, Goto, Typed
  <2> QED BY <1>2, <2>1 DEF V!Ops
<1>4. Value' = Value BY <1>1, ValueSame
<1>5. Progress' = [Progress EXCEPT ![t] = {Moved(c, FALSE)}]
  <2>1. \A u \in Threads \ {t} : Progress'[u] = Progress[u] BY <1>1 DEF Progress, Done
  <2>2. Progress'[t] = {Moved(c, Done(t, c)')} BY <1>1 DEF Progress, Moved, Done
  <2>3. Done(t, c)' = FALSE BY <1>3 DEF Done
  <2> QED BY <2>1, <2>2, <2>3 DEF Progress
<1>6. Progress[t] = {} BY <1>1, ProgressIs
<1>7. /\ c.op \in {"new", "copy"} <=> Value[c.h] = None
      /\ c.op \in {"copy", "assign", "swap"} => Value[c.g] # None
      BY <1>2, ValueIs DEF Start
<1>8. ASSUME NEW u \in Threads, NEW d \in Progress[u]
      PROVE  /\ V!Changed(c) \cap (V!Changed(d) \cup V!ReadOnly(d)) = {}
             /\ V!Changed(d) \cap V!ReadOnly(c) = {}
  <2>1. pc[u] # "idle" BY <1>8, ProgressIs
  <2>2. d = Moved(Call(u), Done(u, Call(u))) BY <1>8, <2>1, ProgressIs
  <2>3. d.op = Call(u).op /\ d.h = Call(u).h /\ d.g = Call(u).g BY <2>2 DEF Moved
  <2>4. Call(u) \in call[u] BY <2>1, CallIs
  <2>5. /\ V!Changed(c) \cap (V!Changed(Call(u)) \cup V!ReadOnly(Call(u))) = {}
        /\ V!Changed(Call(u)) \cap V!ReadOnly(c) = {}
        BY <2>4 DEF Start
  <2> QED BY <2>3, <2>5 DEF V!Changed, V!ReadOnly
<1>9. PICK m : m = Moved(c, FALSE) OBVIOUS
<1>10. /\ m = [op |-> c.op, h |-> c.h, g |-> c.g, v |-> c.v, done |-> FALSE]
       /\ m.op = c.op /\ m.h = c.h /\ m.g = c.g
       BY <1>9 DEF Moved
<1>11. \A u \in Threads : \A d \in Progress[u] :
          /\ V!Changed(m) \cap (V!Changed(d) \cup V!ReadOnly(d)) = {}
          /\ V!Changed(d) \cap V!ReadOnly(m) = {}
       BY <1>8, <1>10 DEF V!Changed, V!ReadOnly
<1>12. Progress' = [Progress EXCEPT ![t] = {m}] BY <1>5, <1>9
<1>13. LET r == [op |-> c.op, h |-> c.h, g |-> c.g, v |-> c.v, done |-> FALSE]
       IN  /\ c.op \in {"new", "copy"} <=> Value[c.h] = None
           /\ c.op \in {"copy", "assign", "swap"} => Value[c.g] # None
           /\ \A u \in Threads : \A d \in Progress[u] :
                 /\ V!Changed(r) \cap (V!Changed(d) \cup V!ReadOnly(d)) = {}
                 /\ V!Changed(d) \cap V!ReadOnly(r) = {}
           /\ Progress' = [Progress EXCEPT ![t] = {r}]
       BY <1>7, <1>10, <1>11, <1>12
<1> QED BY Zenon, <1>2, <1>4, <1>6, <1>13 DEF V!Begin

LEMMA ValuesStep ==
    ASSUME StringRepAssumption, Inv, Inv', [Next]_vars
    PROVE  V!Next \/ (Value' = Value /\ Progress' = Progress)
<1>1. ASSUME NEW t \in Threads, NEW c \in Arguments, Start(t, c) PROVE V!Next
      BY <1>1, StartRefine DEF V!Next
<1>2. ASSUME NEW t \in Threads, Step(t)
      PROVE  V!End(t) \/ V!Do(t) \/ V!Throw(t) \/ (Value' = Value /\ Progress' = Progress)
      BY <1>2, TestsRefine, TestCopyRefine, IncRefine, FreeUnrefRefine, WriteRefine, InPlaceRefine,
         AllocRefine, UnlinkRefine, SwapRefine, EndRefine DEF Step
<1>3. CASE UNCHANGED vars
      BY <1>3 DEF vars, bodyVars, Value, Progress, Done
<1> QED BY <1>1, <1>2, <1>3 DEF Next, V!Next

(* Strings are values, whatever bodies they share and however the calls of    *)
(* threads interleave: each call takes effect on its own strings at one point *)
(* between its begin and its end, and if it throws it has changed nothing     *)
(* (21.3; string:788-867, string.cc:45-88, 178-193).                                  *)
THEOREM StringsAreValuesAlways == Spec => StringsAreValues
<1>1. Init => V!Init
      BY DEF Init, V!Init, Value, Progress
<1>2. Init => Inv BY StringRepAssumption, InvInit
<1>3. Inv /\ [Next]_vars => Inv' BY StringRepAssumption, InvStep
<1>4. Inv /\ Inv' /\ [Next]_vars => [V!Next]_<<Value, Progress>>
      BY StringRepAssumption, ValuesStep
<1> QED BY <1>1, <1>2, <1>3, <1>4, PTL DEF Spec, StringsAreValues, V!Spec
=============================================================================
