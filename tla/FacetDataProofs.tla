---------------------------- MODULE FacetDataProofs ----------------------------
(***************************************************************************)
(* Proofs about FacetData, for any threads, whatever late values they read *)
(* and however many builders have no memory.                               *)
(***************************************************************************)
EXTENDS FacetData, SequenceTheorems, TLAPS

-----------------------------------------------------------------------------
(* The inductive invariant.                                                *)

Pointers == {Null, Mapped} \cup Threads
Views == [Locs -> Nat \ {0}]
Entries == [val : Sizes \cup Pointers, view : Views]
Histories == [Locs -> Seq(Entries)]

\* A view reaches no further than what is stored.
Within(h, w) == w \in Views /\ \A x \in Locs : w[x] <= Len(h[x])

Recorded(h) ==
    /\ h \in Histories
    /\ \A x \in Locs :
          h[x] # <<>> /\ \A i \in 1 .. Len(h[x]) : Within(h, h[x][i].view)

\* What was stored, and how far each thread, and each lock, has seen it.
Viewed(h, v, fv, cv) ==
    /\ Recorded(h)
    /\ v \in [Threads -> Views] /\ \A t \in Threads : Within(h, v[t])
    /\ Within(h, fv) /\ Within(h, cv)

Typed ==
    /\ facet \in [database : BOOLEAN, pid : BOOLEAN]
    /\ Viewed(history, view, facetView, clocaleView)
    /\ facetLock \in Threads \cup {NoThread}
    /\ clocaleLock \in Threads \cup {NoThread}
    /\ pc \in [Threads -> Labels]
    /\ call \in [Threads -> Calls]
    /\ ptr \in [Threads -> Pointers]
    /\ made \subseteq Threads
    /\ throws \in 0 .. MaxThrows

\* Where a thread is tells the locks it holds.
HeldBy(t) ==
    /\ pc[t] \in {"size_locked", "map", "map_size"} => facetLock = t
    /\ facetLock = t => pc[t] \in {"size_locked", "map", "map_size", "data"}
    /\ pc[t] \in {"lock", "size_locked", "map", "map_size"} => facet.pid
    /\ pc[t] \in {"build", "built", "built_size"} => clocaleLock = t
    /\ call[t] # "first" /\ pc[t] # "idle" => clocaleLock = t

Held == \A t \in Threads : HeldBy(t)

\* The data is stored once, and what is built is there before it is.
Once ==
    /\ history["data"][1].val = Null
    /\ \A i \in 1 .. Len(history["size"]) :
          /\ history["size"][i].val \in Sizes
          /\ history["size"][i].val = "unset" <=> i = 1
    /\ Len(history["data"]) \in {1, 2} /\ Len(history["content"]) \in {1, 2}
    /\ Len(history["data"]) = 2 =>
          /\ history["data"][2].val \in Pointers \ {Null}
          /\ history["data"][2].val \in Threads =>
                /\ Len(history["content"]) = 2
                /\ history["content"][2].val = history["data"][2].val
                /\ history["data"][2].view["content"] = 2

\* A pointer that was returned is that data, seen with its content.
PtrOf(t) ==
    /\ ptr[t] # Null => Len(history["data"]) = 2 /\ ptr[t] = history["data"][2].val
    /\ ptr[t] \in Threads => view[t]["content"] = 2
    /\ pc[t] = "done" => ptr[t] # Null

Ptrs == \A t \in Threads : PtrOf(t)

\* With a database, the facet's lock is what the data and its size are stored
\* under, and nobody builds.
MappingOf(t) ==
    /\ pc[t] \notin {"clocale", "build", "built", "built_size"} /\ call[t] = "first"
    /\ pc[t] = "data" => view[t]["data"] = 2
    /\ pc[t] = "returned" => ptr[t] # Null
    /\ facetLock = t /\ pc[t] # "map_size" =>
          /\ Len(history["size"]) = Len(history["data"])
          /\ view[t]["size"] = Len(history["size"])
    /\ pc[t] = "map" => Len(history["size"]) = 1
    /\ pc[t] = "map_size" =>
          /\ Len(history["size"]) = 1 /\ Len(history["data"]) = 2
          /\ view[t]["data"] = 2

Mapping == facet.database /\ facet.pid =>
    /\ made = {} /\ Len(history["size"]) \in {1, 2}
    /\ Len(history["data"]) = 2 => history["data"][2].val = Mapped
    /\ Len(history["size"]) = 2 =>
          Len(history["data"]) = 2 /\ history["size"][2].view["data"] = 2
    /\ facetLock = NoThread =>
          /\ Len(history["size"]) = Len(history["data"])
          /\ facetView["size"] = Len(history["size"])
    /\ \A t \in Threads : MappingOf(t)

\* Without one the data is stored under the lock of the C locale, and who holds
\* the lock knows whether it is there.
BuildingOf(t) == clocaleLock = t =>
    /\ view[t]["data"] = Len(history["data"])
    /\ Len(history["data"]) = 2 /\ pc[t] # "built_size" => view[t]["size"] # 1
    /\ pc[t] \in {"size_again", "lock", "size_locked", "map", "map_size", "build"} =>
          Len(history["data"]) = 1
    /\ pc[t] = "built" =>
          /\ Len(history["data"]) = 1 /\ Len(history["content"]) = 2
          /\ history["content"][2].val = t /\ view[t]["content"] = 2
    /\ pc[t] = "returned" /\ ptr[t] = Null => Len(history["data"]) = 1

Building == ~(facet.database /\ facet.pid) =>
    /\ (\A t \in Threads : pc[t] # "built") =>
          Len(history["content"]) = Len(history["data"])
    /\ clocaleLock = NoThread =>
          /\ clocaleView["data"] = Len(history["data"])
          /\ Len(history["data"]) = 2 => clocaleView["size"] # 1
    /\ \A t \in Threads : BuildingOf(t)

FInv == Typed /\ Held /\ Once /\ Ptrs /\ Mapping /\ Building

-----------------------------------------------------------------------------
(* Loads and stores.                                                       *)

\* What a thread has seen once it read entry i of x.
Read(h, w, x, i) == [Join(w, h[x][i].view) EXCEPT ![x] = i]

\* A load moves a view forward, to the entry read and to what that one carries.
LEMMA LoadSees ==
  ASSUME NEW h, Recorded(h), NEW w, Within(h, w), NEW x \in Locs,
         NEW i \in w[x] .. Len(h[x])
  PROVE  /\ Within(h, Read(h, w, x, i)) /\ Read(h, w, x, i)[x] = i /\ i \in 1 .. Len(h[x])
         /\ \A y \in Locs : Read(h, w, x, i)[y] >= w[y]
         /\ \A y \in Locs \ {x} : Read(h, w, x, i)[y] >= h[x][i].view[y]
<1>1. \A y \in Locs : h[y] \in Seq(Entries) /\ Len(h[y]) \in Nat
  BY DEF Recorded, Histories
<1>2. w \in Views /\ \A y \in Locs : w[y] \in Nat \ {0} /\ w[y] <= Len(h[y])
  BY DEF Within, Views
<1>3. i \in 1 .. Len(h[x])
  BY <1>1, <1>2
<1>4. PICK e : e = h[x][i].view
  OBVIOUS
<1>5. e \in Views /\ \A y \in Locs : e[y] \in Nat \ {0} /\ e[y] <= Len(h[y])
  BY <1>3, <1>4 DEF Within, Recorded, Views
<1>6. PICK r : r = Read(h, w, x, i)
  OBVIOUS
<1>7. /\ r = [y \in Locs |-> IF y = x THEN i ELSE IF w[y] < e[y] THEN e[y] ELSE w[y]]
  BY <1>4, <1>6 DEF Read, Join
<1>8. \A y \in Locs : r[y] = IF y = x THEN i ELSE IF w[y] < e[y] THEN e[y] ELSE w[y]
  BY <1>7
<1>9. r \in Views
  BY <1>2, <1>3, <1>5, <1>7 DEF Views
<1>10. \A y \in Locs : r[y] <= Len(h[y]) /\ r[y] >= w[y]
  BY <1>1, <1>2, <1>3, <1>5, <1>8
<1>11. \A y \in Locs \ {x} : r[y] >= e[y]
  BY <1>1, <1>2, <1>5, <1>8
<1> QED
  BY <1>3, <1>4, <1>6, <1>8, <1>9, <1>10, <1>11 DEF Within

\* Two views joined have seen what either has.
LEMMA JoinSees ==
  ASSUME NEW h, Recorded(h), NEW v, Within(h, v), NEW w, Within(h, w)
  PROVE  /\ Within(h, Join(v, w))
         /\ \A x \in Locs : Join(v, w)[x] >= v[x] /\ Join(v, w)[x] >= w[x]
<1>1. \A x \in Locs : /\ Len(h[x]) \in Nat /\ v[x] \in Nat \ {0} /\ v[x] <= Len(h[x])
                      /\ w[x] \in Nat \ {0} /\ w[x] <= Len(h[x])
  BY DEF Within, Recorded, Histories, Views
<1>2. PICK j : j = Join(v, w)
  OBVIOUS
<1>3. j = [x \in Locs |-> IF v[x] < w[x] THEN w[x] ELSE v[x]]
  BY <1>2 DEF Join
<1>4. j \in Views
  BY <1>1, <1>3 DEF Views
<1>5. \A x \in Locs : j[x] = IF v[x] < w[x] THEN w[x] ELSE v[x]
  BY <1>3
<1> QED
  BY <1>1, <1>2, <1>4, <1>5 DEF Within

\* What a store makes of the history, and of the view of who stores.
Stored(h, x, v, w, released) ==
    [h EXCEPT ![x] = Append(@,
        [val |-> v, view |-> [(IF released THEN w ELSE NoView) EXCEPT ![x] = Len(h[x]) + 1]])]

Appended(h, x, v, w, released, g) ==
    /\ Recorded(g) /\ Len(g[x]) = Len(h[x]) + 1
    /\ \A i \in 1 .. Len(h[x]) : g[x][i] = h[x][i]
    /\ g[x][Len(h[x]) + 1].val = v
    /\ released => \A y \in Locs \ {x} : g[x][Len(h[x]) + 1].view[y] = w[y]
    /\ \A y \in Locs \ {x} : g[y] = h[y]
    /\ \A u : Within(h, u) => Within(g, u)
    /\ Within(g, [w EXCEPT ![x] = Len(h[x]) + 1])

\* A store appends an entry, which its thread has seen.
LEMMA StoreSees ==
  ASSUME NEW h, Recorded(h), NEW w, Within(h, w), NEW x \in Locs,
         NEW v \in Sizes \cup Pointers, NEW released \in BOOLEAN,
         NEW g, g = Stored(h, x, v, w, released)
  PROVE  Appended(h, x, v, w, released, g)
<1>1. /\ h \in Histories
      /\ \A y \in Locs : h[y] \in Seq(Entries) /\ Len(h[y]) \in Nat \ {0}
  BY DEF Recorded, Histories
<1>2. PICK n \in Nat \ {0} : n = Len(h[x])
  BY <1>1
<1>3. PICK e : e = [(IF released THEN w ELSE NoView) EXCEPT ![x] = n + 1]
  OBVIOUS
<1>4. e \in Views /\ e[x] = n + 1 /\ \A y \in Locs \ {x} : e[y] = w[y] \/ e[y] = 1
  BY <1>3 DEF Within, Views, NoView
<1>5. released => \A y \in Locs \ {x} : e[y] = w[y]
  BY <1>3 DEF Within, Views
<1>6. PICK z : z = [val |-> v, view |-> e]
  OBVIOUS
<1>7. z \in Entries /\ z.val = v /\ z.view = e
  BY <1>4, <1>6 DEF Entries
<1>8. PICK s : s = Append(h[x], z)
  OBVIOUS
<1>9. /\ s \in Seq(Entries) /\ Len(s) = n + 1 /\ s[n + 1] = z
      /\ \A i \in 1 .. n : s[i] = h[x][i]
  BY <1>1, <1>2, <1>7, <1>8
<1>10. g = [h EXCEPT ![x] = s]
  BY <1>2, <1>3, <1>6, <1>8 DEF Stored
<1>11. /\ g \in Histories /\ g[x] = s /\ \A y \in Locs \ {x} : g[y] = h[y]
  BY <1>1, <1>9, <1>10 DEF Histories
<1>12. \A y \in Locs : Len(h[y]) \in Nat /\ Len(g[y]) \in Nat /\ Len(h[y]) <= Len(g[y])
  BY <1>1, <1>2, <1>9, <1>11
<1>13. \A u : Within(h, u) => Within(g, u)
  <2>1. SUFFICES ASSUME NEW u, Within(h, u) PROVE Within(g, u)
    OBVIOUS
  <2>2. \A y \in Locs : u[y] \in Nat /\ u[y] <= Len(h[y])
    BY <2>1 DEF Within, Views
  <2>3. \A y \in Locs : u[y] <= Len(g[y])
    BY <2>2, <1>12
  <2> QED
    BY <2>1, <2>3 DEF Within
<1>14. Within(g, e)
  <2>1. \A y \in Locs : w[y] \in Nat /\ w[y] <= Len(h[y])
    BY DEF Within, Views
  <2>2. ASSUME NEW y \in Locs PROVE e[y] <= Len(g[y])
    BY <2>1, <1>1, <1>2, <1>4, <1>9, <1>11, <1>12
  <2> QED
    BY <1>4, <2>2 DEF Within
<1>15. Within(g, [w EXCEPT ![x] = n + 1])
  BY <1>1, <1>2, <1>9, <1>11 DEF Within, Views
<1>16. ASSUME NEW y \in Locs
       PROVE  g[y] # <<>> /\ \A i \in 1 .. Len(g[y]) : Within(g, g[y][i].view)
  <2>1. CASE y = x
    <3>1. \A i \in 1 .. n : Within(g, h[x][i].view)
      BY <1>2, <1>13 DEF Recorded
    <3> QED
      BY <2>1, <3>1, <1>7, <1>9, <1>11, <1>14
  <2>2. CASE y # x
    BY <2>2, <1>11, <1>13 DEF Recorded
  <2> QED
    BY <2>1, <2>2
<1>17. Recorded(g)
  BY <1>11, <1>16 DEF Recorded
<1> QED
  BY <1>2, <1>5, <1>7, <1>9, <1>11, <1>13, <1>15, <1>17 DEF Appended

\* A view with which a thread goes on has seen the last of what it had seen the
\* last of, and is past the first of what it was past.
Onward(h, w, r) == \A x \in Locs :
    /\ w[x] = Len(h[x]) => r[x] = Len(h[x])
    /\ w[x] # 1 => r[x] # 1

LEMMA Moves ==
  ASSUME NEW h, Recorded(h), NEW w, Within(h, w), NEW r, Within(h, r),
         \A x \in Locs : r[x] >= w[x]
  PROVE  Onward(h, w, r)
<1>1. ASSUME NEW x \in Locs
      PROVE  (w[x] = Len(h[x]) => r[x] = Len(h[x])) /\ (w[x] # 1 => r[x] # 1)
  <2>1. PICK n \in Nat : n = Len(h[x])
    BY DEF Recorded, Histories
  <2>2. PICK a \in Nat \ {0} : a = w[x]
    BY DEF Within, Views
  <2>3. PICK b \in Nat \ {0} : b = r[x]
    BY DEF Within, Views
  <2>4. a <= n /\ b <= n /\ b >= a
    BY <2>1, <2>2, <2>3 DEF Within
  <2> QED
    BY <2>1, <2>2, <2>3, <2>4
<1> QED
  BY <1>1 DEF Onward

LEMMA Lengths ==
  ASSUME Typed
  PROVE  /\ \A x \in Locs : Len(history[x]) \in Nat \ {0}
         /\ Len(history["size"]) \in Nat \ {0} /\ Len(history["data"]) \in Nat \ {0}
         /\ Len(history["content"]) \in Nat \ {0}
BY DEF Typed, Viewed, Recorded, Histories, Locs

\* What a load does to the views.
LEMMA Acquired ==
  ASSUME Typed, NEW t \in Threads, NEW x \in Locs, NEW i, Acquire(t, x, i)
  PROVE  /\ i \in 1 .. Len(history[x]) /\ (view[t][x] # 1 => i # 1)
         /\ Len(history[x]) \in {1, 2} => i = 1 \/ i = Len(history[x])
         /\ Viewed(history, view', facetView, clocaleView)
         /\ view'[t][x] = i /\ Within(history, view'[t])
         /\ Onward(history, view[t], view'[t])
         /\ \A y \in Locs \ {x} : history[x][i].view[y] = Len(history[y]) =>
               view'[t][y] = Len(history[y])
         /\ \A u \in Threads \ {t} : view'[u] = view[u]
<1>1. PICK h : h = history
  OBVIOUS
<1>2. PICK w : w = view[t]
  OBVIOUS
<1>3. Recorded(h) /\ Within(h, w) /\ i \in w[x] .. Len(h[x])
  BY <1>1, <1>2 DEF Typed, Viewed, Acquire
<1>4. PICK r : r = Read(h, w, x, i)
  OBVIOUS
<1>5. /\ Within(h, r) /\ r[x] = i /\ i \in 1 .. Len(h[x])
      /\ \A y \in Locs : r[y] >= w[y]
      /\ \A y \in Locs \ {x} : r[y] >= h[x][i].view[y]
  BY <1>3, <1>4, LoadSees
<1>6. view' = [view EXCEPT ![t] = r]
  BY <1>1, <1>2, <1>4 DEF Acquire, Read
<1>7. view \in [Threads -> Views] /\ r \in Views
  BY <1>5 DEF Typed, Viewed, Within
<1>8. /\ view' \in [Threads -> Views] /\ view'[t] = r
      /\ \A u \in Threads \ {t} : view'[u] = view[u]
  BY <1>6, <1>7
<1>9. \A u \in Threads : Within(history, view'[u])
  BY <1>1, <1>5, <1>8 DEF Typed, Viewed
<1>10. Onward(h, w, r)
  BY <1>3, <1>5, Moves
<1>11. ASSUME NEW y \in Locs \ {x}, h[x][i].view[y] = Len(h[y])
       PROVE  r[y] = Len(h[y])
  <2>1. PICK n \in Nat : n = Len(h[y])
    BY <1>3 DEF Recorded, Histories
  <2>2. PICK b \in Nat : b = r[y]
    BY <1>5 DEF Within, Views
  <2>3. b <= n /\ b >= n
    BY <2>1, <2>2, <1>5, <1>11 DEF Within
  <2> QED
    BY <2>1, <2>2, <2>3
<1>12. /\ w[x] # 1 => i # 1
       /\ Len(h[x]) \in {1, 2} => i = 1 \/ i = Len(h[x])
  <2>1. PICK n \in Nat : n = Len(h[x])
    BY <1>3 DEF Recorded, Histories
  <2>2. n \in {1, 2} => i = 1 \/ i = n
    <3>1. i \in 1 .. n
      BY <1>5, <2>1
    <3> QED
      BY ONLY <3>1, n \in Nat
  <2>3. w[x] # 1 => i # 1
    BY <1>5, <1>10 DEF Onward
  <2> QED
    BY <2>1, <2>2, <2>3
<1> QED
  BY <1>1, <1>2, <1>5, <1>8, <1>9, <1>10, <1>11, <1>12 DEF Typed, Viewed

\* What locking does to them: the thread sees what the lock's last holder left.
LEMMA Joined ==
  ASSUME Typed, NEW t \in Threads, NEW w, w = facetView \/ w = clocaleView,
         view' = [view EXCEPT ![t] = Join(@, w)]
  PROVE  /\ Viewed(history, view', facetView, clocaleView)
         /\ Onward(history, view[t], view'[t]) /\ Onward(history, w, view'[t])
         /\ \A u \in Threads \ {t} : view'[u] = view[u]
<1>1. PICK h : h = history
  OBVIOUS
<1>2. PICK v : v = view[t]
  OBVIOUS
<1>3. Recorded(h) /\ Within(h, v) /\ Within(h, w)
  BY <1>1, <1>2 DEF Typed, Viewed
<1>4. PICK r : r = Join(v, w)
  OBVIOUS
<1>5. Within(h, r) /\ \A x \in Locs : r[x] >= v[x] /\ r[x] >= w[x]
  BY <1>3, <1>4, JoinSees
<1>6. Onward(h, v, r) /\ Onward(h, w, r)
  BY <1>3, <1>5, Moves
<1>7. view \in [Threads -> Views] /\ r \in Views /\ view' = [view EXCEPT ![t] = r]
  BY <1>2, <1>4, <1>5 DEF Typed, Viewed, Within
<1>8. /\ view' \in [Threads -> Views] /\ view'[t] = r
      /\ \A u \in Threads \ {t} : view'[u] = view[u]
  BY <1>7
<1> QED
  BY <1>1, <1>2, <1>5, <1>6, <1>8 DEF Typed, Viewed

\* What a store does to the history and to the views.
LEMMA PutSees ==
  ASSUME Typed, NEW t \in Threads, NEW x \in Locs, NEW v \in Sizes \cup Pointers,
         NEW released \in BOOLEAN, Put(t, x, v, released),
         NEW n, n = Len(history[x]) + 1
  PROVE  /\ Viewed(history', view', facetView, clocaleView) /\ Within(history', view'[t])
         /\ Len(history'[x]) = n /\ history'[x][n].val = v
         /\ \A i \in 1 .. Len(history[x]) : history'[x][i] = history[x][i]
         /\ released => \A y \in Locs \ {x} : history'[x][n].view[y] = view[t][y]
         /\ \A y \in Locs \ {x} : history'[y] = history[y] /\ view'[t][y] = view[t][y]
         /\ view'[t][x] = n /\ n \in Nat /\ n # 1
         /\ \A u \in Threads \ {t} : view'[u] = view[u]
<1>1. PICK h : h = history
  OBVIOUS
<1>2. PICK w : w = view[t]
  OBVIOUS
<1>3. Recorded(h) /\ Within(h, w) /\ view \in [Threads -> Views]
  BY <1>1, <1>2 DEF Typed, Viewed
<1>4. PICK g : g = Stored(h, x, v, w, released)
  OBVIOUS
<1>5. PICK r : r = [w EXCEPT ![x] = n]
  OBVIOUS
<1>6. /\ Recorded(g) /\ Len(g[x]) = n
      /\ \A i \in 1 .. Len(h[x]) : g[x][i] = h[x][i]
      /\ g[x][n].val = v
      /\ released => \A y \in Locs \ {x} : g[x][n].view[y] = w[y]
      /\ \A y \in Locs \ {x} : g[y] = h[y]
      /\ \A u : Within(h, u) => Within(g, u)
      /\ Within(g, r)
  <2>1. Len(h[x]) + 1 = n
    BY <1>1
  <2>2. Appended(h, x, v, w, released, g)
    BY <1>3, <1>4, StoreSees
  <2> QED
    BY <2>1, <2>2, <1>5 DEF Appended
<1>7. history' = g
  BY <1>1, <1>2, <1>4 DEF Put, Entry, Stored
<1>8. view' = [view EXCEPT ![t] = r]
  BY <1>2, <1>5 DEF Put
<1>9. r \in Views /\ r[x] = n /\ \A y \in Locs \ {x} : r[y] = w[y]
  BY <1>3, <1>5, <1>6 DEF Within, Views
<1>10. /\ view' \in [Threads -> Views] /\ view'[t] = r
       /\ \A u \in Threads \ {t} : view'[u] = view[u]
  BY <1>3, <1>8, <1>9
<1>11. n \in Nat /\ n # 1
  BY <1>1, <1>3 DEF Recorded, Histories
<1>12. \A u \in Threads : Within(g, view'[u])
  BY <1>1, <1>6, <1>10 DEF Typed, Viewed
<1>13. Viewed(history', view', facetView, clocaleView)
  BY <1>1, <1>6, <1>7, <1>10, <1>12 DEF Typed, Viewed
<1> QED
  BY <1>1, <1>2, <1>6, <1>7, <1>9, <1>10, <1>11, <1>13

-----------------------------------------------------------------------------
(* The steps that store nothing.                                           *)

\* A thread that stores nothing leaves the others what they were.
LEMMA Looks ==
  ASSUME FInv, NEW t \in Threads, Typed',
         history' = history, facet' = facet, made' = made,
         \A u \in Threads \ {t} :
            /\ view'[u] = view[u] /\ pc'[u] = pc[u]
            /\ call'[u] = call[u] /\ ptr'[u] = ptr[u]
            /\ facetLock' = u <=> facetLock = u
            /\ clocaleLock' = u <=> clocaleLock = u,
         HeldBy(t)', PtrOf(t)', pc[t] # "built",
         facet.database /\ facet.pid =>
            /\ MappingOf(t)'
            /\ facetLock' = NoThread =>
                  \/ facetLock = NoThread /\ facetView' = facetView
                  \/ /\ Len(history["size"]) = Len(history["data"])
                     /\ facetView'["size"] = Len(history["size"]),
         ~(facet.database /\ facet.pid) =>
            /\ BuildingOf(t)'
            /\ clocaleLock' = NoThread =>
                  \/ clocaleLock = NoThread /\ clocaleView' = clocaleView
                  \/ /\ clocaleView'["data"] = Len(history["data"])
                     /\ Len(history["data"]) = 2 => clocaleView'["size"] # 1
  PROVE  FInv'
<1>1. Held'
  <2>1. ASSUME NEW u \in Threads \ {t} PROVE HeldBy(u)'
    BY DEF FInv, Held, HeldBy
  <2> QED
    BY <2>1 DEF Held
<1>2. Once'
  BY DEF FInv, Once
<1>3. Ptrs'
  <2>1. ASSUME NEW u \in Threads \ {t} PROVE PtrOf(u)'
    BY DEF FInv, Ptrs, PtrOf
  <2> QED
    BY <2>1 DEF Ptrs
<1>4. Mapping'
  <2> SUFFICES ASSUME facet.database, facet.pid PROVE Mapping'
    BY DEF Mapping
  <2>1. ASSUME NEW u \in Threads \ {t} PROVE MappingOf(u)'
    BY DEF FInv, Mapping, MappingOf
  <2>2. facetLock' = NoThread => /\ Len(history["size"]) = Len(history["data"])
                                 /\ facetView'["size"] = Len(history["size"])
    BY DEF FInv, Mapping
  <2> QED
    BY <2>1, <2>2 DEF FInv, Mapping
<1>5. Building'
  <2> SUFFICES ASSUME ~(facet.database /\ facet.pid) PROVE Building'
    BY DEF Building
  <2>1. ASSUME NEW u \in Threads \ {t} PROVE BuildingOf(u)'
    BY DEF FInv, Building, BuildingOf
  <2>2. clocaleLock' = NoThread => /\ clocaleView'["data"] = Len(history["data"])
                                   /\ Len(history["data"]) = 2 => clocaleView'["size"] # 1
    BY DEF FInv, Building
  <2>3. (\A u \in Threads : pc'[u] # "built") => \A u \in Threads : pc[u] # "built"
    OBVIOUS
  <2> QED
    BY <2>1, <2>2, <2>3 DEF FInv, Building
<1> QED
  BY <1>1, <1>2, <1>3, <1>4, <1>5 DEF FInv

LEMMA LoadSizeInv ==
  ASSUME FInv, NEW t \in Threads, NEW i, LoadSize(t, i)
  PROVE  FInv'
<1> USE DEF FInv
<1>1. /\ i \in 1 .. Len(history["size"]) /\ (view[t]["size"] # 1 => i # 1)
      /\ Len(history["size"]) \in {1, 2} => i = 1 \/ i = Len(history["size"])
      /\ Viewed(history, view', facetView, clocaleView)
      /\ view'[t]["size"] = i
      /\ Onward(history, view[t], view'[t])
      /\ history["size"][i].view["data"] = Len(history["data"]) =>
            view'[t]["data"] = Len(history["data"])
      /\ \A u \in Threads \ {t} : view'[u] = view[u]
  BY Acquired DEF LoadSize, Locs
<1>2. /\ view[t]["data"] = Len(history["data"]) => view'[t]["data"] = Len(history["data"])
      /\ view[t]["content"] = Len(history["content"]) =>
            view'[t]["content"] = Len(history["content"])
  BY <1>1 DEF Onward, Locs
<1>3. /\ pc[t] = "size" /\ facetLock # t
      /\ history' = history /\ facet' = facet /\ facetLock' = facetLock
      /\ clocaleLock' = clocaleLock /\ facetView' = facetView
      /\ clocaleView' = clocaleView /\ call' = call /\ ptr' = ptr
      /\ made' = made /\ throws' = throws
      /\ pc' \in [Threads -> Labels]
      /\ pc'[t] = IF i # 1 THEN "data" ELSE "size_again"
      /\ \A u \in Threads \ {t} : pc'[u] = pc[u]
  BY <1>1 DEF LoadSize, At, Goto, locks, Typed, Labels, Held, HeldBy, Once
<1>4. Typed'
  BY <1>1, <1>3 DEF Typed
<1>5. HeldBy(t)'
  BY <1>3 DEF Held, HeldBy
<1>6. PtrOf(t)'
  BY <1>2, <1>3, FacetDataAssumption DEF Ptrs, PtrOf, Once
<1>7. ASSUME facet.database, facet.pid PROVE MappingOf(t)'
  <2>1. i # 1 => view'[t]["data"] = 2
    BY <1>1, <1>7 DEF Mapping
  <2> QED
    BY <1>3, <1>7, <2>1 DEF Mapping, MappingOf
<1>8. ASSUME ~(facet.database /\ facet.pid) PROVE BuildingOf(t)'
  BY <1>1, <1>2, <1>3, <1>8 DEF Building, BuildingOf, Once
<1> QED
  BY <1>1, <1>3, <1>4, <1>5, <1>6, <1>7, <1>8, Looks

LEMMA LoadSizeAgainInv ==
  ASSUME FInv, NEW t \in Threads, NEW i, LoadSizeAgain(t, i)
  PROVE  FInv'
<1> USE DEF FInv
<1>1. /\ i \in 1 .. Len(history["size"]) /\ (view[t]["size"] # 1 => i # 1)
      /\ Len(history["size"]) \in {1, 2} => i = 1 \/ i = Len(history["size"])
      /\ Viewed(history, view', facetView, clocaleView)
      /\ view'[t]["size"] = i
      /\ Onward(history, view[t], view'[t])
      /\ history["size"][i].view["data"] = Len(history["data"]) =>
            view'[t]["data"] = Len(history["data"])
      /\ \A u \in Threads \ {t} : view'[u] = view[u]
  BY Acquired DEF LoadSizeAgain, Locs
<1>2. /\ view[t]["data"] = Len(history["data"]) => view'[t]["data"] = Len(history["data"])
      /\ view[t]["content"] = Len(history["content"]) =>
            view'[t]["content"] = Len(history["content"])
  BY <1>1 DEF Onward, Locs
<1>3. /\ pc[t] = "size_again" /\ facetLock # t
      /\ history' = history /\ facet' = facet /\ facetLock' = facetLock
      /\ clocaleLock' = clocaleLock /\ facetView' = facetView
      /\ clocaleView' = clocaleView /\ call' = call /\ ptr' = ptr
      /\ made' = made /\ throws' = throws
      /\ pc' \in [Threads -> Labels]
      /\ pc'[t] = IF i # 1 \/ ~facet.pid THEN "data" ELSE "lock"
      /\ \A u \in Threads \ {t} : pc'[u] = pc[u]
  BY <1>1 DEF LoadSizeAgain, At, Goto, locks, Typed, Labels, Held, HeldBy, Once
<1>4. Typed'
  BY <1>1, <1>3 DEF Typed
<1>5. HeldBy(t)'
  BY <1>3 DEF Held, HeldBy
<1>6. PtrOf(t)'
  BY <1>2, <1>3, FacetDataAssumption DEF Ptrs, PtrOf, Once
<1>7. ASSUME facet.database, facet.pid PROVE MappingOf(t)'
  <2>1. i # 1 => view'[t]["data"] = 2
    BY <1>1, <1>7 DEF Mapping
  <2> QED
    BY <1>3, <1>7, <2>1 DEF Mapping, MappingOf
<1>8. ASSUME ~(facet.database /\ facet.pid) PROVE BuildingOf(t)'
  BY <1>1, <1>2, <1>3, <1>8 DEF Building, BuildingOf, Once
<1> QED
  BY <1>1, <1>3, <1>4, <1>5, <1>6, <1>7, <1>8, Looks

LEMMA LoadSizeLockedInv ==
  ASSUME FInv, NEW t \in Threads, NEW i, LoadSizeLocked(t, i)
  PROVE  FInv'
<1> USE DEF FInv
<1>1. /\ i \in 1 .. Len(history["size"]) /\ (view[t]["size"] # 1 => i # 1)
      /\ Len(history["size"]) \in {1, 2} => i = 1 \/ i = Len(history["size"])
      /\ Viewed(history, view', facetView, clocaleView)
      /\ view'[t]["size"] = i
      /\ Onward(history, view[t], view'[t])
      /\ history["size"][i].view["data"] = Len(history["data"]) =>
            view'[t]["data"] = Len(history["data"])
      /\ \A u \in Threads \ {t} : view'[u] = view[u]
  BY Acquired DEF LoadSizeLocked, Locs
<1>2. /\ view[t]["data"] = Len(history["data"]) => view'[t]["data"] = Len(history["data"])
      /\ view[t]["size"] = Len(history["size"]) => i = Len(history["size"])
      /\ view[t]["content"] = Len(history["content"]) =>
            view'[t]["content"] = Len(history["content"])
  BY <1>1 DEF Onward, Locs
<1>3. /\ pc[t] = "size_locked" /\ facetLock = t
      /\ history' = history /\ facet' = facet /\ facetLock' = facetLock
      /\ clocaleLock' = clocaleLock /\ facetView' = facetView
      /\ clocaleView' = clocaleView /\ call' = call /\ ptr' = ptr
      /\ made' = made /\ throws' = throws
      /\ pc' \in [Threads -> Labels]
      /\ pc'[t] = IF i # 1 THEN "data" ELSE "map"
      /\ \A u \in Threads \ {t} : pc'[u] = pc[u]
  BY <1>1 DEF LoadSizeLocked, At, Goto, locks, Typed, Labels, Held, HeldBy, Once
<1>4. Typed'
  BY <1>1, <1>3 DEF Typed
<1>5. HeldBy(t)'
  BY <1>3 DEF Held, HeldBy
<1>6. PtrOf(t)'
  BY <1>2, <1>3, FacetDataAssumption DEF Ptrs, PtrOf, Once
<1>7. ASSUME facet.database, facet.pid PROVE MappingOf(t)'
  <2>1. i # 1 => view'[t]["data"] = 2
    BY <1>1, <1>7 DEF Mapping
  <2>2. i = Len(history["size"]) /\ Len(history["size"]) = Len(history["data"])
    BY <1>2, <1>3, <1>7 DEF Mapping, MappingOf
  <2> QED
    BY <1>1, <1>3, <1>7, <2>1, <2>2 DEF Mapping, MappingOf
<1>8. ASSUME ~(facet.database /\ facet.pid) PROVE BuildingOf(t)'
  BY <1>1, <1>2, <1>3, <1>8 DEF Building, BuildingOf, Once
<1>9. facetLock' # NoThread
  BY <1>3, FacetDataAssumption
<1> QED
  BY <1>1, <1>3, <1>4, <1>5, <1>6, <1>7, <1>8, <1>9, Looks

LEMMA CallInv ==
  ASSUME FInv, NEW t \in Threads, Call(t)
  PROVE  FInv'
<1> USE DEF FInv
<1>1. /\ pc[t] = "idle" /\ facetLock # t
      /\ history' = history /\ facet' = facet /\ view' = view /\ facetLock' = facetLock
      /\ clocaleLock' = clocaleLock /\ facetView' = facetView
      /\ clocaleView' = clocaleView /\ ptr' = ptr /\ made' = made /\ throws' = throws
      /\ pc' \in [Threads -> Labels] /\ call' \in [Threads -> Calls]
      /\ pc'[t] = "size" /\ call'[t] = "first"
      /\ \A u \in Threads \ {t} : pc'[u] = pc[u] /\ call'[u] = call[u]
  BY DEF Call, At, Goto, locks, Typed, Labels, Calls, Held, HeldBy
<1>2. Typed'
  BY <1>1 DEF Typed
<1>3. HeldBy(t)'
  BY <1>1 DEF HeldBy
<1>4. PtrOf(t)'
  BY <1>1 DEF Ptrs, PtrOf
<1>5. ASSUME facet.database, facet.pid PROVE MappingOf(t)'
  BY <1>1 DEF MappingOf
<1>6. ASSUME ~(facet.database /\ facet.pid) PROVE BuildingOf(t)'
  BY <1>1, <1>6 DEF Building, BuildingOf
<1> QED
  BY <1>1, <1>2, <1>3, <1>4, <1>5, <1>6, Looks

LEMMA LockFacetInv ==
  ASSUME FInv, NEW t \in Threads, LockFacet(t)
  PROVE  FInv'
<1> USE DEF FInv
<1>1. /\ pc[t] = "lock" /\ facetLock = NoThread /\ facetLock' = t
      /\ view' = [view EXCEPT ![t] = Join(@, facetView)]
      /\ history' = history /\ facet' = facet
      /\ clocaleLock' = clocaleLock /\ facetView' = facetView
      /\ clocaleView' = clocaleView /\ call' = call /\ ptr' = ptr
      /\ made' = made /\ throws' = throws
      /\ pc' \in [Threads -> Labels] /\ pc'[t] = "size_locked"
      /\ \A u \in Threads \ {t} : pc'[u] = pc[u]
  BY DEF LockFacet, At, Goto, Typed, Labels
<1>2. /\ Viewed(history, view', facetView, clocaleView)
      /\ Onward(history, view[t], view'[t]) /\ Onward(history, facetView, view'[t])
      /\ \A u \in Threads \ {t} : view'[u] = view[u]
  BY <1>1, Joined
<1>3. /\ view[t]["data"] = Len(history["data"]) => view'[t]["data"] = Len(history["data"])
      /\ view[t]["size"] # 1 => view'[t]["size"] # 1
      /\ facetView["size"] = Len(history["size"]) => view'[t]["size"] = Len(history["size"])
      /\ view[t]["content"] = Len(history["content"]) =>
            view'[t]["content"] = Len(history["content"])
  BY <1>2 DEF Onward, Locs
<1>4. Typed'
  BY <1>1, <1>2 DEF Typed
<1>5. HeldBy(t)'
  BY <1>1 DEF Held, HeldBy
<1>6. PtrOf(t)'
  BY <1>1, <1>3, FacetDataAssumption DEF Ptrs, PtrOf, Once
<1>7. ASSUME facet.database, facet.pid PROVE MappingOf(t)'
  BY <1>1, <1>3, <1>7 DEF Mapping, MappingOf
<1>8. ASSUME ~(facet.database /\ facet.pid) PROVE BuildingOf(t)'
  BY <1>1, <1>3, <1>8 DEF Building, BuildingOf
<1>9. facetLock' # NoThread /\ \A u \in Threads : facetLock # u
  BY <1>1, FacetDataAssumption
<1> QED
  BY <1>1, <1>2, <1>4, <1>5, <1>6, <1>7, <1>8, <1>9, Looks

LEMMA LoadDataInv ==
  ASSUME FInv, NEW t \in Threads, NEW i, LoadData(t, i)
  PROVE  FInv'
<1> USE DEF FInv
<1>1. /\ i \in 1 .. Len(history["data"]) /\ (view[t]["data"] # 1 => i # 1)
      /\ i = 1 \/ i = Len(history["data"])
      /\ Viewed(history, view', facetView, clocaleView) /\ Within(history, view'[t])
      /\ view'[t]["data"] = i
      /\ Onward(history, view[t], view'[t])
      /\ history["data"][i].view["content"] = Len(history["content"]) =>
            view'[t]["content"] = Len(history["content"])
      /\ \A u \in Threads \ {t} : view'[u] = view[u]
  BY Acquired DEF LoadData, Locs, Once
<1>2. /\ view[t]["data"] = Len(history["data"]) => i = Len(history["data"])
      /\ view[t]["size"] # 1 => view'[t]["size"] # 1
      /\ view[t]["size"] = Len(history["size"]) => view'[t]["size"] = Len(history["size"])
  BY <1>1 DEF Onward, Locs
<1>3. PICK p : p = history["data"][i].val
  OBVIOUS
<1>4. /\ p \in Pointers /\ (p = Null <=> i = 1)
      /\ p # Null => Len(history["data"]) = 2 /\ p = history["data"][2].val
      /\ p \in Threads => view'[t]["content"] = 2
  BY <1>1, <1>3, FacetDataAssumption DEF Once, Pointers
<1>5. /\ pc[t] = "data"
      /\ history' = history /\ facet' = facet
      /\ clocaleLock' = clocaleLock /\ clocaleView' = clocaleView
      /\ call' = call /\ made' = made /\ throws' = throws
      /\ pc' \in [Threads -> Labels] /\ pc'[t] = "returned"
      /\ ptr' \in [Threads -> Pointers] /\ ptr'[t] = p
      /\ \A u \in Threads \ {t} : pc'[u] = pc[u] /\ ptr'[u] = ptr[u]
      /\ facetLock = t => facetLock' = NoThread /\ facetView' = view'[t]
      /\ facetLock # t => facetLock' = facetLock /\ facetView' = facetView
  BY <1>3, <1>4 DEF LoadData, At, Goto, Typed, Labels
<1>6. facetLock' # t /\ \A u \in Threads \ {t} : facetLock' = u <=> facetLock = u
  BY <1>5, FacetDataAssumption
<1>7. Viewed(history, view', facetView', clocaleView)
  BY <1>1, <1>5 DEF Viewed
<1>8. Typed'
  BY <1>5, <1>7 DEF Typed
<1>9. HeldBy(t)'
  BY <1>5, <1>6 DEF Held, HeldBy
<1>10. PtrOf(t)'
  BY <1>4, <1>5 DEF PtrOf
<1>11. ASSUME facet.database, facet.pid
       PROVE  /\ MappingOf(t)'
              /\ facetLock' = NoThread =>
                    \/ facetLock = NoThread /\ facetView' = facetView
                    \/ /\ Len(history["size"]) = Len(history["data"])
                       /\ facetView'["size"] = Len(history["size"])
  <2>1. view[t]["data"] = 2 /\ i # 1
    BY <1>1, <1>5, <1>11 DEF Mapping, MappingOf
  <2>2. MappingOf(t)'
    BY <2>1, <1>4, <1>5, <1>6, <1>11 DEF Mapping, MappingOf
  <2>3. facetLock = t => /\ Len(history["size"]) = Len(history["data"])
                         /\ facetView'["size"] = Len(history["size"])
    BY <1>2, <1>5, <1>11 DEF Mapping, MappingOf
  <2> QED
    BY <2>2, <2>3, <1>5
<1>12. ASSUME ~(facet.database /\ facet.pid) PROVE BuildingOf(t)'
  BY <1>1, <1>2, <1>4, <1>5, <1>12 DEF Building, BuildingOf, Once
<1> QED
  BY <1>1, <1>5, <1>6, <1>8, <1>9, <1>10, <1>11, <1>12, Looks

LEMMA ReturnedInv ==
  ASSUME FInv, NEW t \in Threads, Returned(t)
  PROVE  FInv'
<1> USE DEF FInv
<1>1. /\ pc[t] = "returned" /\ facetLock # t
      /\ history' = history /\ facet' = facet /\ view' = view /\ facetLock' = facetLock
      /\ clocaleLock' = clocaleLock /\ facetView' = facetView
      /\ clocaleView' = clocaleView /\ ptr' = ptr /\ made' = made /\ throws' = throws
      /\ pc' \in [Threads -> Labels] /\ call' \in [Threads -> Calls]
      /\ \/ ptr[t] # Null /\ call[t] = "second" /\ pc'[t] = "size" /\ call'[t] = "last"
         \/ ptr[t] # Null /\ call[t] # "second" /\ pc'[t] = "done" /\ call'[t] = call[t]
         \/ ptr[t] = Null /\ call[t] = "second" /\ pc'[t] = "build" /\ call'[t] = call[t]
         \/ ptr[t] = Null /\ call[t] # "second" /\ pc'[t] = "clocale" /\ call'[t] = call[t]
      /\ \A u \in Threads \ {t} : pc'[u] = pc[u] /\ call'[u] = call[u]
  BY DEF Returned, At, Goto, locks, Typed, Labels, Calls, Held, HeldBy
<1>2. Typed'
  BY <1>1 DEF Typed
<1>3. HeldBy(t)'
  BY <1>1 DEF Held, HeldBy
<1>4. PtrOf(t)'
  BY <1>1 DEF Ptrs, PtrOf
<1>5. ASSUME facet.database, facet.pid PROVE MappingOf(t)'
  BY <1>1, <1>5 DEF Mapping, MappingOf
<1>6. ASSUME ~(facet.database /\ facet.pid) PROVE BuildingOf(t)'
  BY <1>1, <1>6 DEF Building, BuildingOf
<1> QED
  BY <1>1, <1>2, <1>3, <1>4, <1>5, <1>6, Looks

LEMMA LockCLocaleInv ==
  ASSUME FInv, NEW t \in Threads, LockCLocale(t)
  PROVE  FInv'
<1> USE DEF FInv
<1>1. /\ pc[t] = "clocale" /\ clocaleLock = NoThread /\ clocaleLock' = t
      /\ view' = [view EXCEPT ![t] = Join(@, clocaleView)]
      /\ history' = history /\ facet' = facet
      /\ facetLock' = facetLock /\ facetView' = facetView /\ facetLock # t
      /\ clocaleView' = clocaleView /\ ptr' = ptr
      /\ made' = made /\ throws' = throws
      /\ pc' \in [Threads -> Labels] /\ pc'[t] = "size"
      /\ call' \in [Threads -> Calls] /\ call'[t] = "second"
      /\ \A u \in Threads \ {t} : pc'[u] = pc[u] /\ call'[u] = call[u]
  BY DEF LockCLocale, At, Goto, Typed, Labels, Calls, Held, HeldBy
<1>2. /\ Viewed(history, view', facetView, clocaleView)
      /\ Onward(history, view[t], view'[t]) /\ Onward(history, clocaleView, view'[t])
      /\ \A u \in Threads \ {t} : view'[u] = view[u]
  BY <1>1, Joined
<1>3. /\ clocaleView["data"] = Len(history["data"]) => view'[t]["data"] = Len(history["data"])
      /\ clocaleView["size"] # 1 => view'[t]["size"] # 1
      /\ view[t]["content"] = Len(history["content"]) =>
            view'[t]["content"] = Len(history["content"])
  BY <1>2 DEF Onward, Locs
<1>4. Typed'
  BY <1>1, <1>2 DEF Typed
<1>5. HeldBy(t)'
  BY <1>1 DEF HeldBy
<1>6. PtrOf(t)'
  BY <1>1, <1>3, FacetDataAssumption DEF Ptrs, PtrOf, Once
<1>7. ~(facet.database /\ facet.pid)
  BY <1>1 DEF Mapping, MappingOf
<1>8. BuildingOf(t)'
  BY <1>1, <1>3, <1>7 DEF Building, BuildingOf
<1>9. clocaleLock' # NoThread /\ \A u \in Threads : clocaleLock # u
  BY <1>1, FacetDataAssumption
<1> QED
  BY <1>1, <1>2, <1>4, <1>5, <1>6, <1>7, <1>8, <1>9, Looks

\* A builder that throws, and a call that ends, leave the lock of the C locale.
LEMMA LeaveInv ==
  ASSUME FInv, NEW t \in Threads, BuildThrow(t) \/ Done(t)
  PROVE  FInv'
<1> USE DEF FInv
<1>1. /\ pc[t] \in {"build", "done"} /\ facetLock # t
      /\ history' = history /\ facet' = facet /\ view' = view /\ facetLock' = facetLock
      /\ facetView' = facetView /\ call' = call /\ ptr' = ptr /\ made' = made
      /\ throws' \in 0 .. MaxThrows
      /\ pc' \in [Threads -> Labels] /\ pc'[t] = "idle"
      /\ \A u \in Threads \ {t} : pc'[u] = pc[u]
  <2>1. /\ pc[t] \in {"build", "done"}
        /\ history' = history /\ facet' = facet /\ view' = view /\ facetLock' = facetLock
        /\ facetView' = facetView /\ call' = call /\ ptr' = ptr /\ made' = made
        /\ pc' = [pc EXCEPT ![t] = "idle"]
    BY DEF BuildThrow, Done, At, Goto
  <2>2. throws' \in 0 .. MaxThrows
    BY FacetDataAssumption DEF BuildThrow, Done, Typed
  <2> QED
    BY <2>1, <2>2 DEF Typed, Labels, Held, HeldBy
<1>2. \/ clocaleLock = t /\ clocaleLock' = NoThread /\ clocaleView' = view[t]
      \/ clocaleLock # t /\ clocaleLock' = clocaleLock /\ clocaleView' = clocaleView
  BY DEF BuildThrow, Done, UnlockCLocale, At, Held, HeldBy
<1>3. clocaleLock' # t /\ \A u \in Threads \ {t} : clocaleLock' = u <=> clocaleLock = u
  BY <1>2, FacetDataAssumption
<1>4. Viewed(history, view, facetView, clocaleView')
  BY <1>2 DEF Typed, Viewed
<1>5. Typed'
  BY <1>1, <1>2, <1>4 DEF Typed
<1>6. HeldBy(t)'
  BY <1>1 DEF HeldBy
<1>7. PtrOf(t)'
  BY <1>1 DEF Ptrs, PtrOf
<1>8. ASSUME facet.database, facet.pid PROVE MappingOf(t)'
  BY <1>1, <1>8 DEF Mapping, MappingOf
<1>9. ASSUME ~(facet.database /\ facet.pid)
      PROVE  /\ BuildingOf(t)'
             /\ clocaleLock' = NoThread =>
                   \/ clocaleLock = NoThread /\ clocaleView' = clocaleView
                   \/ /\ clocaleView'["data"] = Len(history["data"])
                      /\ Len(history["data"]) = 2 => clocaleView'["size"] # 1
  BY <1>1, <1>2, <1>3, <1>9 DEF Building, BuildingOf
<1> QED
  BY <1>1, <1>3, <1>5, <1>6, <1>7, <1>8, <1>9, Looks

-----------------------------------------------------------------------------
(* The steps that store.                                                   *)

\* With no database there is nothing to map.
LEMMA MapNothingInv ==
  ASSUME FInv, NEW t \in Threads, MapData(t), ~facet.database
  PROVE  FInv'
<1> USE DEF FInv
<1>1. /\ pc[t] = "map" /\ facetLock = t
      /\ history' = history /\ facet' = facet /\ view' = view /\ facetLock' = facetLock
      /\ clocaleLock' = clocaleLock /\ facetView' = facetView
      /\ clocaleView' = clocaleView /\ call' = call /\ ptr' = ptr
      /\ made' = made /\ throws' = throws
      /\ pc' \in [Threads -> Labels] /\ pc'[t] = "map_size"
      /\ \A u \in Threads \ {t} : pc'[u] = pc[u]
  BY DEF MapData, At, Goto, locks, Typed, Labels, Held, HeldBy
<1>2. Typed'
  BY <1>1 DEF Typed
<1>3. HeldBy(t)'
  BY <1>1 DEF Held, HeldBy
<1>4. PtrOf(t)'
  BY <1>1 DEF Ptrs, PtrOf
<1>5. BuildingOf(t)'
  BY <1>1 DEF Building, BuildingOf
<1> QED
  BY <1>1, <1>2, <1>3, <1>4, <1>5, Looks

LEMMA MapDataInv ==
  ASSUME FInv, NEW t \in Threads, MapData(t), facet.database
  PROVE  FInv'
<1> USE DEF FInv
<1>1. /\ pc[t] = "map" /\ facetLock = t /\ facet.pid
      /\ Put(t, "data", Mapped, FALSE)
      /\ facet' = facet /\ facetLock' = facetLock
      /\ clocaleLock' = clocaleLock /\ facetView' = facetView
      /\ clocaleView' = clocaleView /\ call' = call /\ ptr' = ptr
      /\ made' = made /\ throws' = throws
      /\ pc' \in [Threads -> Labels] /\ pc'[t] = "map_size"
      /\ \A u \in Threads \ {t} : pc'[u] = pc[u]
  BY DEF MapData, At, Goto, locks, Typed, Labels, Held, HeldBy
<1>2. Len(history["size"]) = 1 /\ Len(history["data"]) = 1
  BY <1>1 DEF Mapping, MappingOf
<1>3. /\ Viewed(history', view', facetView, clocaleView)
      /\ Len(history'["data"]) = 2 /\ history'["data"][2].val = Mapped
      /\ history'["data"][1] = history["data"][1]
      /\ history'["size"] = history["size"] /\ history'["content"] = history["content"]
      /\ view'[t]["data"] = 2
      /\ \A u \in Threads \ {t} : view'[u] = view[u]
  <2>1. PICK n : n = Len(history["data"]) + 1
    OBVIOUS
  <2>2. n = 2
    BY <1>2, <2>1
  <2>3. "data" \in Locs /\ Mapped \in Sizes \cup Pointers
    BY DEF Locs, Pointers
  <2>4. /\ Viewed(history', view', facetView, clocaleView)
        /\ Len(history'["data"]) = n /\ history'["data"][n].val = Mapped
        /\ \A i \in 1 .. Len(history["data"]) : history'["data"][i] = history["data"][i]
        /\ \A y \in Locs \ {"data"} : history'[y] = history[y]
        /\ view'[t]["data"] = n
        /\ \A u \in Threads \ {t} : view'[u] = view[u]
    <3>1. PICK b \in BOOLEAN : b = FALSE
      OBVIOUS
    <3>2. Put(t, "data", Mapped, b)
      BY <1>1, <3>1
    <3> QED
      BY ONLY Typed, t \in Threads, <2>1, <2>3, <3>2, b \in BOOLEAN, PutSees
  <2>5. history'["data"][1] = history["data"][1]
    BY <1>2, <2>4
  <2> QED
    BY <2>2, <2>4, <2>5 DEF Locs
<1>4. Mapped \in Pointers \ {Null} /\ Mapped \notin Threads /\ NoThread \notin Threads
  BY FacetDataAssumption DEF Pointers
<1>5. Typed'
  BY <1>1, <1>3 DEF Typed
<1>6. Held'
  BY <1>1 DEF Held, HeldBy
<1>7. Once'
  BY <1>3, <1>4 DEF Once
<1>8. Ptrs'
  <2>1. \A u \in Threads : ptr[u] = Null
    BY <1>2 DEF Ptrs, PtrOf
  <2>2. Null \notin Threads
    BY FacetDataAssumption
  <2> QED
    BY <1>1, <2>1, <2>2 DEF Ptrs, PtrOf
<1>9. Mapping'
  <2>1. MappingOf(t)'
    BY <1>1, <1>2, <1>3 DEF Mapping, MappingOf
  <2>2. ASSUME NEW u \in Threads \ {t} PROVE MappingOf(u)'
    BY <1>1, <1>2, <1>3 DEF Mapping, MappingOf, Held, HeldBy
  <2>3. facetLock' # NoThread
    BY <1>1, <1>4
  <2> QED
    BY <1>1, <1>2, <1>3, <2>1, <2>2, <2>3 DEF Mapping
<1>10. Building'
  BY <1>1 DEF Building
<1> QED
  BY <1>5, <1>6, <1>7, <1>8, <1>9, <1>10

LEMMA MapSizeInv ==
  ASSUME FInv, NEW t \in Threads, MapSize(t)
  PROVE  FInv'
<1> USE DEF FInv
<1>1. PICK z : z = IF facet.database THEN "size" ELSE "none"
  OBVIOUS
<1>2. PICK p : p = IF facet.database THEN Mapped ELSE Null
  OBVIOUS
<1>3. PICK n : n = Len(history["size"]) + 1
  OBVIOUS
<1>4. z \in Sizes /\ z # "unset" /\ p \in Pointers
  BY <1>1, <1>2 DEF Sizes, Pointers
<1>5. /\ pc[t] = "map_size" /\ facetLock = t /\ facet.pid
      /\ Put(t, "size", z, TRUE)
      /\ facet' = facet /\ facetLock' = NoThread /\ facetView' = view'[t]
      /\ clocaleLock' = clocaleLock
      /\ clocaleView' = clocaleView /\ call' = call
      /\ made' = made /\ throws' = throws
      /\ pc' \in [Threads -> Labels] /\ pc'[t] = "returned"
      /\ ptr' \in [Threads -> Pointers] /\ ptr'[t] = p
      /\ \A u \in Threads \ {t} : pc'[u] = pc[u] /\ ptr'[u] = ptr[u]
  BY <1>1, <1>2, <1>4 DEF MapSize, At, Goto, Typed, Labels, Held, HeldBy
<1>6. /\ Viewed(history', view', facetView, clocaleView) /\ Within(history', view'[t])
      /\ Len(history'["size"]) = n /\ history'["size"][n].val = z
      /\ \A i \in 1 .. Len(history["size"]) : history'["size"][i] = history["size"][i]
      /\ history'["size"][n].view["data"] = view[t]["data"]
      /\ history'["data"] = history["data"] /\ history'["content"] = history["content"]
      /\ view'[t]["data"] = view[t]["data"] /\ view'[t]["content"] = view[t]["content"]
      /\ view'[t]["size"] = n /\ n # 1 /\ n \in Nat
      /\ \A u \in Threads \ {t} : view'[u] = view[u]
  <2>1. "size" \in Locs /\ z \in Sizes \cup Pointers /\ TRUE \in BOOLEAN
    BY <1>4 DEF Locs
  <2>2. /\ Viewed(history', view', facetView, clocaleView) /\ Within(history', view'[t])
        /\ Len(history'["size"]) = n /\ history'["size"][n].val = z
        /\ \A i \in 1 .. Len(history["size"]) : history'["size"][i] = history["size"][i]
        /\ \A y \in Locs \ {"size"} : history'["size"][n].view[y] = view[t][y]
        /\ \A y \in Locs \ {"size"} : history'[y] = history[y] /\ view'[t][y] = view[t][y]
        /\ view'[t]["size"] = n /\ n \in Nat /\ n # 1
        /\ \A u \in Threads \ {t} : view'[u] = view[u]
    <3>1. PICK b \in BOOLEAN : b = TRUE
      OBVIOUS
    <3>2. Put(t, "size", z, b)
      BY <1>5, <3>1
    <3>3. /\ Viewed(history', view', facetView, clocaleView) /\ Within(history', view'[t])
          /\ Len(history'["size"]) = n /\ history'["size"][n].val = z
          /\ \A i \in 1 .. Len(history["size"]) : history'["size"][i] = history["size"][i]
          /\ b => \A y \in Locs \ {"size"} : history'["size"][n].view[y] = view[t][y]
          /\ \A y \in Locs \ {"size"} : history'[y] = history[y] /\ view'[t][y] = view[t][y]
          /\ view'[t]["size"] = n /\ n \in Nat /\ n # 1
          /\ \A u \in Threads \ {t} : view'[u] = view[u]
      BY ONLY Typed, t \in Threads, <1>3, <2>1, <3>2, b \in BOOLEAN, PutSees
    <3> QED
      BY <3>1, <3>3
  <2> QED
    BY <2>2 DEF Locs
<1>7. facetLock' # t /\ \A u \in Threads \ {t} : facetLock' # u /\ facetLock # u
  BY <1>5, FacetDataAssumption
<1>8. Typed'
  <2>1. Viewed(history', view', facetView', clocaleView)
    BY <1>5, <1>6 DEF Viewed
  <2> QED
    BY <1>5, <2>1 DEF Typed
<1>9. Held'
  <2>1. HeldBy(t)'
    BY <1>5, <1>7 DEF Held, HeldBy
  <2>2. ASSUME NEW u \in Threads \ {t} PROVE HeldBy(u)'
    BY <1>5, <1>7 DEF Held, HeldBy
  <2> QED
    BY <2>1, <2>2 DEF Held
<1>10. Once'
  <2>1. ASSUME NEW i \in 1 .. Len(history'["size"])
        PROVE  /\ history'["size"][i].val \in Sizes
               /\ history'["size"][i].val = "unset" <=> i = 1
    <3>1. PICK m \in Nat : m = Len(history["size"])
      BY Lengths
    <3>2. i \in 1 .. n /\ n = m + 1
      BY <1>3, <1>6, <2>1, <3>1
    <3>3. i \in 1 .. m \/ i = n
      BY ONLY <3>2, m \in Nat
    <3> QED
      BY <1>4, <1>6, <3>1, <3>3 DEF Once
  <2> QED
    BY <1>6, <2>1 DEF Once
<1>11. Ptrs'
  <2>1. PtrOf(t)'
    <3>1. CASE facet.database
      <4>1. Len(history["data"]) = 2 /\ history["data"][2].val = Mapped
        BY <1>5, <3>1 DEF Mapping, MappingOf
      <4>2. p = Mapped /\ Mapped \notin Threads
        BY <1>2, <3>1, FacetDataAssumption
      <4> QED
        BY <1>5, <1>6, <4>1, <4>2 DEF PtrOf
    <3>2. CASE ~facet.database
      BY <1>2, <1>5, <3>2, FacetDataAssumption DEF PtrOf
    <3> QED
      BY <3>1, <3>2
  <2>2. ASSUME NEW u \in Threads \ {t} PROVE PtrOf(u)'
    BY <1>5, <1>6 DEF Ptrs, PtrOf
  <2> QED
    BY <2>1, <2>2 DEF Ptrs
<1>12. Mapping'
  <2> SUFFICES ASSUME facet.database, facet.pid PROVE Mapping'
    BY <1>5 DEF Mapping
  <2>0. /\ Len(history["size"]) = 1 /\ Len(history["data"]) = 2 /\ view[t]["data"] = 2
    BY <1>5 DEF Mapping, MappingOf
  <2>1. n = 2
    BY <1>3, <2>0
  <2>2. MappingOf(t)'
    BY <1>2, <1>5, <1>7, FacetDataAssumption DEF Mapping, MappingOf
  <2>3. ASSUME NEW u \in Threads \ {t} PROVE MappingOf(u)'
    BY <1>5, <1>6, <1>7 DEF Mapping, MappingOf, Held, HeldBy
  <2> QED
    BY <1>5, <1>6, <2>0, <2>1, <2>2, <2>3 DEF Mapping
<1>13. Building'
  <2> SUFFICES ASSUME ~(facet.database /\ facet.pid) PROVE Building'
    BY <1>5 DEF Building
  <2>1. BuildingOf(t)'
    BY <1>5, <1>6 DEF Building, BuildingOf
  <2>2. ASSUME NEW u \in Threads \ {t} PROVE BuildingOf(u)'
    BY <1>5, <1>6 DEF Building, BuildingOf
  <2>3. (\A u \in Threads : pc'[u] # "built") => \A u \in Threads : pc[u] # "built"
    BY <1>5
  <2> QED
    BY <1>5, <1>6, <2>1, <2>2, <2>3 DEF Building
<1> QED
  BY <1>8, <1>9, <1>10, <1>11, <1>12, <1>13

LEMMA BuildInv ==
  ASSUME FInv, NEW t \in Threads, Build(t)
  PROVE  FInv'
<1> USE DEF FInv
<1>1. /\ pc[t] = "build" /\ clocaleLock = t /\ facetLock # t
      /\ Put(t, "content", t, FALSE)
      /\ made' \subseteq Threads
      /\ facet' = facet /\ facetLock' = facetLock
      /\ clocaleLock' = clocaleLock /\ facetView' = facetView
      /\ clocaleView' = clocaleView /\ call' = call /\ ptr' = ptr /\ throws' = throws
      /\ pc' \in [Threads -> Labels] /\ pc'[t] = "built"
      /\ \A u \in Threads \ {t} : pc'[u] = pc[u]
  BY DEF Build, Built, At, Goto, locks, Typed, Labels, Held, HeldBy
<1>2. ~(facet.database /\ facet.pid)
  BY <1>1 DEF Mapping, MappingOf
<1>3. Len(history["data"]) = 1 /\ Len(history["content"]) = 1
  <2>1. \A u \in Threads : pc[u] # "built"
    BY <1>1 DEF Held, HeldBy
  <2> QED
    BY <1>1, <1>2, <2>1 DEF Building, BuildingOf
<1>4. /\ Viewed(history', view', facetView, clocaleView)
      /\ Len(history'["content"]) = 2 /\ history'["content"][2].val = t
      /\ history'["size"] = history["size"] /\ history'["data"] = history["data"]
      /\ view'[t]["content"] = 2
      /\ view'[t]["data"] = view[t]["data"] /\ view'[t]["size"] = view[t]["size"]
      /\ \A u \in Threads \ {t} : view'[u] = view[u]
  <2>1. PICK n : n = Len(history["content"]) + 1
    OBVIOUS
  <2>2. n = 2
    BY <1>3, <2>1
  <2>3. "content" \in Locs /\ t \in Sizes \cup Pointers
    BY DEF Locs, Pointers
  <2>4. /\ Viewed(history', view', facetView, clocaleView)
        /\ Len(history'["content"]) = n /\ history'["content"][n].val = t
        /\ \A y \in Locs \ {"content"} : history'[y] = history[y] /\ view'[t][y] = view[t][y]
        /\ view'[t]["content"] = n
        /\ \A u \in Threads \ {t} : view'[u] = view[u]
    <3>1. PICK b \in BOOLEAN : b = FALSE
      OBVIOUS
    <3>2. Put(t, "content", t, b)
      BY <1>1, <3>1
    <3> QED
      BY ONLY Typed, t \in Threads, <2>1, <2>3, <3>2, b \in BOOLEAN, PutSees
  <2> QED
    BY <2>2, <2>4 DEF Locs
<1>5. NoThread # t /\ Null \notin Threads
  BY FacetDataAssumption
<1>6. Typed'
  BY <1>1, <1>4 DEF Typed
<1>7. Held'
  BY <1>1 DEF Held, HeldBy
<1>8. Once'
  BY <1>3, <1>4 DEF Once
<1>9. Ptrs'
  <2>1. \A u \in Threads : ptr[u] = Null
    BY <1>3 DEF Ptrs, PtrOf
  <2> QED
    BY <1>1, <1>5, <2>1 DEF Ptrs, PtrOf
<1>10. Mapping'
  BY <1>1, <1>2 DEF Mapping
<1>11. Building'
  <2>1. BuildingOf(t)'
    BY <1>1, <1>2, <1>3, <1>4 DEF Building, BuildingOf
  <2>2. ASSUME NEW u \in Threads \ {t} PROVE BuildingOf(u)'
    BY <1>1, <1>4 DEF BuildingOf
  <2> QED
    BY <1>1, <1>5, <2>1, <2>2 DEF Building
<1> QED
  BY <1>6, <1>7, <1>8, <1>9, <1>10, <1>11

LEMMA BuiltDataInv ==
  ASSUME FInv, NEW t \in Threads, BuiltData(t)
  PROVE  FInv'
<1> USE DEF FInv
<1>1. /\ pc[t] = "built" /\ clocaleLock = t /\ facetLock # t
      /\ Put(t, "data", t, TRUE)
      /\ made' = made
      /\ facet' = facet /\ facetLock' = facetLock
      /\ clocaleLock' = clocaleLock /\ facetView' = facetView
      /\ clocaleView' = clocaleView /\ call' = call /\ ptr' = ptr /\ throws' = throws
      /\ pc' \in [Threads -> Labels] /\ pc'[t] = "built_size"
      /\ \A u \in Threads \ {t} : pc'[u] = pc[u]
  BY DEF BuiltData, Built, At, Goto, locks, Typed, Labels, Held, HeldBy
<1>2. ~(facet.database /\ facet.pid)
  BY <1>1 DEF Mapping, MappingOf
<1>3. /\ Len(history["data"]) = 1 /\ Len(history["content"]) = 2
      /\ history["content"][2].val = t /\ view[t]["content"] = 2
  BY <1>1, <1>2 DEF Building, BuildingOf
<1>4. /\ Viewed(history', view', facetView, clocaleView)
      /\ Len(history'["data"]) = 2 /\ history'["data"][2].val = t
      /\ history'["data"][2].view["content"] = 2
      /\ history'["data"][1] = history["data"][1]
      /\ history'["size"] = history["size"] /\ history'["content"] = history["content"]
      /\ view'[t]["data"] = 2
      /\ view'[t]["content"] = view[t]["content"] /\ view'[t]["size"] = view[t]["size"]
      /\ \A u \in Threads \ {t} : view'[u] = view[u]
  <2>1. PICK n : n = Len(history["data"]) + 1
    OBVIOUS
  <2>2. n = 2
    BY <1>3, <2>1
  <2>3. "data" \in Locs /\ t \in Sizes \cup Pointers /\ TRUE \in BOOLEAN
    BY DEF Locs, Pointers
  <2>4. /\ Viewed(history', view', facetView, clocaleView)
        /\ Len(history'["data"]) = n /\ history'["data"][n].val = t
        /\ \A i \in 1 .. Len(history["data"]) : history'["data"][i] = history["data"][i]
        /\ \A y \in Locs \ {"data"} : history'["data"][n].view[y] = view[t][y]
        /\ \A y \in Locs \ {"data"} : history'[y] = history[y] /\ view'[t][y] = view[t][y]
        /\ view'[t]["data"] = n
        /\ \A u \in Threads \ {t} : view'[u] = view[u]
    <3>1. PICK b \in BOOLEAN : b = TRUE
      OBVIOUS
    <3>2. Put(t, "data", t, b)
      BY <1>1, <3>1
    <3>3. /\ Viewed(history', view', facetView, clocaleView)
          /\ Len(history'["data"]) = n /\ history'["data"][n].val = t
          /\ \A i \in 1 .. Len(history["data"]) : history'["data"][i] = history["data"][i]
          /\ b => \A y \in Locs \ {"data"} : history'["data"][n].view[y] = view[t][y]
          /\ \A y \in Locs \ {"data"} : history'[y] = history[y] /\ view'[t][y] = view[t][y]
          /\ view'[t]["data"] = n
          /\ \A u \in Threads \ {t} : view'[u] = view[u]
      BY ONLY Typed, t \in Threads, <2>1, <2>3, <3>2, b \in BOOLEAN, PutSees
    <3> QED
      BY <3>1, <3>3
  <2>5. history'["data"][1] = history["data"][1]
    BY <1>3, <2>4
  <2> QED
    BY <1>3, <2>2, <2>4, <2>5 DEF Locs
<1>5. NoThread # t /\ Null \notin Threads /\ t \in Pointers \ {Null}
  BY FacetDataAssumption DEF Pointers
<1>6. Typed'
  BY <1>1, <1>4 DEF Typed
<1>7. Held'
  BY <1>1 DEF Held, HeldBy
<1>8. Once'
  BY <1>3, <1>4, <1>5 DEF Once
<1>9. Ptrs'
  <2>1. \A u \in Threads : ptr[u] = Null
    BY <1>3 DEF Ptrs, PtrOf
  <2> QED
    BY <1>1, <1>5, <2>1 DEF Ptrs, PtrOf
<1>10. Mapping'
  BY <1>1, <1>2 DEF Mapping
<1>11. Building'
  <2>1. BuildingOf(t)'
    BY <1>1, <1>2, <1>3, <1>4 DEF Building, BuildingOf
  <2>2. ASSUME NEW u \in Threads \ {t} PROVE BuildingOf(u)'
    BY <1>1, <1>4 DEF BuildingOf
  <2> QED
    BY <1>1, <1>3, <1>4, <1>5, <2>1, <2>2 DEF Building
<1> QED
  BY <1>6, <1>7, <1>8, <1>9, <1>10, <1>11

LEMMA BuiltSizeInv ==
  ASSUME FInv, NEW t \in Threads, BuiltSize(t)
  PROVE  FInv'
<1> USE DEF FInv
<1>1. PICK n : n = Len(history["size"]) + 1
  OBVIOUS
<1>2. /\ pc[t] = "built_size" /\ clocaleLock = t /\ facetLock # t
      /\ Put(t, "size", "none", TRUE)
      /\ made' = made
      /\ facet' = facet /\ facetLock' = facetLock
      /\ clocaleLock' = clocaleLock /\ facetView' = facetView
      /\ clocaleView' = clocaleView /\ ptr' = ptr /\ throws' = throws
      /\ pc' \in [Threads -> Labels] /\ pc'[t] = "size"
      /\ call' \in [Threads -> Calls] /\ call'[t] = "last"
      /\ \A u \in Threads \ {t} : pc'[u] = pc[u] /\ call'[u] = call[u]
  BY DEF BuiltSize, At, Goto, locks, Typed, Labels, Calls, Held, HeldBy
<1>3. ~(facet.database /\ facet.pid)
  BY <1>2 DEF Mapping, MappingOf
<1>4. /\ Viewed(history', view', facetView, clocaleView)
      /\ Len(history'["size"]) = n /\ history'["size"][n].val = "none"
      /\ \A i \in 1 .. Len(history["size"]) : history'["size"][i] = history["size"][i]
      /\ history'["data"] = history["data"] /\ history'["content"] = history["content"]
      /\ view'[t]["data"] = view[t]["data"] /\ view'[t]["content"] = view[t]["content"]
      /\ view'[t]["size"] = n /\ n # 1
      /\ \A u \in Threads \ {t} : view'[u] = view[u]
  <2>1. "size" \in Locs /\ "none" \in Sizes \cup Pointers /\ TRUE \in BOOLEAN
    BY DEF Locs, Sizes
  <2>2. /\ Viewed(history', view', facetView, clocaleView)
        /\ Len(history'["size"]) = n /\ history'["size"][n].val = "none"
        /\ \A i \in 1 .. Len(history["size"]) : history'["size"][i] = history["size"][i]
        /\ \A y \in Locs \ {"size"} : history'[y] = history[y] /\ view'[t][y] = view[t][y]
        /\ view'[t]["size"] = n /\ n # 1
        /\ \A u \in Threads \ {t} : view'[u] = view[u]
    <3>1. PICK b \in BOOLEAN : b = TRUE
      OBVIOUS
    <3>2. Put(t, "size", "none", b)
      BY <1>2, <3>1
    <3> QED
      BY ONLY Typed, t \in Threads, <1>1, <2>1, <3>2, b \in BOOLEAN, PutSees
  <2> QED
    BY <2>2 DEF Locs
<1>5. NoThread # t
  BY FacetDataAssumption
<1>6. Typed'
  BY <1>2, <1>4 DEF Typed
<1>7. Held'
  BY <1>2 DEF Held, HeldBy
<1>8. Once'
  <2>1. ASSUME NEW i \in 1 .. Len(history'["size"])
        PROVE  /\ history'["size"][i].val \in Sizes
               /\ history'["size"][i].val = "unset" <=> i = 1
    <3>1. PICK m \in Nat : m = Len(history["size"])
      BY Lengths
    <3>2. i \in 1 .. n /\ n = m + 1
      BY <1>1, <1>4, <2>1, <3>1
    <3>3. i \in 1 .. m \/ i = n
      BY ONLY <3>2, m \in Nat
    <3> QED
      BY <1>4, <3>1, <3>3 DEF Once, Sizes
  <2> QED
    BY <1>4, <2>1 DEF Once
<1>9. Ptrs'
  <2>1. PtrOf(t)'
    BY <1>2, <1>4 DEF Ptrs, PtrOf
  <2>2. ASSUME NEW u \in Threads \ {t} PROVE PtrOf(u)'
    BY <1>2, <1>4 DEF Ptrs, PtrOf
  <2> QED
    BY <2>1, <2>2 DEF Ptrs
<1>10. Mapping'
  BY <1>2, <1>3 DEF Mapping
<1>11. Building'
  <2>1. BuildingOf(t)'
    BY <1>2, <1>3, <1>4 DEF Building, BuildingOf
  <2>2. ASSUME NEW u \in Threads \ {t} PROVE BuildingOf(u)'
    BY <1>2, <1>4 DEF BuildingOf
  <2>3. \A u \in Threads : pc[u] # "built"
    BY <1>2 DEF Held, HeldBy
  <2> QED
    BY <1>2, <1>3, <1>4, <1>5, <2>1, <2>2, <2>3 DEF Building
<1> QED
  BY <1>6, <1>7, <1>8, <1>9, <1>10, <1>11

-----------------------------------------------------------------------------
(* The theorem.                                                            *)

LEMMA InitInv ==
  ASSUME Init
  PROVE  FInv
<1>1. NoView \in Views /\ \A x \in Locs : NoView[x] = 1
  BY DEF NoView, Views
<1>2. PICK h : h = history
  OBVIOUS
<1>3. PICK e : e = [x \in Locs |-> [val |-> IF x = "size" THEN "unset" ELSE Null,
                                    view |-> NoView]]
  OBVIOUS
<1>4. \A x \in Locs : e[x] \in Entries /\ e[x].view = NoView
  BY <1>1, <1>3 DEF Entries, Sizes, Pointers
<1>5. h = [x \in Locs |-> <<e[x]>>]
  BY <1>2, <1>3 DEF Init
<1>6. \A x \in Locs : h[x] = <<e[x]>> /\ h[x] \in Seq(Entries) /\ Len(h[x]) = 1
                      /\ h[x][1] = e[x] /\ h[x] # <<>>
  BY <1>4, <1>5
<1>7. Within(h, NoView)
  BY <1>1, <1>6 DEF Within
<1>8. Recorded(h)
  BY <1>4, <1>5, <1>6, <1>7 DEF Recorded, Histories
<1>9. Viewed(history, view, facetView, clocaleView)
  BY <1>1, <1>2, <1>7, <1>8 DEF Viewed, Init
<1>10. Typed
  BY <1>9, FacetDataAssumption DEF Typed, Init, Labels, Calls, Pointers
<1>11. Held
  BY FacetDataAssumption DEF Held, HeldBy, Init
<1>12. /\ Len(history["size"]) = 1 /\ history["size"][1].val = "unset"
       /\ Len(history["data"]) = 1 /\ history["data"][1].val = Null
       /\ Len(history["content"]) = 1
  BY <1>2, <1>3, <1>6 DEF Locs
<1>13. Once
  BY <1>12 DEF Once, Sizes
<1>14. Ptrs
  BY FacetDataAssumption DEF Ptrs, PtrOf, Init
<1>15. \A x \in Locs : facetView[x] = 1 /\ clocaleView[x] = 1
  BY <1>1 DEF Init
<1>16. Mapping
  BY <1>12, <1>15, FacetDataAssumption DEF Mapping, MappingOf, Init, Locs
<1>17. Building
  BY <1>12, <1>15, FacetDataAssumption DEF Building, BuildingOf, Init, Locs
<1> QED
  BY <1>10, <1>11, <1>13, <1>14, <1>16, <1>17 DEF FInv

LEMMA StepInv ==
  ASSUME FInv, [Next]_vars
  PROVE  FInv'
<1>1. CASE UNCHANGED vars
  BY <1>1 DEF FInv, vars, locks, Typed, Held, HeldBy, Once, Ptrs, PtrOf, Mapping, MappingOf,
              Building, BuildingOf
<1>2. ASSUME NEW t \in Threads, Call(t) \/ Step(t) PROVE FInv'
  BY <1>2, CallInv, LoadSizeInv, LoadSizeAgainInv, LoadSizeLockedInv, LockFacetInv,
     LoadDataInv, MapNothingInv, MapDataInv, MapSizeInv, ReturnedInv, LockCLocaleInv,
     BuildInv, LeaveInv, BuiltDataInv, BuiltSizeInv DEF Step
<1> QED
  BY <1>1, <1>2 DEF Next

\* However the reads outside the locks interleave with the thread that maps or
\* builds, and whatever they see late, there is one outcome and every thread that
\* goes on with it sees all of it; with a database nobody builds from the C
\* library (facet.cpp:159-183, punct.cpp:125-137).
THEOREM DataRightAlways == Spec => []DataRight
<1>1. FInv => DataRight
  <2> SUFFICES ASSUME FInv PROVE DataRight
    OBVIOUS
  <2> USE DEF FInv
  <2>1. TypeOK
    <3>1. \A t \in Threads, x \in Locs : view[t][x] \in 1 .. Len(history[x])
      BY Lengths DEF Typed, Viewed, Within, Views
    <3>2. \A x \in Locs : \A i \in 1 .. Len(history[x]) :
            /\ history[x][i].view \in [Locs -> Nat \ {0}]
            /\ history[x][i].view[x] <= Len(history[x])
      BY DEF Typed, Viewed, Recorded, Within, Views
    <3> QED
      BY <3>1, <3>2 DEF TypeOK, Typed, Once, Pointers, Built
  <2>2. OneData
    <3>1. PICK n : n = Len(history["data"])
      OBVIOUS
    <3>2. PICK m : m = Len(history["content"])
      OBVIOUS
    <3>3. n \in {1, 2} /\ m \in {1, 2}
      BY <3>1, <3>2 DEF Once
    <3>4. n <= 2 /\ m <= 2
      BY ONLY <3>3
    <3>5. \A t \in Threads : pc[t] = "done" => n = 2 /\ ptr[t] = history["data"][2].val
      BY <3>1 DEF Ptrs, PtrOf
    <3> QED
      BY <3>1, <3>2, <3>4, <3>5 DEF OneData, At
  <2>3. DatabaseFound
    BY DEF DatabaseFound, Mapping, MappingOf
  <2>4. ContentSeen
    <3>1. ASSUME NEW t \in Threads, ptr[t] \in Threads
          PROVE  history["content"][view[t]["content"]].val = ptr[t]
      <4>1. ptr[t] # Null /\ view[t]["content"] = 2
        BY <3>1, FacetDataAssumption DEF Ptrs, PtrOf
      <4> QED
        BY <3>1, <4>1 DEF Ptrs, PtrOf, Once
    <3> QED
      BY <3>1 DEF ContentSeen, Built
  <2> QED
    BY <2>1, <2>2, <2>3, <2>4 DEF DataRight
<1> QED
  BY <1>1, InitInv, StepInv, PTL DEF Spec
=============================================================================
