-------------------------------- MODULE Deque --------------------------------
(***************************************************************************)
(* The storage of std::deque: a map of slots, a span of which owns         *)
(* buffers of B elements, with the live elements inside it; the iterator;  *)
(* and the reservation that makes room at one end, constructs into it, and *)
(* puts everything back when an allocation or a construction fails.        *)
(*                                                                         *)
(* An element is named by its cell, the buffer and the offset in it: the   *)
(* code never moves an element to make room.  What an insertion in the     *)
(* middle does to the values is the subject of DequeShift.  One step is    *)
(* one call, but for a reservation, of which each allocation and each      *)
(* construction is a step.                                                 *)
(***************************************************************************)
EXTENDS Integers, Sequences, FiniteSets, SequencesExt

CONSTANTS Buffers,     \* the buffers an allocator may hand out
          B,           \* elements in a buffer (_C_bufsize)
          Limit,       \* the most slots a map may have (_C_max_nodes)
          NoBuf        \* the null pointer

ASSUME BAssumption == B \in Nat \ {0}
ASSUME LimitAssumption == Limit \in Nat \ {0} /\ Cardinality(Buffers) >= Limit
ASSUME NoBufAssumption == NoBuf \notin Buffers

VARIABLES d,     \* the six members of the deque, and the map they point to
          r,     \* the reservation of the call that runs
          live,  \* ghost: the cells of the elements, in order
          made,  \* ghost: the cells constructed and not destroyed
          own    \* ghost: the buffers allocated and not deallocated

vars == <<d, r, live, made, own>>

(* A position: the slot, the buffer the element pointer points into (null  *)
(* when the slot owns none) and the offset in it.                          *)
It(m, node, off) == [node |-> node, buf |-> m[node], off |-> off]
NoMap == [i \in 0..0 |-> NoBuf]
NoIt == It(NoMap, 0, 0)
Fresh == [map |-> NoMap, id |-> 0, cap |-> 0, span |-> 0, cnt |-> 0,
          beg |-> NoIt, end |-> NoIt]
Idle == [pc |-> "idle"]
Cell(it) == <<it.buf, it.off>>

-----------------------------------------------------------------------------
(* The iterator. *)

(* operator++ *)
Inc(m, it) ==
  IF it.off + 1 = B THEN It(m, it.node + 1, 0) ELSE [it EXCEPT !.off = @ + 1]

(* ++, from none to n times; the cells on the way. *)
Walk(m, it, n) ==
  LET Go[i \in 0..n] == IF i = 0 THEN it ELSE Inc(m, Go[i - 1]) IN Go
Cells(m, it, n) == [i \in 1..n |-> Cell(Walk(m, it, n)[i - 1])]

(* operator-- *)
Dec(m, it) ==
  IF it.buf = NoBuf \/ (it.buf = m[it.node] /\ it.off = 0)
  THEN It(m, it.node - 1, B - 1) ELSE [it EXCEPT !.off = @ - 1]

(* operator+= (n): n / B and n % B round towards zero. *)
Plus(m, it, n) ==
  LET a == IF n < 0 THEN -n ELSE n
      jump == IF n < 0 THEN -(a \div B) ELSE a \div B
      rest == IF n < 0 THEN -(a % B) ELSE a % B
  IN  IF n = 0 THEN it
      ELSE IF rest < 0 /\ it.off < -rest THEN It(m, it.node + jump - 1, B - (-rest - it.off))
      ELSE IF 0 <= rest /\ B - rest <= it.off THEN It(m, it.node + jump + 1, it.off - (B - rest))
      ELSE It(m, it.node + jump, it.off + rest)

(* operator- *)
Minus(x, y) == (x.node - y.node) * B + x.off - y.off

Size == Minus(d.end, d.beg)
MaxSize == (Limit - 1) * B + 1

-----------------------------------------------------------------------------
(* A reservation's preparation. *)

Ceil(n) == (n \div B) + IF n % B # 0 THEN 1 ELSE 0

(* The first slot past the live elements.                                  *)
Past(x) == x.end.node + IF x.end.off # 0 THEN 1 ELSE 0

(* The room left in the partial buffer at an end, the spare buffers on that *)
(* side and those on the far side.                                         *)
Partial(x, back) == IF ~back THEN x.beg.off ELSE IF x.end.off # 0 THEN B - x.end.off ELSE 0
Near(x, back) == IF back THEN x.span + x.cnt - Past(x) ELSE x.beg.node - x.span
Far(x, back) == IF back THEN x.beg.node - x.span ELSE x.span + x.cnt - Past(x)

(* Whole buffers wanted beyond the partial one; those of them that the near *)
(* spares leave short; those of these that the far spares make up.         *)
Wanted(x, back, n) == IF n <= Partial(x, back) THEN 0 ELSE Ceil(n - Partial(x, back))
Short(x, back, n) ==
  IF Wanted(x, back, n) <= Near(x, back) THEN 0 ELSE Wanted(x, back, n) - Near(x, back)
Reuse(x, back, n) ==
  IF Far(x, back) < Short(x, back, n) THEN Far(x, back) ELSE Short(x, back, n)

(* How the room for n elements at one end is found.  The cells left in the  *)
(* boundary buffer are the first to be used.                               *)
Plan(x, back, n) ==
  [need |-> Short(x, back, n), reuse |-> Reuse(x, back, n),
   new |-> Short(x, back, n) - Reuse(x, back, n)]

(* A move that leaves the old slots as they were. *)
MoveNodesKept(m, from, to, n) ==
  [i \in DOMAIN m |-> IF to <= i /\ i < to + n THEN m[from + (i - to)] ELSE m[i]]

(* _C_move_nodes (from, to, n): the slots left behind are cleared. *)
MoveNodes(m, from, to, n) ==
  [i \in DOMAIN m |->
     IF to <= i /\ i < to + n THEN m[from + (i - to)]
     ELSE IF from <= i /\ i < from + n THEN NoBuf ELSE m[i]]

(* The span goes to pos in the same map, and the iterators with it. *)
Shifted(x, pos) ==
  [x EXCEPT !.map = MoveNodes(@, x.span, pos, x.cnt), !.span = pos,
            !.beg.node = pos + (@ - x.span), !.end.node = pos + (@ - x.span)]

Recentre(x, back, need) ==
  Shifted(x, (x.cap - x.cnt - need) \div 2 + IF back THEN 0 ELSE need)

(* A larger map takes the span with the far spares already on this side. *)
Replace(x, back, p, capacity) ==
  LET first == (capacity - x.cnt - p.new) \div 2 + IF back THEN 0 ELSE p.new
      cut == IF back THEN p.reuse ELSE x.cnt - p.reuse
      shift == first - x.span + IF back THEN -p.reuse ELSE p.reuse
  IN  [map |-> [i \in 0..capacity |->
                  IF first <= i /\ i < first + x.cnt
                  THEN x.map[x.span + ((i - first + cut) % x.cnt)] ELSE NoBuf],
       id |-> 3 - IF x.id = 0 THEN 2 ELSE x.id, cap |-> capacity,
       span |-> first, cnt |-> x.cnt,
       beg |-> [x.beg EXCEPT !.node = @ + shift],
       end |-> [x.end EXCEPT !.node = @ + shift]]

(* The far spares move over to the slots next to this side, and back. *)
From(back, pos, cnt, n) == [i \in 1..n |-> IF back THEN pos + i - 1 ELSE pos + cnt - i]
To(back, pos, cnt, n) == [i \in 1..n |-> IF back THEN pos + cnt + i - 1 ELSE pos - i]

Carry(m, from, to) ==
  [j \in DOMAIN m |->
     IF j \in Range(to) THEN m[from[CHOOSE i \in DOMAIN to : to[i] = j]]
     ELSE IF j \in Range(from) THEN NoBuf ELSE m[j]]

Transfer(x, back, reuse) ==
  [x EXCEPT !.map = Carry(@, From(back, x.span, x.cnt, reuse), To(back, x.span, x.cnt, reuse)),
            !.span = IF back THEN @ + reuse ELSE @ - reuse]

(* What the reservation keeps to undo: the deque as it was, the slot the    *)
(* span was moved to, the pointers transferred, the first slot of the new   *)
(* buffers.                                                                *)
Saved(back, n, p, x, pos, moved, alloc) ==
  [pc |-> "alloc", back |-> back, n |-> n, new |-> p.new, saved |-> x, own |-> own,
   pos |-> pos, moved |-> moved, alloc |-> alloc, added |-> 0,
   base |-> NoIt, cur |-> NoIt, done |-> 0]

(* Room in the map itself, with the span moved or not. *)
InMap(x, back, n, p) ==
  LET null == IF back THEN x.cap - x.span - x.cnt ELSE x.span
      y == IF null < p.need THEN Recentre(x, back, p.need) ELSE x
  IN  /\ d' = Transfer(y, back, p.reuse)
      /\ r' = Saved(back, n, p, x, y.span, p.reuse,
                    IF back THEN y.span + x.cnt + p.reuse ELSE y.span - p.reuse - p.new)

(* The hook may answer c for the capacity. *)
InNewMap(x, back, n, p, c) ==
  LET required == x.cnt + p.new
      capacity == IF c < required \/ c <= x.cap \/ Limit < c THEN Limit ELSE c
      y == Replace(x, back, p, capacity)
  IN  /\ d' = y
      /\ r' = Saved(back, n, p, x, x.span, 0,
                    IF back THEN y.span + x.cnt ELSE y.span - p.new)

Roomy(x, back, p) ==
  \/ p.need <= IF back THEN x.cap - x.span - x.cnt ELSE x.span
  \/ p.need <= x.cap - x.cnt /\ x.cnt <= x.cap - x.cnt

(* n elements may be added as far as max_size() goes; the reservation of    *)
(* their room asks for more buffers than the limit leaves only if Plan is   *)
(* wrong, and then throws.                                                 *)
TooLong(x, p) == p.new > Limit - x.cnt

Build(x, back, n, was) ==
  LET base == IF back THEN x.end ELSE Plus(x.map, x.beg, -n)
  IN  [was EXCEPT !.pc = "build", !.base = base, !.cur = base]

Reserve(back, n, c) ==
  /\ r = Idle
  /\ Size + n <= MaxSize
  /\ LET p == Plan(d, back, n)
         was == Saved(back, n, p, d, d.span, 0, d.span)
     IN  IF p.need = 0
         THEN r' = Build(d, back, n, was) /\ UNCHANGED d
         ELSE IF TooLong(d, p) THEN r' = [Idle EXCEPT !.pc = "error"] /\ UNCHANGED d
         ELSE IF Roomy(d, back, p) THEN c = 0 /\ InMap(d, back, n, p)
         ELSE InNewMap(d, back, n, p, c)
  /\ UNCHANGED <<live, made, own>>

(* One buffer more; the span counts it from the slot it is written to on.   *)
Allocate ==
  /\ r.pc = "alloc"
  /\ r.added < r.new
  /\ \E b \in Buffers \ own :
       /\ d' = [d EXCEPT !.map[r.alloc + r.added] = b, !.cnt = @ + 1,
                         !.span = IF r.back THEN @ ELSE @ - 1]
       /\ own' = own \cup {b}
  /\ r' = [r EXCEPT !.added = @ + 1]
  /\ UNCHANGED <<live, made>>

(* Both iterators are written anew: their slots may have gained a buffer    *)
(* or lost one.  The construction starts at the near end of the room.       *)
Ready ==
  /\ r.pc = "alloc"
  /\ r.added = r.new
  /\ LET x == [d EXCEPT !.beg = It(d.map, @.node, @.off), !.end = It(d.map, @.node, @.off)]
     IN  /\ d' = x
         /\ r' = Build(x, r.back, r.n, r)
  /\ UNCHANGED <<live, made, own>>

Construct ==
  /\ r.pc = "build"
  /\ r.done < r.n
  /\ made' = made \cup {Cell(r.cur)}
  /\ r' = [r EXCEPT !.cur = Inc(d.map, @), !.done = @ + 1]
  /\ UNCHANGED <<d, live, own>>

Commit ==
  /\ r.pc = "build"
  /\ r.done = r.n
  /\ d' = IF r.back THEN [d EXCEPT !.end = Plus(d.map, @, r.n)]
          ELSE [d EXCEPT !.beg = Plus(d.map, @, -r.n)]
  /\ LET room == Cells(d.map, r.base, r.n)
     IN  live' = IF r.back THEN live \o room ELSE room \o live
  /\ r' = Idle
  /\ UNCHANGED <<made, own>>

(* _C_restore(): the new buffers go, then the new map, or what was done to  *)
(* the old one, the last thing first.  RestoredSpan forgets the transfers.  *)
Without(m, q) == [i \in DOMAIN m |-> IF i \in q.alloc..(q.alloc + q.added - 1) THEN NoBuf ELSE m[i]]

RestoredSpan(x, q) ==
  [q.saved EXCEPT !.map =
     IF x.id # q.saved.id THEN q.saved.map
     ELSE MoveNodes(Without(x.map, q), q.pos, q.saved.span, q.saved.cnt)]

Restored(x, q) ==
  [q.saved EXCEPT !.map =
     IF x.id # q.saved.id THEN q.saved.map
     ELSE MoveNodes(Carry(Without(x.map, q), To(q.back, q.pos, q.saved.cnt, q.moved),
                          From(q.back, q.pos, q.saved.cnt, q.moved)),
                    q.pos, q.saved.span, q.saved.cnt)]

(* An allocation or the copy of an element throws: what was constructed is  *)
(* destroyed, from the near end of the room to the cursor.                  *)
Fail ==
  /\ r.pc \in {"alloc", "build"}
  /\ d' = Restored(d, r)
  /\ own' = own \ {d.map[r.alloc + i] : i \in 0..(r.added - 1)}
  /\ made' = IF r.pc = "alloc" THEN made ELSE made \ ToSet(Cells(d.map, r.base, r.done))
  /\ r' = Idle
  /\ UNCHANGED live

-----------------------------------------------------------------------------
(* The calls that need no reservation. *)

Grown(back, cell) == IF back THEN Append(live, cell) ELSE <<cell>> \o live

(* push_back (x) where the end's slot owns a buffer. *)
PushBack ==
  /\ r = Idle
  /\ Size < MaxSize
  /\ d.end.buf # NoBuf
  /\ made' = made \cup {Cell(d.end)}
  /\ live' = Append(live, Cell(d.end))
  /\ d' = [d EXCEPT !.end = Inc(d.map, @)]
  /\ UNCHANGED <<r, own>>

(* push_front (x) before the first element in its buffer, or into the spare *)
(* before it.                                                              *)
PushFront ==
  /\ r = Idle
  /\ Size < MaxSize
  /\ \/ d.beg.off # 0
     \/ d.id # 0 /\ d.span < d.beg.node
  /\ LET cell == IF d.beg.off # 0 THEN <<d.beg.buf, d.beg.off - 1>>
                 ELSE <<d.map[d.beg.node - 1], B - 1>>
     IN  /\ made' = made \cup {cell}
         /\ live' = <<cell>> \o live
  /\ d' = [d EXCEPT !.beg = Dec(d.map, @)]
  /\ UNCHANGED <<r, own>>

(* _C_push (back, x), and the insertion of n elements at either end or into *)
(* the middle, whose reservation is on the shorter side; an empty deque has *)
(* none at the front but for a push.                                       *)
Insert(back, n, c) ==
  /\ ~back /\ live = <<>> => n = 1 /\ ~(d.id # 0 /\ d.span < d.beg.node)
  /\ Reserve(back, n, c)

PopFront ==
  /\ r = Idle
  /\ live # <<>>
  /\ made' = made \ {Cell(d.beg)}
  /\ live' = Tail(live)
  /\ d' = [d EXCEPT !.beg = Inc(d.map, @)]
  /\ UNCHANGED <<r, own>>

PopBack ==
  /\ r = Idle
  /\ live # <<>>
  /\ LET e == Dec(d.map, d.end)
     IN  /\ d' = [d EXCEPT !.end = e]
         /\ made' = made \ {Cell(e)}
  /\ live' = Front(live)
  /\ UNCHANGED <<r, own>>

(* The destructor's _C_dealloc(), once clear() has popped every element, or *)
(* the swap with a fresh deque.                                            *)
Dealloc ==
  /\ r = Idle
  /\ live = <<>>
  /\ d.id # 0
  /\ own' = own \ {d.map[i] : i \in 0..(d.cap - 1)}
  /\ d' = Fresh
  /\ UNCHANGED <<r, live, made>>

-----------------------------------------------------------------------------
Init ==
  /\ d = Fresh
  /\ r = Idle
  /\ live = <<>>
  /\ made = {}
  /\ own = {}

Next ==
  \/ PushBack \/ PushFront \/ PopBack \/ PopFront
  \/ \E back \in BOOLEAN, n \in 1..MaxSize, c \in 0..(Limit + 1) : Insert(back, n, c)
  \/ Allocate \/ Ready \/ Construct \/ Commit \/ Fail
  \/ Dealloc

Spec == Init /\ [][Next]_vars

-----------------------------------------------------------------------------
TypeOK ==
  /\ d.cap \in 0..Limit /\ d.id \in 0..2
  /\ d.map \in [0..d.cap -> Buffers \cup {NoBuf}]
  /\ d.span \in 0..d.cap /\ d.cnt \in 0..d.cap
  /\ \A it \in {d.beg, d.end} : it.node \in 0..d.cap /\ it.off \in 0..(B - 1)
  /\ r.pc \in {"idle", "alloc", "build"}
  /\ live \in Seq(Buffers \X (0..(B - 1)))
  /\ made \subseteq Buffers \X (0..(B - 1))
  /\ own \subseteq Buffers

(* Between calls the storage is what _C_is_valid() asserts and section 2 of *)
(* analysis-deque-redesign.md says: the slots that own buffers are one      *)
(* span, the one that is cached; the terminal slot is null; no buffer is in *)
(* two slots; the live elements lie inside the span; a boundary is named by *)
(* the following slot, with the buffer that slot owns or null.              *)
MapValid ==
  r = Idle =>
    /\ d.span + d.cnt <= d.cap
    /\ \A i \in 0..d.cap : d.map[i] # NoBuf <=> d.span <= i /\ i < d.span + d.cnt
    /\ \A i, j \in 0..d.cap : d.map[i] = d.map[j] /\ d.map[i] # NoBuf => i = j
    /\ d.span <= d.beg.node /\ d.beg.node <= d.end.node /\ d.end.node <= d.span + d.cnt
    /\ \A it \in {d.beg, d.end} :
         it.buf = d.map[it.node] /\ (it.buf = NoBuf => it.off = 0)

(* Between calls the iterator walks the elements: ++ from begin() reaches   *)
(* end() by the same fields, -- comes back, + goes to each at once, and     *)
(* size() counts them.  The cells being those the elements were made in,    *)
(* pushes and insertions at the ends leave references valid.                *)
WalkRight ==
  r = Idle =>
    LET n == Len(live)
        Fwd == Walk(d.map, d.beg, n)
    IN  /\ Size = n
        /\ Fwd[n] = d.end
        /\ \A i \in 0..n :
             /\ i < n => Cell(Fwd[i]) = live[i + 1]
             /\ i > 0 => Dec(d.map, Fwd[i]) = Fwd[i - 1]
             /\ \A j \in 0..n : Plus(d.map, Fwd[i], j - i) = Fwd[j]

(* Every buffer allocated is in the map, and every buffer in the map is     *)
(* allocated; every object constructed is an element or in the room that is *)
(* being filled, no cell is constructed twice, and each lies in a buffer    *)
(* that is owned.                                                          *)
NothingLost ==
  /\ own = {d.map[i] : i \in 0..d.cap} \ {NoBuf}
  /\ Cardinality(made) = Len(live) + IF r.pc = "build" THEN r.done ELSE 0
  /\ ToSet(live) \subseteq made
  /\ \A c \in made : c[1] \in own

(* A failing insertion puts the storage back: the map, the span and both    *)
(* iterators are those from before, so that iterators held before it stay   *)
(* valid (section 0 of analysis-deque-redesign.md, _C_restore).             *)
FailureUndone ==
  [][(r.pc \in {"alloc", "build"} /\ r'.pc = "idle" /\ live' = live) =>
       d' = r.saved /\ own' = r.own]_vars

(* As long as max_size() allows the elements, a reservation finds the room: *)
(* the length check inside it never fires (section 2 of the same note).     *)
RoomFound == r.pc # "error"

(* Whatever a reservation moves, recentres, replaces or fails to get, the    *)
(* map, the buffers and the objects are accounted for (_C_prepare), and an  *)
(* iterator that caches a slot's buffer still walks the elements.           *)
StorageRight == TypeOK /\ MapValid /\ NothingLost /\ RoomFound /\ WalkRight
=============================================================================
