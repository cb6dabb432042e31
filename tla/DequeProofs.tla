----------------------------- MODULE DequeProofs -----------------------------
(***************************************************************************)
(* std::deque: the theorems about its map, its iterators and its           *)
(* reservations, for any buffers, any number of elements in a buffer and   *)
(* any limit of the map; and about what its members do to the elements,    *)
(* for any values and any bounds.                                          *)
(*                                                                         *)
(* A position is a number, slot * B + offset: Pos() numbers an iterator,   *)
(* and Spot() is the iterator at a position of a map.                      *)
(***************************************************************************)
EXTENDS MCDeque, FiniteSetTheorems, WellFoundedInduction, TLAPS
-----------------------------------------------------------------------------
Pos(it) == it.node * B + it.off
Spot(m, p) == It(m, p \div B, p % B)
At(m, p) == <<m[p \div B], p % B>>

Null == Buffers \cup {NoBuf}
CellSet == Buffers \X (0..(B - 1))
Maps == UNION {[0..c -> Null] : c \in 0..Limit}
Spots == [node : Int, buf : Null, off : 0..(B - 1)]
Deques == [map : Maps, id : 0..2, cap : 0..Limit, span : Nat, cnt : Nat,
           beg : Spots, end : Spots]
Reservations == [pc : {"alloc", "build"}, back : BOOLEAN, n : Nat \ {0}, new : Nat,
                 saved : Deques, own : SUBSET Buffers, pos : Int, moved : Nat,
                 alloc : Int, added : Nat, base : Spots, cur : Spots, done : Nat]

\* no buffer is in two slots, and the elements lie in the slots a..z-1, which
\* all have one
Laid(x, a, z) ==
  /\ x \in Deques /\ x.map \in [0..x.cap -> Null]
  /\ a \in Int /\ z \in Int /\ 0 <= a /\ a <= z /\ z <= x.cap
  /\ \A i, j \in 0..x.cap : x.map[i] = x.map[j] /\ x.map[i] # NoBuf => i = j
  /\ \A i \in a..(z - 1) : x.map[i] # NoBuf
  /\ a * B <= Pos(x.beg) /\ Pos(x.beg) <= Pos(x.end) /\ Pos(x.end) <= z * B

\* the slots that own a buffer are those of S
Owned(x, S) == \A i \in 0..x.cap : x.map[i] # NoBuf <=> i \in S
Bufs(x) == {x.map[i] : i \in 0..x.cap} \ {NoBuf}

\* the n cells from a position on, in order; those from p to before q
Row(m, p, n) == [i \in 1..n |-> At(m, p + i - 1)]
Patch(m, p, q) == {At(m, k) : k \in p..(q - 1)}

\* the elements of x are in the cells s
Holds(x, s) == s = Row(x.map, Pos(x.beg), Pos(x.end) - Pos(x.beg))

\* between calls: one span of slots owns the buffers, and the iterators name
\* the buffers of their slots
Valid(x) ==
  /\ Laid(x, x.span, x.span + x.cnt)
  /\ Owned(x, x.span..(x.span + x.cnt - 1))
  /\ x.beg.buf = x.map[x.beg.node] /\ x.end.buf = x.map[x.end.node]

Resting == r = Idle /\ Valid(d) /\ made = ToSet(live)

\* a reservation can be undone at any time
NewBufs == {d.map[i] : i \in r.alloc..(r.alloc + r.added - 1)}
Undoable ==
  /\ r \in Reservations
  /\ Valid(r.saved) /\ Holds(r.saved, live) /\ r.own = Bufs(r.saved)
  /\ Restored(d, r) = r.saved
  /\ own = r.own \cup NewBufs /\ r.own \cap NewBufs = {}

\* the slots that had a buffer when the allocations began, the room next to
\* them, and how far it has been given buffers
OldFirst == IF r.back THEN d.span ELSE d.span + r.added
OldLast == OldFirst + d.cnt - r.added
Allocating ==
  /\ r.pc = "alloc" /\ r.added <= r.new /\ r.added <= d.cnt /\ r.done = 0
  /\ made = ToSet(live)
  /\ Laid(d, OldFirst, OldLast)
  /\ Owned(d, (OldFirst..(OldLast - 1)) \cup (r.alloc..(r.alloc + r.added - 1)))
  /\ IF r.back
     THEN /\ r.alloc = OldLast /\ r.alloc + r.new <= d.cap
          /\ Pos(d.end) + r.n <= (r.alloc + r.new) * B
     ELSE /\ r.alloc >= 0 /\ r.alloc + r.new = OldFirst
          /\ Pos(d.beg) - r.n >= r.alloc * B

\* the room that is being filled
RoomFirst == IF r.back THEN Pos(d.end) ELSE Pos(d.beg) - r.n
Building ==
  /\ r.pc = "build" /\ r.done <= r.n
  /\ Valid(d)
  /\ IF r.back THEN Pos(d.end) + r.n <= (d.span + d.cnt) * B
     ELSE Pos(d.beg) - r.n >= d.span * B
  /\ r.base = Spot(d.map, RoomFirst) /\ r.cur = Spot(d.map, RoomFirst + r.done)
  /\ made = ToSet(live) \cup {At(d.map, RoomFirst + i) : i \in 0..(r.done - 1)}

DInv ==
  /\ live \in Seq(CellSet) /\ own = Bufs(d) /\ Holds(d, live)
  /\ Resting \/ (Undoable /\ (Allocating \/ Building))

-----------------------------------------------------------------------------
(* Numbers. *)

LEMMA DivMod ==
  ASSUME NEW p \in Int
  PROVE  /\ p \div B \in Int /\ p % B \in 0..(B - 1)
         /\ p = (p \div B) * B + (p % B)
BY BAssumption

LEMMA OneWay ==
  ASSUME NEW q \in Int, NEW t \in 0..(B - 1), NEW k \in Int, NEW s \in 0..(B - 1),
         q * B + t = k * B + s
  PROVE  q = k /\ t = s
<1>1. ~ (q < k)
  <2> SUFFICES ASSUME q + 1 <= k PROVE FALSE
      OBVIOUS
  <2>1. (k - q) * B >= B
        BY BAssumption
  <2> QED BY <2>1, BAssumption
<1>2. ~ (k < q)
  <2> SUFFICES ASSUME k + 1 <= q PROVE FALSE
      OBVIOUS
  <2>1. (q - k) * B >= B
        BY BAssumption
  <2> QED BY <2>1, BAssumption
<1> QED BY <1>1, <1>2, BAssumption

LEMMA Split ==
  ASSUME NEW q \in Int, NEW t \in 0..(B - 1)
  PROVE  q * B + t \in Int /\ (q * B + t) \div B = q /\ (q * B + t) % B = t
<1>1. PICK p \in Int : p = q * B + t
      BY BAssumption
<1>2. p \div B \in Int /\ p % B \in 0..(B - 1) /\ p = (p \div B) * B + (p % B)
      BY DivMod
<1>3. p \div B = q /\ p % B = t
      BY <1>1, <1>2, OneWay
<1> QED BY <1>1, <1>3

\* slots are ordered as positions are
LEMMA SlotBounds ==
  ASSUME NEW a \in Int, NEW p \in Int
  PROVE  /\ a * B <= p => a <= p \div B
         /\ p < a * B => p \div B < a
         /\ p <= a * B => p \div B < a \/ (p \div B = a /\ p % B = 0)
<1>1. PICK q \in Int, t \in 0..(B - 1) : q = p \div B /\ t = p % B /\ p = q * B + t
      BY DivMod
<1>2. ASSUME q < a PROVE q * B + t < a * B
  <2>1. (a - q) * B >= B
        BY <1>2, BAssumption
  <2> QED BY <2>1, BAssumption
<1>3. ASSUME a < q PROVE a * B < q * B + t
  <2>1. (q - a) * B >= B
        BY <1>3, BAssumption
  <2> QED BY <2>1, BAssumption
<1> QED BY <1>1, <1>2, <1>3, BAssumption

LEMMA Moved ==
  ASSUME NEW p \in Int, NEW s \in Int
  PROVE  p + s * B \in Int /\ (p + s * B) \div B = (p \div B) + s /\ (p + s * B) % B = p % B
<1>1. PICK q \in Int, t \in 0..(B - 1) : q = p \div B /\ t = p % B /\ p = q * B + t
      BY DivMod
<1>2. PICK k \in Int : k = q + s
      OBVIOUS
<1>3. p + s * B = k * B + t
  <2>1. k * B = q * B + s * B
        BY <1>2, BAssumption
  <2> QED BY <1>1, <2>1, BAssumption
<1>4. k * B + t \in Int /\ (k * B + t) \div B = k /\ (k * B + t) % B = t
      BY Split
<1> QED BY <1>1, <1>2, <1>3, <1>4
-----------------------------------------------------------------------------
(* Sequences, as functions. *)

LEMMA Joined ==
  ASSUME NEW S, NEW s \in Seq(S), NEW t \in Seq(S)
  PROVE  /\ s \o t \in Seq(S) /\ Len(s \o t) = Len(s) + Len(t)
         /\ \A i \in 1..(Len(s) + Len(t)) :
              (s \o t)[i] = IF i <= Len(s) THEN s[i] ELSE t[i - Len(s)]
OBVIOUS

\* rows of cells: their ends and neighbours
LEMMA RowType ==
  ASSUME NEW m, NEW p \in Int, NEW n \in Nat, NEW S, \A k \in p..(p + n - 1) : At(m, k) \in S
  PROVE  /\ Row(m, p, n) \in Seq(S) /\ Len(Row(m, p, n)) = n
         /\ \A i \in 1..n : Row(m, p, n)[i] = At(m, p + i - 1)
<1>1. PICK f : f = [i \in 1..n |-> At(m, p + i - 1)]
      OBVIOUS
<1>2. ASSUME NEW i \in 1..n PROVE f[i] \in S /\ f[i] = At(m, p + i - 1)
  <2>1. p + i - 1 \in p..(p + n - 1)
        OBVIOUS
  <2> QED BY <1>1, <2>1
<1>3. f \in [1..n -> S]
      BY <1>1, <1>2
<1>4. f \in Seq(S) /\ Len(f) = n
      BY <1>3
<1> QED BY <1>1, <1>2, <1>4 DEF Row

LEMMA RowJoined ==
  ASSUME NEW m, NEW p \in Int, NEW n \in Nat, NEW k \in Nat, NEW S,
         \A i \in p..(p + n + k - 1) : At(m, i) \in S
  PROVE  Row(m, p, n) \o Row(m, p + n, k) = Row(m, p, n + k)
<1>0. PICK q \in Int : q = p + n
      OBVIOUS
<1>1. PICK s, t, w :
        s = Row(m, p, n) /\ t = Row(m, q, k) /\ w = Row(m, p, n + k) /\ q = p + n
      BY <1>0
<1>2. /\ \A i \in p..(p + n - 1) : At(m, i) \in S
      /\ \A i \in q..(q + k - 1) : At(m, i) \in S
      /\ \A i \in p..(p + (n + k) - 1) : At(m, i) \in S
      BY <1>1
<1>3. n + k \in Nat
      OBVIOUS
<1>4. /\ s \in Seq(S) /\ Len(s) = n /\ \A i \in 1..n : s[i] = At(m, p + i - 1)
      /\ t \in Seq(S) /\ Len(t) = k /\ \A i \in 1..k : t[i] = At(m, q + i - 1)
      /\ w \in Seq(S) /\ Len(w) = n + k /\ \A i \in 1..(n + k) : w[i] = At(m, p + i - 1)
      BY <1>1, <1>2, <1>3, RowType
<1>5. PICK j : j = s \o t
      OBVIOUS
<1>6. /\ j \in Seq(S) /\ Len(j) = n + k
      /\ \A i \in 1..(n + k) : j[i] = IF i <= n THEN s[i] ELSE t[i - n]
      BY <1>4, <1>5, Joined
<1>7. ASSUME NEW i \in 1..(n + k) PROVE j[i] = w[i]
  <2>1. CASE i <= n
    <3>1. i \in 1..n
          BY <2>1
    <3> QED BY <1>4, <1>6, <2>1, <3>1
  <2>2. CASE ~ (i <= n)
    <3>1. i - n \in 1..k /\ q + (i - n) - 1 = p + i - 1
          BY <1>1, <2>2
    <3> QED BY <1>4, <1>6, <2>2, <3>1
  <2> QED BY <2>1, <2>2
<1>8. j = w
  <2>1. j \in [1..(n + k) -> S] /\ w \in [1..(n + k) -> S]
        BY <1>4, <1>6
  <2> QED BY <1>7, <2>1
<1> QED BY <1>1, <1>5, <1>8

LEMMA RowOne ==
  ASSUME NEW m, NEW p \in Int
  PROVE  Row(m, p, 1) = <<At(m, p)>>
<1>1. PICK f, c : f = Row(m, p, 1) /\ c = At(m, p)
      OBVIOUS
<1>2. f = [i \in 1..1 |-> At(m, p + i - 1)]
      BY <1>1 DEF Row
<1>3. \A i \in 1..1 : p + i - 1 = p
      OBVIOUS
<1>4. f = [i \in 1..1 |-> c]
      BY <1>1, <1>2, <1>3
<1>5. <<c>> = [i \in 1..1 |-> c]
      OBVIOUS
<1> QED BY <1>1, <1>4, <1>5

LEMMA RowAppended ==
  ASSUME NEW m, NEW p \in Int, NEW n \in Nat, NEW S, \A i \in p..(p + n) : At(m, i) \in S
  PROVE  Append(Row(m, p, n), At(m, p + n)) = Row(m, p, n + 1)
<1>1. \A i \in p..(p + n + 1 - 1) : At(m, i) \in S
      OBVIOUS
<1>2. Row(m, p, n) \o Row(m, p + n, 1) = Row(m, p, n + 1)
      BY <1>1, RowJoined
<1>3. Row(m, p + n, 1) = <<At(m, p + n)>>
  <2>1. p + n \in Int
        OBVIOUS
  <2> QED BY <2>1, RowOne
<1>4. PICK s \in Seq(S), e \in S : s = Row(m, p, n) /\ e = At(m, p + n)
  <2>1. \A i \in p..(p + n - 1) : At(m, i) \in S
        OBVIOUS
  <2> QED BY <2>1, RowType
<1>5. Append(s, e) = s \o <<e>>
      OBVIOUS
<1> QED BY <1>2, <1>3, <1>4, <1>5

LEMMA RowTail ==
  ASSUME NEW m, NEW p \in Int, NEW n \in Nat \ {0}, NEW S, \A i \in p..(p + n - 1) : At(m, i) \in S
  PROVE  Tail(Row(m, p, n)) = Row(m, p + 1, n - 1)
<1>1. PICK s, w : s = Row(m, p, n) /\ w = Row(m, p + 1, n - 1)
      OBVIOUS
<1>2. s \in Seq(S) /\ Len(s) = n /\ \A i \in 1..n : s[i] = At(m, p + i - 1)
      BY <1>1, RowType
<1>3. w = [i \in 1..(n - 1) |-> At(m, (p + 1) + i - 1)]
      BY <1>1 DEF Row
<1>4. Tail(s) = [i \in 1..(n - 1) |-> s[i + 1]]
  <2>1. s # <<>>
        BY <1>2
  <2>2. PICK t : t = Tail(s)
        OBVIOUS
  <2>3. t \in Seq(S) /\ Len(t) = Len(s) - 1 /\ \A i \in 1..(Len(s) - 1) : t[i] = s[i + 1]
        BY <1>2, <2>1, <2>2
  <2>4. t \in [1..(n - 1) -> S]
        BY <1>2, <2>3
  <2> QED BY <1>2, <2>2, <2>3, <2>4
<1>5. ASSUME NEW i \in 1..(n - 1) PROVE s[i + 1] = At(m, (p + 1) + i - 1)
  <2>1. i + 1 \in 1..n /\ p + (i + 1) - 1 = (p + 1) + i - 1
        OBVIOUS
  <2> QED BY <1>2, <2>1
<1> QED BY <1>1, <1>3, <1>4, <1>5

LEMMA RowFront ==
  ASSUME NEW m, NEW p \in Int, NEW n \in Nat \ {0}, NEW S, \A i \in p..(p + n - 1) : At(m, i) \in S
  PROVE  Front(Row(m, p, n)) = Row(m, p, n - 1)
<1>1. PICK s, w : s = Row(m, p, n) /\ w = Row(m, p, n - 1)
      OBVIOUS
<1>2. s \in Seq(S) /\ Len(s) = n /\ \A i \in 1..n : s[i] = At(m, p + i - 1)
      BY <1>1, RowType
<1>3. w = [i \in 1..(n - 1) |-> At(m, p + i - 1)]
      BY <1>1 DEF Row
<1>4. Front(s) = [i \in 1..(n - 1) |-> s[i]]
  <2>1. Front(s) = SubSeq(s, 1, n - 1)
        BY <1>2 DEF Front
  <2> QED BY <1>2, <2>1
<1>5. ASSUME NEW i \in 1..(n - 1) PROVE s[i] = At(m, p + i - 1)
      BY <1>2
<1> QED BY <1>1, <1>3, <1>4, <1>5
-----------------------------------------------------------------------------
(* Iterators. *)

LEMMA ItSpot ==
  ASSUME NEW m, NEW q \in Int, NEW t \in 0..(B - 1)
  PROVE  It(m, q, t) = Spot(m, q * B + t)
BY Split DEF Spot

\* an iterator that names its slot's buffer is the one at its position
LEMMA AtSpot ==
  ASSUME NEW m, NEW it \in Spots, it.buf = m[it.node]
  PROVE  Pos(it) \in Int /\ it = Spot(m, Pos(it)) /\ Cell(it) = At(m, Pos(it))
<1>1. it = [node |-> it.node, buf |-> it.buf, off |-> it.off]
      BY DEF Spots
<1>2. it.node \in Int /\ it.off \in 0..(B - 1)
      BY DEF Spots
<1>3. Pos(it) \in Int /\ Pos(it) \div B = it.node /\ Pos(it) % B = it.off
      BY <1>2, Split DEF Pos
<1> QED BY <1>1, <1>3 DEF Spot, It, Cell, At

LEMMA SpotOf ==
  ASSUME NEW m, NEW p \in Int
  PROVE  /\ Spot(m, p).node = p \div B /\ Spot(m, p).off = p % B
         /\ Spot(m, p).buf = m[p \div B]
         /\ Pos(Spot(m, p)) = p /\ Cell(Spot(m, p)) = At(m, p)
BY DivMod DEF Spot, It, Pos, Cell, At

\* operator++ goes to the next position
LEMMA IncSpot ==
  ASSUME NEW m, NEW p \in Int
  PROVE  Inc(m, Spot(m, p)) = Spot(m, p + 1)
<1>1. PICK q \in Int, t \in 0..(B - 1) : q = p \div B /\ t = p % B /\ p = q * B + t
      BY DivMod
<1>2. CASE t + 1 = B
  <2>1. p + 1 = (q + 1) * B + 0 /\ q + 1 \in Int /\ 0 \in 0..(B - 1)
        BY <1>1, <1>2, BAssumption
  <2>2. Spot(m, p + 1) = It(m, q + 1, 0)
        BY <2>1, ItSpot
  <2> QED BY <1>1, <1>2, <2>2 DEF Inc, Spot, It
<1>3. CASE t + 1 # B
  <2>1. p + 1 = q * B + (t + 1) /\ t + 1 \in 0..(B - 1)
        BY <1>1, <1>3, BAssumption
  <2>2. Spot(m, p + 1) = It(m, q, t + 1)
        BY <2>1, ItSpot
  <2> QED BY <1>1, <1>3, <2>2 DEF Inc, Spot, It
<1> QED BY <1>2, <1>3

\* operator-- to the one before, from the terminal slot too
LEMMA DecSpot ==
  ASSUME NEW m, NEW p \in Int, m[p \div B] = NoBuf => p % B = 0
  PROVE  Dec(m, Spot(m, p)) = Spot(m, p - 1)
<1>1. PICK q \in Int, t \in 0..(B - 1) : q = p \div B /\ t = p % B /\ p = q * B + t
      BY DivMod
<1>2. CASE t = 0
  <2>1. p - 1 = (q - 1) * B + (B - 1) /\ q - 1 \in Int /\ B - 1 \in 0..(B - 1)
        BY <1>1, <1>2, BAssumption
  <2>2. Spot(m, p - 1) = It(m, q - 1, B - 1)
        BY <2>1, ItSpot
  <2> QED BY <1>1, <1>2, <2>2 DEF Dec, Spot, It
<1>3. CASE t # 0
  <2>1. p - 1 = q * B + (t - 1) /\ t - 1 \in 0..(B - 1)
        BY <1>1, <1>3, BAssumption
  <2>2. Spot(m, p - 1) = It(m, q, t - 1)
        BY <2>1, ItSpot
  <2> QED BY <1>1, <1>3, <2>2 DEF Dec, Spot, It
<1> QED BY <1>2, <1>3

\* operator+= as far as it is told to, to either side
LEMMA PlusSpot ==
  ASSUME NEW m, NEW p \in Int, NEW n \in Int
  PROVE  Plus(m, Spot(m, p), n) = Spot(m, p + n)
<1>1. PICK q \in Int, t \in 0..(B - 1) : q = p \div B /\ t = p % B /\ p = q * B + t
      BY DivMod
<1>2. PICK it : it = Spot(m, p)
      OBVIOUS
<1>3. it.node = q /\ it.off = t
      BY <1>1, <1>2 DEF Spot, It
<1>4. CASE n = 0
      BY <1>4 DEF Plus
<1>5. CASE n > 0
  <2>1. PICK j \in Int, k \in 0..(B - 1) : j = n \div B /\ k = n % B /\ n = j * B + k
        BY DivMod
  <2>2. CASE B - k <= t
    <3>1. q + j + 1 \in Int /\ t - (B - k) \in 0..(B - 1)
          BY <2>2, BAssumption
    <3>2. p + n = (q + j + 1) * B + (t - (B - k))
          BY <1>1, <2>1, BAssumption
    <3>3. Spot(m, p + n) = It(m, q + j + 1, t - (B - k))
          BY <3>1, <3>2, ItSpot
    <3> QED BY <1>2, <1>3, <1>5, <2>1, <2>2, <3>3, BAssumption DEF Plus
  <2>3. CASE ~ (B - k <= t)
    <3>1. q + j \in Int /\ t + k \in 0..(B - 1)
          BY <2>3, BAssumption
    <3>2. p + n = (q + j) * B + (t + k)
          BY <1>1, <2>1, BAssumption
    <3>3. Spot(m, p + n) = It(m, q + j, t + k)
          BY <3>1, <3>2, ItSpot
    <3> QED BY <1>2, <1>3, <1>5, <2>1, <2>3, <3>3, BAssumption DEF Plus
  <2> QED BY <2>2, <2>3
<1>6. CASE n < 0
  <2>1. PICK j \in Int, k \in 0..(B - 1) : j = (-n) \div B /\ k = (-n) % B /\ -n = j * B + k
        BY DivMod
  <2>2. CASE k > 0 /\ t < k
    <3>1. q - j - 1 \in Int /\ B - (k - t) \in 0..(B - 1)
          BY <2>2, BAssumption
    <3>2. p + n = (q - j - 1) * B + (B - (k - t))
          BY <1>1, <2>1, BAssumption
    <3>3. Spot(m, p + n) = It(m, q - j - 1, B - (k - t))
          BY <3>1, <3>2, ItSpot
    <3> QED BY <1>2, <1>3, <1>6, <2>1, <2>2, <3>3, BAssumption DEF Plus
  <2>3. CASE ~ (k > 0 /\ t < k)
    <3>1. q - j \in Int /\ t - k \in 0..(B - 1)
          BY <2>3, BAssumption
    <3>2. p + n = (q - j) * B + (t - k)
          BY <1>1, <2>1, BAssumption
    <3>3. Spot(m, p + n) = It(m, q - j, t - k)
          BY <3>1, <3>2, ItSpot
    <3> QED BY <1>2, <1>3, <1>6, <2>1, <2>3, <3>3, BAssumption DEF Plus
  <2> QED BY <2>2, <2>3
<1> QED BY <1>4, <1>5, <1>6

\* a set of numbers has a least one: of two sets {y : y < x} one is a part of
\* the other, and a finite set's parts have no infinite descent
LEMMA Least ==
  ASSUME NEW S \in SUBSET Nat, S # {}, IsFiniteSet(S)
  PROVE  \E x \in S : \A y \in S : x <= y
<1>1. PICK R : R = StrictSubsetOrdering(S)
      OBVIOUS
<1>2. PICK T : T = {{y \in S : y < x} : x \in S}
      OBVIOUS
<1>3. T \subseteq SUBSET S /\ T # {}
      BY <1>2
<1>4. PICK m \in T : \A z \in T : ~ (<<z, m>> \in R)
  <2>1. IsWellFoundedOn(R, SUBSET S)
        BY <1>1, FS_StrictSubsetOrderingWellFounded, FS_FiniteSubsetsOfFinite
  <2> QED BY <1>3, <2>1, WFMin
<1>5. PICK x \in S : m = {y \in S : y < x}
      BY <1>2, <1>4
<1>6. ASSUME NEW y \in S, y < x PROVE FALSE
  <2>1. PICK z : z = {w \in S : w < y}
        OBVIOUS
  <2>2. z \in T /\ z \in SUBSET S /\ m \in SUBSET S
        BY <1>2, <1>3, <1>4, <2>1
  <2>3. y \in m /\ y \notin z
        BY <1>5, <1>6, <2>1
  <2>4. ASSUME NEW w \in z PROVE w \in m
    <3>1. w \in S /\ w < y
          BY <2>1
    <3>2. w < x
          BY <1>6, <3>1
    <3> QED BY <1>5, <3>1, <3>2
  <2>5. <<z, m>> \in R
        BY <1>1, <2>2, <2>3, <2>4 DEF StrictSubsetOrdering
  <2> QED BY <1>4, <2>2, <2>5
<1> QED BY <1>6

\* any number of steps forward: what satisfies the recursion is the one
\* function that does
LEMMA WalkSpot ==
  ASSUME NEW m, NEW p \in Int, NEW n \in Nat
  PROVE  \A i \in 0..n : Walk(m, Spot(m, p), n)[i] = Spot(m, p + i)
<1>1. PICK w : w = Walk(m, Spot(m, p), n)
      OBVIOUS
<1>2. w = CHOOSE f : f = [i \in 0..n |-> IF i = 0 THEN Spot(m, p) ELSE Inc(m, f[i - 1])]
      BY <1>1 DEF Walk
<1>3. PICK g : g = [i \in 0..n |-> Spot(m, p + i)]
      OBVIOUS
<1>4. g = [i \in 0..n |-> IF i = 0 THEN Spot(m, p) ELSE Inc(m, g[i - 1])]
  <2>1. ASSUME NEW i \in 0..n, i # 0 PROVE Inc(m, g[i - 1]) = Spot(m, p + i)
    <3>1. g[i - 1] = Spot(m, p + (i - 1))
          BY <1>3, <2>1
    <3>2. Inc(m, Spot(m, p + (i - 1))) = Spot(m, (p + (i - 1)) + 1)
          BY IncSpot
    <3>3. (p + (i - 1)) + 1 = p + i
          OBVIOUS
    <3> QED BY <3>1, <3>2, <3>3
  <2>2. ASSUME NEW i \in 0..n, i = 0 PROVE Spot(m, p) = Spot(m, p + i)
        BY <2>2
  <2> QED BY <1>3, <2>1, <2>2
<1>5. w = [i \in 0..n |-> IF i = 0 THEN Spot(m, p) ELSE Inc(m, w[i - 1])]
      BY <1>2, <1>4
<1>6. ASSUME NEW k \in 0..n, w[k] # g[k] PROVE FALSE
  <2>1. PICK S : S = {i \in 0..n : w[i] # g[i]}
        OBVIOUS
  <2>2. S \in SUBSET Nat /\ S # {} /\ IsFiniteSet(S)
    <3>1. S \in SUBSET (0..n) /\ IsFiniteSet(0..n) /\ k \in S
          BY <1>6, <2>1, FS_Interval
    <3>2. S \in SUBSET Nat /\ S # {}
          BY <3>1
    <3> QED BY <3>1, <3>2, FS_Subset
  <2>3. PICK x \in S : \A y \in S : x <= y
        BY <2>2, Least
  <2>4. x \in 0..n /\ w[x] # g[x]
        BY <2>1
  <2>5. CASE x = 0
        BY <1>4, <1>5, <2>4, <2>5
  <2>6. CASE x # 0
    <3>1. x - 1 \in 0..n /\ x - 1 \notin S
          BY <2>3, <2>4, <2>6
    <3>2. w[x - 1] = g[x - 1]
          BY <2>1, <3>1
    <3> QED BY <1>4, <1>5, <2>4, <2>6, <3>2
  <2> QED BY <2>5, <2>6
<1> QED BY <1>1, <1>3, <1>6

LEMMA CellsAt ==
  ASSUME NEW m, NEW p \in Int, NEW n \in Nat
  PROVE  Cells(m, Spot(m, p), n) = [i \in 1..n |-> At(m, p + i - 1)]
<1>1. ASSUME NEW i \in 1..n PROVE Cell(Walk(m, Spot(m, p), n)[i - 1]) = At(m, p + i - 1)
  <2>1. i - 1 \in 0..n /\ p + (i - 1) \in Int /\ p + (i - 1) = p + i - 1
        OBVIOUS
  <2>2. Walk(m, Spot(m, p), n)[i - 1] = Spot(m, p + (i - 1))
        BY <2>1, WalkSpot
  <2> QED BY <2>1, <2>2, SpotOf
<1> QED BY <1>1 DEF Cells

-----------------------------------------------------------------------------
(* What the storage looks like from the positions. *)

LEMMA Ends ==
  ASSUME NEW x, NEW a, NEW z, Laid(x, a, z)
  PROVE  /\ Pos(x.beg) \in Int /\ Pos(x.end) \in Int
         /\ x.beg.node = Pos(x.beg) \div B /\ x.beg.off = Pos(x.beg) % B
         /\ x.end.node = Pos(x.end) \div B /\ x.end.off = Pos(x.end) % B
         /\ x.beg.node \in Int /\ x.beg.off \in 0..(B - 1)
         /\ x.end.node \in Int /\ x.end.off \in 0..(B - 1)
         /\ x.beg \in Spots /\ x.end \in Spots
<1>1. x.beg \in Spots /\ x.end \in Spots
      BY DEF Laid, Deques
<1>2. /\ x.beg.node \in Int /\ x.beg.off \in 0..(B - 1)
      /\ x.end.node \in Int /\ x.end.off \in 0..(B - 1)
      BY <1>1 DEF Spots
<1> QED BY <1>1, <1>2, Split DEF Pos

\* both ends, and the bounds of the slots, as positions
LEMMA Walls ==
  ASSUME NEW x, NEW a, NEW z, Laid(x, a, z)
  PROVE  \E p, q, u, v \in Int :
           /\ p = Pos(x.beg) /\ q = Pos(x.end) /\ u = a * B /\ v = z * B
           /\ u <= p /\ p <= q /\ q <= v
<1>1. Pos(x.beg) \in Int /\ Pos(x.end) \in Int
      BY Ends
<1>2. a \in Int /\ z \in Int
      BY DEF Laid
<1>3. a * B \in Int /\ z * B \in Int
      BY <1>2, BAssumption
<1>4. a * B <= Pos(x.beg) /\ Pos(x.beg) <= Pos(x.end) /\ Pos(x.end) <= z * B
      BY DEF Laid
<1> QED BY <1>1, <1>3, <1>4

\* the iterators' slots are among those of the elements, or the one past them
LEMMA EndSlots ==
  ASSUME NEW x, NEW a, NEW z, Laid(x, a, z)
  PROVE  /\ a <= x.beg.node /\ x.beg.node <= x.end.node /\ x.end.node <= z
         /\ x.beg.node \in 0..x.cap /\ x.end.node \in 0..x.cap
         /\ x.beg.node = z => x.beg.off = 0
         /\ x.end.node = z => x.end.off = 0
<1>1. PICK p \in Int, q \in Int : p = Pos(x.beg) /\ q = Pos(x.end)
      BY Ends
<1>2. /\ x.beg.node = p \div B /\ x.beg.off = p % B
      /\ x.end.node = q \div B /\ x.end.off = q % B
      BY <1>1, Ends
<1>3. a \in Int /\ z \in Int /\ 0 <= a /\ a <= z /\ z <= x.cap /\ x.cap \in Int
      BY LimitAssumption DEF Laid, Deques
<1>4. a * B <= p /\ p <= q /\ q <= z * B
      BY <1>1 DEF Laid
<1>5. p \div B \in Int /\ q \div B \in Int
      BY DivMod
<1>6. (p \div B) * B <= q
  <2>1. p \div B \in Int /\ p % B \in 0..(B - 1) /\ p = (p \div B) * B + (p % B)
        BY DivMod
  <2>2. (p \div B) * B \in Int
        BY <2>1, BAssumption
  <2> QED BY <1>4, <2>1, <2>2, BAssumption
<1>7. p \div B <= q \div B
      BY <1>5, <1>6, SlotBounds
<1>8. p <= z * B
  <2>1. z * B \in Int
        BY <1>3, BAssumption
  <2> QED BY <1>4, <2>1
<1>9. a <= p \div B
      BY <1>3, <1>4, SlotBounds
<1>10. q \div B < z \/ (q \div B = z /\ q % B = 0)
      BY <1>3, <1>4, SlotBounds
<1>11. p \div B < z \/ (p \div B = z /\ p % B = 0)
      BY <1>3, <1>8, SlotBounds
<1> QED BY <1>2, <1>3, <1>5, <1>7, <1>9, <1>10, <1>11

\* a position in the slots of the elements has a cell of its own
LEMMA CellThere ==
  ASSUME NEW x, NEW a, NEW z, Laid(x, a, z), NEW p \in Int, a * B <= p, p < z * B
  PROVE  /\ p \div B \in a..(z - 1) /\ p \div B \in 0..x.cap
         /\ x.map[p \div B] \in Buffers /\ At(x.map, p) \in CellSet
<1>1. a \in Int /\ z \in Int /\ 0 <= a /\ z <= x.cap /\ x.cap \in Int
      BY LimitAssumption DEF Laid, Deques
<1>2. p \div B \in Int /\ p % B \in 0..(B - 1)
      BY DivMod
<1>3. p \div B \in a..(z - 1)
      BY <1>1, <1>2, SlotBounds
<1>4. p \div B \in 0..x.cap
      BY <1>1, <1>3
<1>5. x.map[p \div B] \in Buffers
      BY <1>3, <1>4 DEF Laid, Null
<1> QED BY <1>2, <1>3, <1>4, <1>5 DEF At, CellSet

LEMMA CellsApart ==
  ASSUME NEW x, NEW a, NEW z, Laid(x, a, z), NEW p \in Int, NEW q \in Int,
         a * B <= p, p < z * B, a * B <= q, q < z * B, At(x.map, p) = At(x.map, q)
  PROVE  p = q
<1>1. /\ p \div B \in 0..x.cap /\ x.map[p \div B] \in Buffers
      /\ q \div B \in 0..x.cap
      BY CellThere
<1>2. x.map[p \div B] = x.map[q \div B] /\ p % B = q % B
      BY DEF At
<1>3. p \div B = q \div B
      BY <1>1, <1>2, NoBufAssumption DEF Laid
<1> QED BY <1>2, <1>3, DivMod

\* so many positions, so many cells
LEMMA CellsCounted ==
  ASSUME NEW x, NEW a, NEW z, Laid(x, a, z), NEW P, IsFiniteSet(P),
         \A p \in P : p \in Int /\ a * B <= p /\ p < z * B
  PROVE  Cardinality({At(x.map, p) : p \in P}) = Cardinality(P)
<1>1. PICK f : f = [p \in P |-> At(x.map, p)]
      OBVIOUS
<1>2. PICK C : C = {At(x.map, p) : p \in P}
      OBVIOUS
<1>3. \A p, q \in P : f[p] = f[q] => p = q
      BY <1>1, CellsApart
<1>4. f \in Surjection(P, C)
      BY <1>1, <1>2 DEF Surjection
<1>5. f \in Injection(P, C)
      BY <1>1, <1>2, <1>3 DEF Injection, IsInjective
<1> QED BY <1>2, <1>4, <1>5, FS_Surjection

\* rows in the slots of the elements, and the elements' own
LEMMA RowThere ==
  ASSUME NEW x, NEW a, NEW z, Laid(x, a, z), NEW p \in Int, NEW n \in Nat,
         a * B <= p, p + n <= z * B
  PROVE  /\ \A k \in p..(p + n - 1) : At(x.map, k) \in CellSet
         /\ Row(x.map, p, n) \in Seq(CellSet) /\ Len(Row(x.map, p, n)) = n
         /\ \A i \in 1..n : Row(x.map, p, n)[i] = At(x.map, p + i - 1)
         /\ ToSet(Row(x.map, p, n)) = Patch(x.map, p, p + n)
<1>1. ASSUME NEW k \in p..(p + n - 1) PROVE At(x.map, k) \in CellSet
  <2>1. a * B \in Int /\ z * B \in Int
        BY BAssumption DEF Laid
  <2>2. a * B <= k /\ k < z * B
        BY <2>1
  <2> QED BY <2>2, CellThere
<1>2. PICK s : s = Row(x.map, p, n)
      OBVIOUS
<1>3. s \in Seq(CellSet) /\ Len(s) = n /\ \A i \in 1..n : s[i] = At(x.map, p + i - 1)
      BY <1>1, <1>2, RowType
<1>4. ToSet(s) = {s[i] : i \in 1..n}
      BY <1>3 DEF ToSet
<1>5. ASSUME NEW i \in 1..n PROVE s[i] \in {At(x.map, k) : k \in p..(p + n - 1)}
  <2>1. p + i - 1 \in p..(p + n - 1)
        OBVIOUS
  <2> QED BY <1>3, <2>1
<1>6. ASSUME NEW k \in p..(p + n - 1) PROVE At(x.map, k) \in {s[i] : i \in 1..n}
  <2>1. k - p + 1 \in 1..n /\ p + (k - p + 1) - 1 = k
        OBVIOUS
  <2> QED BY <1>3, <2>1
<1>7. ToSet(s) = Patch(x.map, p, p + n)
      BY <1>4, <1>5, <1>6 DEF Patch
<1> QED BY <1>1, <1>2, <1>3, <1>7

LEMMA LiveCells ==
  ASSUME NEW x, NEW a, NEW z, Laid(x, a, z), NEW s, Holds(x, s)
  PROVE  /\ s \in Seq(CellSet) /\ Len(s) = Pos(x.end) - Pos(x.beg)
         /\ \A i \in 1..Len(s) : s[i] = At(x.map, Pos(x.beg) + i - 1)
         /\ ToSet(s) = Patch(x.map, Pos(x.beg), Pos(x.end))
         /\ ToSet(s) \subseteq CellSet
<1>1. PICK p \in Int, q \in Int, u \in Int, v \in Int :
        /\ p = Pos(x.beg) /\ q = Pos(x.end) /\ u = a * B /\ v = z * B
        /\ u <= p /\ p <= q /\ q <= v
      BY Walls
<1>2. PICK n \in Nat : n = q - p /\ p + n = q
      BY <1>1
<1>3. s = Row(x.map, p, n)
      BY <1>1, <1>2 DEF Holds
<1>4. /\ \A k \in p..(p + n - 1) : At(x.map, k) \in CellSet
      /\ s \in Seq(CellSet) /\ Len(s) = n
      /\ \A i \in 1..n : s[i] = At(x.map, p + i - 1)
      /\ ToSet(s) = Patch(x.map, p, q)
  <2>1. a * B <= p /\ p + n <= z * B
        BY <1>1, <1>2
  <2>2. ToSet(Row(x.map, p, n)) = Patch(x.map, p, p + n)
        BY <2>1, RowThere
  <2>3. \A k \in p..(p + n - 1) : At(x.map, k) \in CellSet
        BY <2>1, RowThere
  <2>4. s \in Seq(CellSet) /\ Len(s) = n /\ \A i \in 1..n : s[i] = At(x.map, p + i - 1)
        BY <1>3, <2>3, RowType
  <2> QED BY <1>2, <1>3, <2>2, <2>3, <2>4
<1>5. Patch(x.map, p, q) \subseteq CellSet
      BY <1>2, <1>4 DEF Patch
<1> QED BY <1>1, <1>2, <1>4, <1>5

-----------------------------------------------------------------------------
(* Between calls the invariant says what the run checks. *)

LEMMA Idled ==
  ASSUME DInv, r = Idle
  PROVE  /\ Valid(d) /\ made = ToSet(live) /\ Holds(d, live)
         /\ live \in Seq(CellSet) /\ own = Bufs(d) /\ Laid(d, d.span, d.span + d.cnt)
<1>1. ~ (Allocating \/ Building)
      BY DEF Allocating, Building, Idle
<1> QED BY <1>1 DEF DInv, Resting, Valid

\* the iterators of a deque between calls
LEMMA ValidEnds ==
  ASSUME NEW x, Valid(x)
  PROVE  /\ Laid(x, x.span, x.span + x.cnt)
         /\ x.beg = Spot(x.map, Pos(x.beg)) /\ x.end = Spot(x.map, Pos(x.end))
         /\ Cell(x.beg) = At(x.map, Pos(x.beg)) /\ Cell(x.end) = At(x.map, Pos(x.end))
BY Ends, AtSpot DEF Valid

\* --, at any position of the elements and at their end
LEMMA DecLaid ==
  ASSUME NEW x, NEW a, NEW z, Laid(x, a, z), NEW p \in Int, a * B <= p, p <= z * B
  PROVE  Dec(x.map, Spot(x.map, p)) = Spot(x.map, p - 1)
<1>1. a \in Int /\ z \in Int
      BY DEF Laid
<1>2. CASE p < z * B
  <2>1. x.map[p \div B] \in Buffers
        BY <1>2, CellThere
  <2> QED BY <2>1, NoBufAssumption, DecSpot
<1>3. CASE ~ (p < z * B)
  <2>1. z * B \in Int
        BY <1>1, BAssumption
  <2>2. p = z * B + 0 /\ 0 \in 0..(B - 1)
        BY <1>3, <2>1, BAssumption
  <2>3. p % B = 0
        BY <1>1, <2>2, Split
  <2> QED BY <2>3, DecSpot
<1> QED BY <1>2, <1>3

LEMMA SpanOwned ==
  ASSUME NEW x, Valid(x)
  PROVE  \A i \in 0..x.cap : x.map[i] # NoBuf <=> x.span <= i /\ i < x.span + x.cnt
<1>1. Laid(x, x.span, x.span + x.cnt)
      BY DEF Valid
<1>2. x.span \in Nat /\ x.cnt \in Nat /\ x.cap \in 0..Limit
      BY <1>1 DEF Laid, Deques
<1>3. \A i \in 0..x.cap : x.map[i] # NoBuf <=> i \in x.span..(x.span + x.cnt - 1)
      BY DEF Valid, Owned
<1> QED BY <1>2, <1>3

LEMMA IdleMap == DInv => MapValid
<1> SUFFICES ASSUME DInv, r = Idle
             PROVE  /\ d.span + d.cnt <= d.cap
                    /\ \A i \in 0..d.cap : d.map[i] # NoBuf <=> d.span <= i /\ i < d.span + d.cnt
                    /\ \A i, j \in 0..d.cap : d.map[i] = d.map[j] /\ d.map[i] # NoBuf => i = j
                    /\ d.span <= d.beg.node /\ d.beg.node <= d.end.node /\ d.end.node <= d.span + d.cnt
                    /\ \A it \in {d.beg, d.end} :
                         it.buf = d.map[it.node] /\ (it.buf = NoBuf => it.off = 0)
    BY DEF MapValid
<1>1. Valid(d)
      BY Idled
<1> DEFINE z == d.span + d.cnt
<1>2. z = d.span + d.cnt
      OBVIOUS
<1>3. Laid(d, d.span, z)
      BY <1>1 DEF Valid
<1> HIDE DEF z
<1>4. d.span \in Int /\ z \in Int /\ z <= d.cap
      BY <1>3 DEF Laid
<1>5. \A i \in 0..d.cap : d.map[i] # NoBuf <=> d.span <= i /\ i < z
      BY <1>1, <1>2, SpanOwned
<1>6. \A i, j \in 0..d.cap : d.map[i] = d.map[j] /\ d.map[i] # NoBuf => i = j
      BY <1>3 DEF Laid
<1>7. /\ d.span <= d.beg.node /\ d.beg.node <= d.end.node /\ d.end.node <= z
      /\ d.beg.node \in 0..d.cap /\ d.end.node \in 0..d.cap
      /\ d.beg.node = z => d.beg.off = 0
      /\ d.end.node = z => d.end.off = 0
      BY <1>3, EndSlots
<1>8. d.beg.buf = d.map[d.beg.node] /\ d.end.buf = d.map[d.end.node]
      BY <1>1 DEF Valid
<1>9. ASSUME NEW it \in Spots, it.buf = d.map[it.node], it.node \in 0..d.cap,
             d.span <= it.node, it.node <= z, it.node = z => it.off = 0
      PROVE  it.buf = NoBuf => it.off = 0
  <2>1. it.node \in Int
        BY DEF Spots
  <2>2. it.buf = NoBuf => ~ (it.node < z)
        BY <1>5, <1>9
  <2> QED BY <1>4, <1>9, <2>1, <2>2
<1>10. (d.beg.buf = NoBuf => d.beg.off = 0) /\ (d.end.buf = NoBuf => d.end.off = 0)
  <2>1. d.beg \in Spots /\ d.end \in Spots
        BY <1>3, Ends
  <2>2. d.span <= d.end.node
        BY <1>4, <1>7, <2>1 DEF Spots
  <2>3. d.beg.node <= z
        BY <1>4, <1>7, <2>1 DEF Spots
  <2> QED BY <1>7, <1>8, <1>9, <2>1, <2>2, <2>3
<1> QED BY <1>2, <1>4, <1>5, <1>6, <1>7, <1>8, <1>10

LEMMA IdleWalk == DInv => WalkRight
<1> SUFFICES ASSUME DInv, r = Idle PROVE WalkRight
    BY DEF WalkRight
<1>1. /\ Valid(d) /\ Holds(d, live) /\ live \in Seq(CellSet)
      /\ Laid(d, d.span, d.span + d.cnt)
      BY Idled
<1>0. PICK m : m = d.map
      OBVIOUS
<1>2. PICK p \in Int, q \in Int, n \in Nat :
        p = Pos(d.beg) /\ q = Pos(d.end) /\ n = Len(live) /\ m = d.map
      BY <1>0, <1>1, Ends
<1>3. q = p + n /\ \A i \in 1..n : live[i] = At(m, p + i - 1)
      BY <1>1, <1>2, LiveCells
<1>4. d.beg = Spot(m, p) /\ d.end = Spot(m, q)
      BY <1>1, <1>2, ValidEnds
<1>5. PICK w : w = Walk(m, d.beg, n)
      OBVIOUS
<1>6. \A i \in 0..n : w[i] = Spot(m, p + i)
      BY <1>4, <1>5, WalkSpot
<1>7. Size = n
  <2>1. /\ d.beg.node \in Int /\ d.beg.off \in 0..(B - 1)
        /\ d.end.node \in Int /\ d.end.off \in 0..(B - 1)
        BY <1>1, Ends
  <2>2. q - p = (d.end.node * B + d.end.off) - (d.beg.node * B + d.beg.off)
        BY <1>2 DEF Pos
  <2>3. (d.end.node - d.beg.node) * B = d.end.node * B - d.beg.node * B
        BY <2>1, BAssumption
  <2>4. d.end.node * B \in Int /\ d.beg.node * B \in Int
        BY <2>1, BAssumption
  <2>5. Size = (d.end.node * B - d.beg.node * B) + d.end.off - d.beg.off
        BY <2>3 DEF Size, Minus
  <2> QED BY <1>3, <2>1, <2>2, <2>4, <2>5, BAssumption
<1>8. w[n] = d.end
      BY <1>3, <1>4, <1>6
<1>9. ASSUME NEW i \in 0..n, i < n PROVE Cell(w[i]) = live[i + 1]
  <2>1. i + 1 \in 1..n /\ p + (i + 1) - 1 = p + i /\ p + i \in Int
        BY <1>9
  <2>2. live[i + 1] = At(m, p + i)
        BY <1>3, <2>1
  <2> QED BY <1>6, <2>1, <2>2, SpotOf
<1>10. ASSUME NEW i \in 0..n, i > 0 PROVE Dec(m, w[i]) = w[i - 1]
  <2>1. i - 1 \in 0..n /\ p + (i - 1) = (p + i) - 1 /\ p + i \in Int
        BY <1>10
  <2>2. p + i <= q
        BY <1>3
  <2>3. d.span * B <= p + i /\ p + i <= (d.span + d.cnt) * B
    <3>1. PICK u \in Int, v \in Int : u = d.span * B /\ v = (d.span + d.cnt) * B
          BY <1>1, BAssumption DEF Laid
    <3>2. u <= p /\ q <= v
          BY <1>1, <1>2, <3>1 DEF Laid
    <3>3. u <= p + i /\ p + i <= v
          BY <2>2, <3>1, <3>2
    <3> QED BY <3>1, <3>3
  <2>4. Dec(m, Spot(m, p + i)) = Spot(m, (p + i) - 1)
        BY <1>1, <1>2, <2>1, <2>3, DecLaid
  <2> QED BY <1>6, <2>1, <2>4
<1>11. ASSUME NEW i \in 0..n, NEW j \in 0..n PROVE Plus(m, w[i], j - i) = w[j]
  <2>1. p + i \in Int /\ j - i \in Int /\ (p + i) + (j - i) = p + j
        OBVIOUS
  <2>2. Plus(m, Spot(m, p + i), j - i) = Spot(m, (p + i) + (j - i))
        BY <2>1, PlusSpot
  <2> QED BY <1>6, <2>1, <2>2
<1> QED BY <1>2, <1>5, <1>7, <1>8, <1>9, <1>10, <1>11 DEF WalkRight

-----------------------------------------------------------------------------
(* At any time: types, and what is allocated and constructed. *)

LEMMA BufsThere ==
  ASSUME NEW x, NEW a, NEW z, Laid(x, a, z)
  PROVE  Bufs(x) \subseteq Buffers
BY DEF Laid, Bufs, Null

\* the positions of a reservation's room that are filled lie in the span, and
\* none is an element's
LEMMA RoomCells ==
  ASSUME DInv, Building
  PROVE  /\ Laid(d, d.span, d.span + d.cnt) /\ RoomFirst \in Int /\ r.n \in Nat /\ r.done \in Nat
         /\ \A p \in RoomFirst..(RoomFirst + r.n - 1) :
              /\ d.span * B <= p /\ p < (d.span + d.cnt) * B
              /\ p \notin Pos(d.beg)..(Pos(d.end) - 1)
<1>1. Laid(d, d.span, d.span + d.cnt)
      BY DEF Building, Valid
<1>2. r \in Reservations
      BY DEF DInv, Resting, Undoable, Building, Idle
<1>3. PICK p \in Int, q \in Int, u \in Int, v \in Int :
        /\ p = Pos(d.beg) /\ q = Pos(d.end) /\ u = d.span * B /\ v = (d.span + d.cnt) * B
        /\ u <= p /\ p <= q /\ q <= v
      BY <1>1, Walls
<1>4. u <= p /\ p <= q /\ q <= v
      BY <1>3
<1>5. r.n \in Nat /\ r.done \in Nat /\ r.back \in BOOLEAN
      BY <1>2 DEF Reservations
<1>6. CASE r.back
  <2>1. RoomFirst = q /\ q + r.n <= v
        BY <1>3, <1>6 DEF RoomFirst, Building
  <2> QED BY <1>1, <1>3, <1>4, <1>5, <2>1
<1>7. CASE ~ r.back
  <2>1. RoomFirst = p - r.n /\ p - r.n >= u
        BY <1>3, <1>7 DEF RoomFirst, Building
  <2> QED BY <1>1, <1>3, <1>4, <1>5, <2>1
<1> QED BY <1>6, <1>7

\* what is constructed, as positions
LEMMA Filled ==
  ASSUME DInv
  PROVE  \E a, z, P :
           /\ Laid(d, a, z) /\ made = {At(d.map, p) : p \in P}
           /\ \A p \in P : p \in Int /\ a * B <= p /\ p < z * B
           /\ IsFiniteSet(P)
           /\ Cardinality(P) = Len(live) + IF r.pc = "build" THEN r.done ELSE 0
           /\ ToSet(live) \subseteq made
<1>1. live \in Seq(CellSet) /\ Holds(d, live)
      BY DEF DInv
<1>2. ASSUME NEW a, NEW z, Laid(d, a, z)
      PROVE  /\ Pos(d.beg) \in Int /\ Pos(d.end) \in Int /\ Len(live) = Pos(d.end) - Pos(d.beg)
             /\ ToSet(live) = {At(d.map, p) : p \in Pos(d.beg)..(Pos(d.end) - 1)}
             /\ \A p \in Pos(d.beg)..(Pos(d.end) - 1) : p \in Int /\ a * B <= p /\ p < z * B
             /\ IsFiniteSet(Pos(d.beg)..(Pos(d.end) - 1))
             /\ Cardinality(Pos(d.beg)..(Pos(d.end) - 1)) = Len(live)
  <2>1. PICK p \in Int, q \in Int, u \in Int, v \in Int :
          /\ p = Pos(d.beg) /\ q = Pos(d.end) /\ u = a * B /\ v = z * B
          /\ u <= p /\ p <= q /\ q <= v
        BY <1>2, Walls
  <2>2. u <= p /\ p <= q /\ q <= v
        BY <2>1
  <2>3. Len(live) = q - p
        BY <1>1, <1>2, <2>1, LiveCells
  <2>4. ToSet(live) = {At(d.map, k) : k \in p..(q - 1)}
        BY <1>1, <1>2, <2>1, LiveCells DEF Patch
  <2>5. IsFiniteSet(p..(q - 1)) /\ Cardinality(p..(q - 1)) = q - p
    <3>1. q - 1 \in Int
          OBVIOUS
    <3>2. IsFiniteSet(p..(q - 1)) /\ Cardinality(p..(q - 1)) = IF p > q - 1 THEN 0 ELSE (q - 1) - p + 1
          BY <3>1, FS_Interval
    <3> QED BY <2>2, <3>2
  <2>6. \A k \in p..(q - 1) : k \in Int /\ u <= k /\ k < v
        BY <2>2
  <2> QED BY <2>1, <2>3, <2>4, <2>5, <2>6
<1>3. CASE Building
  <2>1. PICK f \in Int, n \in Nat : f = RoomFirst /\ n = r.done
        BY <1>3, RoomCells
  <2>2. Laid(d, d.span, d.span + d.cnt) /\ r.n \in Nat /\ n <= r.n
        BY <1>3, <2>1, RoomCells DEF Building
  <2>3. \A p \in f..(f + n - 1) : /\ d.span * B <= p /\ p < (d.span + d.cnt) * B
                                  /\ p \notin Pos(d.beg)..(Pos(d.end) - 1)
    <3>1. \A p \in f..(f + n - 1) : p \in f..(f + r.n - 1)
          BY <2>2
    <3> QED BY <1>3, <2>1, <3>1, RoomCells
  <2>4. PICK P : P = Pos(d.beg)..(Pos(d.end) - 1)
        OBVIOUS
  <2>5. PICK Q : Q = f..(f + n - 1)
        OBVIOUS
  <2>6. /\ IsFiniteSet(P) /\ Cardinality(P) = Len(live)
        /\ ToSet(live) = {At(d.map, p) : p \in P}
        /\ \A p \in P : p \in Int /\ d.span * B <= p /\ p < (d.span + d.cnt) * B
        BY <1>2, <2>2, <2>4
  <2>7. IsFiniteSet(Q) /\ Cardinality(Q) = n
    <3>1. f + n - 1 \in Int
          OBVIOUS
    <3>2. IsFiniteSet(Q) /\ Cardinality(Q) = IF f > f + n - 1 THEN 0 ELSE (f + n - 1) - f + 1
          BY <2>5, <3>1, FS_Interval
    <3> QED BY <3>2
  <2>8. P \cap Q = {}
        BY <2>3, <2>4, <2>5
  <2>9. IsFiniteSet(P \cup Q) /\ Cardinality(P \cup Q) = Len(live) + n
    <3>1. Cardinality(P \cap Q) = 0
          BY <2>8, FS_EmptySet
    <3>2. IsFiniteSet(P \cup Q)
          /\ Cardinality(P \cup Q) = Cardinality(P) + Cardinality(Q) - Cardinality(P \cap Q)
          BY <2>6, <2>7, FS_Union
    <3>3. Len(live) \in Nat
          BY <1>1
    <3> QED BY <2>6, <2>7, <3>1, <3>2, <3>3
  <2>10. {At(d.map, f + i) : i \in 0..(n - 1)} = {At(d.map, p) : p \in Q}
    <3>1. ASSUME NEW i \in 0..(n - 1) PROVE f + i \in Q
          BY <2>5
    <3>2. ASSUME NEW p \in Q PROVE p - f \in 0..(n - 1) /\ f + (p - f) = p
          BY <2>5
    <3> QED BY <3>1, <3>2
  <2>11. made = {At(d.map, p) : p \in P \cup Q}
    <3>1. made = ToSet(live) \cup {At(d.map, f + i) : i \in 0..(n - 1)}
          BY <1>3, <2>1 DEF Building
    <3> QED BY <2>6, <2>10, <3>1
  <2>12. \A p \in P \cup Q : p \in Int /\ d.span * B <= p /\ p < (d.span + d.cnt) * B
        BY <2>3, <2>5, <2>6
  <2>13. r.pc = "build"
        BY <1>3 DEF Building
  <2>14. ToSet(live) \subseteq made
        BY <2>6, <2>11
  <2> QED BY <2>1, <2>2, <2>9, <2>11, <2>12, <2>13, <2>14
<1>4. ASSUME NEW a, NEW z, Laid(d, a, z), made = ToSet(live), r.pc # "build"
      PROVE  \E P : /\ made = {At(d.map, p) : p \in P}
                    /\ \A p \in P : p \in Int /\ a * B <= p /\ p < z * B
                    /\ IsFiniteSet(P)
                    /\ Cardinality(P) = Len(live) + IF r.pc = "build" THEN r.done ELSE 0
                    /\ ToSet(live) \subseteq made
  <2>1. PICK P : P = Pos(d.beg)..(Pos(d.end) - 1)
        OBVIOUS
  <2>2. /\ IsFiniteSet(P) /\ Cardinality(P) = Len(live) /\ made = {At(d.map, p) : p \in P}
        /\ \A p \in P : p \in Int /\ a * B <= p /\ p < z * B
        BY <1>2, <1>4, <2>1
  <2>3. Len(live) \in Nat
        BY <1>1
  <2> QED BY <1>4, <2>2, <2>3
<1>5. CASE Allocating
  <2>1. Laid(d, OldFirst, OldLast) /\ made = ToSet(live) /\ r.pc # "build"
        BY <1>5 DEF Allocating
  <2> QED BY <1>4, <2>1
<1>6. CASE Resting
  <2>1. Laid(d, d.span, d.span + d.cnt) /\ made = ToSet(live) /\ r.pc # "build"
        BY <1>6 DEF Resting, Valid, Idle
  <2> QED BY <1>4, <2>1
<1> QED BY <1>3, <1>5, <1>6 DEF DInv

LEMMA NothingRight == DInv => NothingLost
<1> SUFFICES ASSUME DInv PROVE NothingLost
    OBVIOUS
<1>1. PICK a, z, P :
        /\ Laid(d, a, z) /\ made = {At(d.map, p) : p \in P}
        /\ \A p \in P : p \in Int /\ a * B <= p /\ p < z * B
        /\ IsFiniteSet(P)
        /\ Cardinality(P) = Len(live) + IF r.pc = "build" THEN r.done ELSE 0
        /\ ToSet(live) \subseteq made
      BY Filled
<1>2. Cardinality(made) = Cardinality(P)
  <2>1. Laid(d, a, z) /\ IsFiniteSet(P) /\ \A p \in P : p \in Int /\ a * B <= p /\ p < z * B
        BY <1>1
  <2>2. Cardinality({At(d.map, p) : p \in P}) = Cardinality(P)
        BY <2>1, CellsCounted
  <2> QED BY <1>1, <2>2
<1>3. own = Bufs(d)
      BY DEF DInv
<1>4. ASSUME NEW c \in made PROVE c[1] \in own
  <2>1. PICK p \in P : c = At(d.map, p)
        BY <1>1
  <2>2. p \div B \in 0..d.cap /\ d.map[p \div B] \in Buffers
        BY <1>1, <2>1, CellThere
  <2>3. c[1] = d.map[p \div B]
        BY <2>1 DEF At
  <2> QED BY <1>3, <2>2, <2>3, NoBufAssumption DEF Bufs
<1> QED BY <1>1, <1>2, <1>3, <1>4 DEF NothingLost, Bufs

LEMMA MadeThere == DInv => made \subseteq CellSet
<1> SUFFICES ASSUME DInv PROVE made \subseteq CellSet
    OBVIOUS
<1>1. PICK a, z, P :
        /\ Laid(d, a, z) /\ made = {At(d.map, p) : p \in P}
        /\ \A p \in P : p \in Int /\ a * B <= p /\ p < z * B
      BY Filled
<1>2. ASSUME NEW p \in P PROVE At(d.map, p) \in CellSet
  <2>1. p \in Int /\ a * B <= p /\ p < z * B
        BY <1>1
  <2> QED BY <1>1, <2>1, CellThere
<1> QED BY <1>1, <1>2

\* the iterators' slots exist
LEMMA EndsIn ==
  ASSUME NEW a, NEW z, Laid(d, a, z)
  PROVE  \A it \in {d.beg, d.end} : it.node \in 0..d.cap /\ it.off \in 0..(B - 1)
BY Ends, EndSlots

LEMMA SpanIn == DInv => d.span \in 0..d.cap /\ d.cnt \in 0..d.cap
<1>1. CASE \E b, z : Laid(d, d.span, b) /\ b = d.span + d.cnt
  <2>1. PICK z : Laid(d, d.span, z) /\ z = d.span + d.cnt
        BY <1>1
  <2>2. d.span \in Nat /\ d.cnt \in Nat /\ d.cap \in Int /\ z <= d.cap
        BY <2>1, LimitAssumption DEF Laid, Deques
  <2> QED BY <2>1, <2>2
<1>2. ASSUME DInv, Allocating PROVE d.span \in 0..d.cap /\ d.cnt \in 0..d.cap
  <2>1. /\ r.back \in BOOLEAN /\ r.added \in Nat /\ r.new \in Nat /\ r.alloc \in Int
        /\ r.added <= r.new /\ r.added <= d.cnt
        BY <1>2 DEF Allocating, DInv, Resting, Idle, Undoable, Reservations
  <2>2. Laid(d, OldFirst, OldLast)
        BY <1>2 DEF Allocating
  <2>3. d.span \in Nat /\ d.cnt \in Nat /\ d.cap \in Int
        BY <2>2, LimitAssumption DEF Laid, Deques
  <2>4. PICK a \in Int, z \in Int : a = OldFirst /\ z = OldLast
        BY <2>2 DEF Laid
  <2>5. 0 <= a /\ a <= z /\ z <= d.cap /\ z = a + d.cnt - r.added
        BY <2>2, <2>4 DEF Laid, OldLast
  <2>6. CASE r.back
    <3>1. a = d.span /\ r.alloc = z /\ r.alloc + r.new <= d.cap
          BY <1>2, <2>4, <2>6 DEF Allocating, OldFirst
    <3> QED BY <2>1, <2>3, <2>5, <3>1
  <2>7. CASE ~ r.back
    <3>1. a = d.span + r.added /\ r.alloc >= 0 /\ r.alloc + r.new = a
          BY <1>2, <2>4, <2>7 DEF Allocating, OldFirst
    <3> QED BY <2>1, <2>3, <2>5, <3>1
  <2> QED BY <2>6, <2>7
<1> QED BY <1>1, <1>2 DEF DInv, Resting, Building, Valid

LEMMA TypeRight == DInv => TypeOK /\ RoomFound
<1> SUFFICES ASSUME DInv PROVE TypeOK /\ RoomFound
    OBVIOUS
<1>1. PICK a, z : Laid(d, a, z)
      BY Filled
<1>2. /\ d.cap \in 0..Limit /\ d.id \in 0..2
      /\ d.map \in [0..d.cap -> Buffers \cup {NoBuf}]
      BY <1>1 DEF Laid, Deques, Null
<1>3. d.span \in 0..d.cap /\ d.cnt \in 0..d.cap
      BY SpanIn
<1>4. \A it \in {d.beg, d.end} : it.node \in 0..d.cap /\ it.off \in 0..(B - 1)
      BY <1>1, EndsIn
<1>5. r.pc \in {"idle", "alloc", "build"}
      BY DEF DInv, Resting, Allocating, Building, Idle
<1>6. live \in Seq(CellSet) /\ made \subseteq CellSet /\ own \subseteq Buffers
      BY <1>1, MadeThere, BufsThere DEF DInv
<1> QED BY <1>2, <1>3, <1>4, <1>5, <1>6 DEF TypeOK, RoomFound, CellSet

LEMMA StorageOf == DInv => StorageRight
BY TypeRight, IdleMap, NothingRight, IdleWalk DEF StorageRight

-----------------------------------------------------------------------------
(* The calls that need no reservation. *)

LEMMA StartInv == Init => DInv
<1> SUFFICES ASSUME Init PROVE DInv
    OBVIOUS
<1>1. /\ d = [map |-> NoMap, id |-> 0, cap |-> 0, span |-> 0, cnt |-> 0, beg |-> NoIt, end |-> NoIt]
      /\ r = Idle /\ live = <<>> /\ made = {} /\ own = {}
      BY DEF Init, Fresh
<1>2. /\ NoMap \in [0..0 -> Null] /\ NoMap \in Maps /\ \A i \in 0..0 : NoMap[i] = NoBuf
      BY LimitAssumption DEF NoMap, Maps, Null
<1>3. NoIt = [node |-> 0, buf |-> NoBuf, off |-> 0] /\ NoIt \in Spots
      BY <1>2, BAssumption DEF NoIt, It, Spots, Null
<1>4. Pos(NoIt) = 0 /\ 0 * B = 0
      BY <1>3, BAssumption DEF Pos
<1>5. d \in Deques
      BY <1>1, <1>2, <1>3, LimitAssumption DEF Deques
<1>6. d.map[0] = NoBuf /\ d.cap = 0 /\ d.span = 0 /\ d.cnt = 0 /\ d.beg = NoIt /\ d.end = NoIt /\ d.map = NoMap
      BY <1>1, <1>2
<1>7. Laid(d, 0, 0)
      BY <1>2, <1>4, <1>5, <1>6 DEF Laid
<1>8. Valid(d)
      BY <1>2, <1>3, <1>6, <1>7 DEF Valid, Owned
<1>9. Holds(d, live)
      BY <1>1, <1>4, <1>6 DEF Holds, Row
<1>10. own = Bufs(d)
      BY <1>1, <1>2, <1>6 DEF Bufs
<1>11. made = ToSet(live) /\ live \in Seq(CellSet)
      BY <1>1 DEF ToSet
<1> QED BY <1>1, <1>8, <1>9, <1>10, <1>11 DEF DInv, Resting

\* an iterator at a position in the span, or at its end
LEMMA SpotThere ==
  ASSUME NEW x, NEW a, NEW z, Laid(x, a, z), NEW p \in Int, a * B <= p, p <= z * B
  PROVE  Spot(x.map, p) \in Spots
<1>1. a \in Int /\ z \in Int /\ 0 <= a /\ z <= x.cap /\ x.cap \in Int
      BY LimitAssumption DEF Laid, Deques
<1>2. p \div B \in Int /\ p % B \in 0..(B - 1)
      BY DivMod
<1>3. a <= p \div B /\ (p \div B < z \/ p \div B = z)
      BY <1>1, SlotBounds
<1>4. p \div B \in 0..x.cap
      BY <1>1, <1>2, <1>3
<1>5. x.map[p \div B] \in Null
      BY <1>4 DEF Laid
<1> QED BY <1>2, <1>5 DEF Spot, It, Spots

\* the ends of the elements may be anywhere in the span
Between(x, p, q) == [x EXCEPT !.beg = Spot(x.map, p), !.end = Spot(x.map, q)]

LEMMA EndsMoved ==
  ASSUME NEW x, Valid(x), NEW p \in Int, NEW q \in Int,
         x.span * B <= p, p <= q, q <= (x.span + x.cnt) * B
  PROVE  /\ Valid(Between(x, p, q)) /\ Bufs(Between(x, p, q)) = Bufs(x)
         /\ Pos(Between(x, p, q).beg) = p /\ Pos(Between(x, p, q).end) = q
         /\ Between(x, p, q).map = x.map
<1>0. PICK y : y = Between(x, p, q)
      OBVIOUS
<1>1. Laid(x, x.span, x.span + x.cnt)
      BY DEF Valid
<1>2. p <= (x.span + x.cnt) * B /\ x.span * B <= q
  <2>1. x.span * B \in Int /\ (x.span + x.cnt) * B \in Int
        BY <1>1, BAssumption DEF Laid
  <2> QED BY <2>1
<1>3. Spot(x.map, p) \in Spots /\ Spot(x.map, q) \in Spots
      BY <1>1, <1>2, SpotThere
<1>4. x \in Deques
      BY <1>1 DEF Laid
<1>5. /\ y \in Deques /\ y.map = x.map /\ y.cap = x.cap /\ y.span = x.span /\ y.cnt = x.cnt
      /\ y.beg = Spot(x.map, p) /\ y.end = Spot(x.map, q)
      BY <1>0, <1>3, <1>4 DEF Deques, Between
<1>6. Pos(y.beg) = p /\ Pos(y.end) = q /\ y.beg.buf = y.map[y.beg.node] /\ y.end.buf = y.map[y.end.node]
      BY <1>5, SpotOf
<1>7. Laid(y, y.span, y.span + y.cnt)
      BY <1>1, <1>5, <1>6 DEF Laid
<1>8. Valid(y)
      BY <1>5, <1>6, <1>7 DEF Valid, Owned
<1> QED BY <1>0, <1>5, <1>6, <1>8 DEF Bufs

\* so a call that only moves them, and constructs and destroys accordingly,
\* leaves everything right
LEMMA EndsStep ==
  ASSUME Valid(d), own = Bufs(d), r' = Idle, own' = own, NEW p \in Int, NEW q \in Int,
         d.span * B <= p, p <= q, q <= (d.span + d.cnt) * B,
         d' = Between(d, p, q), live' = Row(d.map, p, q - p), made' = Patch(d.map, p, q)
  PROVE  DInv'
<1>1. PICK y : y = d'
      OBVIOUS
<1>2. Valid(y) /\ Pos(y.beg) = p /\ Pos(y.end) = q /\ y.map = d.map /\ Bufs(y) = Bufs(d)
      BY <1>1, EndsMoved
<1>3. PICK s : s = live'
      OBVIOUS
<1>4. Holds(y, s)
      BY <1>2, <1>3 DEF Holds
<1>5. ToSet(s) = Patch(y.map, Pos(y.beg), Pos(y.end)) /\ s \in Seq(CellSet)
      BY <1>2, <1>3, <1>4, LiveCells DEF Valid
<1> QED BY <1>1, <1>2, <1>3, <1>4, <1>5 DEF DInv, Resting

LEMMA OneEnd ==
  ASSUME NEW x, Valid(x), NEW p
  PROVE  /\ [x EXCEPT !.beg = Spot(x.map, p)] = Between(x, p, Pos(x.end))
         /\ [x EXCEPT !.end = Spot(x.map, p)] = Between(x, Pos(x.beg), p)
<1>1. x.beg = Spot(x.map, Pos(x.beg)) /\ x.end = Spot(x.map, Pos(x.end))
      BY ValidEnds
<1>2. x \in Deques
      BY DEF Valid, Laid
<1> QED BY <1>1, <1>2 DEF Between, Deques

\* a deque between calls, as positions
LEMMA AtRest ==
  ASSUME DInv, r = Idle
  PROVE  \E p, q, u, v \in Int :
           /\ p = Pos(d.beg) /\ q = Pos(d.end) /\ u = d.span * B /\ v = (d.span + d.cnt) * B
           /\ u <= p /\ p <= q /\ q <= v
           /\ live = Row(d.map, p, q - p) /\ made = Patch(d.map, p, q)
           /\ d.beg = Spot(d.map, p) /\ d.end = Spot(d.map, q)
           /\ Cell(d.beg) = At(d.map, p) /\ Cell(d.end) = At(d.map, q)
<1>1. /\ Valid(d) /\ made = ToSet(live) /\ Holds(d, live) /\ Laid(d, d.span, d.span + d.cnt)
      BY Idled
<1>2. PICK p, q, u, v \in Int :
        /\ p = Pos(d.beg) /\ q = Pos(d.end) /\ u = d.span * B /\ v = (d.span + d.cnt) * B
        /\ u <= p /\ p <= q /\ q <= v
      BY <1>1, Walls
<1>3. live = Row(d.map, p, q - p)
      BY <1>1, <1>2 DEF Holds
<1>4. made = Patch(d.map, p, q)
      BY <1>1, <1>2, LiveCells
<1> QED BY <1>1, <1>2, <1>3, <1>4, ValidEnds

\* a cell more, or one less, at either end of a patch
LEMMA PatchEnds ==
  ASSUME NEW m, NEW p \in Int, NEW q \in Int, p <= q
  PROVE  /\ Patch(m, p, q + 1) = Patch(m, p, q) \cup {At(m, q)}
         /\ Patch(m, p - 1, q) = Patch(m, p, q) \cup {At(m, p - 1)}
<1>1. p..((q + 1) - 1) = (p..(q - 1)) \cup {q} /\ (p - 1)..(q - 1) = (p..(q - 1)) \cup {p - 1}
      OBVIOUS
<1> QED BY <1>1 DEF Patch

LEMMA PatchLess ==
  ASSUME NEW x, NEW a, NEW z, Laid(x, a, z), NEW p \in Int, NEW q \in Int,
         a * B <= p, p < q, q <= z * B
  PROVE  /\ Patch(x.map, p, q) \ {At(x.map, p)} = Patch(x.map, p + 1, q)
         /\ Patch(x.map, p, q) \ {At(x.map, q - 1)} = Patch(x.map, p, q - 1)
<1>1. PICK u \in Int, v \in Int : u = a * B /\ v = z * B /\ u <= p /\ q <= v
      BY Walls
<1>2. \A i, k \in p..(q - 1) : At(x.map, i) = At(x.map, k) => i = k
  <2> SUFFICES ASSUME NEW i \in p..(q - 1), NEW k \in p..(q - 1), At(x.map, i) = At(x.map, k)
               PROVE  i = k
      OBVIOUS
  <2>1. u <= i /\ i < v /\ u <= k /\ k < v
        BY <1>1
  <2> QED BY <1>1, <2>1, CellsApart
<1>3. PICK P : P = p..(q - 1)
      OBVIOUS
<1>4. (p + 1)..(q - 1) = P \ {p} /\ p..((q - 1) - 1) = P \ {q - 1} /\ p \in P /\ q - 1 \in P
      BY <1>3
<1>5. ASSUME NEW j \in P
      PROVE  {At(x.map, k) : k \in P} \ {At(x.map, j)} = {At(x.map, k) : k \in P \ {j}}
      BY <1>2, <1>3
<1> QED BY <1>3, <1>4, <1>5 DEF Patch

LEMMA PushBackKept == DInv /\ PushBack => DInv'
<1> SUFFICES ASSUME DInv, PushBack PROVE DInv'
    OBVIOUS
<1>1. r = Idle /\ r' = Idle /\ own' = own
      BY DEF PushBack
<1>2. Valid(d) /\ own = Bufs(d) /\ Laid(d, d.span, d.span + d.cnt)
      BY <1>1, Idled
<1>3. PICK p \in Int, q \in Int, u \in Int, v \in Int :
        /\ p = Pos(d.beg) /\ q = Pos(d.end) /\ u = d.span * B /\ v = (d.span + d.cnt) * B
        /\ u <= p /\ p <= q /\ q <= v
        /\ live = Row(d.map, p, q - p) /\ made = Patch(d.map, p, q)
        /\ d.beg = Spot(d.map, p) /\ d.end = Spot(d.map, q)
        /\ Cell(d.beg) = At(d.map, p) /\ Cell(d.end) = At(d.map, q)
      BY <1>1, AtRest
<1>4. q < v
  <2>1. d.map[d.end.node] # NoBuf /\ d.end.node = q \div B /\ d.end.node \in 0..d.cap
        BY <1>2, <1>3, Ends, EndSlots DEF PushBack, Valid
  <2>2. d.end.node < d.span + d.cnt
        BY <1>2, <2>1, SpanOwned
  <2>3. ASSUME (d.span + d.cnt) * B <= q PROVE FALSE
    <3>1. d.span + d.cnt <= q \div B
          BY <1>2, <2>3, SlotBounds DEF Laid
    <3>2. d.span + d.cnt \in Int /\ q \div B \in Int
          BY <1>2, DivMod DEF Laid
    <3> QED BY <2>1, <2>2, <3>1, <3>2
  <2> QED BY <1>3, <2>3
<1>5. d' = Between(d, p, q + 1)
  <2>1. d' = [d EXCEPT !.end = Spot(d.map, q + 1)]
        BY <1>3, IncSpot DEF PushBack
  <2> QED BY <1>2, <1>3, <2>1, OneEnd
<1>6. live' = Row(d.map, p, (q + 1) - p)
  <2>1. PICK n \in Nat : n = q - p /\ p + n = q /\ (q + 1) - p = n + 1
        BY <1>3
  <2>2. u <= p /\ p + (n + 1) <= v /\ n + 1 \in Nat /\ p + (n + 1) - 1 = p + n
        BY <1>3, <1>4, <2>1
  <2>3. \A k \in p..(p + n) : At(d.map, k) \in CellSet
        BY <1>2, <1>3, <2>2, RowThere
  <2>4. Append(Row(d.map, p, n), At(d.map, p + n)) = Row(d.map, p, n + 1)
        BY <2>3, RowAppended
  <2>5. live' = Append(live, At(d.map, q))
        BY <1>3 DEF PushBack
  <2> QED BY <1>3, <2>1, <2>4, <2>5
<1>7. made' = Patch(d.map, p, q + 1)
  <2>1. made' = made \cup {At(d.map, q)}
        BY <1>3 DEF PushBack
  <2>2. p <= q
        BY <1>3
  <2>3. Patch(d.map, p, q + 1) = Patch(d.map, p, q) \cup {At(d.map, q)}
        BY <2>2, PatchEnds
  <2> QED BY <1>3, <2>1, <2>3
<1>8. d.span * B <= p /\ p <= q + 1 /\ q + 1 <= (d.span + d.cnt) * B
      BY <1>3, <1>4
<1> QED BY <1>1, <1>2, <1>5, <1>6, <1>7, <1>8, EndsStep

LEMMA PushFrontKept == DInv /\ PushFront => DInv'
<1> SUFFICES ASSUME DInv, PushFront PROVE DInv'
    OBVIOUS
<1>1. r = Idle /\ r' = Idle /\ own' = own
      BY DEF PushFront
<1>2. Valid(d) /\ own = Bufs(d) /\ Laid(d, d.span, d.span + d.cnt)
      BY <1>1, Idled
<1>3. PICK p \in Int, q \in Int, u \in Int, v \in Int :
        /\ p = Pos(d.beg) /\ q = Pos(d.end) /\ u = d.span * B /\ v = (d.span + d.cnt) * B
        /\ u <= p /\ p <= q /\ q <= v
        /\ live = Row(d.map, p, q - p) /\ made = Patch(d.map, p, q)
        /\ d.beg = Spot(d.map, p) /\ d.end = Spot(d.map, q)
        /\ Cell(d.beg) = At(d.map, p) /\ Cell(d.end) = At(d.map, q)
      BY <1>1, AtRest
<1>4. PICK k \in Int, t \in 0..(B - 1) : k = d.beg.node /\ t = d.beg.off
      BY <1>2, Ends
<1>5. p = k * B + t /\ d.span \in Int
      BY <1>2, <1>3, <1>4 DEF Pos, Laid
<1>6. d.span <= k /\ d.beg.buf = d.map[k]
      BY <1>2, <1>4, EndSlots DEF Valid
<1>7. PICK c : c = IF t # 0 THEN <<d.beg.buf, t - 1>> ELSE <<d.map[k - 1], B - 1>>
      OBVIOUS
<1>8. c = At(d.map, p - 1) /\ u <= p - 1
  <2>1. CASE t # 0
    <3>1. p - 1 = k * B + (t - 1) /\ t - 1 \in 0..(B - 1)
          BY <1>5, <2>1, BAssumption
    <3>2. At(d.map, p - 1) = <<d.map[k], t - 1>>
          BY <3>1, Split DEF At
    <3>3. u <= k * B
      <4>1. (k - d.span) * B >= 0
            BY <1>5, <1>6, BAssumption
      <4> QED BY <1>3, <1>5, <4>1, BAssumption
    <3>4. u <= p - 1
          BY <1>3, <1>5, <2>1, <3>3, BAssumption
    <3> QED BY <1>6, <1>7, <2>1, <3>2, <3>4
  <2>2. CASE t = 0
    <3>1. d.span < k
          BY <1>4, <2>2 DEF PushFront
    <3>2. PICK j \in Int, e \in 0..(B - 1) : j = k - 1 /\ e = B - 1
          BY BAssumption
    <3>3. p - 1 = j * B + e
          BY <1>5, <2>2, <3>2, BAssumption
    <3>4. (j * B + e) \div B = j /\ (j * B + e) % B = e
          BY Split
    <3>5. At(d.map, p - 1) = <<d.map[j], e>>
          BY <3>3, <3>4 DEF At
    <3>6. u <= p - 1
      <4>1. (k - d.span) * B >= B
            BY <1>5, <3>1, BAssumption
      <4> QED BY <1>3, <1>5, <2>2, <4>1, BAssumption
    <3> QED BY <1>7, <2>2, <3>2, <3>5, <3>6
  <2> QED BY <2>1, <2>2
<1>9. d' = Between(d, p - 1, q)
  <2>1. p <= v
        BY <1>3
  <2>2. Dec(d.map, d.beg) = Spot(d.map, p - 1)
        BY <1>2, <1>3, <2>1, DecLaid
  <2>3. d' = [d EXCEPT !.beg = Spot(d.map, p - 1)]
        BY <2>2 DEF PushFront
  <2> QED BY <1>2, <1>3, <2>3, OneEnd
<1>10. live' = <<c>> \o live /\ made' = made \cup {c}
      BY <1>4, <1>7 DEF PushFront
<1>11. live' = Row(d.map, p - 1, q - (p - 1))
  <2>1. PICK n \in Nat, k0 \in Int : n = q - p /\ k0 = p - 1 /\ k0 + 1 = p /\ q - (p - 1) = 1 + n
        BY <1>3
  <2>2. u <= k0 /\ k0 + (1 + n) <= v /\ 1 + n \in Nat /\ k0 + (1 + n) - 1 = k0 + 1 + n - 1
        BY <1>3, <1>8, <2>1
  <2>3. \A i \in k0..(k0 + 1 + n - 1) : At(d.map, i) \in CellSet
    <3>1. \A i \in k0..(k0 + (1 + n) - 1) : At(d.map, i) \in CellSet
          BY <1>2, <1>3, <2>2, RowThere
    <3> QED BY <2>2, <3>1
  <2>4. Row(d.map, k0, 1) \o Row(d.map, k0 + 1, n) = Row(d.map, k0, 1 + n)
    <3>1. PICK one \in Nat : one = 1
          OBVIOUS
    <3>2. \A i \in k0..(k0 + one + n - 1) : At(d.map, i) \in CellSet
          BY <2>3, <3>1
    <3>3. Row(d.map, k0, one) \o Row(d.map, k0 + one, n) = Row(d.map, k0, one + n)
          BY <3>2, RowJoined
    <3> QED BY <3>1, <3>3
  <2>5. Row(d.map, k0, 1) = <<c>>
        BY <1>8, <2>1, RowOne
  <2> QED BY <1>3, <1>10, <2>1, <2>4, <2>5
<1>12. made' = Patch(d.map, p - 1, q)
  <2>1. p <= q
        BY <1>3
  <2>2. Patch(d.map, p - 1, q) = Patch(d.map, p, q) \cup {At(d.map, p - 1)}
        BY <2>1, PatchEnds
  <2> QED BY <1>3, <1>8, <1>10, <2>2
<1>13. d.span * B <= p - 1 /\ p - 1 <= q /\ q <= (d.span + d.cnt) * B /\ p - 1 \in Int
      BY <1>3, <1>8
<1> QED BY <1>1, <1>2, <1>9, <1>11, <1>12, <1>13, EndsStep

\* an element less
LEMMA SomeLive ==
  ASSUME NEW m, NEW p \in Int, NEW n \in Int, Row(m, p, n) # <<>>
  PROVE  n > 0
<1> SUFFICES ASSUME ~ (n > 0) PROVE FALSE
    OBVIOUS
<1>1. 1..n = {}
      OBVIOUS
<1>2. Row(m, p, n) = <<>>
      BY <1>1 DEF Row
<1> QED BY <1>2

LEMMA PopFrontKept == DInv /\ PopFront => DInv'
<1> SUFFICES ASSUME DInv, PopFront PROVE DInv'
    OBVIOUS
<1>1. r = Idle /\ r' = Idle /\ own' = own /\ live # <<>>
      BY DEF PopFront
<1>2. Valid(d) /\ own = Bufs(d) /\ Laid(d, d.span, d.span + d.cnt)
      BY <1>1, Idled
<1>3. PICK p \in Int, q \in Int, u \in Int, v \in Int :
        /\ p = Pos(d.beg) /\ q = Pos(d.end) /\ u = d.span * B /\ v = (d.span + d.cnt) * B
        /\ u <= p /\ p <= q /\ q <= v
        /\ live = Row(d.map, p, q - p) /\ made = Patch(d.map, p, q)
        /\ d.beg = Spot(d.map, p) /\ d.end = Spot(d.map, q)
        /\ Cell(d.beg) = At(d.map, p) /\ Cell(d.end) = At(d.map, q)
      BY <1>1, AtRest
<1>4. p < q
  <2>1. q - p > 0
        BY <1>1, <1>3, SomeLive
  <2> QED BY <2>1
<1>5. d' = Between(d, p + 1, q)
  <2>1. d' = [d EXCEPT !.beg = Spot(d.map, p + 1)]
        BY <1>3, IncSpot DEF PopFront
  <2> QED BY <1>2, <1>3, <2>1, OneEnd
<1>6. live' = Row(d.map, p + 1, q - (p + 1))
  <2>1. PICK n \in Nat \ {0} : n = q - p /\ q - (p + 1) = n - 1
        BY <1>4
  <2>2. u <= p /\ p + n <= v /\ n \in Nat
        BY <1>3, <2>1
  <2>3. \A k \in p..(p + n - 1) : At(d.map, k) \in CellSet
        BY <1>2, <1>3, <2>2, RowThere
  <2>4. Tail(Row(d.map, p, n)) = Row(d.map, p + 1, n - 1)
        BY <2>3, RowTail
  <2> QED BY <1>3, <2>1, <2>4 DEF PopFront
<1>7. made' = Patch(d.map, p + 1, q)
  <2>1. made' = made \ {At(d.map, p)}
        BY <1>3 DEF PopFront
  <2>2. Patch(d.map, p, q) \ {At(d.map, p)} = Patch(d.map, p + 1, q)
        BY <1>2, <1>3, <1>4, PatchLess
  <2> QED BY <1>3, <2>1, <2>2
<1>8. d.span * B <= p + 1 /\ p + 1 <= q /\ q <= (d.span + d.cnt) * B
      BY <1>3, <1>4
<1> QED BY <1>1, <1>2, <1>5, <1>6, <1>7, <1>8, EndsStep

LEMMA PopBackKept == DInv /\ PopBack => DInv'
<1> SUFFICES ASSUME DInv, PopBack PROVE DInv'
    OBVIOUS
<1>1. r = Idle /\ r' = Idle /\ own' = own /\ live # <<>>
      BY DEF PopBack
<1>2. Valid(d) /\ own = Bufs(d) /\ Laid(d, d.span, d.span + d.cnt)
      BY <1>1, Idled
<1>3. PICK p \in Int, q \in Int, u \in Int, v \in Int :
        /\ p = Pos(d.beg) /\ q = Pos(d.end) /\ u = d.span * B /\ v = (d.span + d.cnt) * B
        /\ u <= p /\ p <= q /\ q <= v
        /\ live = Row(d.map, p, q - p) /\ made = Patch(d.map, p, q)
        /\ d.beg = Spot(d.map, p) /\ d.end = Spot(d.map, q)
        /\ Cell(d.beg) = At(d.map, p) /\ Cell(d.end) = At(d.map, q)
      BY <1>1, AtRest
<1>4. p < q
  <2>1. q - p > 0
        BY <1>1, <1>3, SomeLive
  <2> QED BY <2>1
<1>5. Dec(d.map, d.end) = Spot(d.map, q - 1)
  <2>1. u <= q
        BY <1>3
  <2> QED BY <1>2, <1>3, <2>1, DecLaid
<1>6. d' = Between(d, p, q - 1)
  <2>1. d' = [d EXCEPT !.end = Spot(d.map, q - 1)]
        BY <1>5 DEF PopBack
  <2> QED BY <1>2, <1>3, <2>1, OneEnd
<1>7. live' = Row(d.map, p, (q - 1) - p)
  <2>1. PICK n \in Nat \ {0} : n = q - p /\ (q - 1) - p = n - 1
        BY <1>4
  <2>2. u <= p /\ p + n <= v /\ n \in Nat
        BY <1>3, <2>1
  <2>3. \A k \in p..(p + n - 1) : At(d.map, k) \in CellSet
        BY <1>2, <1>3, <2>2, RowThere
  <2>4. Front(Row(d.map, p, n)) = Row(d.map, p, n - 1)
        BY <2>3, RowFront
  <2> QED BY <1>3, <2>1, <2>4 DEF PopBack
<1>8. made' = Patch(d.map, p, q - 1)
  <2>1. Cell(Spot(d.map, q - 1)) = At(d.map, q - 1)
        BY <1>3, SpotOf
  <2>2. made' = made \ {At(d.map, q - 1)}
        BY <1>5, <2>1 DEF PopBack
  <2>3. Patch(d.map, p, q) \ {At(d.map, q - 1)} = Patch(d.map, p, q - 1)
        BY <1>2, <1>3, <1>4, PatchLess
  <2> QED BY <1>3, <2>2, <2>3
<1>9. d.span * B <= p /\ p <= q - 1 /\ q - 1 <= (d.span + d.cnt) * B
      BY <1>3, <1>4
<1> QED BY <1>1, <1>2, <1>6, <1>7, <1>8, <1>9, EndsStep

\* Fresh is where it starts from
LEMMA DeallocKept == DInv /\ Dealloc => DInv'
<1> SUFFICES ASSUME DInv, Dealloc PROVE DInv'
    OBVIOUS
<1>1. /\ r = Idle /\ r' = Idle /\ live = <<>> /\ live' = live /\ made' = made /\ d' = Fresh
      /\ own' = own \ {d.map[i] : i \in 0..(d.cap - 1)}
      BY DEF Dealloc
<1>2. /\ Valid(d) /\ own = Bufs(d) /\ made = ToSet(live)
      BY <1>1, Idled
<1>3. own' = {}
  <2>1. Laid(d, d.span, d.span + d.cnt)
        BY <1>2 DEF Valid
  <2>2. d.span + d.cnt <= d.cap /\ d.cap \in Nat
        BY <2>1, LimitAssumption DEF Laid, Deques
  <2>3. d.span + d.cnt \in Int
        BY <2>1 DEF Laid
  <2>4. ~ (d.map[d.cap] # NoBuf)
        BY <1>2, <2>2, <2>3, SpanOwned
  <2>5. ASSUME NEW i \in 0..d.cap, d.map[i] # NoBuf PROVE i \in 0..(d.cap - 1)
        BY <2>2, <2>4, <2>5
  <2> QED BY <1>1, <1>2, <2>5 DEF Bufs
<1>4. made' = {}
      BY <1>1, <1>2 DEF ToSet
<1>5. Init'
      BY <1>1, <1>3, <1>4 DEF Init
<1> QED BY <1>5, StartInv, PTL

-----------------------------------------------------------------------------
(* The steps of a reservation that has been prepared. *)

LEMMA Active ==
  ASSUME DInv, r.pc \in {"alloc", "build"}
  PROVE  /\ r \in Reservations /\ Undoable
         /\ r.pc = "alloc" => Allocating
         /\ r.pc = "build" => Building
<1>1. ~ Resting
      BY DEF Resting, Idle
<1> QED BY <1>1 DEF DInv, Undoable, Allocating, Building

\* what undoing takes away is the new buffers, so it does not matter how many
LEMMA RestoredSame ==
  ASSUME NEW x, NEW y, NEW q, NEW t, y.id = x.id, t.saved = q.saved, t.pos = q.pos,
         t.moved = q.moved, t.back = q.back, Without(y.map, t) = Without(x.map, q)
  PROVE  Restored(y, t) = Restored(x, q)
BY DEF Restored

LEMMA RowSame ==
  ASSUME NEW m, NEW w, NEW p \in Int, NEW n \in Int, \A k \in p..(p + n - 1) : At(m, k) = At(w, k)
  PROVE  Row(m, p, n) = Row(w, p, n)
<1>1. ASSUME NEW i \in 1..n PROVE At(m, p + i - 1) = At(w, p + i - 1)
  <2>1. p + i - 1 \in p..(p + n - 1)
        OBVIOUS
  <2> QED BY <2>1
<1> QED BY <1>1 DEF Row

\* the slot that is next, and the slots of the elements, which it is not
LEMMA NextSlot ==
  ASSUME DInv, r.pc = "alloc", r.added < r.new
  PROVE  \E a, z, i \in Int :
           /\ a = OldFirst /\ z = OldLast /\ i = r.alloc + r.added
           /\ Laid(d, a, z) /\ i \in 0..d.cap /\ i \notin a..(z - 1) /\ d.map[i] = NoBuf
           /\ ~ r.back => d.span > 0
<1>1. /\ r \in Reservations /\ Allocating
      BY Active
<1>2. Laid(d, OldFirst, OldLast)
      BY <1>1 DEF Allocating
<1>3. PICK a \in Int, z \in Int : a = OldFirst /\ z = OldLast
      BY <1>2 DEF Laid
<1>4. /\ r.back \in BOOLEAN /\ r.added \in Nat /\ r.new \in Nat /\ r.alloc \in Int
      BY <1>1 DEF Reservations
<1>5. d.span \in Nat /\ d.cnt \in Nat /\ d.cap \in Int
      BY <1>2, LimitAssumption DEF Laid, Deques
<1>6. 0 <= a /\ a <= z /\ z <= d.cap
      BY <1>2, <1>3 DEF Laid
<1>7. PICK i \in Int : i = r.alloc + r.added
      BY <1>4
<1>8. i \in 0..d.cap /\ i \notin a..(z - 1) /\ (~ r.back => d.span > 0)
  <2>1. CASE r.back
    <3>1. r.alloc = z /\ r.alloc + r.new <= d.cap
          BY <1>1, <1>3, <2>1 DEF Allocating
    <3> QED BY <1>4, <1>5, <1>6, <1>7, <2>1, <3>1
  <2>2. CASE ~ r.back
    <3>1. r.alloc >= 0 /\ r.alloc + r.new = a /\ a = d.span + r.added
          BY <1>1, <1>3, <2>2 DEF Allocating, OldFirst
    <3> QED BY <1>4, <1>5, <1>6, <1>7, <3>1
  <2> QED BY <2>1, <2>2
<1>9. d.map[i] = NoBuf
  <2>1. \A j \in 0..d.cap : d.map[j] # NoBuf <=> j \in (a..(z - 1)) \cup (r.alloc..(r.alloc + r.added - 1))
        BY <1>1, <1>3 DEF Allocating, Owned
  <2>2. i \notin r.alloc..(r.alloc + r.added - 1)
        BY <1>4, <1>7
  <2> QED BY <1>8, <2>1, <2>2
<1> QED BY <1>2, <1>3, <1>7, <1>8, <1>9

LEMMA AllocateKept == DInv /\ Allocate => DInv'
<1> SUFFICES ASSUME DInv, Allocate PROVE DInv'
    OBVIOUS
<1>1. r.pc = "alloc" /\ r.added < r.new /\ live' = live /\ made' = made
      BY DEF Allocate
<1>2. /\ r \in Reservations /\ Undoable /\ Allocating
      BY <1>1, Active
<1>3. PICK a \in Int, z \in Int, i \in Int :
        /\ a = OldFirst /\ z = OldLast /\ i = r.alloc + r.added
        /\ Laid(d, a, z) /\ i \in 0..d.cap /\ i \notin a..(z - 1) /\ d.map[i] = NoBuf
        /\ ~ r.back => d.span > 0
      BY <1>1, NextSlot
<1>4. PICK b \in Buffers \ own :
        /\ d' = [d EXCEPT !.map[i] = b, !.cnt = @ + 1, !.span = IF r.back THEN @ ELSE @ - 1]
        /\ own' = own \cup {b}
      BY <1>3 DEF Allocate
<1>5. PICK q : q = r'
      OBVIOUS
<1>6. q = [r EXCEPT !.added = @ + 1]
      BY <1>5 DEF Allocate
<1>7. /\ r.back \in BOOLEAN /\ r.added \in Nat /\ r.new \in Nat /\ r.alloc \in Int /\ r.n \in Nat
      BY <1>2 DEF Reservations
<1>8. /\ q \in Reservations /\ q.pc = "alloc" /\ q.added = r.added + 1 /\ q.new = r.new /\ q.back = r.back
      /\ q.alloc = r.alloc /\ q.n = r.n /\ q.saved = r.saved /\ q.own = r.own /\ q.pos = r.pos
      /\ q.moved = r.moved /\ q.done = r.done
      BY <1>1, <1>2, <1>6 DEF Reservations
<1>9. /\ d \in Deques /\ d.map \in [0..d.cap -> Null] /\ d.cap \in 0..Limit
      /\ d.span \in Nat /\ d.cnt \in Nat
      BY <1>3 DEF Laid, Deques
<1>10. PICK y : y = d'
      OBVIOUS
<1>11. PICK m : m = [d.map EXCEPT ![i] = b]
      OBVIOUS
<1>12. m \in [0..d.cap -> Null] /\ m \in Maps
      BY <1>9, <1>11 DEF Maps, Null
<1>13. /\ y \in Deques /\ y.map = m /\ y.cap = d.cap /\ y.id = d.id /\ y.beg = d.beg /\ y.end = d.end
       /\ y.cnt = d.cnt + 1 /\ y.span = IF r.back THEN d.span ELSE d.span - 1
  <2>1. y = [d EXCEPT !.map = m, !.cnt = @ + 1, !.span = IF r.back THEN @ ELSE @ - 1]
        BY <1>4, <1>10, <1>11
  <2>2. d.cnt + 1 \in Nat /\ (IF r.back THEN d.span ELSE d.span - 1) \in Nat
        BY <1>3, <1>7, <1>9
  <2> QED BY <1>9, <1>12, <2>1, <2>2 DEF Deques
<1>14. (\A j \in 0..d.cap : j # i => m[j] = d.map[j]) /\ m[i] = b
      BY <1>3, <1>9, <1>11
<1>15. own = Bufs(d) /\ Holds(d, live)
      BY DEF DInv
<1>16. \A j \in 0..d.cap : d.map[j] # b
      BY <1>4, <1>15, NoBufAssumption DEF Bufs
<1>17. b # NoBuf
      BY NoBufAssumption
<1>18. Laid(y, a, z)
  <2>1. \A j, k \in 0..y.cap : y.map[j] = y.map[k] /\ y.map[j] # NoBuf => j = k
        BY <1>3, <1>13, <1>14, <1>16 DEF Laid
  <2>2. \A j \in a..(z - 1) : y.map[j] # NoBuf
    <3>1. \A j \in a..(z - 1) : j \in 0..d.cap /\ j # i /\ d.map[j] # NoBuf
          BY <1>3, <1>9 DEF Laid
    <3> QED BY <1>13, <1>14, <3>1
  <2> QED BY <1>3, <1>12, <1>13, <2>1, <2>2 DEF Laid
<1>19. PICK S : S = (a..(z - 1)) \cup (r.alloc..(r.alloc + r.added - 1))
      OBVIOUS
<1>20. \A j \in 0..d.cap : d.map[j] # NoBuf <=> j \in S
      BY <1>2, <1>3, <1>19 DEF Allocating, Owned
<1>21. (a..(z - 1)) \cup (q.alloc..(q.alloc + q.added - 1)) = S \cup {i}
      BY <1>3, <1>7, <1>8, <1>19
<1>22. \A j \in 0..y.cap : y.map[j] # NoBuf <=> j \in S \cup {i}
      BY <1>13, <1>14, <1>17, <1>20
<1>23. Bufs(y) = Bufs(d) \cup {b}
      BY <1>3, <1>13, <1>14, <1>17 DEF Bufs
<1>24. Holds(y, live)
  <2>1. PICK p \in Int, e \in Int, u \in Int, v \in Int :
          /\ p = Pos(d.beg) /\ e = Pos(d.end) /\ u = a * B /\ v = z * B
          /\ u <= p /\ p <= e /\ e <= v
        BY <1>3, Walls
  <2>2. ASSUME NEW k \in p..(p + (e - p) - 1) PROVE At(d.map, k) = At(m, k)
    <3>1. a * B <= k /\ k < z * B /\ k \in Int
          BY <2>1
    <3>2. k \div B \in a..(z - 1) /\ k \div B \in 0..d.cap
          BY <1>3, <3>1, CellThere
    <3> QED BY <1>3, <1>14, <3>2 DEF At
  <2>3. Row(d.map, p, e - p) = Row(m, p, e - p)
        BY <2>2, RowSame
  <2> QED BY <1>13, <1>15, <2>1, <2>3 DEF Holds
<1>25. Restored(y, q) = r.saved
  <2>1. \A j \in Int : j # i => (j \in q.alloc..(q.alloc + q.added - 1) <=> j \in r.alloc..(r.alloc + r.added - 1))
    <3>1. PICK e \in Int, k \in Int : e = r.alloc /\ k = r.added
          BY <1>7
    <3>2. q.alloc = e /\ q.added = k + 1 /\ i = e + k
          BY <1>3, <1>8, <3>1
    <3> QED BY <3>1, <3>2
  <2>2. i \in q.alloc..(q.alloc + q.added - 1)
        BY <1>3, <1>7, <1>8
  <2>3. DOMAIN m = 0..d.cap /\ DOMAIN d.map = 0..d.cap
        BY <1>9, <1>12
  <2>4. Without(m, q) = Without(d.map, r)
        BY <1>3, <1>14, <2>1, <2>2, <2>3 DEF Without
  <2>5. Restored(y, q) = Restored(d, r)
        BY <1>8, <1>13, <2>4, RestoredSame
  <2> QED BY <1>2, <2>5 DEF Undoable
<1>26. PICK N : N = NewBufs
      OBVIOUS
<1>27. {y.map[j] : j \in q.alloc..(q.alloc + q.added - 1)} = N \cup {b}
  <2>1. q.alloc..(q.alloc + q.added - 1) = (r.alloc..(r.alloc + r.added - 1)) \cup {i}
        BY <1>3, <1>7, <1>8
  <2>2. \A j \in r.alloc..(r.alloc + r.added - 1) : m[j] = d.map[j]
        BY <1>3, <1>7, <1>9, <1>11
  <2> QED BY <1>13, <1>14, <1>26, <2>1, <2>2 DEF NewBufs
<1>28. own = r.own \cup N /\ r.own \cap N = {} /\ Valid(r.saved) /\ Holds(r.saved, live)
      /\ r.own = Bufs(r.saved)
      BY <1>2, <1>26 DEF Undoable
<1>29. Undoable'
  <2>1. own' = q.own \cup (N \cup {b}) /\ q.own \cap (N \cup {b}) = {}
        BY <1>4, <1>8, <1>28
  <2> QED BY <1>1, <1>5, <1>8, <1>10, <1>25, <1>27, <1>28, <2>1 DEF Undoable, NewBufs
<1>30. OldFirst' = a /\ OldLast' = z
  <2>1. /\ a = IF r.back THEN d.span ELSE d.span + r.added
        /\ z = a + d.cnt - r.added
        BY <1>3 DEF OldFirst, OldLast
  <2>2. OldFirst' = IF q.back THEN y.span ELSE y.span + q.added
        BY <1>5, <1>10 DEF OldFirst
  <2>3. OldLast' = OldFirst' + y.cnt - q.added
        BY <1>5, <1>10 DEF OldLast
  <2>4. OldFirst' = a
    <3>1. CASE r.back
      <4>1. a = d.span /\ OldFirst' = y.span /\ y.span = d.span
            BY <1>8, <1>13, <2>1, <2>2, <3>1
      <4> QED BY <4>1
    <3>2. CASE ~ r.back
      <4>1. a = d.span + r.added /\ OldFirst' = y.span + q.added /\ y.span = d.span - 1
            BY <1>8, <1>13, <2>1, <2>2, <3>2
      <4>2. q.added = r.added + 1
            BY <1>8
      <4> QED BY <1>7, <1>9, <4>1, <4>2
    <3> QED BY <3>1, <3>2
  <2>5. a + y.cnt - q.added = z
    <3>1. PICK c \in Int, e \in Int : c = d.cnt /\ e = r.added
          BY <1>7, <1>9
    <3>2. y.cnt = c + 1 /\ q.added = e + 1 /\ z = a + c - e
          BY <1>8, <1>13, <2>1, <3>1
    <3> QED BY <3>2
  <2> QED BY <2>3, <2>4, <2>5
<1>31. Allocating'
  <2>1. q.added <= q.new /\ q.added <= y.cnt /\ q.done = 0 /\ made = ToSet(live)
        BY <1>1, <1>2, <1>7, <1>8, <1>9, <1>13 DEF Allocating
  <2>2. IF q.back
        THEN /\ q.alloc = z /\ q.alloc + q.new <= y.cap
             /\ Pos(y.end) + q.n <= (q.alloc + q.new) * B
        ELSE /\ q.alloc >= 0 /\ q.alloc + q.new = a
             /\ Pos(y.beg) - q.n >= q.alloc * B
        BY <1>2, <1>3, <1>8, <1>13 DEF Allocating
  <2>3. Owned(y, (a..(z - 1)) \cup (q.alloc..(q.alloc + q.added - 1)))
        BY <1>21, <1>22 DEF Owned
  <2> QED BY <1>1, <1>5, <1>8, <1>10, <1>18, <1>30, <2>1, <2>2, <2>3 DEF Allocating
<1>32. own' = Bufs(y) /\ live' \in Seq(CellSet)
      BY <1>1, <1>4, <1>15, <1>23 DEF DInv
<1> QED BY <1>1, <1>10, <1>24, <1>29, <1>31, <1>32 DEF DInv

LEMMA Scaled ==
  ASSUME NEW a \in Int, NEW z \in Int, a <= z
  PROVE  a * B \in Int /\ z * B \in Int /\ a * B <= z * B
<1>1. a * B \in Int /\ z * B \in Int
      BY BAssumption
<1>2. (z - a) * B >= 0
      BY BAssumption
<1> QED BY <1>1, <1>2, BAssumption

\* the near end of the room
First(x, back, n) == IF back THEN Pos(x.end) ELSE Pos(x.beg) - n

Started(was, it) == [was EXCEPT !.pc = "build", !.base = it, !.cur = it]

LEMMA BuildRight ==
  ASSUME NEW x, Valid(x), NEW back \in BOOLEAN, NEW n \in Nat \ {0}, NEW was \in Reservations,
         back => Pos(x.end) + n <= (x.span + x.cnt) * B,
         ~ back => Pos(x.beg) - n >= x.span * B
  PROVE  /\ First(x, back, n) \in Int
         /\ x.span * B <= First(x, back, n) /\ First(x, back, n) + n <= (x.span + x.cnt) * B
         /\ Spot(x.map, First(x, back, n)) \in Spots
         /\ Build(x, back, n, was) = Started(was, Spot(x.map, First(x, back, n)))
<1>1. Laid(x, x.span, x.span + x.cnt)
      BY DEF Valid
<1>2. PICK p, q, u, v \in Int :
        /\ p = Pos(x.beg) /\ q = Pos(x.end) /\ u = x.span * B /\ v = (x.span + x.cnt) * B
        /\ u <= p /\ p <= q /\ q <= v
      BY <1>1, Walls
<1>3. PICK f \in Int : f = First(x, back, n)
      BY <1>2 DEF First
<1>4. u <= f /\ f + n <= v
  <2>1. CASE back
    <3>1. f = q /\ q + n <= v
          BY <1>2, <1>3, <2>1 DEF First
    <3> QED BY <1>2, <3>1
  <2>2. CASE ~ back
    <3>1. f = p - n /\ p - n >= u
          BY <1>2, <1>3, <2>2 DEF First
    <3> QED BY <1>2, <3>1
  <2> QED BY <2>1, <2>2
<1>5. Spot(x.map, f) \in Spots
  <2>1. u <= f /\ f <= v
        BY <1>4
  <2> QED BY <1>1, <1>2, <2>1, SpotThere
<1>6. (IF back THEN x.end ELSE Plus(x.map, x.beg, -n)) = Spot(x.map, f)
  <2>1. CASE back
        BY <1>3, <2>1, ValidEnds DEF First
  <2>2. CASE ~ back
    <3>1. -n \in Int /\ p + (-n) = f
          BY <1>2, <1>3, <2>2 DEF First
    <3>2. Plus(x.map, Spot(x.map, p), -n) = Spot(x.map, p + (-n))
          BY <3>1, PlusSpot
    <3>3. x.beg = Spot(x.map, p)
          BY <1>2, ValidEnds
    <3> QED BY <2>2, <3>1, <3>2, <3>3
  <2> QED BY <2>1, <2>2
<1>7. Build(x, back, n, was) = Started(was, Spot(x.map, f))
      BY <1>6 DEF Build, Started
<1> QED BY <1>2, <1>3, <1>4, <1>5, <1>7

\* once the room's slots have their buffers and the iterators theirs, the deque
\* is as valid as between calls
LEMMA ReadyMap ==
  ASSUME DInv, r.pc = "alloc", r.added = r.new,
         NEW y, y = [d EXCEPT !.beg = It(d.map, @.node, @.off), !.end = It(d.map, @.node, @.off)]
  PROVE  /\ Valid(y) /\ y.map = d.map /\ y.id = d.id /\ y.span = d.span /\ y.cnt = d.cnt
         /\ Pos(y.beg) = Pos(d.beg) /\ Pos(y.end) = Pos(d.end) /\ Bufs(y) = Bufs(d)
         /\ IF r.back THEN Pos(d.end) + r.n <= (d.span + d.cnt) * B
            ELSE Pos(d.beg) - r.n >= d.span * B
<1>1. r \in Reservations /\ Allocating
      BY Active
<1>2. Laid(d, OldFirst, OldLast)
      BY <1>1 DEF Allocating
<1>3. PICK a \in Int, z \in Int : a = OldFirst /\ z = OldLast
      BY <1>2 DEF Laid
<1>4. /\ r.back \in BOOLEAN /\ r.added \in Nat /\ r.new \in Nat /\ r.alloc \in Int /\ r.n \in Nat
      BY <1>1 DEF Reservations
<1>5. /\ d \in Deques /\ d.map \in [0..d.cap -> Null] /\ d.cap \in Int
      /\ d.span \in Nat /\ d.cnt \in Nat
      BY <1>2, LimitAssumption DEF Laid, Deques
<1>6. 0 <= a /\ a <= z /\ z <= d.cap
      BY <1>2, <1>3 DEF Laid
<1>7. PICK h \in Int : h = d.span + d.cnt
      BY <1>5
<1>8. /\ d.span <= a /\ z <= h /\ h <= d.cap
      /\ (a..(z - 1)) \cup (r.alloc..(r.alloc + r.added - 1)) = d.span..(h - 1)
      /\ IF r.back THEN r.alloc + r.new = h ELSE r.alloc = d.span
  <2>1. CASE r.back
    <3>1. r.alloc = z /\ r.alloc + r.new <= d.cap /\ a = d.span /\ z = a + d.cnt - r.added
          BY <1>1, <1>3, <2>1 DEF Allocating, OldFirst, OldLast
    <3>2. r.alloc + r.new = h
          BY <1>1, <1>4, <1>5, <1>7, <3>1
    <3>3. (a..(z - 1)) \cup (r.alloc..(r.alloc + r.added - 1)) = d.span..(h - 1)
      <4>1. PICK w \in Nat : w = r.added /\ h = z + w /\ r.alloc = z /\ a = d.span
            BY <1>1, <1>4, <3>1, <3>2
      <4>2. (a..(z - 1)) \cup (z..(z + w - 1)) = a..(h - 1)
            BY <1>6, <4>1
      <4> QED BY <4>1, <4>2
    <3> QED BY <1>1, <1>4, <1>5, <1>6, <1>7, <2>1, <3>1, <3>2, <3>3
  <2>2. CASE ~ r.back
    <3>1. r.alloc >= 0 /\ r.alloc + r.new = a /\ a = d.span + r.added /\ z = a + d.cnt - r.added
          BY <1>1, <1>3, <2>2 DEF Allocating, OldFirst, OldLast
    <3>2. PICK k \in Nat, c \in Int, e \in Int : k = r.added /\ c = d.span /\ e = d.cnt
          BY <1>4, <1>5
    <3>3. r.alloc = c /\ a = c + k /\ z = h
          BY <1>4, <1>7, <3>1, <3>2
    <3>4. (a..(z - 1)) \cup (c..(c + k - 1)) = c..(h - 1)
          BY <1>6, <3>2, <3>3
    <3>5. c <= a /\ z <= h /\ h <= d.cap
          BY <1>6, <3>2, <3>3
    <3> QED BY <2>2, <3>2, <3>3, <3>4, <3>5
  <2> QED BY <2>1, <2>2
<1>9. PICK p \in Int, q \in Int, u \in Int, v \in Int :
        /\ p = Pos(d.beg) /\ q = Pos(d.end) /\ u = a * B /\ v = z * B
        /\ u <= p /\ p <= q /\ q <= v
      BY <1>2, <1>3, Walls
<1>10. /\ d.beg.node \in Int /\ d.beg.off \in 0..(B - 1)
       /\ d.end.node \in Int /\ d.end.off \in 0..(B - 1)
      BY <1>2, Ends
<1>11. It(d.map, d.beg.node, d.beg.off) = Spot(d.map, p) /\ It(d.map, d.end.node, d.end.off) = Spot(d.map, q)
      BY <1>9, <1>10, ItSpot DEF Pos
<1>12. Spot(d.map, p) \in Spots /\ Spot(d.map, q) \in Spots
  <2>1. u <= p /\ p <= v /\ u <= q /\ q <= v
        BY <1>9
  <2> QED BY <1>2, <1>3, <1>9, <2>1, SpotThere
<1>13. /\ y \in Deques /\ y.map = d.map /\ y.cap = d.cap /\ y.id = d.id /\ y.span = d.span
       /\ y.cnt = d.cnt /\ y.beg = Spot(d.map, p) /\ y.end = Spot(d.map, q)
      BY <1>5, <1>11, <1>12 DEF Deques
<1>14. Pos(y.beg) = p /\ Pos(y.end) = q /\ y.beg.buf = y.map[y.beg.node] /\ y.end.buf = y.map[y.end.node]
      BY <1>13, SpotOf
<1>15. \A j \in 0..d.cap : d.map[j] # NoBuf <=> j \in d.span..(h - 1)
      BY <1>1, <1>3, <1>8 DEF Allocating, Owned
<1>16. d.span * B <= p /\ q <= h * B
  <2>1. d.span * B \in Int /\ d.span * B <= a * B
        BY <1>5, <1>8, Scaled
  <2>2. h * B \in Int /\ z * B <= h * B
        BY <1>8, Scaled
  <2> QED BY <1>9, <2>1, <2>2
<1>17. Laid(y, d.span, h)
  <2>1. \A j, k \in 0..y.cap : y.map[j] = y.map[k] /\ y.map[j] # NoBuf => j = k
        BY <1>2, <1>13 DEF Laid
  <2>2. \A j \in d.span..(h - 1) : y.map[j] # NoBuf
    <3>1. \A j \in d.span..(h - 1) : j \in 0..d.cap
          BY <1>5, <1>8
    <3> QED BY <1>13, <1>15, <3>1
  <2>3. 0 <= d.span /\ d.span <= h
        BY <1>5, <1>7
  <2> QED BY <1>5, <1>8, <1>9, <1>13, <1>14, <1>16, <2>1, <2>2, <2>3 DEF Laid
<1>18. Valid(y)
  <2>1. y.span + y.cnt = h /\ y.span = d.span
        BY <1>7, <1>13
  <2>2. y.span + y.cnt - 1 = h - 1
        BY <1>5, <1>7, <1>13
  <2>3. Owned(y, d.span..(h - 1))
        BY <1>13, <1>15 DEF Owned
  <2>4. Owned(y, y.span..(y.span + y.cnt - 1))
        BY <2>1, <2>2, <2>3
  <2> QED BY <1>14, <1>17, <2>1, <2>4 DEF Valid
<1>19. IF r.back THEN Pos(d.end) + r.n <= (d.span + d.cnt) * B
       ELSE Pos(d.beg) - r.n >= d.span * B
      BY <1>1, <1>7, <1>8 DEF Allocating
<1> QED BY <1>9, <1>13, <1>14, <1>18, <1>19 DEF Bufs

\* what a reservation does not touch, and may
LEMMA StillUndoable ==
  ASSUME Undoable, NEW y, NEW q, y = d', q = r', q \in Reservations,
         y.map = d.map, y.id = d.id, own' = own, live' = live,
         q.saved = r.saved, q.own = r.own, q.pos = r.pos, q.moved = r.moved, q.back = r.back,
         q.alloc = r.alloc, q.added = r.added
  PROVE  Undoable'
<1>1. Without(y.map, q) = Without(d.map, r)
      BY DEF Without
<1>2. Restored(y, q) = r.saved
  <2>1. Restored(y, q) = Restored(d, r)
        BY <1>1, RestoredSame
  <2> QED BY <2>1 DEF Undoable
<1>3. PICK N : N = NewBufs
      OBVIOUS
<1>4. {y.map[j] : j \in q.alloc..(q.alloc + q.added - 1)} = N
      BY <1>3 DEF NewBufs
<1>5. own = r.own \cup N /\ r.own \cap N = {} /\ Valid(r.saved) /\ Holds(r.saved, live)
      /\ r.own = Bufs(r.saved)
      BY <1>3 DEF Undoable
<1> QED BY <1>2, <1>4, <1>5 DEF Undoable, NewBufs

LEMMA ReadyKept == DInv /\ Ready => DInv'
<1> SUFFICES ASSUME DInv, Ready PROVE DInv'
    OBVIOUS
<1>1. r.pc = "alloc" /\ r.added = r.new /\ live' = live /\ made' = made /\ own' = own
      BY DEF Ready
<1>2. r \in Reservations /\ Undoable /\ Allocating
      BY <1>1, Active
<1>3. PICK y : y = [d EXCEPT !.beg = It(d.map, @.node, @.off), !.end = It(d.map, @.node, @.off)]
      OBVIOUS
<1>4. d' = y /\ r' = Build(y, r.back, r.n, r)
      BY <1>3 DEF Ready
<1>5. /\ Valid(y) /\ y.map = d.map /\ y.id = d.id /\ y.span = d.span /\ y.cnt = d.cnt
      /\ Pos(y.beg) = Pos(d.beg) /\ Pos(y.end) = Pos(d.end) /\ Bufs(y) = Bufs(d)
      /\ IF r.back THEN Pos(d.end) + r.n <= (d.span + d.cnt) * B
         ELSE Pos(d.beg) - r.n >= d.span * B
      BY <1>1, <1>3, ReadyMap
<1>6. r.back \in BOOLEAN /\ r.n \in Nat \ {0} /\ r.done = 0
      BY <1>2 DEF Reservations, Allocating
<1>7. PICK k, n : k = r.back /\ n = r.n
      OBVIOUS
<1>8. PICK w : w = r
      OBVIOUS
<1>9. /\ First(y, k, n) \in Int /\ Spot(y.map, First(y, k, n)) \in Spots
      /\ Build(y, k, n, w) = Started(w, Spot(y.map, First(y, k, n)))
  <2>1. /\ k => Pos(y.end) + n <= (y.span + y.cnt) * B
        /\ ~ k => Pos(y.beg) - n >= y.span * B
        BY <1>5, <1>7
  <2>2. k \in BOOLEAN /\ n \in Nat \ {0} /\ w \in Reservations
        BY <1>2, <1>6, <1>7, <1>8
  <2>3. Valid(y)
        BY <1>5
  <2> QED BY <2>1, <2>2, <2>3, BuildRight
<1>10. PICK f \in Int : f = First(y, k, n)
      BY <1>9
<1>11. PICK q : q = r'
      OBVIOUS
<1>12. q = Started(r, Spot(d.map, f))
      BY <1>4, <1>5, <1>7, <1>8, <1>9, <1>10, <1>11
<1>13. Spot(d.map, f) \in Spots
      BY <1>5, <1>9, <1>10
<1>14. /\ q \in Reservations /\ q.pc = "build" /\ q.base = Spot(d.map, f) /\ q.cur = Spot(d.map, f)
       /\ q.saved = r.saved /\ q.own = r.own /\ q.pos = r.pos /\ q.moved = r.moved /\ q.back = r.back
       /\ q.alloc = r.alloc /\ q.added = r.added /\ q.done = r.done /\ q.n = r.n
      BY <1>2, <1>12, <1>13 DEF Started, Reservations
<1>15. Undoable'
      BY <1>1, <1>2, <1>4, <1>5, <1>11, <1>14, StillUndoable
<1>16. RoomFirst' = f
  <2>1. f = IF r.back THEN Pos(y.end) ELSE Pos(y.beg) - r.n
        BY <1>7, <1>10 DEF First
  <2> QED BY <1>4, <1>11, <1>14, <2>1 DEF RoomFirst
<1>17. Building'
  <2>1. q.done <= q.n /\ f + q.done = f
        BY <1>6, <1>14
  <2>2. {At(y.map, f + i) : i \in 0..(q.done - 1)} = {}
    <3>1. 0..(q.done - 1) = {}
          BY <1>6, <1>14
    <3> QED BY <3>1
  <2>3. made = ToSet(live)
        BY <1>2 DEF Allocating
  <2>4. IF q.back THEN Pos(y.end) + q.n <= (y.span + y.cnt) * B ELSE Pos(y.beg) - q.n >= y.span * B
        BY <1>5, <1>14
  <2> QED BY <1>1, <1>4, <1>5, <1>11, <1>14, <1>16, <2>1, <2>2, <2>3, <2>4 DEF Building
<1>18. own' = Bufs(y) /\ live' \in Seq(CellSet) /\ Holds(y, live)
  <2>1. own = Bufs(d) /\ live \in Seq(CellSet) /\ Holds(d, live)
        BY DEF DInv
  <2> QED BY <1>1, <1>5, <2>1 DEF Holds
<1> QED BY <1>1, <1>4, <1>15, <1>17, <1>18 DEF DInv

LEMMA ConstructKept == DInv /\ Construct => DInv'
<1> SUFFICES ASSUME DInv, Construct PROVE DInv'
    OBVIOUS
<1>1. r.pc = "build" /\ r.done < r.n /\ live' = live /\ d' = d /\ own' = own
      BY DEF Construct
<1>2. r \in Reservations /\ Undoable /\ Building
      BY <1>1, Active
<1>3. PICK f \in Int, n \in Nat, k \in Nat : f = RoomFirst /\ n = r.n /\ k = r.done /\ k < n
      BY <1>1, <1>2, RoomCells
<1>4. PICK p \in Int : p = f + k
      OBVIOUS
<1>5. /\ Laid(d, d.span, d.span + d.cnt)
      /\ d.span * B <= p /\ p < (d.span + d.cnt) * B
  <2>1. p \in f..(f + n - 1)
        BY <1>3, <1>4
  <2> QED BY <1>2, <1>3, <2>1, RoomCells
<1>6. r.cur = Spot(d.map, p)
      BY <1>2, <1>3, <1>4 DEF Building
<1>7. Cell(r.cur) = At(d.map, p) /\ Inc(d.map, r.cur) = Spot(d.map, p + 1)
      BY <1>6, SpotOf, IncSpot
<1>8. Spot(d.map, p + 1) \in Spots
  <2>1. PICK u \in Int, v \in Int : u = d.span * B /\ v = (d.span + d.cnt) * B
        BY <1>5, Walls
  <2>2. PICK e \in Int : e = p + 1
        OBVIOUS
  <2>3. d.span * B <= e /\ e <= (d.span + d.cnt) * B
        BY <1>5, <2>1, <2>2
  <2>4. Spot(d.map, e) \in Spots
        BY <1>5, <2>3, SpotThere
  <2> QED BY <2>2, <2>4
<1>9. PICK q : q = r'
      OBVIOUS
<1>10. q = [r EXCEPT !.cur = Spot(d.map, p + 1), !.done = k + 1]
       BY <1>3, <1>7, <1>9 DEF Construct
<1>11. /\ q \in Reservations /\ q.pc = "build" /\ q.base = r.base /\ q.cur = Spot(d.map, p + 1)
       /\ q.saved = r.saved /\ q.own = r.own /\ q.pos = r.pos /\ q.moved = r.moved /\ q.back = r.back
       /\ q.alloc = r.alloc /\ q.added = r.added /\ q.done = k + 1 /\ q.n = n
  <2>1. PICK e \in Spots, j \in Nat : e = Spot(d.map, p + 1) /\ j = k + 1
        BY <1>3, <1>8
  <2>2. q = [r EXCEPT !.cur = e, !.done = j]
        BY <1>10, <2>1
  <2> QED BY <1>1, <1>2, <1>3, <2>1, <2>2 DEF Reservations
<1>12. Undoable'
       BY <1>1, <1>2, <1>9, <1>11, StillUndoable
<1>13. RoomFirst' = f
       BY <1>1, <1>3, <1>9, <1>11 DEF RoomFirst
<1>14. made' = ToSet(live) \cup {At(d.map, f + i) : i \in 0..((k + 1) - 1)}
  <2>1. made = ToSet(live) \cup {At(d.map, f + i) : i \in 0..(k - 1)}
        BY <1>2, <1>3 DEF Building
  <2>2. made' = made \cup {At(d.map, f + k)}
        BY <1>4, <1>7 DEF Construct
  <2>3. 0..((k + 1) - 1) = (0..(k - 1)) \cup {k}
        BY <1>3
  <2> QED BY <2>1, <2>2, <2>3
<1>15. Building'
  <2>1. Valid(d) /\ r.base = Spot(d.map, f)
        BY <1>2, <1>3 DEF Building
  <2>2. k + 1 <= n /\ f + (k + 1) = p + 1
        BY <1>3, <1>4
  <2>3. IF q.back THEN Pos(d.end) + q.n <= (d.span + d.cnt) * B ELSE Pos(d.beg) - q.n >= d.span * B
        BY <1>2, <1>3, <1>11 DEF Building
  <2> QED BY <1>1, <1>9, <1>11, <1>13, <1>14, <2>1, <2>2, <2>3 DEF Building
<1>16. own' = Bufs(d) /\ live' \in Seq(CellSet) /\ Holds(d, live)
       BY <1>1 DEF DInv
<1> QED BY <1>1, <1>12, <1>15, <1>16 DEF DInv

LEMMA CommitKept == DInv /\ Commit => DInv'
<1> SUFFICES ASSUME DInv, Commit PROVE DInv'
    OBVIOUS
<1>1. r.pc = "build" /\ r.done = r.n /\ made' = made /\ own' = own /\ r' = Idle
      BY DEF Commit
<1>2. r \in Reservations /\ Undoable /\ Building
      BY <1>1, Active
<1>3. PICK f \in Int, n \in Nat : f = RoomFirst /\ n = r.n
      BY <1>2, RoomCells
<1>4. Valid(d) /\ r.base = Spot(d.map, f) /\ r.back \in BOOLEAN
      BY <1>2, <1>3 DEF Building, Reservations
<1>5. Laid(d, d.span, d.span + d.cnt)
      BY <1>4 DEF Valid
<1>6. PICK p \in Int, q \in Int, u \in Int, v \in Int :
        /\ p = Pos(d.beg) /\ q = Pos(d.end) /\ u = d.span * B /\ v = (d.span + d.cnt) * B
        /\ u <= p /\ p <= q /\ q <= v
      BY <1>5, Walls
<1>7. d.beg = Spot(d.map, p) /\ d.end = Spot(d.map, q)
      BY <1>4, <1>6, ValidEnds
<1>8. own = Bufs(d) /\ live = Row(d.map, p, q - p)
      BY <1>6 DEF DInv, Holds
<1>9. ToSet(live) = Patch(d.map, p, q)
  <2>1. Holds(d, live)
        BY DEF DInv
  <2> QED BY <1>5, <1>6, <2>1, LiveCells
<1>10. Cells(d.map, r.base, r.n) = Row(d.map, f, n)
      BY <1>3, <1>4, CellsAt DEF Row
<1>11. made = Patch(d.map, p, q) \cup Patch(d.map, f, f + n)
  <2>1. made = Patch(d.map, p, q) \cup {At(d.map, f + i) : i \in 0..(n - 1)}
        BY <1>1, <1>2, <1>3, <1>9 DEF Building
  <2>2. ASSUME NEW i \in 0..(n - 1) PROVE f + i \in f..(f + n - 1)
        OBVIOUS
  <2>3. ASSUME NEW k \in f..(f + n - 1) PROVE k - f \in 0..(n - 1) /\ f + (k - f) = k
        OBVIOUS
  <2>4. {At(d.map, f + i) : i \in 0..(n - 1)} = {At(d.map, k) : k \in f..(f + n - 1)}
        BY <2>2, <2>3
  <2> QED BY <2>1, <2>4 DEF Patch
<1>12. PICK m : m = d.map
      OBVIOUS
<1>13. PICK c \in Nat : c = q - p
      BY <1>6
<1>14. CASE r.back
  <2>1. f = q /\ q + n <= v
        BY <1>2, <1>3, <1>6, <1>14 DEF Building, RoomFirst
  <2>2. PICK e \in Int : e = q + n
        OBVIOUS
  <2>3. u <= p /\ p <= e /\ e <= v
        BY <1>3, <1>6, <2>1, <2>2
  <2>4. d' = Between(d, p, e)
    <3>1. d' = [d EXCEPT !.end = Plus(d.map, @, r.n)]
          BY <1>14 DEF Commit
    <3>2. Plus(d.map, d.end, r.n) = Spot(d.map, e)
          BY <1>3, <1>7, <2>2, PlusSpot
    <3>3. d' = [d EXCEPT !.end = Spot(d.map, e)]
          BY <3>1, <3>2
    <3> QED BY <1>4, <1>6, <3>3, OneEnd
  <2>5. \A k \in p..(p + c + n - 1) : At(m, k) \in CellSet
    <3>1. ASSUME NEW k \in p..(p + c + n - 1) PROVE d.span * B <= k /\ k < (d.span + d.cnt) * B
          BY <1>3, <1>6, <1>13, <2>1
    <3> QED BY <1>5, <1>12, <3>1, CellThere
  <2>6. live' = Row(m, p, e - p)
    <3>1. live' = Row(m, p, c) \o Row(m, q, n)
          BY <1>8, <1>10, <1>12, <1>13, <1>14, <2>1 DEF Commit
    <3>2. p + c = q /\ c + n = e - p
          BY <1>3, <1>6, <1>13, <2>2
    <3>3. Row(m, p, c) \o Row(m, p + c, n) = Row(m, p, c + n)
          BY <2>5, RowJoined
    <3> QED BY <3>1, <3>2, <3>3
  <2>7. made = Patch(m, p, e)
    <3>1. p..(e - 1) = (p..(q - 1)) \cup (q..(e - 1))
          BY <1>3, <1>6, <2>2
    <3>2. Patch(m, p, e) = Patch(m, p, q) \cup Patch(m, q, e)
          BY <3>1 DEF Patch
    <3> QED BY <1>11, <1>12, <2>1, <2>2, <3>2
  <2> QED BY <1>1, <1>4, <1>6, <1>8, <1>12, <2>3, <2>4, <2>6, <2>7, EndsStep
<1>15. CASE ~ r.back
  <2>1. f = p - n /\ f >= u
        BY <1>2, <1>3, <1>6, <1>15 DEF Building, RoomFirst
  <2>2. u <= f /\ f <= q /\ q <= v /\ f <= p
        BY <1>3, <1>6, <2>1
  <2>3. d' = Between(d, f, q)
    <3>1. d' = [d EXCEPT !.beg = Plus(d.map, @, -r.n)]
          BY <1>15 DEF Commit
    <3>2. -n \in Int /\ p + (-n) = f
          BY <1>3, <1>6, <2>1
    <3>3. Plus(d.map, d.beg, -r.n) = Spot(d.map, f)
          BY <1>3, <1>7, <3>2, PlusSpot
    <3>4. d' = [d EXCEPT !.beg = Spot(d.map, f)]
          BY <3>1, <3>3
    <3> QED BY <1>4, <1>6, <3>4, OneEnd
  <2>4. \A k \in f..(f + n + c - 1) : At(m, k) \in CellSet
    <3>1. ASSUME NEW k \in f..(f + n + c - 1) PROVE d.span * B <= k /\ k < (d.span + d.cnt) * B
          BY <1>3, <1>6, <1>13, <2>1
    <3> QED BY <1>5, <1>12, <3>1, CellThere
  <2>5. live' = Row(m, f, q - f)
    <3>1. live' = Row(m, f, n) \o Row(m, p, c)
          BY <1>8, <1>10, <1>12, <1>13, <1>15 DEF Commit
    <3>2. f + n = p /\ n + c = q - f
          BY <1>3, <1>6, <1>13, <2>1
    <3>3. Row(m, f, n) \o Row(m, f + n, c) = Row(m, f, n + c)
          BY <2>4, RowJoined
    <3> QED BY <3>1, <3>2, <3>3
  <2>6. made = Patch(m, f, q)
    <3>1. f..(q - 1) = (f..(p - 1)) \cup (p..(q - 1)) /\ f + n = p
          BY <1>3, <1>6, <2>1
    <3>2. Patch(m, f, q) = Patch(m, f, p) \cup Patch(m, p, q)
          BY <3>1 DEF Patch
    <3> QED BY <1>11, <1>12, <3>1, <3>2
  <2> QED BY <1>1, <1>4, <1>6, <1>8, <1>12, <2>2, <2>3, <2>5, <2>6, EndsStep
<1> QED BY <1>4, <1>14, <1>15

\* a failure puts back the deque and the buffers of before
LEMMA FailUndoes ==
  ASSUME DInv, Fail
  PROVE  d' = r.saved /\ own' = r.own /\ Undoable
<1>1. Undoable
      BY Active DEF Fail
<1>2. r.alloc \in Int /\ r.added \in Nat
      BY <1>1 DEF Undoable, Reservations
<1>3. {d.map[r.alloc + i] : i \in 0..(r.added - 1)} = NewBufs
  <2>1. PICK a \in Int, n \in Nat : a = r.alloc /\ n = r.added
        BY <1>2
  <2>2. ASSUME NEW i \in 0..(n - 1) PROVE a + i \in a..(a + n - 1)
        OBVIOUS
  <2>3. ASSUME NEW k \in a..(a + n - 1) PROVE k - a \in 0..(n - 1) /\ a + (k - a) = k
        OBVIOUS
  <2> QED BY <2>1, <2>2, <2>3 DEF NewBufs
<1>4. own' = own \ NewBufs
      BY <1>3 DEF Fail
<1>5. own' = r.own
      BY <1>1, <1>4 DEF Undoable
<1> QED BY <1>1, <1>5 DEF Fail, Undoable

\* the objects that are destroyed are those of the room
LEMMA RoomEmptied ==
  ASSUME DInv, Building
  PROVE  made \ ToSet(Cells(d.map, r.base, r.done)) = ToSet(live)
<1>1. PICK f \in Int, n \in Nat, k \in Nat : f = RoomFirst /\ n = r.n /\ k = r.done
      BY RoomCells
<1>2. /\ Laid(d, d.span, d.span + d.cnt) /\ k <= n
      /\ \A e \in f..(f + n - 1) :
           /\ d.span * B <= e /\ e < (d.span + d.cnt) * B
           /\ e \notin Pos(d.beg)..(Pos(d.end) - 1)
      BY <1>1, RoomCells DEF Building
<1>3. PICK p \in Int, q \in Int, u \in Int, v \in Int :
        /\ p = Pos(d.beg) /\ q = Pos(d.end) /\ u = d.span * B /\ v = (d.span + d.cnt) * B
        /\ u <= p /\ p <= q /\ q <= v
      BY <1>2, Walls
<1>4. ToSet(live) = Patch(d.map, p, q)
  <2>1. Holds(d, live)
        BY DEF DInv
  <2> QED BY <1>2, <1>3, <2>1, LiveCells
<1>5. ToSet(Cells(d.map, r.base, r.done)) = {At(d.map, f + i) : i \in 0..(k - 1)}
  <2>1. Cells(d.map, r.base, r.done) = [i \in 1..k |-> At(d.map, f + i - 1)]
        BY <1>1, CellsAt DEF Building
  <2>2. PICK s : s = Cells(d.map, r.base, r.done)
        OBVIOUS
  <2>3. ToSet(s) = {s[i] : i \in 1..k}
        BY <2>1, <2>2 DEF ToSet
  <2>4. ASSUME NEW i \in 1..k PROVE s[i] = At(d.map, f + (i - 1)) /\ i - 1 \in 0..(k - 1)
    <3>1. f + i - 1 = f + (i - 1)
          OBVIOUS
    <3> QED BY <2>1, <2>2, <3>1
  <2>5. ASSUME NEW i \in 0..(k - 1) PROVE s[i + 1] = At(d.map, f + i) /\ i + 1 \in 1..k
    <3>1. f + (i + 1) - 1 = f + i /\ i + 1 \in 1..k
          OBVIOUS
    <3> QED BY <2>1, <2>2, <3>1
  <2> QED BY <2>2, <2>3, <2>4, <2>5
<1>6. ASSUME NEW i \in 0..(k - 1) PROVE At(d.map, f + i) \notin Patch(d.map, p, q)
  <2>1. PICK e \in Int : e = f + i
        OBVIOUS
  <2>2. e \in f..(f + n - 1)
        BY <1>2, <2>1
  <2>3. u <= e /\ e < v /\ e \notin p..(q - 1)
        BY <1>2, <1>3, <2>2
  <2>4. ASSUME NEW j \in p..(q - 1) PROVE At(d.map, j) # At(d.map, e)
    <3>1. j \in Int /\ u <= j /\ j < v /\ j # e
          BY <1>3, <2>3
    <3> QED BY <1>2, <1>3, <2>3, <3>1, CellsApart
  <2> QED BY <2>1, <2>4 DEF Patch
<1>7. made = Patch(d.map, p, q) \cup {At(d.map, f + i) : i \in 0..(k - 1)}
      BY <1>1, <1>4 DEF Building
<1> QED BY <1>4, <1>5, <1>6, <1>7

LEMMA FailKept == DInv /\ Fail => DInv'
<1> SUFFICES ASSUME DInv, Fail PROVE DInv'
    OBVIOUS
<1>1. d' = r.saved /\ own' = r.own /\ Undoable
      BY FailUndoes
<1>2. r' = Idle /\ live' = live /\ r.pc \in {"alloc", "build"}
      BY DEF Fail
<1>3. made' = ToSet(live)
  <2>1. CASE r.pc = "alloc"
        BY <2>1, Active DEF Fail, Allocating
  <2>2. CASE r.pc # "alloc"
    <3>1. Building
          BY <1>2, <2>2, Active
    <3> QED BY <2>2, <3>1, RoomEmptied DEF Fail
  <2> QED BY <2>1, <2>2
<1>4. PICK y : y = d'
      OBVIOUS
<1>5. Valid(y) /\ Holds(y, live) /\ own' = Bufs(y)
      BY <1>1, <1>4 DEF Undoable
<1>6. live' \in Seq(CellSet)
      BY <1>2 DEF DInv
<1> QED BY <1>2, <1>3, <1>4, <1>5, <1>6 DEF DInv, Resting

-----------------------------------------------------------------------------
(* The plan of a reservation. *)

LEMMA CeilBounds ==
  ASSUME NEW k \in Nat \ {0}
  PROVE  Ceil(k) \in Nat \ {0} /\ k <= Ceil(k) * B /\ (Ceil(k) - 1) * B + 1 <= k
<1>1. PICK q \in Int, t \in 0..(B - 1), u \in Int :
        q = k \div B /\ t = k % B /\ u = q * B /\ k = u + t
      BY DivMod, BAssumption
<1>2. q >= 0
  <2>1. ASSUME q + 1 <= 0 PROVE FALSE
    <3>1. (0 - (q + 1)) * B >= 0
          BY <2>1, BAssumption
    <3> QED BY <1>1, <3>1, BAssumption
  <2> QED BY <2>1
<1>3. CASE t # 0
  <2>1. Ceil(k) = q + 1
        BY <1>1, <1>3 DEF Ceil
  <2>2. (q + 1) * B = u + B /\ (q + 1) - 1 = q
        BY <1>1, BAssumption
  <2> QED BY <1>1, <1>2, <1>3, <2>1, <2>2, BAssumption
<1>4. CASE t = 0
  <2>1. Ceil(k) = q
        BY <1>1, <1>4 DEF Ceil
  <2>2. (q - 1) * B = u - B /\ q # 0
        BY <1>1, <1>4, BAssumption
  <2> QED BY <1>1, <1>2, <1>4, <2>1, <2>2, BAssumption
<1> QED BY <1>3, <1>4

\* the elements end in the slot before Past
LEMMA PastBounds ==
  ASSUME NEW x, NEW a, NEW z, Laid(x, a, z)
  PROVE  /\ Past(x) \in Int /\ x.beg.node <= Past(x) /\ Past(x) <= z
         /\ Past(x) * B = Pos(x.end) + IF x.end.off # 0 THEN B - x.end.off ELSE 0
<1>1. PICK e \in Int, t \in 0..(B - 1) : e = x.end.node /\ t = x.end.off
      BY Ends
<1>2. x.beg.node <= e /\ e <= z /\ (e = z => t = 0) /\ x.beg.node \in Int /\ z \in Int
      BY <1>1, EndSlots, Ends DEF Laid
<1>3. PICK u \in Int : u = e * B /\ Pos(x.end) = u + t
      BY <1>1, BAssumption DEF Pos
<1>4. CASE t # 0
  <2>1. Past(x) = e + 1 /\ (e + 1) * B = u + B
        BY <1>1, <1>3, <1>4, BAssumption DEF Past
  <2>2. x.beg.node <= e + 1 /\ e + 1 <= z
        BY <1>1, <1>2, <1>4
  <2>3. u + B = Pos(x.end) + (B - t)
        BY <1>1, <1>3, BAssumption
  <2> QED BY <1>1, <1>4, <2>1, <2>2, <2>3
<1>5. CASE t = 0
  <2>1. Past(x) = e
        BY <1>1, <1>5 DEF Past
  <2> QED BY <1>1, <1>2, <1>3, <1>5, <2>1, BAssumption
<1> QED BY <1>4, <1>5

\* the shortest whole number of buffers
LEMMA NeedBounds ==
  ASSUME NEW n \in Nat, NEW k \in Nat, NEW need, need = IF n <= k THEN 0 ELSE Ceil(n - k)
  PROVE  need \in Nat /\ n - k <= need * B /\ (need > 0 => (need - 1) * B + 1 <= n - k)
<1>1. CASE n <= k
      BY <1>1, BAssumption
<1>2. CASE ~ (n <= k)
  <2>1. PICK e \in Nat \ {0} : e = n - k
        BY <1>2
  <2>2. Ceil(e) \in Nat \ {0} /\ e <= Ceil(e) * B /\ (Ceil(e) - 1) * B + 1 <= e
        BY CeilBounds
  <2> QED BY <1>2, <2>1, <2>2
<1> QED BY <1>1, <1>2

LEMMA PlanTypes ==
  ASSUME NEW x, NEW back \in BOOLEAN, NEW n \in Nat \ {0}, Valid(x)
  PROVE  /\ Near(x, back) \in Nat /\ Far(x, back) \in Nat /\ Near(x, back) + Far(x, back) <= x.cnt
         /\ Partial(x, back) \in 0..(B - 1) /\ Wanted(x, back, n) \in Nat /\ Short(x, back, n) \in Nat
         /\ Reuse(x, back, n) \in Nat /\ Reuse(x, back, n) <= Short(x, back, n)
         /\ Reuse(x, back, n) <= Far(x, back)
         /\ Short(x, back, n) - Reuse(x, back, n) \in Nat
<1>1. Laid(x, x.span, x.span + x.cnt)
      BY DEF Valid
<1>2. PICK s \in Nat, c \in Nat : s = x.span /\ c = x.cnt
      BY <1>1 DEF Laid, Deques
<1>3. PICK b \in Int, past \in Int, bo \in 0..(B - 1), eo \in 0..(B - 1) :
        b = x.beg.node /\ past = Past(x) /\ bo = x.beg.off /\ eo = x.end.off
      BY <1>1, Ends, PastBounds
<1>4. s <= b
      BY <1>1, <1>2, <1>3, EndSlots
<1>5. b <= past /\ past <= s + c
      BY <1>1, <1>2, <1>3, PastBounds
<1>6. Near(x, back) \in Nat /\ Far(x, back) \in Nat /\ Near(x, back) + Far(x, back) <= c
  <2>1. CASE back
        BY <1>2, <1>3, <1>4, <1>5, <2>1 DEF Near, Far
  <2>2. CASE ~ back
        BY <1>2, <1>3, <1>4, <1>5, <2>2 DEF Near, Far
  <2> QED BY <2>1, <2>2
<1>7. Partial(x, back) \in 0..(B - 1)
  <2>1. CASE back
    <3>1. Partial(x, back) = IF eo # 0 THEN B - eo ELSE 0
          BY <1>3, <2>1 DEF Partial
    <3> QED BY <3>1, BAssumption
  <2>2. CASE ~ back
        BY <1>3, <2>2 DEF Partial
  <2> QED BY <2>1, <2>2
<1>8. Wanted(x, back, n) \in Nat
  <2>1. PICK k \in Nat : k = Partial(x, back)
        BY <1>7, BAssumption
  <2>2. Wanted(x, back, n) = IF n <= k THEN 0 ELSE Ceil(n - k)
        BY <2>1 DEF Wanted
  <2> QED BY <2>2, NeedBounds
<1>9. Short(x, back, n) \in Nat
  <2>1. PICK k \in Nat, e \in Nat : k = Near(x, back) /\ e = Wanted(x, back, n)
        BY <1>6, <1>8
  <2>2. Short(x, back, n) = IF e <= k THEN 0 ELSE e - k
        BY <2>1 DEF Short
  <2> QED BY <2>2
<1>10. PICK f \in Nat, k \in Nat : f = Far(x, back) /\ k = Short(x, back, n)
       BY <1>6, <1>9
<1>11. Reuse(x, back, n) = IF f < k THEN f ELSE k
       BY <1>10 DEF Reuse
<1> QED BY <1>2, <1>6, <1>7, <1>8, <1>9, <1>10, <1>11

\* the elements stay clear of the slots that are reused, and the room of the
\* slots that are added suffices
LEMMA PlanRight ==
  ASSUME NEW x, NEW back \in BOOLEAN, NEW n \in Nat \ {0}, Valid(x),
         NEW k, k = Reuse(x, back, n), NEW e, e = Short(x, back, n)
  PROVE  /\ back => (x.span + k) * B <= Pos(x.beg) /\ Pos(x.end) + n <= (x.span + x.cnt + e) * B
         /\ ~ back => Pos(x.end) <= (x.span + x.cnt - k) * B /\ Pos(x.beg) - n >= (x.span - e) * B
<1>1. Laid(x, x.span, x.span + x.cnt)
      BY DEF Valid
<1>2. PICK s \in Nat, c \in Nat, h \in Int : s = x.span /\ c = x.cnt /\ h = s + c
      BY <1>1 DEF Laid, Deques
<1>3. PICK b \in Int, past \in Int, bo \in 0..(B - 1), p \in Int, q \in Int :
        b = x.beg.node /\ past = Past(x) /\ bo = x.beg.off /\ p = Pos(x.beg) /\ q = Pos(x.end)
      BY <1>1, Ends, PastBounds
<1>11. PICK bb \in Int, pb \in Int : bb = b * B /\ pb = past * B
      BY BAssumption
<1>4. p = bb + bo
      BY <1>3, <1>11 DEF Pos
<1>5. PICK near \in Nat, far \in Nat, part \in 0..(B - 1), more \in Nat :
        near = Near(x, back) /\ far = Far(x, back) /\ part = Partial(x, back) /\ more = Wanted(x, back, n)
      BY PlanTypes
<1>6. k \in Nat /\ e \in Nat /\ k <= e /\ k <= far
      BY <1>5, PlanTypes
<1>7. more <= near + e
  <2>1. e = IF more <= near THEN 0 ELSE more - near
        BY <1>5 DEF Short
  <2> QED BY <1>5, <2>1
<1>8. PICK mb \in Int : mb = more * B /\ n - part <= mb
  <2>1. more = IF n <= part THEN 0 ELSE Ceil(n - part)
        BY <1>5 DEF Wanted
  <2>2. n - part <= more * B
        BY <1>5, <2>1, NeedBounds, BAssumption
  <2> QED BY <2>2, BAssumption
<1>9. CASE back
  <2>1. near = h - past /\ far = b - s
        BY <1>2, <1>3, <1>5, <1>9 DEF Near, Far
  <2>2. pb = q + part
        BY <1>1, <1>3, <1>11, <1>5, <1>9, PastBounds DEF Partial
  <2>3. (s + k) * B <= bb
    <3>1. s + k <= b /\ s + k \in Int
          BY <1>6, <2>1
    <3> QED BY <1>11, <3>1, Scaled
  <2>4. q + n <= (h + e) * B
    <3>1. past + more <= h + e /\ past + more \in Int /\ h + e \in Int
          BY <1>2, <1>3, <1>5, <1>6, <1>7, <2>1
    <3>2. (past + more) * B <= (h + e) * B /\ (h + e) * B \in Int
          BY <3>1, Scaled
    <3>3. (past + more) * B = pb + mb
          BY <1>11, <1>5, <1>8, BAssumption
    <3> QED BY <1>3, <1>5, <1>8, <2>2, <3>2, <3>3
  <2>5. (s + k) * B \in Int
        BY <1>6, BAssumption
  <2>6. (s + k) * B <= p
        BY <1>4, <2>3, <2>5
  <2> QED BY <1>2, <1>3, <1>9, <2>4, <2>6
<1>10. CASE ~ back
  <2>1. far = h - past /\ near = b - s
        BY <1>2, <1>3, <1>5, <1>10 DEF Near, Far
  <2>2. part = bo
        BY <1>3, <1>5, <1>10 DEF Partial
  <2>3. q <= (h - k) * B
    <3>1. past <= h - k /\ h - k \in Int
          BY <1>6, <2>1
    <3>2. pb <= (h - k) * B /\ (h - k) * B \in Int
          BY <1>11, <3>1, Scaled
    <3>3. q <= pb
          BY <1>1, <1>3, <1>11, PastBounds, Ends, BAssumption
    <3> QED BY <1>3, <3>2, <3>3
  <2>4. p - n >= (s - e) * B
    <3>1. s - e <= b - more /\ s - e \in Int /\ b - more \in Int
          BY <1>2, <1>3, <1>5, <1>6, <1>7, <2>1
    <3>2. (s - e) * B <= (b - more) * B /\ (s - e) * B \in Int
          BY <3>1, Scaled
    <3>3. (b - more) * B = bb - mb
          BY <1>11, <1>5, <1>8, BAssumption
    <3> QED BY <1>3, <1>4, <1>5, <1>8, <2>2, <3>2, <3>3
  <2>5. x.span + x.cnt - k = h - k /\ x.span - e = s - e
        BY <1>2, <1>6
  <2>6. q <= (x.span + x.cnt - k) * B
        BY <2>3, <2>5
  <2>7. p - n >= (x.span - e) * B
        BY <2>4, <2>5
  <2> QED BY <1>3, <1>10, <2>6, <2>7
<1> QED BY <1>9, <1>10

\* the elements' number is the distance of the iterators
LEMMA SizeIs ==
  ASSUME NEW x, NEW a, NEW z, Laid(x, a, z)
  PROVE  Minus(x.end, x.beg) = Pos(x.end) - Pos(x.beg)
<1>1. PICK b \in Int, e \in Int, bo \in Int, eo \in Int :
        b = x.beg.node /\ e = x.end.node /\ bo = x.beg.off /\ eo = x.end.off
      BY Ends
<1>2. PICK bb \in Int, eb \in Int : bb = b * B /\ eb = e * B
      BY BAssumption
<1>3. (e - b) * B = eb - bb
      BY <1>2, BAssumption
<1>4. Minus(x.end, x.beg) = eb - bb + eo - bo
      BY <1>1, <1>3 DEF Minus
<1>5. Pos(x.end) = eb + eo /\ Pos(x.beg) = bb + bo
      BY <1>1, <1>2 DEF Pos
<1> QED BY <1>4, <1>5

\* as long as max_size() allows the elements, the map has slots for them
LEMMA RoomExists ==
  ASSUME NEW x, NEW back \in BOOLEAN, NEW n \in Nat \ {0}, Valid(x),
         Minus(x.end, x.beg) + n <= MaxSize,
         NEW k, k = Reuse(x, back, n), NEW e, e = Short(x, back, n)
  PROVE  x.cnt + (e - k) <= Limit
<1>1. Laid(x, x.span, x.span + x.cnt)
      BY DEF Valid
<1>2. PICK s \in Nat, c \in Nat, h \in Int : s = x.span /\ c = x.cnt /\ h = s + c
      BY <1>1 DEF Laid, Deques
<1>3. PICK l \in Nat : l = Limit
      BY LimitAssumption
<1>4. c <= l
      BY <1>1, <1>2, <1>3 DEF Laid, Deques
<1>5. PICK near \in Nat, far \in Nat, part \in 0..(B - 1), more \in Nat :
        near = Near(x, back) /\ far = Far(x, back) /\ part = Partial(x, back) /\ more = Wanted(x, back, n)
      BY PlanTypes
<1>6. k \in Nat /\ e \in Nat /\ k <= e
      BY PlanTypes
<1>7. e = IF more <= near THEN 0 ELSE more - near
      BY <1>5 DEF Short
<1>8. k = IF far < e THEN far ELSE e
      BY <1>5 DEF Reuse
<1>9. CASE e = k
      BY <1>2, <1>3, <1>4, <1>6, <1>9
<1>10. CASE e # k
  <2>1. k = far /\ far < e /\ e = more - near /\ more > 0
        BY <1>5, <1>6, <1>7, <1>8, <1>10
  <2>2. PICK b \in Int, past \in Int, bo \in 0..(B - 1), eo \in 0..(B - 1), p \in Int, q \in Int :
          /\ b = x.beg.node /\ past = Past(x) /\ bo = x.beg.off /\ eo = x.end.off
          /\ p = Pos(x.beg) /\ q = Pos(x.end)
        BY <1>1, Ends, PastBounds
  <2>3. PICK bb \in Int, pb \in Int, mb \in Int, lb \in Int :
          bb = b * B /\ pb = past * B /\ mb = more * B /\ lb = l * B
        BY <1>3, <1>5, BAssumption
  <2>4. p = bb + bo
        BY <2>2, <2>3 DEF Pos
  <2>5. pb = q + IF eo # 0 THEN B - eo ELSE 0
        BY <1>1, <2>2, <2>3, PastBounds
  <2>6. mb - B + 1 <= n - part
    <3>1. more = IF n <= part THEN 0 ELSE Ceil(n - part)
          BY <1>5 DEF Wanted
    <3>2. (more - 1) * B + 1 <= n - part
      <4>1. part \in Nat /\ more > 0
            BY <1>5, <2>1, BAssumption
      <4> QED BY <3>1, <4>1, NeedBounds
    <3>3. (more - 1) * B = mb - B
          BY <1>5, <2>3, BAssumption
    <3> QED BY <2>3, <3>2, <3>3
  <2>7. q - p + n <= lb - B + 1
    <3>1. Minus(x.end, x.beg) = q - p
          BY <1>1, <2>2, SizeIs
    <3>2. MaxSize = lb - B + 1
          BY <1>3, <2>3, BAssumption DEF MaxSize
    <3> QED BY <3>1, <3>2
  <2>8. near + far = h - past + b - s
    <3>1. CASE back
      <4>1. near = s + c - past /\ far = b - s
            BY <1>2, <1>5, <2>2, <3>1 DEF Near, Far
      <4> QED BY <1>2, <2>2, <4>1
    <3>2. CASE ~ back
      <4>1. far = s + c - past /\ near = b - s
            BY <1>2, <1>5, <2>2, <3>2 DEF Near, Far
      <4> QED BY <1>2, <2>2, <4>1
    <3> QED BY <3>1, <3>2
  <2>9. c + (e - k) = more + past - b
    <3>1. e - k = more - (near + far)
          BY <1>5, <2>1
    <3> QED BY <1>2, <1>5, <2>2, <2>8, <3>1
  <2>10. part = IF back THEN IF eo # 0 THEN B - eo ELSE 0 ELSE bo
    <3>1. CASE back
          BY <1>5, <2>2, <3>1 DEF Partial
    <3>2. CASE ~ back
          BY <1>5, <2>2, <3>2 DEF Partial
    <3> QED BY <3>1, <3>2
  <2>11. mb + pb - bb < lb + B
    <3>1. PICK gap \in 0..(B - 1) : gap = IF eo # 0 THEN B - eo ELSE 0
          BY BAssumption
    <3>2. part = IF back THEN gap ELSE bo
          BY <2>10, <3>1
    <3>3. pb = q + gap
          BY <2>5, <3>1
    <3>4. mb + pb - bb <= (n - part + B - 1) + (q + gap) - (p - bo)
          BY <1>5, <2>2, <2>3, <2>4, <2>6, <3>1, <3>3, BAssumption
    <3>5. gap - part + bo < B
      <4>1. CASE back
            BY <2>2, <3>1, <3>2, <4>1, BAssumption
      <4>2. CASE ~ back
            BY <2>2, <3>1, <3>2, <4>2, BAssumption
      <4> QED BY <4>1, <4>2
    <3>6. PICK w \in Int : w = gap - part + bo
          BY <1>5, <3>1
    <3>7. mb + pb - bb <= (n + q - p) + w + B - 1
          BY <1>5, <2>2, <2>3, <3>1, <3>4, <3>6, BAssumption
    <3> QED BY <2>2, <2>3, <2>7, <3>5, <3>6, <3>7, BAssumption
  <2>12. ~ (l + 1 <= more + past - b)
    <3>1. ASSUME l + 1 <= more + past - b PROVE FALSE
      <4>1. PICK t \in Int : t = more + past - b
            BY <1>5, <2>2
      <4>2. (l + 1) * B <= t * B /\ (l + 1) * B \in Int /\ t * B \in Int
            BY <1>3, <3>1, <4>1, Scaled
      <4>3. (l + 1) * B = lb + B
            BY <1>3, <2>3, BAssumption
      <4>4. t * B = mb + pb - bb
            BY <1>5, <2>2, <2>3, <4>1, BAssumption
      <4> QED BY <2>3, <2>11, <4>2, <4>3, <4>4, BAssumption
    <3> QED BY <3>1
  <2> QED BY <1>2, <1>3, <1>5, <1>6, <2>2, <2>9, <2>12
<1> QED BY <1>9, <1>10

-----------------------------------------------------------------------------
(* A map rearranged: the slots of the span, in a circle, begin elsewhere.   *)

Wrap(c, k) == IF k < c THEN k ELSE k - c

Rotated(x, y, cut) ==
  /\ y \in Deques /\ y.map \in [0..y.cap -> Null]
  /\ y.cnt = x.cnt /\ y.span + y.cnt <= y.cap
  /\ cut \in 0..x.cnt
  /\ \A j \in 0..y.cap :
       y.map[j] = IF y.span <= j /\ j < y.span + y.cnt
                  THEN x.map[x.span + Wrap(x.cnt, j - y.span + cut)] ELSE NoBuf

\* the slots of a span that are turned are those of the span, each once
LEMMA WrapRight ==
  ASSUME NEW c \in Nat, NEW cut \in 0..c, NEW i \in 0..(c - 1), NEW j \in 0..(c - 1)
  PROVE  /\ Wrap(c, i + cut) \in 0..(c - 1)
         /\ Wrap(c, i + cut) = Wrap(c, j + cut) => i = j
<1>1. Wrap(c, i + cut) \in 0..(c - 1)
  <2>1. CASE i + cut < c
        BY <2>1 DEF Wrap
  <2>2. CASE ~ (i + cut < c)
        BY <2>2 DEF Wrap
  <2> QED BY <2>1, <2>2
<1>2. Wrap(c, i + cut) = Wrap(c, j + cut) => i = j
  <2>1. Wrap(c, i + cut) = IF i + cut < c THEN i + cut ELSE i + cut - c
        BY DEF Wrap
  <2>2. Wrap(c, j + cut) = IF j + cut < c THEN j + cut ELSE j + cut - c
        BY DEF Wrap
  <2> QED BY <2>1, <2>2
<1> QED BY <1>1, <1>2

LEMMA WrapOnto ==
  ASSUME NEW c \in Nat, NEW cut \in 0..c, NEW i \in 0..(c - 1)
  PROVE  \E k \in 0..(c - 1) : Wrap(c, k + cut) = i
<1>1. CASE i >= cut
  <2>1. i - cut \in 0..(c - 1) /\ Wrap(c, (i - cut) + cut) = i
        BY <1>1 DEF Wrap
  <2> QED BY <2>1
<1>2. CASE ~ (i >= cut)
  <2>1. i - cut + c \in 0..(c - 1) /\ Wrap(c, (i - cut + c) + cut) = i
        BY <1>2 DEF Wrap
  <2> QED BY <2>1
<1> QED BY <1>1, <1>2

LEMMA RotatedBufs ==
  ASSUME NEW x, NEW y, NEW cut, Valid(x), Rotated(x, y, cut)
  PROVE  /\ \A j \in 0..y.cap : y.map[j] # NoBuf <=> y.span <= j /\ j < y.span + y.cnt
         /\ \A i, j \in 0..y.cap : y.map[i] = y.map[j] /\ y.map[i] # NoBuf => i = j
         /\ Bufs(y) = Bufs(x)
<1>1. Laid(x, x.span, x.span + x.cnt)
      BY DEF Valid
<1>2. PICK s \in Nat, c \in Nat, e \in Int : s = x.span /\ c = x.cnt /\ e = x.cap /\ s + c <= e
      BY <1>1, LimitAssumption DEF Laid, Deques
<1>3. PICK a \in Nat, l \in Int : a = y.span /\ l = y.cap /\ y.cnt = c /\ a + c <= l
      BY <1>2, LimitAssumption DEF Rotated, Deques
<1>4. cut \in 0..c
      BY <1>2 DEF Rotated
<1>5. \A i \in 0..e : x.map[i] # NoBuf <=> s <= i /\ i < s + c
      BY <1>2, SpanOwned
<1>6. \A i, j \in 0..e : x.map[i] = x.map[j] /\ x.map[i] # NoBuf => i = j
      BY <1>1, <1>2 DEF Laid
<1>7. \A j \in 0..l : y.map[j] = IF a <= j /\ j < a + c THEN x.map[s + Wrap(c, j - a + cut)] ELSE NoBuf
      BY <1>2, <1>3 DEF Rotated
<1>8. ASSUME NEW j \in 0..l, a <= j, j < a + c
      PROVE  /\ s + Wrap(c, j - a + cut) \in 0..e /\ s + Wrap(c, j - a + cut) \in s..(s + c - 1)
             /\ y.map[j] = x.map[s + Wrap(c, j - a + cut)] /\ y.map[j] # NoBuf
  <2>1. PICK i \in 0..(c - 1) : i = j - a
        BY <1>8
  <2>2. Wrap(c, i + cut) \in 0..(c - 1)
        BY <1>4, WrapRight
  <2>3. PICK w \in 0..(c - 1) : w = Wrap(c, j - a + cut)
        BY <2>1, <2>2
  <2>4. s + w \in 0..e /\ s + w \in s..(s + c - 1)
        BY <1>2
  <2>5. y.map[j] = x.map[s + w] /\ x.map[s + w] # NoBuf
        BY <1>5, <1>7, <1>8, <2>3, <2>4
  <2> QED BY <2>3, <2>4, <2>5
<1>9. \A j \in 0..l : y.map[j] # NoBuf <=> a <= j /\ j < a + c
      BY <1>7, <1>8
<1>10. ASSUME NEW i \in 0..l, NEW j \in 0..l, y.map[i] = y.map[j], y.map[i] # NoBuf PROVE i = j
  <2>1. a <= i /\ i < a + c /\ a <= j /\ j < a + c
        BY <1>9, <1>10
  <2>2. PICK f \in 0..(c - 1), g \in 0..(c - 1) : f = i - a /\ g = j - a
        BY <2>1
  <2>3. PICK u \in Int, v \in Int : u = Wrap(c, f + cut) /\ v = Wrap(c, g + cut)
    <3>1. Wrap(c, f + cut) \in 0..(c - 1) /\ Wrap(c, g + cut) \in 0..(c - 1)
          BY <1>4, WrapRight
    <3> QED BY <3>1
  <2>4. /\ s + u \in 0..e /\ y.map[i] = x.map[s + u]
        /\ s + v \in 0..e /\ y.map[j] = x.map[s + v]
        BY <1>8, <2>1, <2>2, <2>3
  <2>5. u = v
    <3>1. s + u = s + v
          BY <1>6, <1>10, <2>4
    <3> QED BY <3>1
  <2>6. f = g
        BY <1>4, <2>3, <2>5, WrapRight
  <2> QED BY <2>2, <2>6
<1>11. ASSUME NEW i \in 0..e, x.map[i] # NoBuf PROVE \E j \in 0..l : y.map[j] = x.map[i]
  <2>1. PICK f \in 0..(c - 1) : f = i - s
        BY <1>5, <1>11
  <2>2. PICK k \in 0..(c - 1) : Wrap(c, k + cut) = f
    <3>1. \E k \in 0..(c - 1) : Wrap(c, k + cut) = f
          BY <1>4, WrapOnto
    <3> QED BY <3>1
  <2>3. PICK j \in 0..l : j = a + k
        BY <1>3
  <2>4. y.map[j] = x.map[s + Wrap(c, j - a + cut)]
        BY <1>8, <2>3
  <2>5. j - a + cut = k + cut /\ s + f = i
        BY <1>2, <1>3, <1>4, <2>1, <2>3
  <2> QED BY <2>2, <2>4, <2>5
<1>12. Bufs(y) = Bufs(x)
  <2>1. ASSUME NEW j \in 0..l, y.map[j] # NoBuf PROVE \E i \in 0..e : x.map[i] = y.map[j]
        BY <1>8, <1>9, <2>1
  <2> QED BY <1>2, <1>3, <1>11, <2>1 DEF Bufs
<1> QED BY <1>3, <1>9, <1>10, <1>12

\* cells keep their order when their slots move together
LEMMA RowMoved ==
  ASSUME NEW m, NEW w, NEW t \in Int, NEW p \in Int, NEW n \in Int, NEW a \in Int, NEW z \in Int,
         a * B <= p, p + n <= z * B, \A i \in a..(z - 1) : w[i + t] = m[i]
  PROVE  Row(w, p + t * B, n) = Row(m, p, n)
<1>1. PICK u \in Int, v \in Int, e \in Int : u = a * B /\ v = z * B /\ e = t * B
      BY BAssumption
<1>2. ASSUME NEW i \in 1..n PROVE At(w, p + e + i - 1) = At(m, p + i - 1)
  <2>1. PICK k \in Int : k = p + i - 1
        OBVIOUS
  <2>2. a * B <= k /\ k < z * B
        BY <1>1, <2>1
  <2>3. PICK j \in Int : j = k \div B /\ a <= j /\ j < z
        BY <2>2, SlotBounds, DivMod
  <2>4. (k + t * B) \div B = j + t /\ (k + t * B) % B = k % B
        BY <2>3, Moved
  <2>5. k + t * B = p + e + i - 1
        BY <1>1, <2>1
  <2>6. w[j + t] = m[j]
        BY <2>3
  <2> QED BY <2>1, <2>3, <2>4, <2>5, <2>6 DEF At
<1> QED BY <1>1, <1>2 DEF Row

\* the iterators go with the slots of the elements: those that the plan leaves
\* where they are in the circle
GoneBy(x, y, back, k) == IF back THEN y.span - x.span - k ELSE y.span + k - x.span
Turned(x, y, back, k) ==
  /\ Rotated(x, y, IF back THEN k ELSE x.cnt - k)
  /\ y.beg.node = x.beg.node + GoneBy(x, y, back, k) /\ y.beg.off = x.beg.off
  /\ y.end.node = x.end.node + GoneBy(x, y, back, k) /\ y.end.off = x.end.off

\* the slots of the span that are not reused
FirstKept(x, back, k) == IF back THEN x.span + k ELSE x.span
LastKept(x, back, k) == IF back THEN x.span + x.cnt ELSE x.span + x.cnt - k
KeptGone(x, y, back, k) ==
  \A i \in FirstKept(x, back, k)..(LastKept(x, back, k) - 1) : y.map[i + GoneBy(x, y, back, k)] = x.map[i]

LEMMA TurnedSlots ==
  ASSUME NEW x, NEW y, NEW back \in BOOLEAN, NEW k \in Nat, Valid(x), Turned(x, y, back, k)
  PROVE  /\ FirstKept(x, back, k) \in Int /\ LastKept(x, back, k) \in Int /\ GoneBy(x, y, back, k) \in Int
         /\ y.span <= FirstKept(x, back, k) + GoneBy(x, y, back, k)
         /\ LastKept(x, back, k) + GoneBy(x, y, back, k) <= y.span + y.cnt
         /\ KeptGone(x, y, back, k)
<1>1. Laid(x, x.span, x.span + x.cnt)
      BY DEF Valid
<1>2. PICK s \in Nat, c \in Nat : s = x.span /\ c = x.cnt
      BY <1>1, LimitAssumption DEF Laid, Deques
<1>3. PICK cut : cut = IF back THEN k ELSE x.cnt - k
      OBVIOUS
<1>4. Rotated(x, y, cut)
      BY <1>3 DEF Turned
<1>5. PICK a \in Nat, l \in Int : a = y.span /\ l = y.cap /\ y.cnt = c /\ a + c <= l
      BY <1>2, <1>4, LimitAssumption DEF Rotated, Deques
<1>6. cut \in 0..c
      BY <1>2, <1>4 DEF Rotated
<1>7. \A j \in 0..l : y.map[j] = IF a <= j /\ j < a + c THEN x.map[s + Wrap(c, j - a + cut)] ELSE NoBuf
      BY <1>2, <1>4, <1>5 DEF Rotated
<1>8. CASE back
  <2>1. cut = k
        BY <1>3, <1>8
  <2>2. PICK lo \in Int, hi \in Int, t \in Int : lo = s + k /\ hi = s + c /\ t = a - s - k
        OBVIOUS
  <2>3. GoneBy(x, y, back, k) = t
        BY <1>2, <1>5, <1>8, <2>2 DEF GoneBy
  <2>4. ASSUME NEW i \in lo..(hi - 1) PROVE y.map[i + t] = x.map[i]
    <3>1. PICK j \in Int : j = i + t
          BY <2>2
    <3>2. j \in 0..l /\ a <= j /\ j < a + c /\ j - a + cut = i - s /\ i - s < c
          BY <1>5, <1>6, <2>1, <2>2, <3>1
    <3>3. y.map[j] = x.map[s + Wrap(c, j - a + cut)]
          BY <1>7, <3>2
    <3>4. s + Wrap(c, i - s) = i
          BY <2>2, <3>2 DEF Wrap
    <3> QED BY <3>1, <3>2, <3>3, <3>4
  <2>5. a <= lo + t /\ hi + t <= a + c
        BY <2>2
  <2>6. lo = FirstKept(x, back, k) /\ hi = LastKept(x, back, k)
        BY <1>2, <1>8, <2>2 DEF FirstKept, LastKept
  <2> QED BY <1>5, <2>3, <2>4, <2>5, <2>6 DEF KeptGone
<1>9. CASE ~ back
  <2>1. cut = c - k /\ k <= c
    <3>1. cut = c - k
          BY <1>2, <1>3, <1>9
    <3> QED BY <1>6, <3>1
  <2>2. PICK lo \in Int, hi \in Int, t \in Int : lo = s /\ hi = s + c - k /\ t = a + k - s
        OBVIOUS
  <2>3. GoneBy(x, y, back, k) = t
        BY <1>2, <1>5, <1>9, <2>2 DEF GoneBy
  <2>4. ASSUME NEW i \in lo..(hi - 1) PROVE y.map[i + t] = x.map[i]
    <3>1. PICK j \in Int : j = i + t
          BY <2>2
    <3>2. j \in 0..l /\ a <= j /\ j < a + c /\ j - a + cut = i - s + c /\ i - s >= 0
          BY <1>5, <1>6, <2>1, <2>2, <3>1
    <3>3. y.map[j] = x.map[s + Wrap(c, j - a + cut)]
          BY <1>7, <3>2
    <3>4. s + Wrap(c, i - s + c) = i
          BY <2>2, <3>2 DEF Wrap
    <3> QED BY <3>1, <3>2, <3>3, <3>4
  <2>5. a <= lo + t /\ hi + t <= a + c
        BY <2>2
  <2>6. lo = FirstKept(x, back, k) /\ hi = LastKept(x, back, k)
        BY <1>2, <1>9, <2>2 DEF FirstKept, LastKept
  <2> QED BY <1>5, <2>3, <2>4, <2>5, <2>6 DEF KeptGone
<1> QED BY <1>8, <1>9

\* the elements are in the cells they were in, and the room is next to them
LEMMA TurnedEnds ==
  ASSUME NEW x, NEW y, NEW back \in BOOLEAN, NEW n \in Nat \ {0}, Valid(x),
         NEW k, k = Reuse(x, back, n), NEW e, e = Short(x, back, n), Turned(x, y, back, k),
         NEW s, Holds(x, s)
  PROVE  /\ Laid(y, y.span, y.span + y.cnt) /\ Holds(y, s)
         /\ back => Pos(y.end) + n <= (y.span + y.cnt + (e - k)) * B
         /\ ~ back => Pos(y.beg) - n >= (y.span - (e - k)) * B
<1>1. k \in Nat /\ e \in Nat
  <2>1. Reuse(x, back, n) \in Nat /\ Short(x, back, n) \in Nat
        BY PlanTypes
  <2> QED BY <2>1
<1>2. PICK lo \in Int, hi \in Int, t \in Int :
        /\ lo = FirstKept(x, back, k) /\ hi = LastKept(x, back, k)
        /\ t = GoneBy(x, y, back, k)
        /\ y.span <= lo + t /\ hi + t <= y.span + y.cnt
        /\ \A i \in lo..(hi - 1) : y.map[i + t] = x.map[i]
  <2>1. /\ FirstKept(x, back, k) \in Int /\ LastKept(x, back, k) \in Int /\ GoneBy(x, y, back, k) \in Int
        /\ y.span <= FirstKept(x, back, k) + GoneBy(x, y, back, k)
        /\ LastKept(x, back, k) + GoneBy(x, y, back, k) <= y.span + y.cnt
        /\ KeptGone(x, y, back, k)
        BY <1>1, TurnedSlots
  <2>2. PICK lo \in Int, hi \in Int, t \in Int :
          lo = FirstKept(x, back, k) /\ hi = LastKept(x, back, k) /\ t = GoneBy(x, y, back, k)
        BY <2>1
  <2>3. \A i \in lo..(hi - 1) : y.map[i + t] = x.map[i]
        BY <2>1, <2>2 DEF KeptGone
  <2> QED BY <2>1, <2>2, <2>3
<1>3. Laid(x, x.span, x.span + x.cnt)
      BY DEF Valid
<1>4. PICK p \in Int, q \in Int, u \in Int, v \in Int :
        /\ p = Pos(x.beg) /\ q = Pos(x.end) /\ u = x.span * B /\ v = (x.span + x.cnt) * B
        /\ u <= p /\ p <= q /\ q <= v
      BY <1>3, Walls
<1>5. lo * B <= p /\ q <= hi * B
  <2>1. CASE back
    <3>1. (x.span + k) * B <= p
          BY <1>4, <2>1, PlanRight
    <3> QED BY <1>2, <1>4, <2>1, <3>1 DEF FirstKept, LastKept
  <2>2. CASE ~ back
    <3>1. q <= (x.span + x.cnt - k) * B
          BY <1>4, <2>2, PlanRight
    <3> QED BY <1>2, <1>4, <2>2, <3>1 DEF FirstKept, LastKept
  <2> QED BY <2>1, <2>2
<1>6. PICK cut : Rotated(x, y, cut)
      BY DEF Turned
<1>7. /\ y \in Deques /\ y.map \in [0..y.cap -> Null]
      /\ y.cnt = x.cnt /\ y.span + y.cnt <= y.cap
      BY <1>6 DEF Rotated
<1>8. PICK a \in Nat, c \in Nat, l \in Int, sx \in Nat :
        a = y.span /\ c = y.cnt /\ l = y.cap /\ sx = x.span /\ c = x.cnt
      BY <1>3, <1>7, LimitAssumption DEF Laid, Deques
<1>9. /\ \A j \in 0..y.cap : y.map[j] # NoBuf <=> y.span <= j /\ j < y.span + y.cnt
      /\ \A i, j \in 0..y.cap : y.map[i] = y.map[j] /\ y.map[i] # NoBuf => i = j
      BY <1>6, RotatedBufs
<1>10. PICK tb \in Int, lb \in Int, hb \in Int : tb = t * B /\ lb = lo * B /\ hb = hi * B
      BY BAssumption
<1>11. Pos(y.beg) = p + tb /\ Pos(y.end) = q + tb
  <2>1. PICK b \in Int, f \in Int, bo \in Int, fo \in Int :
          b = x.beg.node /\ f = x.end.node /\ bo = x.beg.off /\ fo = x.end.off
        BY <1>3, Ends
  <2>2. y.beg.node = b + t /\ y.end.node = f + t /\ y.beg.off = bo /\ y.end.off = fo
        BY <1>2, <2>1 DEF Turned
  <2>3. (b + t) * B + bo = (b * B + bo) + tb /\ (f + t) * B + fo = (f * B + fo) + tb
        BY <1>10, <2>1, BAssumption
  <2> QED BY <1>4, <2>1, <2>2, <2>3 DEF Pos
<1>12. a * B <= p + tb /\ q + tb <= (a + c) * B
  <2>1. a <= lo + t /\ hi + t <= a + c
        BY <1>2, <1>8
  <2>2. /\ a * B <= (lo + t) * B /\ a * B \in Int /\ (lo + t) * B = lb + tb
        /\ (hi + t) * B <= (a + c) * B /\ (a + c) * B \in Int /\ (hi + t) * B = hb + tb
    <3>1. PICK f \in Int, g \in Int, h \in Int : f = lo + t /\ g = hi + t /\ h = a + c
          OBVIOUS
    <3>2. a * B <= f * B /\ a * B \in Int /\ g * B <= h * B /\ h * B \in Int
          BY <2>1, <3>1, Scaled
    <3>3. (lo + t) * B = lb + tb /\ (hi + t) * B = hb + tb
          BY <1>10, BAssumption
    <3> QED BY <3>1, <3>2, <3>3
  <2> QED BY <1>4, <1>5, <1>10, <2>2
<1>13. Laid(y, a, a + c)
  <2>1. \A j \in a..(a + c - 1) : y.map[j] # NoBuf
    <3>1. \A j \in a..(a + c - 1) : j \in 0..l /\ a <= j /\ j < a + c
          BY <1>7, <1>8
    <3> QED BY <1>8, <1>9, <3>1
  <2>2. Pos(y.beg) <= Pos(y.end) /\ a <= a + c /\ a + c <= y.cap
    <3>1. p + tb <= q + tb
          BY <1>4, <1>10
    <3>2. a + c <= y.cap
          BY <1>7, <1>8
    <3> QED BY <1>8, <1>11, <3>1, <3>2
  <2>3. PICK h \in Int : h = a + c
        OBVIOUS
  <2>4. a * B <= Pos(y.beg) /\ Pos(y.end) <= h * B
        BY <1>11, <1>12, <2>3
  <2>5. Laid(y, a, h)
        BY <1>7, <1>9, <2>1, <2>2, <2>3, <2>4 DEF Laid
  <2> QED BY <2>3, <2>5
<1>14. Holds(y, s)
  <2>1. s = Row(x.map, p, q - p)
        BY <1>4 DEF Holds
  <2>2. PICK m \in Int : m = q - p
        OBVIOUS
  <2>3. p + m <= hi * B
        BY <1>5, <2>2
  <2>4. Row(y.map, p + t * B, m) = Row(x.map, p, m)
        BY <1>2, <1>5, <2>3, RowMoved
  <2>5. (q + tb) - (p + tb) = m
        BY <1>10, <2>2
  <2> QED BY <1>10, <1>11, <2>1, <2>2, <2>4, <2>5 DEF Holds
<1>15. ASSUME back PROVE Pos(y.end) + n <= (y.span + y.cnt + (e - k)) * B
  <2>1. q + n <= (sx + c + e) * B
        BY <1>4, <1>8, <1>15, PlanRight
  <2>2. t = a - sx - k
        BY <1>2, <1>8, <1>15 DEF GoneBy
  <2>3. a + c + (e - k) = (sx + c + e) + t
        BY <1>1, <1>8, <2>2
  <2>4. PICK f \in Int : f = sx + c + e
        BY <1>1
  <2>5. (f + t) * B = f * B + tb /\ f * B \in Int
        BY <1>10, BAssumption
  <2> QED BY <1>4, <1>8, <1>10, <1>11, <2>1, <2>3, <2>4, <2>5
<1>16. ASSUME ~ back PROVE Pos(y.beg) - n >= (y.span - (e - k)) * B
  <2>1. p - n >= (sx - e) * B
        BY <1>4, <1>8, <1>16, PlanRight
  <2>2. t = a + k - sx
        BY <1>2, <1>8, <1>16 DEF GoneBy
  <2>3. a - (e - k) = (sx - e) + t
        BY <1>1, <1>8, <2>2
  <2>4. PICK f \in Int : f = sx - e
        BY <1>1
  <2>5. (f + t) * B = f * B + tb /\ f * B \in Int
        BY <1>10, BAssumption
  <2> QED BY <1>4, <1>8, <1>10, <1>11, <2>1, <2>3, <2>4, <2>5
<1> QED BY <1>8, <1>13, <1>14, <1>15, <1>16

\* a remainder is one turn less
LEMMA ModWrap ==
  ASSUME NEW c \in Nat \ {0}, NEW k \in 0..(2 * c - 1)
  PROVE  k % c = Wrap(c, k)
<1>1. PICK q \in Int, t \in 0..(c - 1) : q = k \div c /\ t = k % c /\ k = q * c + t
      OBVIOUS
<1>2. ~ (q < 0)
  <2>1. ASSUME q + 1 <= 0 PROVE FALSE
    <3>1. (0 - (q + 1)) * c >= 0
          BY <2>1
    <3>2. q * c <= 0 - c
          BY <3>1
    <3> QED BY <1>1, <3>2
  <2> QED BY <2>1
<1>3. ~ (q >= 2)
  <2>1. ASSUME q >= 2 PROVE FALSE
    <3>1. (q - 2) * c >= 0
          BY <2>1
    <3>2. q * c >= 2 * c
          BY <3>1
    <3> QED BY <1>1, <3>2
  <2> QED BY <2>1
<1>4. CASE q = 0
  <2>1. k = t /\ k < c
        BY <1>1, <1>4
  <2> QED BY <1>1, <2>1 DEF Wrap
<1>5. CASE q = 1
  <2>1. k = c + t /\ ~ (k < c)
        BY <1>1, <1>5
  <2>2. t = k - c
        BY <2>1
  <2> QED BY <1>1, <2>1, <2>2 DEF Wrap
<1>6. q = 0 \/ q = 1
      BY <1>2, <1>3
<1> QED BY <1>4, <1>5, <1>6

LEMMA Halved ==
  ASSUME NEW n \in Nat
  PROVE  n \div 2 \in Nat /\ 2 * (n \div 2) <= n /\ n \div 2 <= n
OBVIOUS

\* where a larger map has its span
LEMMA NewFirstIn ==
  ASSUME NEW back \in BOOLEAN, NEW c \in Nat, NEW n \in Nat, NEW l \in Nat, c + n <= l, NEW f,
         f = (l - c - n) \div 2 + IF back THEN 0 ELSE n
  PROVE  f \in Nat /\ f + c <= l /\ (back => f + c + n <= l) /\ (~ back => f - n >= 0)
<1>1. PICK h \in Nat : h = (l - c - n) \div 2 /\ h <= l - c - n
  <2>1. PICK g \in Nat : g = l - c - n
        OBVIOUS
  <2> QED BY <2>1, Halved
<1>2. CASE back
      BY <1>1, <1>2
<1>3. CASE ~ back
      BY <1>1, <1>3
<1> QED BY <1>2, <1>3

LEMMA NodeMoved ==
  ASSUME NEW it \in Spots, NEW t \in Int
  PROVE  LET e == [it EXCEPT !.node = @ + t]
         IN  e \in Spots /\ e.node = it.node + t /\ e.off = it.off
BY DEF Spots

LEMMA ReplaceTurned ==
  ASSUME NEW x, NEW back \in BOOLEAN, Valid(x), NEW p, NEW k \in Nat, NEW n \in Nat, NEW l \in Nat,
         p.reuse = k, p.new = n, k <= x.cnt, x.cnt + n <= l, l <= Limit, NEW y, y = Replace(x, back, p, l)
  PROVE  /\ Turned(x, y, back, k) /\ y.id # x.id /\ y.cap = l
         /\ back => y.span + y.cnt + n <= l
         /\ ~ back => y.span - n >= 0
<1>1. Laid(x, x.span, x.span + x.cnt)
      BY DEF Valid
<1>2. PICK s \in Nat, c \in Nat, e \in Int : s = x.span /\ c = x.cnt /\ e = x.cap /\ s + c <= e
      BY <1>1, LimitAssumption DEF Laid, Deques
<1>3. PICK f : f = (l - c - n) \div 2 + IF back THEN 0 ELSE n
      OBVIOUS
<1>4. f \in Nat /\ f + c <= l /\ (back => f + c + n <= l) /\ (~ back => f - n >= 0)
      BY <1>2, <1>3, NewFirstIn
<1>5. PICK cut \in 0..c : cut = IF back THEN k ELSE c - k
  <2>1. CASE back
        BY <1>2, <2>1
  <2>2. CASE ~ back
        BY <1>2, <2>2
  <2> QED BY <2>1, <2>2
<1>6. PICK t \in Int : t = f - s + IF back THEN -k ELSE k
  <2>1. CASE back
        BY <1>4, <2>1
  <2>2. CASE ~ back
        BY <1>4, <2>2
  <2> QED BY <2>1, <2>2
<1>7. PICK m : m = [i \in 0..l |-> IF f <= i /\ i < f + c
                                   THEN x.map[s + ((i - f + cut) % c)] ELSE NoBuf]
      OBVIOUS
<1>8. y = [map |-> m, id |-> 3 - IF x.id = 0 THEN 2 ELSE x.id, cap |-> l, span |-> f, cnt |-> c,
           beg |-> [x.beg EXCEPT !.node = @ + t], end |-> [x.end EXCEPT !.node = @ + t]]
      BY <1>2, <1>3, <1>5, <1>6, <1>7 DEF Replace
<1>9. \A j \in 0..l : m[j] = IF f <= j /\ j < f + c THEN x.map[s + Wrap(c, j - f + cut)] ELSE NoBuf
  <2>1. ASSUME NEW j \in 0..l, f <= j, j < f + c PROVE (j - f + cut) % c = Wrap(c, j - f + cut)
    <3>1. c \in Nat \ {0}
          BY <1>4, <2>1
    <3>2. PICK i \in Int : i = j - f + cut
          BY <1>4, <1>5
    <3>3. i \in 0..(2 * c - 1)
          BY <1>4, <1>5, <2>1, <3>2
    <3> QED BY <3>1, <3>2, <3>3, ModWrap
  <2> QED BY <1>7, <2>1
<1>10. m \in [0..l -> Null]
  <2>1. ASSUME NEW j \in 0..l PROVE m[j] \in Null
    <3>1. CASE f <= j /\ j < f + c
      <4>1. PICK i \in 0..(c - 1) : i = j - f
            BY <1>4, <3>1
      <4>2. Wrap(c, i + cut) \in 0..(c - 1)
            BY WrapRight
      <4>3. s + Wrap(c, j - f + cut) \in 0..e
            BY <1>2, <4>1, <4>2
      <4>4. x.map \in [0..e -> Null]
            BY <1>1, <1>2 DEF Laid
      <4> QED BY <1>9, <3>1, <4>3, <4>4
    <3>2. CASE ~ (f <= j /\ j < f + c)
          BY <1>9, <3>2 DEF Null
    <3> QED BY <3>1, <3>2
  <2>2. m = [i \in 0..l |-> m[i]]
        BY <1>7
  <2> QED BY <2>1, <2>2
<1>11. x.beg \in Spots /\ x.end \in Spots /\ x.id \in 0..2
       BY <1>1, Ends DEF Laid, Deques
<1>12. PICK b, g : b = [x.beg EXCEPT !.node = @ + t] /\ g = [x.end EXCEPT !.node = @ + t]
       OBVIOUS
<1>13. /\ b \in Spots /\ b.node = x.beg.node + t /\ b.off = x.beg.off
       /\ g \in Spots /\ g.node = x.end.node + t /\ g.off = x.end.off
       BY <1>11, <1>12, NodeMoved
<1>14. PICK h : h = 3 - IF x.id = 0 THEN 2 ELSE x.id
       OBVIOUS
<1>15. h \in 0..2 /\ h # x.id
       BY <1>11, <1>14
<1>16. /\ y.map = m /\ y.id = h /\ y.cap = l /\ y.span = f /\ y.cnt = c /\ y.beg = b /\ y.end = g
       BY <1>8, <1>12, <1>14
<1>17. y \in Deques
  <2>1. m \in Maps /\ l \in 0..Limit
        BY <1>10, LimitAssumption DEF Maps
  <2>2. y = [map |-> m, id |-> h, cap |-> l, span |-> f, cnt |-> c, beg |-> b, end |-> g]
        BY <1>8, <1>12, <1>14
  <2> QED BY <1>4, <1>13, <1>15, <2>1, <2>2 DEF Deques
<1>18. Rotated(x, y, cut)
       BY <1>2, <1>4, <1>5, <1>9, <1>10, <1>16, <1>17 DEF Rotated
<1>19. GoneBy(x, y, back, k) = t
  <2>1. CASE back
        BY <1>2, <1>4, <1>6, <1>16, <2>1 DEF GoneBy
  <2>2. CASE ~ back
        BY <1>2, <1>4, <1>6, <1>16, <2>2 DEF GoneBy
  <2> QED BY <2>1, <2>2
<1>20. Turned(x, y, back, k)
  <2>1. cut = IF back THEN k ELSE x.cnt - k
        BY <1>2, <1>5
  <2> QED BY <1>13, <1>16, <1>18, <1>19, <2>1 DEF Turned
<1> QED BY <1>4, <1>15, <1>16, <1>20

\* the span of x in a map of the same size, from another slot on
Slid(x, m, pos) ==
  /\ m \in [0..x.cap -> Null] /\ pos \in Nat /\ pos + x.cnt <= x.cap
  /\ \A j \in 0..x.cap : m[j] = IF pos <= j /\ j < pos + x.cnt THEN x.map[x.span + (j - pos)] ELSE NoBuf

\* of a valid deque: its numbers, its map, and the slots with a buffer
LEMMA ValidNumbers ==
  ASSUME NEW x, Valid(x)
  PROVE  \E s, c, e \in Nat :
           /\ s = x.span /\ c = x.cnt /\ e = x.cap /\ s + c <= e
           /\ x.map \in [0..e -> Null]
           /\ \A i \in 0..e : x.map[i] # NoBuf <=> s <= i /\ i < s + c
<1>1. Laid(x, x.span, x.span + x.cnt)
      BY DEF Valid
<1>2. PICK s \in Nat, c \in Nat, e \in Nat : s = x.span /\ c = x.cnt /\ e = x.cap /\ s + c <= e
      BY <1>1, LimitAssumption DEF Laid, Deques
<1>3. x.map \in [0..e -> Null]
      BY <1>1, <1>2 DEF Laid
<1>4. \A i \in 0..e : x.map[i] # NoBuf <=> s <= i /\ i < s + c
      BY <1>2, SpanOwned
<1> QED BY <1>2, <1>3, <1>4

LEMMA SlidStill ==
  ASSUME NEW x, Valid(x)
  PROVE  Slid(x, x.map, x.span)
<1>1. PICK s \in Nat, c \in Nat, e \in Nat :
        /\ s = x.span /\ c = x.cnt /\ e = x.cap /\ s + c <= e
        /\ x.map \in [0..e -> Null]
        /\ \A i \in 0..e : x.map[i] # NoBuf <=> s <= i /\ i < s + c
      BY ValidNumbers
<1>2. ASSUME NEW j \in 0..e, s <= j, j < s + c PROVE s + (j - s) = j
      OBVIOUS
<1> QED BY <1>1, <1>2 DEF Slid

LEMMA SlidMove ==
  ASSUME NEW x, Valid(x), NEW pos \in Nat, pos + x.cnt <= x.cap
  PROVE  Slid(x, MoveNodes(x.map, x.span, pos, x.cnt), pos)
<1>1. PICK s \in Nat, c \in Nat, e \in Nat :
        /\ s = x.span /\ c = x.cnt /\ e = x.cap /\ s + c <= e
        /\ x.map \in [0..e -> Null]
        /\ \A i \in 0..e : x.map[i] # NoBuf <=> s <= i /\ i < s + c
      BY ValidNumbers
<1>2. PICK m : m = MoveNodes(x.map, s, pos, c)
      OBVIOUS
<1>3. m = [i \in 0..e |-> IF pos <= i /\ i < pos + c THEN x.map[s + (i - pos)]
                          ELSE IF s <= i /\ i < s + c THEN NoBuf ELSE x.map[i]]
      BY <1>1, <1>2 DEF MoveNodes
<1>4. ASSUME NEW j \in 0..e
      PROVE  m[j] = (IF pos <= j /\ j < pos + c THEN x.map[s + (j - pos)] ELSE NoBuf) /\ m[j] \in Null
  <2>1. CASE pos <= j /\ j < pos + c
    <3>1. s + (j - pos) \in 0..e
          BY <1>1, <2>1
    <3> QED BY <1>1, <1>3, <2>1, <3>1
  <2>2. CASE ~ (pos <= j /\ j < pos + c)
    <3>1. m[j] = NoBuf
          BY <1>1, <1>3, <2>2
    <3> QED BY <2>2, <3>1 DEF Null
  <2> QED BY <2>1, <2>2
<1>5. m \in [0..e -> Null]
  <2>1. m = [j \in 0..e |-> m[j]]
        BY <1>3
  <2> QED BY <1>4, <2>1
<1> QED BY <1>1, <1>2, <1>4, <1>5 DEF Slid

LEMMA SlidBack ==
  ASSUME NEW x, Valid(x), NEW m, NEW pos, Slid(x, m, pos)
  PROVE  MoveNodes(m, pos, x.span, x.cnt) = x.map
<1>1. PICK s \in Nat, c \in Nat, e \in Nat :
        /\ s = x.span /\ c = x.cnt /\ e = x.cap /\ s + c <= e
        /\ x.map \in [0..e -> Null]
        /\ \A i \in 0..e : x.map[i] # NoBuf <=> s <= i /\ i < s + c
      BY ValidNumbers
<1>2. /\ m \in [0..e -> Null] /\ pos \in Nat /\ pos + c <= e
      /\ \A j \in 0..e : m[j] = IF pos <= j /\ j < pos + c THEN x.map[s + (j - pos)] ELSE NoBuf
      BY <1>1 DEF Slid
<1>3. PICK w : w = MoveNodes(m, pos, s, c)
      OBVIOUS
<1>4. w = [i \in 0..e |-> IF s <= i /\ i < s + c THEN m[pos + (i - s)]
                          ELSE IF pos <= i /\ i < pos + c THEN NoBuf ELSE m[i]]
      BY <1>2, <1>3 DEF MoveNodes
<1>5. ASSUME NEW j \in 0..e PROVE w[j] = x.map[j]
  <2>1. CASE s <= j /\ j < s + c
    <3>1. PICK i \in Int : i = pos + (j - s)
          BY <1>2
    <3>2. pos <= i /\ i < pos + c
          BY <1>2, <2>1, <3>1
    <3>3. s + (i - pos) = j
          BY <1>2, <3>1
    <3>4. i \in 0..e
          BY <1>2, <3>1, <3>2
    <3>5. w[j] = m[i]
          BY <1>4, <2>1, <3>1
    <3>6. m[i] = x.map[s + (i - pos)]
          BY <1>2, <3>2, <3>4
    <3> QED BY <3>3, <3>5, <3>6
  <2>2. CASE ~ (s <= j /\ j < s + c)
    <3>1. w[j] = NoBuf
          BY <1>2, <1>4, <2>2
    <3> QED BY <1>1, <2>2, <3>1
  <2> QED BY <2>1, <2>2
<1>6. w = x.map
      BY <1>1, <1>4, <1>5
<1> QED BY <1>1, <1>3, <1>6

\* a list of the slots a..a+k-1, and a list of as many slots z - a further
Runs(f, k, a) ==
  /\ DOMAIN f = 1..k
  /\ \A i \in 1..k : f[i] \in a..(a + k - 1)
  /\ \A j \in a..(a + k - 1) : \E i \in 1..k : f[i] = j
  /\ \A i, j \in 1..k : f[i] = f[j] => i = j
Beside(f, g, k, a, z) == \A i \in 1..k : g[i] = f[i] + (z - a)

\* the map w is m with what was in the slots a..a+k-1 now in z..z+k-1
Bodily(m, w, k, a, z, e) ==
  /\ w = [j \in 0..e |-> w[j]]
  /\ \A j \in z..(z + k - 1) : w[j] = m[j - (z - a)]
  /\ \A j \in a..(a + k - 1) : w[j] = NoBuf
  /\ \A j \in 0..e : j \notin a..(a + k - 1) /\ j \notin z..(z + k - 1) => w[j] = m[j]

LEMMA Carried ==
  ASSUME NEW m, NEW f, NEW g, NEW k \in Nat, NEW a \in Nat, NEW z \in Nat, NEW e \in Nat,
         DOMAIN m = 0..e, a + k <= e, z + k <= e, a + k <= z \/ z + k <= a,
         Runs(f, k, a), Runs(g, k, z), Beside(f, g, k, a, z)
  PROVE  Bodily(m, Carry(m, f, g), k, a, z, e)
<1>1. /\ DOMAIN f = 1..k /\ DOMAIN g = 1..k
      /\ \A i \in 1..k : f[i] \in a..(a + k - 1) /\ g[i] \in z..(z + k - 1)
      /\ \A i \in 1..k : g[i] = f[i] + (z - a)
      BY DEF Runs, Beside
<1>2. \A i, j \in 1..k : g[i] = g[j] => i = j
      BY DEF Runs
<1>3. PICK w : w = Carry(m, f, g)
      OBVIOUS
<1>4. w = [j \in 0..e |-> IF j \in Range(g) THEN m[f[CHOOSE i \in 1..k : g[i] = j]]
                          ELSE IF j \in Range(f) THEN NoBuf ELSE m[j]]
      BY <1>1, <1>3 DEF Carry
<1>5. Range(g) = z..(z + k - 1)
  <2>1. Range(g) = {g[i] : i \in 1..k}
        BY <1>1 DEF Range
  <2>2. \A j \in z..(z + k - 1) : \E i \in 1..k : g[i] = j
        BY DEF Runs
  <2> QED BY <1>1, <2>1, <2>2
<1>6. Range(f) = a..(a + k - 1)
  <2>1. Range(f) = {f[i] : i \in 1..k}
        BY <1>1 DEF Range
  <2>2. \A j \in a..(a + k - 1) : \E i \in 1..k : f[i] = j
        BY DEF Runs
  <2> QED BY <1>1, <2>1, <2>2
<1>7. ASSUME NEW j \in z..(z + k - 1) PROVE w[j] = m[j - (z - a)]
  <2>1. PICK i \in 1..k : g[i] = j
        BY DEF Runs
  <2>2. f[i] = j - (z - a)
    <3>1. PICK h \in Int : h = f[i]
          BY <1>1
    <3>2. g[i] = h + (z - a)
          BY <1>1, <3>1
    <3> QED BY <2>1, <3>1, <3>2
  <2>3. PICK l : l = CHOOSE h \in 1..k : g[h] = j
        OBVIOUS
  <2>4. l = i
        BY <1>2, <2>1, <2>3
  <2>5. j \in 0..e
        OBVIOUS
  <2>6. w[j] = m[f[l]]
        BY <1>4, <1>5, <2>3, <2>5
  <2> QED BY <2>2, <2>4, <2>6
<1>8. ASSUME NEW j \in 0..e, j \notin z..(z + k - 1)
      PROVE  w[j] = IF j \in a..(a + k - 1) THEN NoBuf ELSE m[j]
      BY <1>4, <1>5, <1>6, <1>8
<1>9. \A j \in a..(a + k - 1) : j \in 0..e /\ j \notin z..(z + k - 1)
      OBVIOUS
<1>10. w = [j \in 0..e |-> w[j]]
       BY <1>4
<1> QED BY <1>3, <1>7, <1>8, <1>9, <1>10 DEF Bodily

\* the slots the spares are taken from, and those they go to
Taken(back, pos, c, k) == IF back THEN pos ELSE pos + c - k
Given(back, pos, c, k) == IF back THEN pos + c ELSE pos - k

LEMMA FromTaken ==
  ASSUME NEW back \in BOOLEAN, NEW pos \in Nat, NEW c \in Nat, NEW k \in Nat, k <= c,
         NEW f, NEW g, f = From(back, pos, c, k), g = To(back, pos, c, k),
         NEW a, NEW z, a = Taken(back, pos, c, k), z = Given(back, pos, c, k)
  PROVE  Runs(f, k, a) /\ Runs(g, k, z) /\ Beside(f, g, k, a, z) /\ Beside(g, f, k, z, a)
<1>1. /\ DOMAIN f = 1..k /\ DOMAIN g = 1..k
      /\ \A i \in 1..k : f[i] = (IF back THEN pos + i - 1 ELSE pos + c - i)
      /\ \A i \in 1..k : g[i] = (IF back THEN pos + c + i - 1 ELSE pos - i)
      BY DEF From, To
<1>2. CASE back
  <2>1. a = pos /\ z = pos + c
        BY <1>2 DEF Taken, Given
  <2>2. /\ \A i \in 1..k : f[i] = pos + i - 1
        /\ \A i \in 1..k : g[i] = pos + c + i - 1
        BY <1>1, <1>2
  <2>3. ASSUME NEW j \in a..(a + k - 1) PROVE \E i \in 1..k : f[i] = j
    <3>1. j - pos + 1 \in 1..k /\ pos + (j - pos + 1) - 1 = j
          BY <2>1
    <3> QED BY <2>2, <3>1
  <2>4. ASSUME NEW j \in z..(z + k - 1) PROVE \E i \in 1..k : g[i] = j
    <3>1. j - pos - c + 1 \in 1..k /\ pos + c + (j - pos - c + 1) - 1 = j
          BY <2>1
    <3> QED BY <2>2, <3>1
  <2>5. Runs(f, k, a)
    <3>1. \A i \in 1..k : f[i] \in a..(a + k - 1)
          BY <2>1, <2>2
    <3>2. \A i, j \in 1..k : f[i] = f[j] => i = j
          BY <2>2
    <3> QED BY <1>1, <2>3, <3>1, <3>2 DEF Runs
  <2>6. Runs(g, k, z)
    <3>1. \A i \in 1..k : g[i] \in z..(z + k - 1)
          BY <2>1, <2>2
    <3>2. \A i, j \in 1..k : g[i] = g[j] => i = j
          BY <2>2
    <3> QED BY <1>1, <2>4, <3>1, <3>2 DEF Runs
  <2>7. Beside(f, g, k, a, z) /\ Beside(g, f, k, z, a)
        BY <2>1, <2>2 DEF Beside
  <2> QED BY <2>5, <2>6, <2>7
<1>3. CASE ~ back
  <2>1. a = pos + c - k /\ z = pos - k
        BY <1>3 DEF Taken, Given
  <2>2. /\ \A i \in 1..k : f[i] = pos + c - i
        /\ \A i \in 1..k : g[i] = pos - i
        BY <1>1, <1>3
  <2>3. ASSUME NEW j \in a..(a + k - 1) PROVE \E i \in 1..k : f[i] = j
    <3>1. pos + c - j \in 1..k /\ pos + c - (pos + c - j) = j
          BY <2>1
    <3> QED BY <2>2, <3>1
  <2>4. ASSUME NEW j \in z..(z + k - 1) PROVE \E i \in 1..k : g[i] = j
    <3>1. pos - j \in 1..k /\ pos - (pos - j) = j
          BY <2>1
    <3> QED BY <2>2, <3>1
  <2>5. Runs(f, k, a)
    <3>1. \A i \in 1..k : f[i] \in a..(a + k - 1)
          BY <2>1, <2>2
    <3>2. \A i, j \in 1..k : f[i] = f[j] => i = j
          BY <2>2
    <3> QED BY <1>1, <2>3, <3>1, <3>2 DEF Runs
  <2>6. Runs(g, k, z)
    <3>1. \A i \in 1..k : g[i] \in z..(z + k - 1)
          BY <2>1, <2>2
    <3>2. \A i, j \in 1..k : g[i] = g[j] => i = j
          BY <2>2
    <3> QED BY <1>1, <2>4, <3>1, <3>2 DEF Runs
  <2>7. Beside(f, g, k, a, z) /\ Beside(g, f, k, z, a)
        BY <2>1, <2>2 DEF Beside
  <2> QED BY <2>5, <2>6, <2>7
<1> QED BY <1>2, <1>3

\* what is moved away and back is as it was, where nothing was in the way
LEMMA BodilyBack ==
  ASSUME NEW m, NEW w, NEW v, NEW k \in Nat, NEW a \in Nat, NEW z \in Nat, NEW e \in Nat,
         m \in [0..e -> Null], a + k <= e, z + k <= e, a + k <= z \/ z + k <= a,
         Bodily(m, w, k, a, z, e), Bodily(w, v, k, z, a, e), \A j \in z..(z + k - 1) : m[j] = NoBuf
  PROVE  v = m
<1>1. ASSUME NEW j \in 0..e PROVE v[j] = m[j]
  <2>1. CASE j \in a..(a + k - 1)
    <3>1. PICK h \in Int : h = j - (a - z)
          OBVIOUS
    <3>2. h \in z..(z + k - 1) /\ h - (z - a) = j
          BY <2>1, <3>1
    <3>3. v[j] = w[h]
          BY <2>1, <3>1 DEF Bodily
    <3>4. w[h] = m[h - (z - a)]
          BY <3>2 DEF Bodily
    <3> QED BY <3>2, <3>3, <3>4
  <2>2. CASE j \in z..(z + k - 1)
        BY <2>2 DEF Bodily
  <2>3. CASE j \notin a..(a + k - 1) /\ j \notin z..(z + k - 1)
        BY <2>3 DEF Bodily
  <2> QED BY <2>1, <2>2, <2>3
<1>2. v = [j \in 0..e |-> v[j]]
      BY DEF Bodily
<1> QED BY <1>1, <1>2

\* the far spares carried to the other side, and carried back
LEMMA Transferred ==
  ASSUME NEW back \in BOOLEAN, NEW m, NEW pos \in Nat, NEW c \in Nat, NEW k \in Nat, NEW e \in Nat,
         m \in [0..e -> Null], k <= c, pos + c <= e, back => pos + c + k <= e, ~ back => pos - k >= 0,
         \A j \in 0..e : m[j] # NoBuf => pos <= j /\ j < pos + c,
         NEW w, w = Carry(m, From(back, pos, c, k), To(back, pos, c, k)),
         NEW a, NEW z, a = Taken(back, pos, c, k), z = Given(back, pos, c, k)
  PROVE  /\ a \in Nat /\ z \in Nat /\ a + k <= e /\ z + k <= e /\ (a + k <= z \/ z + k <= a)
         /\ Bodily(m, w, k, a, z, e)
         /\ Carry(w, To(back, pos, c, k), From(back, pos, c, k)) = m
<1>1. PICK f, g : f = From(back, pos, c, k) /\ g = To(back, pos, c, k)
      OBVIOUS
<1>2. Runs(f, k, a) /\ Runs(g, k, z) /\ Beside(f, g, k, a, z) /\ Beside(g, f, k, z, a)
      BY <1>1, FromTaken
<1>3. a \in Nat /\ z \in Nat /\ a + k <= e /\ z + k <= e /\ (a + k <= z \/ z + k <= a)
  <2>1. CASE back
        BY <2>1 DEF Taken, Given
  <2>2. CASE ~ back
        BY <2>2 DEF Taken, Given
  <2> QED BY <2>1, <2>2
<1>4. Bodily(m, w, k, a, z, e)
  <2>1. DOMAIN m = 0..e
        OBVIOUS
  <2> QED BY <1>1, <1>2, <1>3, <2>1, Carried
<1>5. PICK v : v = Carry(w, g, f)
      OBVIOUS
<1>6. Bodily(w, v, k, z, a, e)
  <2>1. DOMAIN w = 0..e
        BY <1>4 DEF Bodily
  <2> QED BY <1>2, <1>3, <1>5, <2>1, Carried
<1>7. \A j \in z..(z + k - 1) : m[j] = NoBuf
  <2>1. ASSUME NEW j \in z..(z + k - 1) PROVE j \in 0..e /\ ~ (pos <= j /\ j < pos + c)
    <3>1. CASE back
          BY <1>3, <3>1 DEF Given
    <3>2. CASE ~ back
          BY <1>3, <3>2 DEF Given
    <3> QED BY <3>1, <3>2
  <2> QED BY <2>1
<1>8. v = m
      BY <1>3, <1>4, <1>6, <1>7, BodilyBack
<1> QED BY <1>1, <1>3, <1>4, <1>5, <1>8

LEMMA TransferRotated ==
  ASSUME NEW x, Valid(x), NEW back \in BOOLEAN, NEW m, NEW pos, Slid(x, m, pos), NEW k \in Nat, k <= x.cnt,
         back => pos + x.cnt + k <= x.cap, ~ back => pos - k >= 0,
         NEW w, w = Carry(m, From(back, pos, x.cnt, k), To(back, pos, x.cnt, k)),
         NEW y, y.map = w, y.cap = x.cap, y.cnt = x.cnt, y.span = IF back THEN pos + k ELSE pos - k
  PROVE  /\ w \in [0..x.cap -> Null]
         /\ y \in Deques => Rotated(x, y, IF back THEN k ELSE x.cnt - k)
         /\ Carry(w, To(back, pos, x.cnt, k), From(back, pos, x.cnt, k)) = m
<1>1. PICK s \in Nat, c \in Nat, e \in Nat :
        /\ s = x.span /\ c = x.cnt /\ e = x.cap /\ s + c <= e
        /\ x.map \in [0..e -> Null]
        /\ \A i \in 0..e : x.map[i] # NoBuf <=> s <= i /\ i < s + c
      BY ValidNumbers
<1>2. /\ m \in [0..e -> Null] /\ pos \in Nat /\ pos + c <= e
      /\ \A j \in 0..e : m[j] = IF pos <= j /\ j < pos + c THEN x.map[s + (j - pos)] ELSE NoBuf
      BY <1>1 DEF Slid
<1>3. PICK a, z : a = Taken(back, pos, c, k) /\ z = Given(back, pos, c, k)
      OBVIOUS
<1>4. /\ a \in Nat /\ z \in Nat /\ a + k <= e /\ z + k <= e /\ (a + k <= z \/ z + k <= a)
      /\ Bodily(m, w, k, a, z, e)
      /\ Carry(w, To(back, pos, c, k), From(back, pos, c, k)) = m
  <2>1. \A j \in 0..e : m[j] # NoBuf => pos <= j /\ j < pos + c
        BY <1>2
  <2>2. k <= c /\ (back => pos + c + k <= e) /\ (~ back => pos - k >= 0)
        BY <1>1
  <2>3. w = Carry(m, From(back, pos, c, k), To(back, pos, c, k))
        BY <1>1
  <2> QED BY <1>2, <1>3, <2>1, <2>2, <2>3, Transferred
<1>5. /\ w = [j \in 0..e |-> w[j]]
      /\ \A j \in z..(z + k - 1) : w[j] = m[j - (z - a)]
      /\ \A j \in a..(a + k - 1) : w[j] = NoBuf
      /\ \A j \in 0..e : j \notin a..(a + k - 1) /\ j \notin z..(z + k - 1) => w[j] = m[j]
      BY <1>4 DEF Bodily
<1>6. w \in [0..e -> Null]
  <2>1. ASSUME NEW j \in 0..e PROVE w[j] \in Null
    <3>1. CASE j \in z..(z + k - 1)
      <4>1. PICK h \in Int : h = j - (z - a)
            BY <1>4, <3>1
      <4>2. h \in 0..e
            BY <1>4, <3>1, <4>1
      <4> QED BY <1>2, <1>5, <3>1, <4>1, <4>2
    <3>2. CASE j \in a..(a + k - 1)
          BY <1>5, <3>2 DEF Null
    <3> QED BY <1>2, <1>5, <3>1, <3>2
  <2> QED BY <1>5, <2>1
<1>10. /\ s \in Nat /\ c \in Nat /\ e \in Nat /\ pos \in Nat /\ k \in Nat /\ k <= c /\ pos + c <= e
       /\ back => pos + c + k <= e
       /\ ~ back => pos - k >= 0
       BY <1>1, <1>2
<1>7. PICK f \in Nat, cut \in 0..c : f = y.span /\ cut = (IF back THEN k ELSE c - k) /\ f + c <= e
  <2>1. CASE back
    <3>1. pos + k \in Nat /\ k \in 0..c /\ y.span = pos + k /\ (pos + k) + c <= e
          BY <1>10, <2>1
    <3> QED BY <2>1, <3>1
  <2>2. CASE ~ back
    <3>1. pos - k \in Nat /\ c - k \in 0..c /\ y.span = pos - k /\ (pos - k) + c <= e
          BY <1>10, <2>2
    <3> QED BY <2>2, <3>1
  <2> QED BY <2>1, <2>2
<1>8. ASSUME NEW j \in 0..e
      PROVE  w[j] = IF f <= j /\ j < f + c THEN x.map[s + Wrap(c, j - f + cut)] ELSE NoBuf
  <2>1. CASE back
    <3>1. a = pos /\ z = pos + c /\ f = pos + k /\ cut = k
          BY <1>3, <1>7, <2>1 DEF Taken, Given
    <3>2. CASE j < pos + k
      <4>1. ~ (f <= j) /\ j \notin z..(z + k - 1)
            BY <1>10, <3>1, <3>2
      <4>2. CASE j \in a..(a + k - 1)
            BY <1>5, <4>1, <4>2
      <4>3. CASE j \notin a..(a + k - 1)
        <5>1. ~ (pos <= j)
              BY <1>10, <3>1, <3>2, <4>3
        <5>2. w[j] = m[j]
              BY <1>5, <4>1, <4>3
        <5>3. m[j] = NoBuf
              BY <1>2, <5>1
        <5> QED BY <4>1, <5>2, <5>3
      <4> QED BY <4>2, <4>3
    <3>3. CASE pos + k <= j /\ j < pos + c
      <4>1. /\ j \notin a..(a + k - 1) /\ j \notin z..(z + k - 1) /\ pos <= j /\ j < pos + c
            /\ j - f + cut = j - pos /\ j - pos < c /\ f <= j /\ j < f + c
            BY <1>10, <3>1, <3>3
      <4>2. w[j] = m[j]
            BY <1>5, <4>1
      <4>3. m[j] = x.map[s + (j - pos)]
            BY <1>2, <4>1
      <4>4. Wrap(c, j - f + cut) = j - pos
            BY <4>1 DEF Wrap
      <4> QED BY <4>1, <4>2, <4>3, <4>4
    <3>4. CASE pos + c <= j /\ j < pos + c + k
      <4>1. PICK h \in Int : h = j - (z - a)
            BY <1>10, <3>1
      <4>2. /\ h \in 0..e /\ pos <= h /\ h < pos + c /\ j \in z..(z + k - 1)
            /\ j - f + cut = j - pos /\ ~ (j - pos < c) /\ j - pos - c = h - pos /\ f <= j /\ j < f + c
            BY <1>10, <3>1, <3>4, <4>1
      <4>3. w[j] = m[h]
            BY <1>5, <4>1, <4>2
      <4>4. m[h] = x.map[s + (h - pos)]
            BY <1>2, <4>2
      <4>5. Wrap(c, j - f + cut) = h - pos
            BY <4>2 DEF Wrap
      <4> QED BY <4>2, <4>3, <4>4, <4>5
    <3>5. CASE pos + c + k <= j
      <4>1. j \notin a..(a + k - 1) /\ j \notin z..(z + k - 1) /\ ~ (j < pos + c) /\ ~ (j < f + c)
            BY <1>10, <3>1, <3>5
      <4>2. w[j] = m[j]
            BY <1>5, <4>1
      <4>3. m[j] = NoBuf
            BY <1>2, <4>1
      <4> QED BY <4>1, <4>2, <4>3
    <3> QED BY <1>10, <3>2, <3>3, <3>4, <3>5
  <2>2. CASE ~ back
    <3>1. a = pos + c - k /\ z = pos - k /\ f = pos - k /\ cut = c - k
          BY <1>3, <1>7, <2>2 DEF Taken, Given
    <3>6. pos - k >= 0
          BY <1>10, <2>2
    <3>2. CASE j < pos - k
      <4>1. j \notin a..(a + k - 1) /\ j \notin z..(z + k - 1) /\ ~ (pos <= j) /\ ~ (f <= j)
            BY <1>10, <3>1, <3>2
      <4>2. w[j] = m[j]
            BY <1>5, <4>1
      <4>3. m[j] = NoBuf
            BY <1>2, <4>1
      <4> QED BY <4>1, <4>2, <4>3
    <3>3. CASE pos - k <= j /\ j < pos
      <4>1. PICK h \in Int : h = j - (z - a)
            BY <1>10, <3>1
      <4>2. /\ h \in 0..e /\ pos <= h /\ h < pos + c /\ j \in z..(z + k - 1)
            /\ j - f + cut = h - pos /\ h - pos < c /\ f <= j /\ j < f + c
            BY <1>10, <3>1, <3>3, <4>1
      <4>3. w[j] = m[h]
            BY <1>5, <4>1, <4>2
      <4>4. m[h] = x.map[s + (h - pos)]
            BY <1>2, <4>2
      <4>5. Wrap(c, j - f + cut) = h - pos
            BY <4>2 DEF Wrap
      <4> QED BY <4>2, <4>3, <4>4, <4>5
    <3>4. CASE pos <= j /\ j < pos + c - k
      <4>1. /\ j \notin a..(a + k - 1) /\ j \notin z..(z + k - 1) /\ pos <= j /\ j < pos + c
            /\ j - f + cut = (j - pos) + c /\ ~ ((j - pos) + c < c) /\ f <= j /\ j < f + c
            BY <1>10, <3>1, <3>4
      <4>2. w[j] = m[j]
            BY <1>5, <4>1
      <4>3. m[j] = x.map[s + (j - pos)]
            BY <1>2, <4>1
      <4>4. PICK i \in Int : i = (j - pos) + c
            BY <1>10
      <4>5. Wrap(c, i) = i - c /\ i - c = j - pos
            BY <1>10, <4>1, <4>4 DEF Wrap
      <4> QED BY <4>1, <4>2, <4>3, <4>4, <4>5
    <3>5. CASE pos + c - k <= j
      <4>1. ~ (j < f + c) /\ j \notin z..(z + k - 1)
            BY <1>10, <3>1, <3>5
      <4>2. CASE j \in a..(a + k - 1)
            BY <1>5, <4>1, <4>2
      <4>3. CASE j \notin a..(a + k - 1)
        <5>1. ~ (j < pos + c)
              BY <1>10, <3>1, <3>5, <4>3
        <5>2. w[j] = m[j]
              BY <1>5, <4>1, <4>3
        <5>3. m[j] = NoBuf
              BY <1>2, <5>1
        <5> QED BY <4>1, <5>2, <5>3
      <4> QED BY <4>2, <4>3
    <3> QED BY <1>10, <3>2, <3>3, <3>4, <3>5
  <2> QED BY <2>1, <2>2
<1>9. ASSUME y \in Deques PROVE Rotated(x, y, cut)
      BY <1>1, <1>6, <1>7, <1>8, <1>9 DEF Rotated
<1> QED BY <1>1, <1>4, <1>6, <1>7, <1>9

\* the deque with its span where it was or elsewhere in the same map, so that
\* the room for e slots is next to it
NodesOff(x, y, t) ==
  /\ y.beg.node = x.beg.node + t /\ y.beg.off = x.beg.off
  /\ y.end.node = x.end.node + t /\ y.end.off = x.end.off
InPlace(x, y, back, e) ==
  /\ y \in Deques /\ y.cap = x.cap /\ y.cnt = x.cnt /\ y.id = x.id
  /\ Slid(x, y.map, y.span)
  /\ NodesOff(x, y, y.span - x.span)
  /\ back => y.span + x.cnt + e <= x.cap
  /\ ~ back => y.span - e >= 0

LEMMA StayedInPlace ==
  ASSUME NEW x, Valid(x), NEW back \in BOOLEAN, NEW e \in Nat,
         back => e <= x.cap - x.span - x.cnt, ~ back => e <= x.span
  PROVE  InPlace(x, x, back, e)
<1>1. Laid(x, x.span, x.span + x.cnt)
      BY DEF Valid
<1>2. x \in Deques /\ x.span \in Nat /\ x.cnt \in Nat /\ x.cap \in Int
      BY <1>1, LimitAssumption DEF Laid, Deques
<1>3. Slid(x, x.map, x.span)
      BY SlidStill
<1>4. PICK b \in Int, g \in Int : b = x.beg.node /\ g = x.end.node
      BY <1>1, Ends
<1>5. NodesOff(x, x, x.span - x.span)
      BY <1>2, <1>4 DEF NodesOff
<1>6. (back => x.span + x.cnt + e <= x.cap) /\ (~ back => x.span - e >= 0)
      BY <1>2
<1> QED BY <1>2, <1>3, <1>5, <1>6 DEF InPlace

LEMMA RecentredInPlace ==
  ASSUME NEW x, Valid(x), NEW back \in BOOLEAN, NEW e \in Nat, e <= x.cap - x.cnt
  PROVE  InPlace(x, Recentre(x, back, e), back, e)
<1>1. Laid(x, x.span, x.span + x.cnt)
      BY DEF Valid
<1>2. PICK s \in Nat, c \in Nat, l \in Nat : s = x.span /\ c = x.cnt /\ l = x.cap /\ s + c <= l
      BY <1>1, LimitAssumption DEF Laid, Deques
<1>3. PICK f : f = (l - c - e) \div 2 + IF back THEN 0 ELSE e
      OBVIOUS
<1>4. f \in Nat /\ f + c <= l /\ (back => f + c + e <= l) /\ (~ back => f - e >= 0)
  <2>1. c + e <= l
        BY <1>2
  <2> QED BY <1>3, <2>1, NewFirstIn
<1>5. PICK m : m = MoveNodes(x.map, s, f, c)
      OBVIOUS
<1>6. Slid(x, m, f)
      BY <1>2, <1>4, <1>5, SlidMove
<1>7. x \in Deques /\ x.beg \in Spots /\ x.end \in Spots /\ x.id \in 0..2
      BY <1>1, Ends DEF Laid, Deques
<1>8. PICK t \in Int : t = f - s
      BY <1>4
<1>9. PICK bn \in Int, gn \in Int : bn = x.beg.node /\ gn = x.end.node
      BY <1>7 DEF Spots
<1>10. PICK b, g : b = [x.beg EXCEPT !.node = f + (@ - s)] /\ g = [x.end EXCEPT !.node = f + (@ - s)]
       OBVIOUS
<1>11. b = [x.beg EXCEPT !.node = @ + t] /\ g = [x.end EXCEPT !.node = @ + t]
  <2>1. f + (bn - s) = bn + t /\ f + (gn - s) = gn + t
        BY <1>4, <1>8
  <2> QED BY <1>9, <1>10, <2>1
<1>12. /\ b \in Spots /\ b.node = x.beg.node + t /\ b.off = x.beg.off
       /\ g \in Spots /\ g.node = x.end.node + t /\ g.off = x.end.off
       BY <1>7, <1>11, NodeMoved
<1>13. PICK y : y = Recentre(x, back, e)
       OBVIOUS
<1>14. y = [x EXCEPT !.map = m, !.span = f, !.beg = b, !.end = g]
       BY <1>2, <1>3, <1>5, <1>7, <1>10, <1>13 DEF Recentre, Shifted, Deques
<1>15. m \in Maps
  <2>1. m \in [0..l -> Null] /\ l \in 0..Limit
        BY <1>1, <1>2, <1>6 DEF Slid, Laid, Deques
  <2> QED BY <2>1 DEF Maps
<1>16. /\ y \in Deques /\ y.map = m /\ y.cap = l /\ y.cnt = c /\ y.id = x.id /\ y.span = f
       /\ y.beg = b /\ y.end = g
       BY <1>2, <1>4, <1>7, <1>12, <1>14, <1>15 DEF Deques
<1>17. NodesOff(x, y, y.span - x.span)
       BY <1>2, <1>8, <1>12, <1>16 DEF NodesOff
<1> QED BY <1>2, <1>4, <1>6, <1>13, <1>16, <1>17 DEF InPlace

\* what is undone when the span has been moved and the spares carried over
LEMMA TransferTurned ==
  ASSUME NEW x, Valid(x), NEW back \in BOOLEAN, NEW e \in Nat, NEW k \in Nat, k <= e, k <= x.cnt,
         NEW v, InPlace(x, v, back, e), NEW y, y = Transfer(v, back, k)
  PROVE  /\ Turned(x, y, back, k) /\ y.id = x.id
         /\ y.span = IF back THEN v.span + k ELSE v.span - k
         /\ back => y.span + y.cnt + (e - k) <= y.cap
         /\ ~ back => y.span - (e - k) >= 0
         /\ MoveNodes(Carry(y.map, To(back, v.span, x.cnt, k), From(back, v.span, x.cnt, k)),
                      v.span, x.span, x.cnt) = x.map
<1>1. Laid(x, x.span, x.span + x.cnt)
      BY DEF Valid
<1>2. PICK s \in Nat, c \in Nat, l \in Nat : s = x.span /\ c = x.cnt /\ l = x.cap /\ s + c <= l
      BY <1>1, LimitAssumption DEF Laid, Deques
<1>14. PICK m : m = v.map
       OBVIOUS
<1>3. PICK pos \in Nat : pos = v.span
      BY DEF InPlace, Slid
<1>4. /\ v \in Deques /\ v.cap = l /\ v.cnt = c /\ v.id = x.id /\ Slid(x, m, pos)
      /\ NodesOff(x, v, pos - s)
      /\ (back => pos + c + e <= l) /\ (~ back => pos - e >= 0) /\ pos + c <= l
      BY <1>2, <1>3, <1>14 DEF InPlace, Slid
<1>5. PICK w : w = Carry(m, From(back, pos, c, k), To(back, pos, c, k))
      OBVIOUS
<1>6. PICK f \in Nat : f = (IF back THEN pos + k ELSE pos - k) /\ f + c <= l
      /\ (back => f + c + (e - k) <= l) /\ (~ back => f - (e - k) >= 0)
  <2>1. CASE back
    <3>1. pos + k \in Nat /\ (pos + k) + c <= l /\ (pos + k) + c + (e - k) <= l
          BY <1>4, <2>1
    <3> QED BY <2>1, <3>1
  <2>2. CASE ~ back
    <3>1. pos - k \in Nat /\ (pos - k) + c <= l /\ (pos - k) - (e - k) >= 0
          BY <1>4, <2>2
    <3> QED BY <2>2, <3>1
  <2> QED BY <2>1, <2>2
<1>7. y = [v EXCEPT !.map = w, !.span = f]
  <2>1. v.span = pos /\ v.map = m /\ v.cnt = c
        BY <1>3, <1>4, <1>14
  <2> QED BY <1>4, <1>5, <1>6, <2>1 DEF Transfer, Deques
<1>8. y.map = w /\ y.cap = l /\ y.cnt = c /\ y.span = f /\ y.id = x.id /\ y.beg = v.beg /\ y.end = v.end
      BY <1>4, <1>7 DEF Deques
<1>9. /\ w \in [0..x.cap -> Null]
      /\ y \in Deques => Rotated(x, y, IF back THEN k ELSE x.cnt - k)
      /\ Carry(w, To(back, pos, x.cnt, k), From(back, pos, x.cnt, k)) = m
  <2>1. (back => pos + c + k <= l) /\ (~ back => pos - k >= 0)
    <3>1. CASE back
          BY <1>4, <3>1
    <3>2. CASE ~ back
          BY <1>4, <3>2
    <3> QED BY <3>1, <3>2
  <2>2. /\ back => pos + x.cnt + k <= x.cap
        /\ ~ back => pos - k >= 0
        BY <1>2, <2>1
  <2>3. w = Carry(m, From(back, pos, x.cnt, k), To(back, pos, x.cnt, k))
        BY <1>2, <1>5
  <2>4. y.map = w /\ y.cap = x.cap /\ y.cnt = x.cnt
        BY <1>2, <1>8
  <2>5. y.span = IF back THEN pos + k ELSE pos - k
        BY <1>6, <1>8
  <2>6. Slid(x, m, pos)
        BY <1>4
  <2> QED BY <2>2, <2>3, <2>4, <2>5, <2>6, TransferRotated
<1>10. y \in Deques
  <2>1. w \in Maps
    <3>1. l \in 0..Limit
          BY <1>1, <1>2 DEF Laid, Deques
    <3> QED BY <1>2, <1>9, <3>1 DEF Maps
  <2> QED BY <1>4, <1>6, <1>7, <2>1 DEF Deques
<1>11. GoneBy(x, y, back, k) = pos - s
  <2>1. CASE back
        BY <1>2, <1>6, <1>8, <2>1 DEF GoneBy
  <2>2. CASE ~ back
        BY <1>2, <1>6, <1>8, <2>2 DEF GoneBy
  <2> QED BY <2>1, <2>2
<1>12. Turned(x, y, back, k)
       BY <1>4, <1>8, <1>9, <1>10, <1>11 DEF Turned, NodesOff
<1>13. MoveNodes(m, pos, s, c) = x.map
       BY <1>2, <1>4, SlidBack
<1> QED BY <1>2, <1>3, <1>6, <1>8, <1>9, <1>12, <1>13, <1>14

-----------------------------------------------------------------------------
(* A reservation that begins. *)

Begun(q, x, back, n, w, pos, moved, alloc) ==
  /\ q \in Reservations /\ q.pc = "alloc" /\ q.back = back /\ q.n = n /\ q.new = w
  /\ q.saved = x /\ q.own = own /\ q.pos = pos /\ q.moved = moved /\ q.alloc = alloc
  /\ q.added = 0 /\ q.done = 0

LEMMA SavedIs ==
  ASSUME NEW x \in Deques, NEW back \in BOOLEAN, NEW n \in Nat \ {0}, NEW p, NEW w \in Nat, p.new = w,
         NEW pos \in Int, NEW moved \in Nat, NEW alloc \in Int, own \subseteq Buffers
  PROVE  Begun(Saved(back, n, p, x, pos, moved, alloc), x, back, n, w, pos, moved, alloc)
<1>4. PICK q : q = Saved(back, n, p, x, pos, moved, alloc)
      OBVIOUS
<1>1. PICK it : it = NoIt
      OBVIOUS
<1>2. it \in Spots
  <2>1. NoMap[0] = NoBuf
        BY DEF NoMap
  <2>2. it = [node |-> 0, buf |-> NoBuf, off |-> 0]
        BY <1>1, <2>1 DEF NoIt, It
  <2> QED BY <2>2, BAssumption DEF Spots, Null
<1>3. q = [pc |-> "alloc", back |-> back, n |-> n, new |-> w, saved |-> x, own |-> own,
           pos |-> pos, moved |-> moved, alloc |-> alloc, added |-> 0,
           base |-> it, cur |-> it, done |-> 0]
      BY <1>1, <1>4 DEF Saved
<1>5. Begun(q, x, back, n, w, pos, moved, alloc)
      BY <1>2, <1>3 DEF Reservations, Begun
<1> QED BY <1>4, <1>5

LEMMA NothingAdded ==
  ASSUME NEW S, NEW T, NEW m \in [S -> T], NEW q, q.alloc \in Int, q.added = 0
  PROVE  Without(m, q) = m
<1>1. q.alloc..(q.alloc + q.added - 1) = {}
      OBVIOUS
<1>2. Without(m, q) = [i \in DOMAIN m |-> m[i]]
      BY <1>1 DEF Without
<1> QED BY <1>2

LEMMA SameMap ==
  ASSUME NEW x \in Deques
  PROVE  [x EXCEPT !.map = x.map] = x
BY DEF Deques

\* before the first allocation, undoing is putting the span back, or dropping
\* the new map
LEMMA UndoneInMap ==
  ASSUME NEW x, Valid(x), NEW y, y \in Deques, y.id = x.id, NEW q, q.saved = x, q.alloc \in Int, q.added = 0,
         MoveNodes(Carry(y.map, To(q.back, q.pos, x.cnt, q.moved), From(q.back, q.pos, x.cnt, q.moved)),
                   q.pos, x.span, x.cnt) = x.map
  PROVE  Restored(y, q) = x
<1>1. x \in Deques
      BY DEF Valid, Laid
<1>2. Without(y.map, q) = y.map
  <2>1. PICK c \in 0..Limit : y.map \in [0..c -> Null]
        BY DEF Deques, Maps
  <2> QED BY <2>1, NothingAdded
<1>3. Restored(y, q) = [x EXCEPT !.map = x.map]
      BY <1>2 DEF Restored
<1> QED BY <1>1, <1>3, SameMap

LEMMA UndoneNewMap ==
  ASSUME NEW x, Valid(x), NEW y, y.id # x.id, NEW q, q.saved = x
  PROVE  Restored(y, q) = x
<1>1. x \in Deques
      BY DEF Valid, Laid
<1>2. Restored(y, q) = [x EXCEPT !.map = x.map]
      BY DEF Restored
<1> QED BY <1>1, <1>2, SameMap

\* whatever way the room was found
LEMMA Prepared ==
  ASSUME DInv, r = Idle, live' = live, made' = made, own' = own,
         NEW back \in BOOLEAN, NEW n \in Nat \ {0}, NEW k, k = Reuse(d, back, n), NEW e, e = Short(d, back, n),
         NEW p, p.new = e - k, NEW pos \in Int, NEW moved \in Nat, NEW alloc \in Int,
         NEW y, y = d', NEW q, q = r', q = Saved(back, n, p, d, pos, moved, alloc),
         Turned(d, y, back, k), Restored(y, q) = d,
         back => alloc = y.span + y.cnt /\ y.span + y.cnt + (e - k) <= y.cap,
         ~ back => alloc = y.span - (e - k) /\ y.span - (e - k) >= 0
  PROVE  DInv'
<1>1. /\ Valid(d) /\ made = ToSet(live) /\ Holds(d, live)
      /\ live \in Seq(CellSet) /\ own = Bufs(d) /\ Laid(d, d.span, d.span + d.cnt)
      BY Idled
<1>2. d \in Deques /\ own \subseteq Buffers
  <2>1. Bufs(d) \subseteq Buffers
        BY <1>1, BufsThere
  <2> QED BY <1>1, <2>1 DEF Laid
<1>3. k \in Nat /\ e \in Nat /\ e - k \in Nat
      BY <1>1, PlanTypes
<1>4. /\ q \in Reservations /\ q.pc = "alloc" /\ q.back = back /\ q.n = n /\ q.new = e - k
      /\ q.saved = d /\ q.own = own /\ q.pos = pos /\ q.moved = moved /\ q.alloc = alloc
      /\ q.added = 0 /\ q.done = 0
  <2>1. PICK x \in Deques : x = d
        BY <1>2
  <2>2. PICK w \in Nat : w = e - k /\ p.new = w
        BY <1>3
  <2>3. Begun(Saved(back, n, p, x, pos, moved, alloc), x, back, n, w, pos, moved, alloc)
        BY <1>2, <2>2, SavedIs
  <2>4. Begun(q, x, back, n, w, pos, moved, alloc)
        BY <2>1, <2>3
  <2> QED BY <2>1, <2>2, <2>4 DEF Begun
<1>5. /\ Laid(y, y.span, y.span + y.cnt) /\ Holds(y, live)
      /\ back => Pos(y.end) + n <= (y.span + y.cnt + (e - k)) * B
      /\ ~ back => Pos(y.beg) - n >= (y.span - (e - k)) * B
      BY <1>1, TurnedEnds
<1>6. PICK cut : Rotated(d, y, cut)
      BY DEF Turned
<1>7. /\ \A j \in 0..y.cap : y.map[j] # NoBuf <=> y.span <= j /\ j < y.span + y.cnt
      /\ Bufs(y) = Bufs(d)
      BY <1>1, <1>6, RotatedBufs
<1>8. PICK f \in Nat, c \in Nat, l \in Int : f = y.span /\ c = y.cnt /\ l = y.cap
      BY <1>5, LimitAssumption DEF Laid, Deques
<1>9. q.alloc..(q.alloc + q.added - 1) = {}
      BY <1>4
<1>10. Undoable'
  <2>1. NewBufs' = {}
        BY <1>9 DEF NewBufs
  <2> QED BY <1>1, <1>4, <2>1 DEF Undoable
<1>11. OldFirst' = f /\ OldLast' = f + c
  <2>1. OldFirst' = IF q.back THEN y.span ELSE y.span + q.added
        BY DEF OldFirst
  <2>2. OldFirst' = f
        BY <1>4, <1>8, <2>1
  <2>3. OldLast' = OldFirst' + y.cnt - q.added
        BY DEF OldLast
  <2> QED BY <1>4, <1>8, <2>2, <2>3
<1>12. Owned(y, (f..((f + c) - 1)) \cup (q.alloc..(q.alloc + q.added - 1)))
  <2>1. ASSUME NEW j \in 0..l PROVE y.map[j] # NoBuf <=> j \in f..((f + c) - 1)
        BY <1>7, <1>8
  <2> QED BY <1>8, <1>9, <2>1 DEF Owned
<1>13. IF back
       THEN /\ alloc = f + c /\ alloc + (e - k) <= l
            /\ Pos(y.end) + n <= (alloc + (e - k)) * B
       ELSE /\ alloc >= 0 /\ alloc + (e - k) = f
            /\ Pos(y.beg) - n >= alloc * B
  <2>1. CASE back
        BY <1>5, <1>8, <2>1
  <2>2. CASE ~ back
    <3>1. alloc = f - (e - k)
          BY <1>8, <2>2
    <3> QED BY <1>3, <1>5, <1>8, <2>2, <3>1
  <2> QED BY <2>1, <2>2
<1>14. Allocating'
  <2>1. q.added <= q.new /\ q.added <= y.cnt
        BY <1>3, <1>4, <1>8
  <2>2. Laid(y, f, f + c)
        BY <1>5, <1>8
  <2>3. IF q.back
        THEN /\ q.alloc = f + c /\ q.alloc + q.new <= y.cap
             /\ Pos(y.end) + q.n <= (q.alloc + q.new) * B
        ELSE /\ q.alloc >= 0 /\ q.alloc + q.new = f
             /\ Pos(y.beg) - q.n >= q.alloc * B
        BY <1>4, <1>8, <1>13
  <2>4. q.pc = "alloc" /\ q.done = 0 /\ made = ToSet(live)
        BY <1>1, <1>4
  <2> QED BY <1>11, <1>12, <2>1, <2>2, <2>3, <2>4 DEF Allocating
<1> QED BY <1>1, <1>5, <1>7, <1>10, <1>14 DEF DInv

LEMMA PlanIs ==
  ASSUME NEW x, NEW back, NEW n, NEW p, p = Plan(x, back, n)
  PROVE  /\ p.need = Short(x, back, n) /\ p.reuse = Reuse(x, back, n)
         /\ p.new = Short(x, back, n) - Reuse(x, back, n)
BY DEF Plan

\* room in the map itself
LEMMA InMapKept ==
  ASSUME DInv, r = Idle, live' = live, made' = made, own' = own,
         NEW back \in BOOLEAN, NEW n \in Nat \ {0}, NEW p, p = Plan(d, back, n),
         Roomy(d, back, p), InMap(d, back, n, p)
  PROVE  DInv'
<1>1. Valid(d) /\ Laid(d, d.span, d.span + d.cnt)
      BY Idled
<1>2. PICK s \in Nat, c \in Nat, l \in Nat : s = d.span /\ c = d.cnt /\ l = d.cap /\ s + c <= l
      BY <1>1, LimitAssumption DEF Laid, Deques
<1>3. PICK k \in Nat, e \in Nat :
        k = Reuse(d, back, n) /\ e = Short(d, back, n) /\ k <= e /\ k <= c /\ e - k \in Nat
  <2>1. /\ Reuse(d, back, n) \in Nat /\ Short(d, back, n) \in Nat
        /\ Near(d, back) \in Nat /\ Far(d, back) \in Nat /\ Near(d, back) + Far(d, back) <= d.cnt
        /\ Reuse(d, back, n) <= Short(d, back, n) /\ Reuse(d, back, n) <= Far(d, back)
        BY <1>1, PlanTypes
  <2> QED BY <1>2, <2>1
<1>4. p.need = e /\ p.reuse = k /\ p.new = e - k
      BY <1>3, PlanIs
<1>5. PICK null \in Int : null = IF back THEN d.cap - d.span - d.cnt ELSE d.span
  <2>1. d.cap - d.span - d.cnt \in Int /\ d.span \in Int
        BY <1>2
  <2> QED BY <2>1
<1>6. PICK v : v = IF null < e THEN Recentre(d, back, e) ELSE d
      OBVIOUS
<1>7. InPlace(d, v, back, e)
  <2>1. CASE null < e
    <3>1. e <= d.cap - d.cnt
      <4>1. ~ (e <= null)
            BY <1>5, <2>1
      <4> QED BY <1>4, <1>5, <4>1 DEF Roomy
    <3> QED BY <1>1, <1>6, <2>1, <3>1, RecentredInPlace
  <2>2. CASE ~ (null < e)
    <3>1. (back => e <= d.cap - d.span - d.cnt) /\ (~ back => e <= d.span)
      <4>1. e <= null
            BY <1>5, <2>2
      <4> QED BY <1>5, <4>1
    <3>2. InPlace(d, d, back, e)
          BY <1>1, <3>1, StayedInPlace
    <3> QED BY <1>6, <2>2, <3>2
  <2> QED BY <2>1, <2>2
<1>8. PICK pos \in Nat : pos = v.span
      BY <1>7 DEF InPlace, Slid
<1>9. PICK alloc : alloc = IF back THEN v.span + d.cnt + k ELSE v.span - k - (e - k)
      OBVIOUS
<1>10. d' = Transfer(v, back, k) /\ r' = Saved(back, n, p, d, v.span, k, alloc)
       BY <1>4, <1>5, <1>6, <1>9 DEF InMap
<1>11. PICK y, q : y = d' /\ q = r'
       OBVIOUS
<1>12. k <= d.cnt
       BY <1>2, <1>3
<1>13. /\ Turned(d, y, back, k) /\ y.id = d.id
       /\ y.span = IF back THEN v.span + k ELSE v.span - k
       /\ back => y.span + y.cnt + (e - k) <= y.cap
       /\ ~ back => y.span - (e - k) >= 0
       /\ MoveNodes(Carry(y.map, To(back, v.span, d.cnt, k), From(back, v.span, d.cnt, k)),
                    v.span, d.span, d.cnt) = d.map
  <2>1. y = Transfer(v, back, k)
        BY <1>10, <1>11
  <2> QED BY <1>1, <1>3, <1>7, <1>12, <2>1, TransferTurned
<1>14. y \in Deques /\ y.cnt = c
       BY <1>2, <1>13 DEF Turned, Rotated
<1>15. /\ alloc \in Int
       /\ back => alloc = y.span + y.cnt /\ y.span + y.cnt + (e - k) <= y.cap
       /\ ~ back => alloc = y.span - (e - k) /\ y.span - (e - k) >= 0
  <2>1. CASE back
    <3>1. alloc = pos + c + k /\ y.span = pos + k
          BY <1>2, <1>8, <1>9, <1>13, <2>1
    <3>2. alloc \in Int /\ alloc = y.span + y.cnt
          BY <1>3, <1>14, <3>1
    <3> QED BY <1>13, <2>1, <3>2
  <2>2. CASE ~ back
    <3>1. alloc = pos - k - (e - k) /\ y.span = pos - k
          BY <1>2, <1>8, <1>9, <1>13, <2>2
    <3>2. alloc \in Int /\ alloc = y.span - (e - k)
          BY <1>3, <3>1
    <3> QED BY <1>13, <2>2, <3>2
  <2> QED BY <2>1, <2>2
<1>16. q = Saved(back, n, p, d, pos, k, alloc)
       BY <1>8, <1>10, <1>11
<1>17. Restored(y, q) = d
  <2>1. /\ q.saved = d /\ q.alloc = alloc /\ q.added = 0 /\ q.back = back /\ q.pos = pos /\ q.moved = k
        BY <1>16 DEF Saved
  <2>2. MoveNodes(Carry(y.map, To(q.back, q.pos, d.cnt, q.moved), From(q.back, q.pos, d.cnt, q.moved)),
                  q.pos, d.span, d.cnt) = d.map
        BY <1>8, <1>13, <2>1
  <2> QED BY <1>1, <1>13, <1>14, <1>15, <2>1, <2>2, UndoneInMap
<1>18. k = Reuse(d, back, n) /\ e = Short(d, back, n) /\ p.new = e - k
       BY <1>3, <1>4
<1>19. pos \in Int
       OBVIOUS
<1> QED BY <1>11, <1>13, <1>15, <1>16, <1>17, <1>18, <1>19, Prepared

\* room in a larger map
LEMMA InNewMapKept ==
  ASSUME DInv, r = Idle, live' = live, made' = made, own' = own,
         NEW back \in BOOLEAN, NEW n \in Nat \ {0}, Minus(d.end, d.beg) + n <= MaxSize,
         NEW p, p = Plan(d, back, n), NEW h \in Nat, InNewMap(d, back, n, p, h)
  PROVE  DInv'
<1>1. Valid(d) /\ Laid(d, d.span, d.span + d.cnt)
      BY Idled
<1>2. PICK s \in Nat, c \in Nat, l \in Nat : s = d.span /\ c = d.cnt /\ l = Limit
      BY <1>1, LimitAssumption DEF Laid, Deques
<1>3. PICK k \in Nat, e \in Nat :
        k = Reuse(d, back, n) /\ e = Short(d, back, n) /\ k <= e /\ k <= c /\ e - k \in Nat
  <2>1. /\ Reuse(d, back, n) \in Nat /\ Short(d, back, n) \in Nat
        /\ Near(d, back) \in Nat /\ Far(d, back) \in Nat /\ Near(d, back) + Far(d, back) <= d.cnt
        /\ Reuse(d, back, n) <= Short(d, back, n) /\ Reuse(d, back, n) <= Far(d, back)
        BY <1>1, PlanTypes
  <2> QED BY <1>2, <2>1
<1>4. p.need = e /\ p.reuse = k /\ p.new = e - k
      BY <1>3, PlanIs
<1>5. c + (e - k) <= l
      BY <1>1, <1>2, <1>3, RoomExists
<1>6. PICK cap \in Nat : cap = (IF h < d.cnt + p.new \/ h <= d.cap \/ Limit < h THEN Limit ELSE h)
                         /\ c + (e - k) <= cap /\ cap <= l
      BY <1>2, <1>4, <1>5
<1>7. PICK y, q : y = d' /\ q = r'
      OBVIOUS
<1>8. PICK alloc : alloc = IF back THEN y.span + d.cnt ELSE y.span - (e - k)
      OBVIOUS
<1>9. y = Replace(d, back, p, cap) /\ q = Saved(back, n, p, d, d.span, 0, alloc)
      BY <1>4, <1>6, <1>7, <1>8 DEF InNewMap
<1>10. PICK w \in Nat : w = e - k
       BY <1>3
<1>11. /\ Turned(d, y, back, k) /\ y.id # d.id /\ y.cap = cap
       /\ back => y.span + y.cnt + w <= cap
       /\ ~ back => y.span - w >= 0
  <2>1. p.reuse = k /\ p.new = w /\ k <= d.cnt /\ d.cnt + w <= cap /\ cap <= Limit
        BY <1>2, <1>3, <1>4, <1>6, <1>10
  <2> QED BY <1>1, <1>9, <2>1, ReplaceTurned
<1>12. y \in Deques /\ y.cnt = c /\ y.span \in Nat
       BY <1>2, <1>11 DEF Turned, Rotated, Deques
<1>13. /\ alloc \in Int
       /\ back => alloc = y.span + y.cnt /\ y.span + y.cnt + (e - k) <= y.cap
       /\ ~ back => alloc = y.span - (e - k) /\ y.span - (e - k) >= 0
  <2>1. CASE back
    <3>1. alloc = y.span + y.cnt /\ alloc \in Int
          BY <1>2, <1>8, <1>12, <2>1
    <3> QED BY <1>10, <1>11, <2>1, <3>1
  <2>2. CASE ~ back
    <3>1. alloc = y.span - (e - k) /\ alloc \in Int
          BY <1>3, <1>8, <1>12, <2>2
    <3> QED BY <1>10, <1>11, <2>2, <3>1
  <2> QED BY <2>1, <2>2
<1>14. Restored(y, q) = d
  <2>1. q.saved = d
        BY <1>9 DEF Saved
  <2> QED BY <1>1, <1>11, <2>1, UndoneNewMap
<1>15. s \in Int /\ 0 \in Nat /\ q = Saved(back, n, p, d, s, 0, alloc)
       BY <1>2, <1>9
<1>16. k = Reuse(d, back, n) /\ e = Short(d, back, n) /\ p.new = e - k
       BY <1>3, <1>4
<1> QED BY <1>7, <1>11, <1>13, <1>14, <1>15, <1>16, Prepared

LEMMA CarryNone ==
  ASSUME NEW back, NEW pos, NEW c, NEW m, m = [j \in DOMAIN m |-> m[j]]
  PROVE  Carry(m, To(back, pos, c, 0), From(back, pos, c, 0)) = m
<1>1. PICK f, g : f = To(back, pos, c, 0) /\ g = From(back, pos, c, 0)
      OBVIOUS
<1>2. 1..0 = {}
      OBVIOUS
<1>3. DOMAIN f = {} /\ DOMAIN g = {}
      BY <1>1, <1>2 DEF To, From
<1>4. Range(f) = {} /\ Range(g) = {}
      BY <1>3 DEF Range
<1>5. Carry(m, f, g) = [j \in DOMAIN m |-> m[j]]
      BY <1>4 DEF Carry
<1> QED BY <1>1, <1>5

\* the room is there
LEMMA NoNeedKept ==
  ASSUME DInv, r = Idle, d' = d, live' = live, made' = made, own' = own,
         NEW back \in BOOLEAN, NEW n \in Nat \ {0}, NEW p, p = Plan(d, back, n), p.need = 0,
         r' = Build(d, back, n, Saved(back, n, p, d, d.span, 0, d.span))
  PROVE  DInv'
<1>1. /\ Valid(d) /\ made = ToSet(live) /\ Holds(d, live)
      /\ live \in Seq(CellSet) /\ own = Bufs(d) /\ Laid(d, d.span, d.span + d.cnt)
      BY Idled
<1>2. d \in Deques /\ own \subseteq Buffers
  <2>1. Bufs(d) \subseteq Buffers
        BY <1>1, BufsThere
  <2> QED BY <1>1, <2>1 DEF Laid
<1>3. PICK x \in Deques : x = d
      BY <1>2
<1>4. PICK s \in Nat, c \in Nat : s = x.span /\ c = x.cnt
      BY DEF Deques
<1>5. Short(x, back, n) = 0 /\ Reuse(x, back, n) = 0 /\ p.new = 0
  <2>1. Short(x, back, n) = 0
        BY <1>3, PlanIs
  <2>2. Reuse(x, back, n) \in Nat /\ Reuse(x, back, n) <= Short(x, back, n)
        BY <1>1, <1>3, PlanTypes
  <2>3. Reuse(x, back, n) = 0
        BY <2>1, <2>2
  <2> QED BY <1>3, <2>1, <2>3, PlanIs
<1>6. /\ back => Pos(x.end) + n <= (x.span + x.cnt) * B
      /\ ~ back => Pos(x.beg) - n >= x.span * B
  <2>1. PICK k \in Int : k = 0
        OBVIOUS
  <2>2. k = Reuse(x, back, n) /\ k = Short(x, back, n) /\ Valid(x)
        BY <1>1, <1>3, <1>5, <2>1
  <2>3. /\ back => (x.span + k) * B <= Pos(x.beg) /\ Pos(x.end) + n <= (x.span + x.cnt + k) * B
        /\ ~ back => Pos(x.end) <= (x.span + x.cnt - k) * B /\ Pos(x.beg) - n >= (x.span - k) * B
        BY <2>2, PlanRight
  <2>4. x.span + x.cnt + k = x.span + x.cnt /\ x.span - k = x.span
        BY <1>4, <2>1
  <2> QED BY <2>3, <2>4
<1>7. PICK w : w = Saved(back, n, p, x, s, 0, s)
      OBVIOUS
<1>8. Begun(w, x, back, n, 0, s, 0, s)
  <2>1. 0 \in Nat /\ s \in Int
        OBVIOUS
  <2> QED BY <1>2, <1>5, <1>7, <2>1, SavedIs
<1>9. PICK f \in Int : /\ f = First(x, back, n) /\ Spot(x.map, f) \in Spots
                       /\ Build(x, back, n, w) = Started(w, Spot(x.map, f))
  <2>1. w \in Reservations /\ Valid(x)
        BY <1>1, <1>3, <1>8 DEF Begun
  <2>2. /\ First(x, back, n) \in Int /\ Spot(x.map, First(x, back, n)) \in Spots
        /\ Build(x, back, n, w) = Started(w, Spot(x.map, First(x, back, n)))
        BY <1>6, <2>1, BuildRight
  <2> QED BY <2>2
<1>10. PICK q : q = r'
       OBVIOUS
<1>11. q = Started(w, Spot(x.map, f))
       BY <1>3, <1>4, <1>7, <1>9, <1>10
<1>12. /\ q \in Reservations /\ q.pc = "build" /\ q.base = Spot(x.map, f) /\ q.cur = Spot(x.map, f)
       /\ q.saved = x /\ q.own = own /\ q.pos = s /\ q.moved = 0 /\ q.back = back
       /\ q.alloc = s /\ q.added = 0 /\ q.done = 0 /\ q.n = n
       BY <1>8, <1>9, <1>11 DEF Started, Begun, Reservations
<1>13. Restored(x, q) = x
  <2>1. PICK e \in 0..Limit : x.map \in [0..e -> Null]
        BY DEF Deques, Maps
  <2>6. PICK m : m = x.map /\ m = [j \in DOMAIN m |-> m[j]]
        BY <2>1
  <2>7. Carry(m, To(q.back, q.pos, x.cnt, 0), From(q.back, q.pos, x.cnt, 0)) = m
        BY <2>6, CarryNone
  <2>2. Carry(x.map, To(q.back, q.pos, x.cnt, q.moved), From(q.back, q.pos, x.cnt, q.moved)) = x.map
        BY <1>12, <2>6, <2>7
  <2>3. MoveNodes(x.map, x.span, x.span, x.cnt) = x.map
    <3>1. Valid(x)
          BY <1>1, <1>3
    <3>2. Slid(x, x.map, x.span)
          BY <3>1, SlidStill
    <3> QED BY <3>1, <3>2, SlidBack
  <2>4. MoveNodes(Carry(x.map, To(q.back, q.pos, x.cnt, q.moved), From(q.back, q.pos, x.cnt, q.moved)),
                  q.pos, x.span, x.cnt) = x.map
        BY <1>4, <1>12, <2>2, <2>3
  <2>5. Valid(x) /\ q.alloc \in Int
        BY <1>1, <1>3, <1>12
  <2> QED BY <1>12, <2>4, <2>5, UndoneInMap
<1>14. Undoable'
  <2>1. q.alloc..(q.alloc + q.added - 1) = {}
        BY <1>12
  <2>2. NewBufs' = {}
        BY <1>10, <2>1 DEF NewBufs
  <2> QED BY <1>1, <1>3, <1>10, <1>12, <1>13, <2>2 DEF Undoable
<1>15. RoomFirst' = f
  <2>1. f = IF back THEN Pos(x.end) ELSE Pos(x.beg) - n
        BY <1>9 DEF First
  <2> QED BY <1>3, <1>10, <1>12, <2>1 DEF RoomFirst
<1>16. Building'
  <2>1. q.done <= q.n /\ f + q.done = f
        BY <1>12
  <2>2. {At(x.map, f + i) : i \in 0..(q.done - 1)} = {}
    <3>1. 0..(q.done - 1) = {}
          BY <1>12
    <3> QED BY <3>1
  <2>3. IF q.back THEN Pos(x.end) + q.n <= (x.span + x.cnt) * B ELSE Pos(x.beg) - q.n >= x.span * B
        BY <1>6, <1>12
  <2> QED BY <1>1, <1>3, <1>10, <1>12, <1>15, <2>1, <2>2, <2>3 DEF Building
<1> QED BY <1>1, <1>14, <1>16 DEF DInv

LEMMA InsertKept ==
  ASSUME DInv, NEW back \in BOOLEAN, NEW n \in 1..MaxSize, NEW c \in 0..(Limit + 1), Insert(back, n, c)
  PROVE  DInv'
<1>1. r = Idle /\ Size + n <= MaxSize /\ live' = live /\ made' = made /\ own' = own
      BY DEF Insert, Reserve
<1>2. n \in Nat \ {0} /\ c \in Nat
      BY BAssumption, LimitAssumption DEF MaxSize
<1>3. PICK p : p = Plan(d, back, n)
      OBVIOUS
<1>4. Minus(d.end, d.beg) + n <= MaxSize
      BY <1>1 DEF Size
<1>5. CASE p.need = 0
  <2>1. r' = Build(d, back, n, Saved(back, n, p, d, d.span, 0, d.span)) /\ d' = d
        BY <1>3, <1>5 DEF Insert, Reserve
  <2> QED BY <1>1, <1>2, <1>3, <1>5, <2>1, NoNeedKept
<1>6. CASE p.need # 0
  <2>1. ~ TooLong(d, p)
    <3>1. Valid(d) /\ Laid(d, d.span, d.span + d.cnt)
          BY <1>1, Idled
    <3>2. d.cnt + (Short(d, back, n) - Reuse(d, back, n)) <= Limit
          BY <1>2, <1>4, <3>1, RoomExists
    <3>3. d.cnt \in Nat /\ Limit \in Nat /\ Short(d, back, n) - Reuse(d, back, n) \in Nat
          BY <1>2, <3>1, PlanTypes, LimitAssumption DEF Laid, Deques
    <3>4. p.new = Short(d, back, n) - Reuse(d, back, n)
          BY <1>3, PlanIs
    <3>5. PICK k \in Nat, w \in Nat : k = d.cnt /\ w = p.new /\ k + w <= Limit
          BY <3>2, <3>3, <3>4
    <3> QED BY <3>3, <3>5 DEF TooLong
  <2>2. CASE Roomy(d, back, p)
    <3>1. InMap(d, back, n, p)
          BY <1>3, <1>6, <2>1, <2>2 DEF Insert, Reserve
    <3> QED BY <1>1, <1>2, <1>3, <2>2, <3>1, InMapKept
  <2>3. CASE ~ Roomy(d, back, p)
    <3>1. InNewMap(d, back, n, p, c)
          BY <1>3, <1>6, <2>1, <2>3 DEF Insert, Reserve
    <3> QED BY <1>1, <1>2, <1>3, <1>4, <3>1, InNewMapKept
  <2> QED BY <2>2, <2>3
<1> QED BY <1>5, <1>6

-----------------------------------------------------------------------------
LEMMA DInvKept == DInv /\ [StorageStep \/ ElementStep]_allVars => DInv'
<1> SUFFICES ASSUME DInv, [StorageStep \/ ElementStep]_allVars PROVE DInv'
    OBVIOUS
<1>1. CASE Next
  <2>1. CASE \E back \in BOOLEAN, n \in 1..MaxSize, c \in 0..(Limit + 1) : Insert(back, n, c)
        BY <2>1, InsertKept
  <2>2. CASE PushBack \/ PushFront \/ PopBack \/ PopFront \/ Dealloc
        BY <2>2, PushBackKept, PushFrontKept, PopBackKept, PopFrontKept, DeallocKept
  <2>3. CASE Allocate \/ Ready \/ Construct \/ Commit \/ Fail
        BY <2>3, AllocateKept, ReadyKept, ConstructKept, CommitKept, FailKept
  <2> QED BY <1>1, <2>1, <2>2, <2>3 DEF Next
<1>2. CASE UNCHANGED vars
  <2>1. d' = d /\ r' = r /\ live' = live /\ made' = made /\ own' = own
        BY <1>2 DEF vars
  <2> QED BY <2>1 DEF DInv, Resting, Undoable, NewBufs, Allocating, OldFirst, OldLast, Building, RoomFirst
<1> QED BY <1>1, <1>2 DEF StorageStep, ElementStep, allVars, vars

\* DInv holds of every state of a deque
LEMMA DInvAlways == MCSpec => []DInv
<1>1. MCInit => DInv
      BY StartInv DEF MCInit
<1> QED BY <1>1, DInvKept, PTL DEF MCSpec

\* Between any two steps of the calls of a deque, of any length, in buffers of
\* any size and a map of any limit: the map, its span and the iterators are as
\* _C_is_valid() says; the walk from begin() reaches end() and counts the
\* elements; every buffer and every object is accounted for, while a
\* reservation allocates, moves the span, replaces the map or is undone; and a
\* reservation that max_size() allows always finds its room (_C_prepare).
THEOREM StorageRightAlways == MCSpec => []StorageRight
<1>1. DInv => StorageRight
      BY StorageOf
<1> QED BY <1>1, DInvAlways, PTL

\* what ends a reservation and leaves the elements as they were is its failure
LEMMA UndoneStep ==
  ASSUME DInv, Next, r.pc \in {"alloc", "build"}, r'.pc = "idle", live' = live
  PROVE  d' = r.saved /\ own' = r.own
<1>1. r # Idle /\ r \in Reservations
  <2>1. r.pc # "idle"
        OBVIOUS
  <2> QED BY <2>1, Active DEF Idle
<1>2. Allocate \/ Ready \/ Construct \/ Commit \/ Fail
      BY <1>1 DEF Next, PushBack, PushFront, PopBack, PopFront, Insert, Reserve, Dealloc
<1>3. ~ Allocate
  <2>1. ASSUME Allocate PROVE r'.pc = "alloc"
        BY <1>1, <2>1 DEF Allocate, Reservations
  <2> QED BY <2>1
<1>4. ~ Ready
  <2>1. ASSUME Ready PROVE r'.pc = "build"
    <3>1. PICK x : r' = Build(x, r.back, r.n, r)
          BY <2>1 DEF Ready
    <3> QED BY <1>1, <3>1 DEF Build, Reservations
  <2> QED BY <2>1
<1>5. ~ Construct
  <2>1. ASSUME Construct PROVE r'.pc = "build"
        BY <1>1, <2>1 DEF Construct, Reservations
  <2> QED BY <2>1
<1>6. ~ Commit
  <2>1. ASSUME Commit PROVE FALSE
    <3>1. PICK n \in Nat \ {0} : n = r.n
          BY <1>1 DEF Reservations
    <3>2. PICK room : room = Cells(d.map, r.base, n)
          OBVIOUS
    <3>3. PICK s : s = live
          OBVIOUS
    <3>4. PICK S : S = CellSet \cup {room[i] : i \in 1..n}
          OBVIOUS
    <3>5. s \in Seq(S)
      <4>1. s \in Seq(CellSet) /\ CellSet \subseteq S
            BY <3>3, <3>4 DEF DInv
      <4> QED BY <4>1
    <3>6. room \in Seq(S) /\ Len(room) = n
      <4>1. room = [i \in 1..n |-> room[i]]
            BY <3>2 DEF Cells
      <4>2. room \in [1..n -> S]
            BY <3>4, <4>1
      <4> QED BY <4>2
    <3>7. s = IF r.back THEN s \o room ELSE room \o s
          BY <2>1, <3>1, <3>2, <3>3 DEF Commit
    <3>8. PICK l \in Nat : l = Len(s)
          BY <3>5
    <3>9. Len(s \o room) = l + n
          BY <3>5, <3>6, <3>8, Joined
    <3>10. Len(room \o s) = n + l
          BY <3>5, <3>6, <3>8, Joined
    <3> QED BY <3>7, <3>8, <3>9, <3>10
  <2> QED BY <2>1
<1> QED BY <1>2, <1>3, <1>4, <1>5, <1>6, FailUndoes

\* An insertion that fails, in an allocation or in a construction, leaves the
\* map, the span and both iterators of before, and the buffers of before and no
\* others: whatever was moved over, recentred or replaced (_C_restore).
THEOREM FailureUndoneAlways == MCSpec => FailureUndone
<1>1. DInv /\ [StorageStep \/ ElementStep]_allVars
        => [(r.pc \in {"alloc", "build"} /\ r'.pc = "idle" /\ live' = live) =>
              d' = r.saved /\ own' = r.own]_vars
  <2>1. SUFFICES ASSUME DInv, [StorageStep \/ ElementStep]_allVars, ~ UNCHANGED vars,
                        r.pc \in {"alloc", "build"}, r'.pc = "idle", live' = live
                 PROVE  d' = r.saved /\ own' = r.own
        OBVIOUS
  <2>2. Next
        BY <2>1 DEF StorageStep, ElementStep, allVars, vars
  <2> QED BY <2>1, <2>2, UndoneStep
<1>2. MCSpec => [][StorageStep \/ ElementStep]_allVars
      BY DEF MCSpec
<1> QED BY <1>1, <1>2, DInvAlways, PTL DEF FailureUndone

-----------------------------------------------------------------------------
(* The elements: the operations of a call, and what they lead to.          *)

Blank == -1
Places == -MaxN..(MaxElements + MaxN)
CellMaps == [Places -> Values \cup {Blank}]
Sources == [cell : BOOLEAN, of : Int]
Ops == [do : {"make", "set", "destroy"}, at : Int, src : Sources]

Read(c, s) == IF s.cell THEN c[s.of] ELSE s.of
Readable(c, s) == IF s.cell THEN s.of \in Places /\ c[s.of] # Blank ELSE s.of \in Values

\* an operation on a cell in the right state, and what it does
Sound(c, o) == o.at \in Places /\ (c[o.at] = Blank <=> o.do = "make") /\ Readable(c, o.src)
Effect(c, o) == [c EXCEPT ![o.at] = IF o.do = "destroy" THEN Blank ELSE Read(c, o.src)]

\* the operations p, each of them sound, make w of the cells c
Leads(c, p, w) ==
  \E f : /\ f[0] = c /\ f[Len(p)] = w
         /\ \A i \in 1..Len(p) : Sound(f[i - 1], p[i]) /\ f[i] = Effect(f[i - 1], p[i])

LEMMA LeadsEnd ==
  ASSUME NEW c, NEW w, Leads(c, <<>>, w)
  PROVE  w = c
BY DEF Leads

LEMMA LeadsNone ==
  ASSUME NEW c
  PROVE  Leads(c, <<>>, c)
<1>1. PICK f : f = [i \in {0} |-> c]
      OBVIOUS
<1>2. f[0] = c /\ Len(<<>>) = 0
      BY <1>1
<1> QED BY <1>2 DEF Leads

LEMMA LeadsStep ==
  ASSUME NEW c, NEW w, NEW p \in Seq(Ops), p # <<>>, Leads(c, p, w)
  PROVE  Sound(c, Head(p)) /\ Leads(Effect(c, Head(p)), Tail(p), w)
<1>1. PICK f : /\ f[0] = c /\ f[Len(p)] = w
               /\ \A i \in 1..Len(p) : Sound(f[i - 1], p[i]) /\ f[i] = Effect(f[i - 1], p[i])
      BY DEF Leads
<1>2. PICK n \in Nat : n = Len(p) /\ n > 0 /\ Head(p) = p[1]
      OBVIOUS
<1>3. PICK t : t = Tail(p)
      OBVIOUS
<1>4. t \in Seq(Ops) /\ Len(t) = n - 1 /\ \A i \in 1..(n - 1) : t[i] = p[i + 1]
      BY <1>2, <1>3
<1>5. Sound(c, p[1]) /\ f[1] = Effect(c, p[1])
  <2>1. 1 \in 1..n /\ 1 - 1 = 0
        BY <1>2
  <2> QED BY <1>1, <1>2, <2>1
<1>6. PICK g : g = [i \in 0..(n - 1) |-> f[i + 1]]
      OBVIOUS
<1>7. g[0] = f[1] /\ g[n - 1] = w
  <2>1. 0 \in 0..(n - 1) /\ n - 1 \in 0..(n - 1) /\ 0 + 1 = 1 /\ (n - 1) + 1 = n
        BY <1>2
  <2> QED BY <1>1, <1>2, <1>6, <2>1
<1>8. ASSUME NEW i \in 1..(n - 1) PROVE Sound(g[i - 1], t[i]) /\ g[i] = Effect(g[i - 1], t[i])
  <2>1. /\ i - 1 \in 0..(n - 1) /\ i \in 0..(n - 1) /\ (i - 1) + 1 = i
        /\ i + 1 \in 1..n /\ (i + 1) - 1 = i
        BY <1>2
  <2>2. g[i - 1] = f[i] /\ g[i] = f[i + 1] /\ t[i] = p[i + 1]
        BY <1>4, <1>6, <2>1
  <2>3. Sound(f[i], p[i + 1]) /\ f[i + 1] = Effect(f[i], p[i + 1])
        BY <1>1, <1>2, <2>1
  <2> QED BY <2>2, <2>3
<1>9. Leads(f[1], t, w)
      BY <1>4, <1>7, <1>8 DEF Leads
<1> QED BY <1>2, <1>3, <1>5, <1>9

LEMMA LeadsJoined ==
  ASSUME NEW c, NEW v, NEW w, NEW p \in Seq(Ops), NEW q \in Seq(Ops), Leads(c, p, v), Leads(v, q, w)
  PROVE  Leads(c, p \o q, w)
<1>1. PICK a \in Nat, b \in Nat : a = Len(p) /\ b = Len(q)
      OBVIOUS
<1>2. PICK f : /\ f[0] = c /\ f[a] = v
               /\ \A i \in 1..a : Sound(f[i - 1], p[i]) /\ f[i] = Effect(f[i - 1], p[i])
      BY <1>1 DEF Leads
<1>3. PICK g : /\ g[0] = v /\ g[b] = w
               /\ \A i \in 1..b : Sound(g[i - 1], q[i]) /\ g[i] = Effect(g[i - 1], q[i])
      BY <1>1 DEF Leads
<1>4. PICK t : t = p \o q
      OBVIOUS
<1>5. t \in Seq(Ops) /\ Len(t) = a + b /\ \A i \in 1..(a + b) : t[i] = IF i <= a THEN p[i] ELSE q[i - a]
      BY <1>1, <1>4, Joined
<1>6. PICK h : h = [i \in 0..(a + b) |-> IF i <= a THEN f[i] ELSE g[i - a]]
      OBVIOUS
<1>7. \A i \in 0..a : h[i] = f[i]
      BY <1>6
<1>8. \A i \in 0..b : h[a + i] = g[i]
  <2>1. ASSUME NEW i \in 0..b PROVE h[a + i] = g[i]
    <3>1. CASE i = 0
          BY <1>2, <1>3, <1>7, <3>1
    <3>2. CASE i # 0
      <4>1. PICK k \in Int : k = a + i
            OBVIOUS
      <4>2. k \in 0..(a + b) /\ ~ (k <= a) /\ k - a = i
            BY <3>2, <4>1
      <4> QED BY <1>6, <4>1, <4>2
    <3> QED BY <3>1, <3>2
  <2> QED BY <2>1
<1>9. ASSUME NEW i \in 1..(a + b) PROVE Sound(h[i - 1], t[i]) /\ h[i] = Effect(h[i - 1], t[i])
  <2>1. CASE i <= a
    <3>1. i \in 1..a /\ i \in 0..a /\ i - 1 \in 0..a
          BY <2>1
    <3>2. h[i - 1] = f[i - 1] /\ h[i] = f[i] /\ t[i] = p[i]
          BY <1>5, <1>7, <2>1, <3>1
    <3> QED BY <1>2, <3>1, <3>2
  <2>2. CASE ~ (i <= a)
    <3>1. PICK k \in 1..b : k = i - a
          BY <2>2
    <3>2. k \in 0..b /\ k - 1 \in 0..b /\ a + k = i /\ a + (k - 1) = i - 1
          BY <3>1
    <3>3. h[i - 1] = g[k - 1] /\ h[i] = g[k] /\ t[i] = q[k]
          BY <1>5, <1>8, <2>2, <3>1, <3>2
    <3> QED BY <1>3, <3>3
  <2> QED BY <2>1, <2>2
<1>10. h[0] = c /\ h[a + b] = w
  <2>1. 0 \in 0..a /\ b \in 0..b
        OBVIOUS
  <2> QED BY <1>2, <1>3, <1>7, <1>8, <2>1
<1> QED BY <1>4, <1>5, <1>9, <1>10 DEF Leads

-----------------------------------------------------------------------------
(* Lists of operations on consecutive cells.                               *)

\* the cells from `to' on hold what was read of src
Over(c, to, src) ==
  [i \in Places |-> IF i \in to..(to + Len(src) - 1) THEN Read(c, src[i - to + 1]) ELSE c[i]]
Wiped(c, to, n) == [i \in Places |-> IF i \in to..(to + n - 1) THEN Blank ELSE c[i]]

LEMMA ReadIn ==
  ASSUME NEW c \in CellMaps, NEW s \in Sources, Readable(c, s), Values \subseteq Nat
  PROVE  Read(c, s) \in Values /\ Read(c, s) # Blank
<1>1. CASE s.cell
      BY <1>1 DEF CellMaps, Readable, Read, Blank
<1>2. CASE ~ s.cell
      BY <1>2 DEF Readable, Read, Blank
<1> QED BY <1>1, <1>2

LEMMA DoSeq ==
  ASSUME NEW what \in {"make", "set", "destroy"}, NEW to \in Int, NEW src \in Seq(Sources),
         NEW p, p = Elements!Do(what, to, src)
  PROVE  /\ p \in Seq(Ops) /\ Len(p) = Len(src)
         /\ \A i \in 1..Len(src) : p[i] = [do |-> what, at |-> to + i - 1, src |-> src[i]]
<1>1. PICK n \in Nat : n = Len(src)
      OBVIOUS
<1>2. \A i \in 1..n : src[i] \in Sources
      BY <1>1
<1>3. \A i \in 1..n : [do |-> what, at |-> to + i - 1, src |-> src[i]] \in Ops
      BY <1>2 DEF Ops
<1> QED BY <1>1, <1>3 DEF Elements!Do

LEMMA CellsSeq ==
  ASSUME NEW from \in Int, NEW n \in Nat
  PROVE  /\ Elements!Cells(from, n) \in Seq(Sources)
         /\ Len(Elements!Cells(from, n)) = n
         /\ \A i \in 1..n : Elements!Cells(from, n)[i] = [cell |-> TRUE, of |-> from + i - 1]
BY DEF Elements!Cells, Elements!FromCell, Sources

LEMMA Forward ==
  ASSUME NEW c \in CellMaps, NEW what \in {"make", "set"}, NEW to \in Int,
         NEW src \in Seq(Sources), Values \subseteq Nat,
         \A i \in 1..Len(src) : to + i - 1 \in Places,
         \A i \in 1..Len(src) : c[to + i - 1] = Blank <=> what = "make",
         \A i \in 1..Len(src) : Readable(c, src[i]),
         \A i, j \in 1..Len(src) :
           src[i].cell /\ j < i /\ src[i].of = to + j - 1 => Read(c, src[j]) = c[src[i].of]
  PROVE  Leads(c, Elements!Do(what, to, src), Over(c, to, src)) /\ Over(c, to, src) \in CellMaps
<1>1. PICK n \in Nat : n = Len(src)
      OBVIOUS
<1>2. PICK p : p = Elements!Do(what, to, src)
      OBVIOUS
<1>3. /\ Len(p) = n
      /\ \A i \in 1..n : p[i].do = what /\ p[i].at = to + i - 1 /\ p[i].src = src[i]
  <2>1. /\ Len(p) = n
        /\ \A i \in 1..n : p[i] = [do |-> what, at |-> to + i - 1, src |-> src[i]]
        BY <1>1, <1>2, DoSeq
  <2> QED BY <2>1
<1>4. \A i \in 1..n : src[i] \in Sources /\ Read(c, src[i]) \in Values /\ Read(c, src[i]) # Blank
      BY <1>1, ReadIn
<1>5. PICK f : f = [k \in 0..n |->
        [i \in Places |-> IF i \in to..(to + k - 1) THEN Read(c, src[i - to + 1]) ELSE c[i]]]
      OBVIOUS
<1>6. ASSUME NEW k \in 0..n
      PROVE  /\ f[k] \in CellMaps
             /\ \A i \in Places : i \in to..(to + k - 1) => f[k][i] = Read(c, src[i - to + 1])
             /\ \A i \in Places : ~ (i \in to..(to + k - 1)) => f[k][i] = c[i]
  <2>1. f[k] = [i \in Places |-> IF i \in to..(to + k - 1) THEN Read(c, src[i - to + 1]) ELSE c[i]]
        BY <1>5
  <2>2. ASSUME NEW i \in Places, i \in to..(to + k - 1)
        PROVE  Read(c, src[i - to + 1]) \in Values
    <3>1. i \in Int
          BY <2>2
    <3>2. i - to + 1 \in 1..n
          BY <1>1, <2>2, <3>1
    <3> QED BY <1>4, <3>2
  <2>3. \A i \in Places : c[i] \in Values \cup {Blank}
        BY DEF CellMaps
  <2> QED BY <2>1, <2>2, <2>3 DEF CellMaps
<1>7. ASSUME NEW k \in 1..n
      PROVE  Sound(f[k - 1], p[k]) /\ f[k] = Effect(f[k - 1], p[k])
  <2>1. PICK at \in Int : at = to + k - 1
        OBVIOUS
  <2>2. at \in Places /\ (c[at] = Blank <=> what = "make") /\ Readable(c, src[k])
        BY <1>1, <2>1
  <2>3. PICK g : g = f[k - 1]
        OBVIOUS
  <2>4. /\ g \in CellMaps
        /\ \A i \in Places : i \in to..(at - 1) => g[i] = Read(c, src[i - to + 1])
        /\ \A i \in Places : ~ (i \in to..(at - 1)) => g[i] = c[i]
    <3>1. k - 1 \in 0..n /\ to + (k - 1) - 1 = at - 1
          BY <2>1
    <3> QED BY <1>6, <2>3, <3>1
  <2>5. g[at] = c[at]
        BY <2>1, <2>2, <2>4
  <2>6. src[k].cell => g[src[k].of] = c[src[k].of] /\ src[k].of \in Places
    <3> SUFFICES ASSUME src[k].cell PROVE g[src[k].of] = c[src[k].of] /\ src[k].of \in Places
        OBVIOUS
    <3>1. PICK o : o = src[k].of
          OBVIOUS
    <3>2. o \in Places /\ o \in Int
          BY <2>2, <3>1 DEF Readable, Places
    <3>3. CASE o \in to..(at - 1)
      <4>1. PICK j \in Int : j = o - to + 1
            BY <3>2
      <4>2. j \in 1..n /\ j < k /\ o = to + j - 1
            BY <2>1, <3>2, <3>3, <4>1
      <4>3. Read(c, src[j]) = c[o]
            BY <1>1, <3>1, <4>2
      <4> QED BY <2>4, <3>1, <3>2, <3>3, <4>1, <4>3
    <3>4. CASE ~ (o \in to..(at - 1))
          BY <2>4, <3>1, <3>2, <3>4
    <3> QED BY <3>3, <3>4
  <2>7. Readable(g, src[k]) /\ Read(g, src[k]) = Read(c, src[k])
        BY <2>2, <2>6 DEF Readable, Read
  <2>8. p[k].do = what /\ p[k].at = at /\ p[k].src = src[k]
        BY <1>3, <2>1
  <2>9. Sound(g, p[k])
        BY <2>2, <2>5, <2>7, <2>8 DEF Sound
  <2>10. Effect(g, p[k]) = [g EXCEPT ![at] = Read(c, src[k])]
        BY <2>7, <2>8 DEF Effect
  <2>11. ASSUME NEW i \in Places PROVE f[k][i] = [g EXCEPT ![at] = Read(c, src[k])][i]
    <3>1. i \in Int /\ g \in [Places -> Values \cup {Blank}]
          BY <2>4 DEF Places, CellMaps
    <3>2. CASE i = at
      <4>1. i \in to..(to + k - 1) /\ i - to + 1 = k /\ k \in 0..n
            BY <2>1, <3>2
      <4>2. f[k][i] = Read(c, src[k])
            BY <1>6, <4>1
      <4> QED BY <2>2, <3>1, <3>2, <4>2
    <3>3. CASE i # at
      <4>1. k \in 0..n /\ (i \in to..(to + k - 1) <=> i \in to..(at - 1))
            BY <2>1, <3>1, <3>3
      <4>2. f[k][i] = g[i]
            BY <1>6, <2>4, <4>1
      <4> QED BY <3>1, <3>3, <4>2
    <3> QED BY <3>2, <3>3
  <2>12. f[k] = [g EXCEPT ![at] = Read(c, src[k])]
    <3>1. k \in 0..n
          OBVIOUS
    <3>2. f[k] \in [Places -> Values \cup {Blank}] /\ g \in [Places -> Values \cup {Blank}]
          BY <1>6, <2>4, <3>1 DEF CellMaps
    <3> QED BY <2>11, <3>2
  <2> QED BY <2>3, <2>9, <2>10, <2>12
<1>8. f[0] = c /\ f[n] = Over(c, to, src) /\ f[n] \in CellMaps
  <2>1. 0 \in 0..n /\ n \in 0..n
        OBVIOUS
  <2>2. f[n] = Over(c, to, src)
        BY <1>1, <1>5, <2>1 DEF Over
  <2>3. \A i \in Places : f[0][i] = c[i]
    <3>1. \A i \in Places : ~ (i \in to..(to + 0 - 1))
          BY DEF Places
    <3> QED BY <1>6, <2>1, <3>1
  <2>4. f[0] = c
        BY <1>6, <2>1, <2>3 DEF CellMaps
  <2> QED BY <1>6, <2>1, <2>2, <2>4
<1> QED BY <1>2, <1>3, <1>7, <1>8 DEF Leads

LEMMA ReverseSeq ==
  ASSUME NEW S, NEW p \in Seq(S)
  PROVE  /\ Reverse(p) \in Seq(S) /\ Len(Reverse(p)) = Len(p)
         /\ \A i \in 1..Len(p) : Reverse(p)[i] = p[Len(p) - i + 1]
<1>1. PICK n \in Nat : n = Len(p) /\ \A i \in 1..n : p[i] \in S
      OBVIOUS
<1>2. Reverse(p) = [i \in 1..n |-> p[(n - i) + 1]]
      BY <1>1 DEF Reverse
<1>3. \A i \in 1..n : (n - i) + 1 \in 1..n
      OBVIOUS
<1>4. \A i \in 1..n : p[(n - i) + 1] \in S
      BY <1>1, <1>3
<1> QED BY <1>1, <1>2, <1>4

LEMMA CopyBackRight ==
  ASSUME NEW c \in CellMaps, NEW from \in Int, NEW to \in Int, NEW n \in Nat, from <= to,
         Values \subseteq Nat,
         \A i \in 1..n : to + i - 1 \in Places /\ c[to + i - 1] # Blank,
         \A i \in 1..n : from + i - 1 \in Places /\ c[from + i - 1] # Blank
  PROVE  /\ Leads(c, Elements!CopyBackward(from, to, n), Over(c, to, Elements!Cells(from, n)))
         /\ Over(c, to, Elements!Cells(from, n)) \in CellMaps
         /\ Elements!CopyBackward(from, to, n) \in Seq(Ops)
         /\ Len(Elements!CopyBackward(from, to, n)) = n
         /\ \A i \in 1..n : Elements!CopyBackward(from, to, n)[i].do = "set"
<1>1. PICK src : src = Elements!Cells(from, n)
      OBVIOUS
<1>2. /\ src \in Seq(Sources) /\ Len(src) = n
      /\ \A i \in 1..n : src[i] = [cell |-> TRUE, of |-> from + i - 1]
      BY <1>1, CellsSeq
<1>3. PICK q : q = Elements!Do("set", to, src)
      OBVIOUS
<1>4. /\ q \in Seq(Ops) /\ Len(q) = n
      /\ \A i \in 1..n : q[i] = [do |-> "set", at |-> to + i - 1, src |-> src[i]]
      BY <1>2, <1>3, DoSeq
<1>5. PICK p : p = Reverse(q)
      OBVIOUS
<1>6. p \in Seq(Ops) /\ Len(p) = n /\ \A i \in 1..n : p[i] = q[n - i + 1]
      BY <1>4, <1>5, ReverseSeq
<1>7. ASSUME NEW i \in 1..n
      PROVE  /\ p[i].do = "set" /\ p[i].at = to + n - i
             /\ p[i].src = [cell |-> TRUE, of |-> from + n - i]
  <2>1. PICK j \in 1..n : j = n - i + 1
        OBVIOUS
  <2>2. to + j - 1 = to + n - i /\ from + j - 1 = from + n - i
        BY <2>1
  <2>3. p[i] = q[j] /\ q[j] = [do |-> "set", at |-> to + j - 1, src |-> src[j]]
        BY <1>4, <1>6, <2>1
  <2>4. src[j] = [cell |-> TRUE, of |-> from + j - 1]
        BY <1>2
  <2>5. p[i].do = "set" /\ p[i].at = to + j - 1 /\ p[i].src = src[j]
        BY <2>3
  <2> QED BY <2>2, <2>4, <2>5
<1>8. p = Elements!CopyBackward(from, to, n)
      BY <1>1, <1>3, <1>5 DEF Elements!CopyBackward, Elements!Copy, Elements!Set, Elements!Reverse, Reverse
<1>9. PICK f : f = [k \in 0..n |->
        [i \in Places |-> IF i \in (to + n - k)..(to + n - 1) THEN c[i - to + from] ELSE c[i]]]
      OBVIOUS
<1>10. ASSUME NEW k \in 0..n
       PROVE  /\ f[k] \in CellMaps
              /\ \A i \in Places : i \in (to + n - k)..(to + n - 1) => f[k][i] = c[i - to + from]
              /\ \A i \in Places : ~ (i \in (to + n - k)..(to + n - 1)) => f[k][i] = c[i]
  <2>1. f[k] = [i \in Places |-> IF i \in (to + n - k)..(to + n - 1) THEN c[i - to + from] ELSE c[i]]
        BY <1>9
  <2>2. ASSUME NEW i \in Places, i \in (to + n - k)..(to + n - 1)
        PROVE  c[i - to + from] \in Values \cup {Blank}
    <3>1. i \in Int
          BY <2>2
    <3>2. PICK j \in Int : j = i - to + 1
          BY <3>1
    <3>3. j \in 1..n /\ from + j - 1 = i - to + from
          BY <2>2, <3>1, <3>2
    <3> QED BY <3>3 DEF CellMaps
  <2>3. \A i \in Places : c[i] \in Values \cup {Blank}
        BY DEF CellMaps
  <2> QED BY <2>1, <2>2, <2>3 DEF CellMaps
<1>11. ASSUME NEW k \in 1..n
       PROVE  Sound(f[k - 1], p[k]) /\ f[k] = Effect(f[k - 1], p[k])
  <2>1. PICK at \in Int, o \in Int : at = to + n - k /\ o = from + n - k
        OBVIOUS
  <2>2. at \in Places /\ o \in Places /\ c[at] # Blank /\ c[o] # Blank
    <3>1. PICK j \in 1..n : j = n - k + 1
          OBVIOUS
    <3>2. at = to + j - 1 /\ o = from + j - 1
          BY <2>1, <3>1
    <3> QED BY <3>2
  <2>3. PICK g : g = f[k - 1]
        OBVIOUS
  <2>4. /\ g \in CellMaps
        /\ \A i \in Places : i \in (at + 1)..(to + n - 1) => g[i] = c[i - to + from]
        /\ \A i \in Places : ~ (i \in (at + 1)..(to + n - 1)) => g[i] = c[i]
    <3>1. k - 1 \in 0..n /\ to + n - (k - 1) = at + 1
          BY <2>1
    <3> QED BY <1>10, <2>3, <3>1
  <2>5. g[at] = c[at] /\ g[o] = c[o]
    <3>1. ~ (at \in (at + 1)..(to + n - 1)) /\ ~ (o \in (at + 1)..(to + n - 1))
          BY <2>1
    <3> QED BY <2>2, <2>4, <3>1
  <2>6. p[k].do = "set" /\ p[k].at = at /\ p[k].src.cell = TRUE /\ p[k].src.of = o
    <3>1. p[k].do = "set" /\ p[k].at = at /\ p[k].src = [cell |-> TRUE, of |-> o]
          BY <1>7, <2>1
    <3> QED BY <3>1
  <2>7. Sound(g, p[k])
        BY <2>2, <2>5, <2>6 DEF Sound, Readable
  <2>8. Effect(g, p[k]) = [g EXCEPT ![at] = c[o]]
        BY <2>5, <2>6 DEF Effect, Read
  <2>9. k \in 0..n
        OBVIOUS
  <2>10. ASSUME NEW i \in Places PROVE f[k][i] = [g EXCEPT ![at] = c[o]][i]
    <3>1. i \in Int /\ g \in [Places -> Values \cup {Blank}]
          BY <2>4 DEF Places, CellMaps
    <3>2. CASE i = at
      <4>1. i \in (to + n - k)..(to + n - 1) /\ i - to + from = o
            BY <2>1, <3>2
      <4>2. f[k][i] = c[o]
            BY <1>10, <2>9, <4>1
      <4> QED BY <2>2, <3>1, <3>2, <4>2
    <3>3. CASE i # at
      <4>1. i \in (to + n - k)..(to + n - 1) <=> i \in (at + 1)..(to + n - 1)
            BY <2>1, <3>1, <3>3
      <4>2. f[k][i] = g[i]
            BY <1>10, <2>4, <2>9, <4>1
      <4> QED BY <3>1, <3>3, <4>2
    <3> QED BY <3>2, <3>3
  <2>11. f[k] = [g EXCEPT ![at] = c[o]]
    <3>1. f[k] \in [Places -> Values \cup {Blank}] /\ g \in [Places -> Values \cup {Blank}]
          BY <1>10, <2>4, <2>9 DEF CellMaps
    <3> QED BY <2>10, <3>1
  <2> QED BY <2>3, <2>7, <2>8, <2>11
<1>12. f[0] = c /\ f[n] = Over(c, to, src) /\ f[n] \in CellMaps
  <2>1. 0 \in 0..n /\ n \in 0..n
        OBVIOUS
  <2>2. \A i \in Places : f[0][i] = c[i]
    <3>1. \A i \in Places : ~ (i \in (to + n - 0)..(to + n - 1))
          BY DEF Places
    <3> QED BY <1>10, <2>1, <3>1
  <2>3. f[0] = c
        BY <1>10, <2>1, <2>2 DEF CellMaps
  <2>4. ASSUME NEW i \in Places PROVE f[n][i] = Over(c, to, src)[i]
    <3>1. i \in Int
          BY DEF Places
    <3>2. CASE i \in to..(to + n - 1)
      <4>1. PICK j \in Int : j = i - to + 1
            BY <3>1
      <4>2. i \in (to + n - n)..(to + n - 1) /\ j \in 1..n /\ from + j - 1 = i - to + from
            BY <3>1, <3>2, <4>1
      <4>3. Read(c, src[j]) = c[i - to + from]
            BY <1>2, <4>2 DEF Read
      <4> QED BY <1>2, <1>10, <2>1, <3>2, <4>1, <4>2, <4>3 DEF Over
    <3>3. CASE ~ (i \in to..(to + n - 1))
      <4>1. ~ (i \in (to + n - n)..(to + n - 1))
            BY <3>1, <3>3
      <4> QED BY <1>2, <1>10, <2>1, <3>3, <4>1 DEF Over
    <3> QED BY <3>2, <3>3
  <2>5. f[n] = Over(c, to, src)
    <3>1. f[n] \in CellMaps /\ DOMAIN Over(c, to, src) = Places
          BY <1>10, <2>1 DEF Over
    <3>2. f[n] = [i \in Places |-> f[n][i]]
          BY <3>1 DEF CellMaps
    <3>3. Over(c, to, src) = [i \in Places |-> Over(c, to, src)[i]]
          BY DEF Over
    <3> QED BY <2>4, <3>2, <3>3
  <2> QED BY <1>10, <2>1, <2>3, <2>5
<1>13. Leads(c, p, Over(c, to, src))
      BY <1>6, <1>11, <1>12 DEF Leads
<1>14. \A i \in 1..n : p[i].do = "set"
      BY <1>7
<1> QED BY <1>1, <1>6, <1>8, <1>12, <1>13, <1>14

LEMMA Wipes ==
  ASSUME NEW c \in CellMaps, NEW p \in Seq(Ops),
         \A i \in 1..Len(p) : p[i].do = "destroy" /\ p[i].at \in Places /\ c[p[i].at] # Blank,
         \A i \in 1..Len(p) : p[i].src.cell /\ p[i].src.of = p[i].at,
         \A i, j \in 1..Len(p) : p[i].at = p[j].at => i = j,
         NEW w, w = [i \in Places |-> IF \E j \in 1..Len(p) : p[j].at = i THEN Blank ELSE c[i]]
  PROVE  Leads(c, p, w)
<1>1. PICK n \in Nat : n = Len(p)
      OBVIOUS
<1>2. PICK f : f = [k \in 0..n |->
        [i \in Places |-> IF \E j \in 1..k : p[j].at = i THEN Blank ELSE c[i]]]
      OBVIOUS
<1>3. ASSUME NEW k \in 0..n
      PROVE  /\ f[k] \in CellMaps
             /\ \A i \in Places : (\E j \in 1..k : p[j].at = i) => f[k][i] = Blank
             /\ \A i \in Places : ~ (\E j \in 1..k : p[j].at = i) => f[k][i] = c[i]
  <2>1. f[k] = [i \in Places |-> IF \E j \in 1..k : p[j].at = i THEN Blank ELSE c[i]]
        BY <1>2
  <2>2. \A i \in Places : c[i] \in Values \cup {Blank}
        BY DEF CellMaps
  <2> QED BY <2>1, <2>2 DEF CellMaps
<1>4. ASSUME NEW k \in 1..n
      PROVE  Sound(f[k - 1], p[k]) /\ f[k] = Effect(f[k - 1], p[k])
  <2>1. PICK at : at = p[k].at
        OBVIOUS
  <2>2. /\ at \in Places /\ c[at] # Blank
        /\ p[k].do = "destroy" /\ p[k].src.cell /\ p[k].src.of = at
        BY <1>1, <2>1
  <2>3. PICK g : g = f[k - 1]
        OBVIOUS
  <2>4. PICK m \in 0..n : m = k - 1
        OBVIOUS
  <2>5. /\ g \in CellMaps
        /\ \A i \in Places : (\E j \in 1..m : p[j].at = i) => g[i] = Blank
        /\ \A i \in Places : ~ (\E j \in 1..m : p[j].at = i) => g[i] = c[i]
        BY <1>3, <2>3, <2>4
  <2>6. ~ (\E j \in 1..m : p[j].at = at)
    <3>1. SUFFICES ASSUME NEW j \in 1..m, p[j].at = at PROVE FALSE
          OBVIOUS
    <3>2. j \in 1..n /\ j # k /\ k \in 1..n
          BY <2>4
    <3> QED BY <1>1, <2>1, <3>1, <3>2
  <2>7. g[at] = c[at]
        BY <2>2, <2>5, <2>6
  <2>8. Sound(g, p[k])
    <3>1. ~ (p[k].do = "make")
          BY <2>2
    <3> QED BY <2>1, <2>2, <2>7, <3>1 DEF Sound, Readable
  <2>9. Effect(g, p[k]) = [g EXCEPT ![at] = Blank]
        BY <2>1, <2>2 DEF Effect
  <2>10. k \in 0..n
        OBVIOUS
  <2>11. ASSUME NEW i \in Places PROVE f[k][i] = [g EXCEPT ![at] = Blank][i]
    <3>1. g \in [Places -> Values \cup {Blank}]
          BY <2>5 DEF CellMaps
    <3>2. CASE i = at
      <4>1. \E j \in 1..k : p[j].at = i
            BY <2>1, <3>2
      <4>2. f[k][i] = Blank
            BY <1>3, <2>10, <4>1
      <4> QED BY <2>2, <3>1, <3>2, <4>2
    <3>3. CASE i # at
      <4>1. (\E j \in 1..k : p[j].at = i) <=> (\E j \in 1..m : p[j].at = i)
        <5>1. ASSUME NEW j \in 1..k, p[j].at = i PROVE j \in 1..m
              BY <2>1, <2>4, <3>3, <5>1
        <5>2. \A j \in 1..m : j \in 1..k
              BY <2>4
        <5> QED BY <5>1, <5>2
      <4>2. f[k][i] = g[i]
            BY <1>3, <2>5, <2>10, <4>1
      <4> QED BY <3>1, <3>3, <4>2
    <3> QED BY <3>2, <3>3
  <2>12. f[k] = [g EXCEPT ![at] = Blank]
    <3>1. f[k] \in [Places -> Values \cup {Blank}] /\ g \in [Places -> Values \cup {Blank}]
          BY <1>3, <2>5, <2>10 DEF CellMaps
    <3> QED BY <2>11, <3>1
  <2> QED BY <2>3, <2>8, <2>9, <2>12
<1>5. f[0] = c
  <2>1. 0 \in 0..n
        OBVIOUS
  <2>2. \A i \in Places : ~ (\E j \in 1..0 : p[j].at = i)
        OBVIOUS
  <2>3. \A i \in Places : f[0][i] = c[i]
        BY <1>3, <2>1, <2>2
  <2> QED BY <1>3, <2>1, <2>3 DEF CellMaps
<1>6. f[n] = w
  <2>1. n \in 0..n
        OBVIOUS
  <2> QED BY <1>1, <1>2, <2>1
<1> QED BY <1>1, <1>4, <1>5, <1>6 DEF Leads

LEMMA DestroyRight ==
  ASSUME NEW c \in CellMaps, NEW to \in Int, NEW n \in Nat,
         \A i \in 1..n : to + i - 1 \in Places /\ c[to + i - 1] # Blank
  PROVE  /\ Leads(c, Elements!Destroy(to, n), Wiped(c, to, n))
         /\ Leads(c, Elements!Reverse(Elements!Destroy(to, n)), Wiped(c, to, n))
         /\ Elements!Destroy(to, n) \in Seq(Ops)
         /\ Len(Elements!Destroy(to, n)) = n
         /\ \A i \in 1..n : Elements!Destroy(to, n)[i].do = "destroy"
         /\ Elements!Reverse(Elements!Destroy(to, n)) \in Seq(Ops)
         /\ Len(Elements!Reverse(Elements!Destroy(to, n))) = n
         /\ \A i \in 1..n : Elements!Reverse(Elements!Destroy(to, n))[i].do = "destroy"
<1>1. PICK src : src = Elements!Cells(to, n)
      OBVIOUS
<1>2. /\ src \in Seq(Sources) /\ Len(src) = n
      /\ \A i \in 1..n : src[i] = [cell |-> TRUE, of |-> to + i - 1]
      BY <1>1, CellsSeq
<1>3. PICK p : p = Elements!Destroy(to, n)
      OBVIOUS
<1>4. /\ p \in Seq(Ops) /\ Len(p) = n
      /\ \A i \in 1..n : p[i] = [do |-> "destroy", at |-> to + i - 1, src |-> src[i]]
  <2>1. p = Elements!Do("destroy", to, src)
        BY <1>1, <1>3 DEF Elements!Destroy
  <2>2. src \in Seq(Sources) /\ "destroy" \in {"make", "set", "destroy"}
        BY <1>2
  <2>3. /\ p \in Seq(Ops) /\ Len(p) = Len(src)
        /\ \A i \in 1..Len(src) : p[i] = [do |-> "destroy", at |-> to + i - 1, src |-> src[i]]
        BY <2>1, <2>2, DoSeq
  <2> QED BY <1>2, <2>3
<1>5. ASSUME NEW i \in 1..n
      PROVE  p[i].do = "destroy" /\ p[i].at = to + i - 1 /\ p[i].src.cell /\ p[i].src.of = to + i - 1
      BY <1>2, <1>4
<1>6. PICK q : q = Reverse(p)
      OBVIOUS
<1>7. q \in Seq(Ops) /\ Len(q) = n /\ \A i \in 1..n : q[i] = p[n - i + 1]
      BY <1>4, <1>6, ReverseSeq
<1>8. q = Elements!Reverse(Elements!Destroy(to, n))
      BY <1>3, <1>6 DEF Reverse, Elements!Reverse
<1>9. Leads(c, p, Wiped(c, to, n))
  <2>1. \A i \in 1..n : p[i].do = "destroy" /\ p[i].at \in Places /\ c[p[i].at] # Blank
        BY <1>5
  <2>2. \A i \in 1..n : p[i].src.cell /\ p[i].src.of = p[i].at
        BY <1>5
  <2>3. \A i, j \in 1..n : p[i].at = p[j].at => i = j
        BY <1>5
  <2>4. PICK w : w = [i \in Places |-> IF \E j \in 1..n : p[j].at = i THEN Blank ELSE c[i]]
        OBVIOUS
  <2>7. Leads(c, p, w)
        BY <1>4, <2>1, <2>2, <2>3, <2>4, Wipes
  <2>5. ASSUME NEW i \in Places PROVE (\E j \in 1..n : p[j].at = i) <=> i \in to..(to + n - 1)
    <3>1. i \in Int
          BY DEF Places
    <3>2. ASSUME i \in to..(to + n - 1) PROVE \E j \in 1..n : p[j].at = i
      <4>1. PICK j \in 1..n : j = i - to + 1
            BY <3>1, <3>2
      <4>2. p[j].at = to + j - 1 /\ to + j - 1 = i
            BY <1>5, <3>1, <4>1
      <4> QED BY <4>2
    <3>3. ASSUME NEW j \in 1..n, p[j].at = i PROVE i \in to..(to + n - 1)
      <4>1. i = to + j - 1
            BY <1>5, <3>3
      <4> QED BY <4>1
    <3> QED BY <3>2, <3>3
  <2>6. w = Wiped(c, to, n)
        BY <2>4, <2>5 DEF Wiped
  <2> QED BY <2>6, <2>7
<1>10. ASSUME NEW i \in 1..n
      PROVE  q[i].do = "destroy" /\ q[i].at = to + n - i /\ q[i].src.cell /\ q[i].src.of = to + n - i
  <2>1. PICK j \in 1..n : j = n - i + 1
        OBVIOUS
  <2>2. q[i] = p[j] /\ to + j - 1 = to + n - i
        BY <1>7, <2>1
  <2> QED BY <1>5, <2>2
<1>11. Leads(c, q, Wiped(c, to, n))
  <2>1. ASSUME NEW i \in 1..n
        PROVE  q[i].do = "destroy" /\ q[i].at \in Places /\ c[q[i].at] # Blank
    <3>1. PICK j \in 1..n : j = n - i + 1
          OBVIOUS
    <3>2. to + j - 1 = to + n - i
          BY <3>1
    <3> QED BY <1>10, <3>2
  <2>2. \A i \in 1..n : q[i].src.cell /\ q[i].src.of = q[i].at
        BY <1>10
  <2>3. \A i, j \in 1..n : q[i].at = q[j].at => i = j
        BY <1>10
  <2>4. PICK w : w = [i \in Places |-> IF \E j \in 1..n : q[j].at = i THEN Blank ELSE c[i]]
        OBVIOUS
  <2>7. Leads(c, q, w)
        BY <1>7, <2>1, <2>2, <2>3, <2>4, Wipes
  <2>5. ASSUME NEW i \in Places PROVE (\E j \in 1..n : q[j].at = i) <=> i \in to..(to + n - 1)
    <3>1. i \in Int
          BY DEF Places
    <3>2. ASSUME i \in to..(to + n - 1) PROVE \E j \in 1..n : q[j].at = i
      <4>1. PICK j \in 1..n : j = to + n - i
            BY <3>1, <3>2
      <4>2. q[j].at = to + n - j /\ to + n - j = i
            BY <1>10, <3>1, <4>1
      <4> QED BY <4>2
    <3>3. ASSUME NEW j \in 1..n, q[j].at = i PROVE i \in to..(to + n - 1)
      <4>1. i = to + n - j
            BY <1>10, <3>3
      <4> QED BY <4>1
    <3> QED BY <3>2, <3>3
  <2>6. w = Wiped(c, to, n)
        BY <2>4, <2>5 DEF Wiped
  <2> QED BY <2>6, <2>7
<1>12. (\A i \in 1..n : p[i].do = "destroy") /\ (\A i \in 1..n : q[i].do = "destroy")
       BY <1>5, <1>10
<1> QED BY <1>3, <1>4, <1>7, <1>8, <1>9, <1>11, <1>12

-----------------------------------------------------------------------------
(* Steps of a call: what they are of, from which cells to which.           *)

Only(S, p) == \A i \in 1..Len(p) : p[i].do \in S
Way(S, c, p, w) ==
  /\ c \in CellMaps /\ w \in CellMaps
  /\ p \in Seq(Ops) /\ Only(S, p)
  /\ Leads(c, p, w)

\* w is c with what was read of src, or n cells of c, from the cell `to' on
Placed(c, w, to, src) ==
  /\ \A i \in Places : to <= i /\ i < to + Len(src) => w[i] = Read(c, src[i - to + 1]) /\ w[i] # Blank
  /\ \A i \in Places : ~ (to <= i /\ i < to + Len(src)) => w[i] = c[i]
Copied(c, w, from, to, n) ==
  /\ \A i \in Places : to <= i /\ i < to + n => w[i] = c[i - to + from] /\ w[i] # Blank
  /\ \A i \in Places : ~ (to <= i /\ i < to + n) => w[i] = c[i]

Bound == Values \subseteq Nat /\ MaxN \in Nat /\ MaxElements \in Nat

LEMMA Bounded == Bound
BY ElementsAssumption DEF Elements!DequeShiftAssumption, Bound

LEMMA WayJoined ==
  ASSUME NEW S, NEW c, NEW v, NEW w, NEW p, NEW q, Way(S, c, p, v), Way(S, v, q, w)
  PROVE  Way(S, c, p \o q, w)
<1>1. p \in Seq(Ops) /\ q \in Seq(Ops) /\ Leads(c, p, v) /\ Leads(v, q, w) /\ Only(S, p) /\ Only(S, q)
      BY DEF Way
<1>2. Leads(c, p \o q, w)
      BY <1>1, LeadsJoined
<1>3. PICK a \in Nat, b \in Nat : a = Len(p) /\ b = Len(q)
      BY <1>1
<1>4. /\ p \o q \in Seq(Ops) /\ Len(p \o q) = a + b
      /\ \A i \in 1..(a + b) : (p \o q)[i] = IF i <= a THEN p[i] ELSE q[i - a]
      BY <1>1, <1>3, Joined
<1>5. ASSUME NEW i \in 1..(a + b) PROVE (p \o q)[i].do \in S
  <2>1. CASE i <= a
        BY <1>1, <1>3, <1>4, <2>1 DEF Only
  <2>2. CASE ~ (i <= a)
    <3>1. PICK k \in 1..b : k = i - a
          BY <2>2
    <3>2. q[k].do \in S
          BY <1>1, <1>3 DEF Only
    <3> QED BY <1>4, <2>2, <3>1, <3>2
  <2> QED BY <2>1, <2>2
<1> QED BY <1>2, <1>4, <1>5 DEF Way, Only

LEMMA OverPlaced ==
  ASSUME NEW c \in CellMaps, NEW to \in Int, NEW src \in Seq(Sources), Values \subseteq Nat,
         \A i \in 1..Len(src) : Readable(c, src[i])
  PROVE  Placed(c, Over(c, to, src), to, src)
<1>1. PICK n \in Nat : n = Len(src) /\ \A i \in 1..n : src[i] \in Sources
      OBVIOUS
<1>2. \A i \in 1..n : Read(c, src[i]) # Blank
      BY <1>1, ReadIn
<1>3. ASSUME NEW i \in Places, to <= i /\ i < to + n
      PROVE  Over(c, to, src)[i] = Read(c, src[i - to + 1]) /\ Over(c, to, src)[i] # Blank
  <2>1. i \in Int
        BY DEF Places
  <2>2. i \in to..(to + n - 1) /\ i - to + 1 \in 1..n
        BY <1>3, <2>1
  <2> QED BY <1>1, <1>2, <2>2 DEF Over
<1>4. ASSUME NEW i \in Places, ~ (to <= i /\ i < to + n)
      PROVE  Over(c, to, src)[i] = c[i]
  <2>1. i \in Int
        BY DEF Places
  <2>2. ~ (i \in to..(to + n - 1))
        BY <1>4, <2>1
  <2> QED BY <1>1, <2>2 DEF Over
<1> QED BY <1>1, <1>3, <1>4 DEF Placed

LEMMA WayMake ==
  ASSUME NEW S, NEW c \in CellMaps, NEW to \in Int, NEW n \in Nat, NEW src \in Seq(Sources),
         n = Len(src), "make" \in S, Values \subseteq Nat,
         \A i \in Int : to <= i /\ i < to + n => i \in Places /\ c[i] = Blank,
         \A i \in 1..n : Readable(c, src[i])
  PROVE  \E w : Way(S, c, Elements!Make(to, src), w) /\ Placed(c, w, to, src)
<1>1. PICK p : p = Elements!Do("make", to, src)
      OBVIOUS
<1>2. /\ p \in Seq(Ops) /\ Len(p) = n
      /\ \A i \in 1..n : p[i] = [do |-> "make", at |-> to + i - 1, src |-> src[i]]
      BY <1>1, DoSeq
<1>3. Only(S, p)
  <2>1. ASSUME NEW i \in 1..n PROVE p[i].do \in S
    <3>1. p[i] = [do |-> "make", at |-> to + i - 1, src |-> src[i]]
          BY <1>2
    <3> QED BY <3>1
  <2> QED BY <1>2, <2>1 DEF Only
<1>4. ASSUME NEW i \in 1..n PROVE to + i - 1 \in Places /\ c[to + i - 1] = Blank
  <2>1. to + i - 1 \in Int /\ to <= to + i - 1 /\ to + i - 1 < to + n
        OBVIOUS
  <2> QED BY <2>1
<1>5. ASSUME NEW i \in 1..n, NEW j \in 1..n, src[i].cell, src[i].of = to + j - 1 PROVE FALSE
      BY <1>4, <1>5 DEF Readable
<1>6. Leads(c, p, Over(c, to, src)) /\ Over(c, to, src) \in CellMaps
      BY <1>1, <1>4, <1>5, Forward
<1>7. Placed(c, Over(c, to, src), to, src)
      BY OverPlaced
<1>8. p = Elements!Make(to, src)
      BY <1>1 DEF Elements!Make
<1> QED BY <1>2, <1>3, <1>6, <1>7, <1>8 DEF Way

LEMMA WaySet ==
  ASSUME NEW S, NEW c \in CellMaps, NEW to \in Int, NEW n \in Nat, NEW src \in Seq(Sources),
         n = Len(src), n > 0 => "set" \in S, Values \subseteq Nat,
         \A i \in Int : to <= i /\ i < to + n => i \in Places /\ c[i] # Blank,
         \A i \in 1..n : Readable(c, src[i]),
         \A i, j \in 1..n :
           src[i].cell /\ j < i /\ src[i].of = to + j - 1 => Read(c, src[j]) = c[src[i].of]
  PROVE  \E w : Way(S, c, Elements!Set(to, src), w) /\ Placed(c, w, to, src)
<1>1. PICK p : p = Elements!Do("set", to, src)
      OBVIOUS
<1>2. /\ p \in Seq(Ops) /\ Len(p) = n
      /\ \A i \in 1..n : p[i] = [do |-> "set", at |-> to + i - 1, src |-> src[i]]
      BY <1>1, DoSeq
<1>3. Only(S, p)
  <2>1. ASSUME NEW i \in 1..n PROVE p[i].do \in S
    <3>1. n > 0
          OBVIOUS
    <3>2. p[i] = [do |-> "set", at |-> to + i - 1, src |-> src[i]]
          BY <1>2
    <3> QED BY <3>1, <3>2
  <2> QED BY <1>2, <2>1 DEF Only
<1>4. ASSUME NEW i \in 1..n PROVE to + i - 1 \in Places /\ c[to + i - 1] # Blank
  <2>1. to + i - 1 \in Int /\ to <= to + i - 1 /\ to + i - 1 < to + n
        OBVIOUS
  <2> QED BY <2>1
<1>5. Leads(c, p, Over(c, to, src)) /\ Over(c, to, src) \in CellMaps
  <2>1. "set" # "make"
        OBVIOUS
  <2>2. \A i \in 1..n : c[to + i - 1] = Blank <=> "set" = "make"
        BY <1>4, <2>1
  <2> QED BY <1>1, <1>4, <2>2, Forward
<1>6. Placed(c, Over(c, to, src), to, src)
      BY OverPlaced
<1>7. p = Elements!Set(to, src)
      BY <1>1 DEF Elements!Set
<1> QED BY <1>2, <1>3, <1>5, <1>6, <1>7 DEF Way

LEMMA CellsRead ==
  ASSUME NEW c \in CellMaps, NEW from \in Int, NEW n \in Nat,
         NEW s, s = Elements!Cells(from, n),
         \A i \in Int : from <= i /\ i < from + n => i \in Places /\ c[i] # Blank
  PROVE  /\ s \in Seq(Sources) /\ Len(s) = n
         /\ \A i \in 1..n : /\ s[i].cell /\ s[i].of = from + i - 1
                            /\ Readable(c, s[i]) /\ Read(c, s[i]) = c[from + i - 1]
<1>1. /\ s \in Seq(Sources) /\ Len(s) = n
      /\ \A i \in 1..n : s[i] = [cell |-> TRUE, of |-> from + i - 1]
      BY CellsSeq
<1>2. ASSUME NEW i \in 1..n
      PROVE  s[i].cell /\ s[i].of = from + i - 1 /\ Readable(c, s[i]) /\ Read(c, s[i]) = c[from + i - 1]
  <2>1. PICK k \in Int : k = from + i - 1
        OBVIOUS
  <2>2. k \in Places /\ c[k] # Blank
    <3>1. from <= k /\ k < from + n
          BY <2>1
    <3> QED BY <3>1
  <2>3. s[i].cell /\ s[i].of = k
        BY <1>1, <2>1
  <2> QED BY <2>1, <2>2, <2>3 DEF Readable, Read
<1> QED BY <1>1, <1>2

LEMMA PlacedCopied ==
  ASSUME NEW c \in CellMaps, NEW w, NEW from \in Int, NEW to \in Int, NEW n \in Nat,
         \A i \in Int : from <= i /\ i < from + n => i \in Places /\ c[i] # Blank,
         Placed(c, w, to, Elements!Cells(from, n))
  PROVE  Copied(c, w, from, to, n)
<1>1. PICK s : s = Elements!Cells(from, n)
      OBVIOUS
<1>2. Len(s) = n /\ \A i \in 1..n : Read(c, s[i]) = c[from + i - 1]
  <2>1. Len(s) = n /\ \A i \in 1..n : s[i] = [cell |-> TRUE, of |-> from + i - 1]
        BY <1>1, CellsSeq
  <2>2. ASSUME NEW i \in 1..n PROVE Read(c, s[i]) = c[from + i - 1]
    <3>1. s[i] = [cell |-> TRUE, of |-> from + i - 1]
          BY <2>1
    <3> QED BY <3>1 DEF Read
  <2> QED BY <2>1, <2>2
<1>3. ASSUME NEW i \in Places, to <= i /\ i < to + n
      PROVE  w[i] = c[i - to + from] /\ w[i] # Blank
  <2>1. i \in Int
        BY DEF Places
  <2>2. PICK k \in Int : k = i - to + 1
        BY <2>1
  <2>3. k \in 1..n /\ from + k - 1 = i - to + from
        BY <1>3, <2>1, <2>2
  <2>4. w[i] = Read(c, s[k]) /\ w[i] # Blank
        BY <1>1, <1>2, <1>3, <2>2 DEF Placed
  <2> QED BY <1>2, <2>3, <2>4
<1>4. \A i \in Places : ~ (to <= i /\ i < to + n) => w[i] = c[i]
      BY <1>1, <1>2 DEF Placed
<1> QED BY <1>3, <1>4 DEF Copied

LEMMA WayMakeCells ==
  ASSUME NEW S, NEW c \in CellMaps, NEW from \in Int, NEW to \in Int, NEW n \in Nat,
         "make" \in S, Values \subseteq Nat,
         \A i \in Int : to <= i /\ i < to + n => i \in Places /\ c[i] = Blank,
         \A i \in Int : from <= i /\ i < from + n => i \in Places /\ c[i] # Blank
  PROVE  \E w : Way(S, c, Elements!Make(to, Elements!Cells(from, n)), w) /\ Copied(c, w, from, to, n)
<1>1. PICK s : s = Elements!Cells(from, n)
      OBVIOUS
<1>2. s \in Seq(Sources) /\ Len(s) = n
      BY <1>1, CellsSeq
<1>3. \A i \in 1..n : Readable(c, s[i])
  <2>1. ASSUME NEW i \in 1..n PROVE Readable(c, s[i])
        BY <1>1, CellsRead
  <2> QED BY <2>1
<1>4. PICK w : Way(S, c, Elements!Make(to, s), w) /\ Placed(c, w, to, s)
      BY <1>2, <1>3, WayMake
<1>5. Copied(c, w, from, to, n)
      BY <1>1, <1>4, PlacedCopied
<1> QED BY <1>1, <1>4, <1>5

LEMMA WayCopy ==
  ASSUME NEW S, NEW c \in CellMaps, NEW from \in Int, NEW to \in Int, NEW n \in Nat,
         n > 0 => "set" \in S, n > 0 => to <= from, Values \subseteq Nat,
         \A i \in Int : to <= i /\ i < to + n => i \in Places /\ c[i] # Blank,
         \A i \in Int : from <= i /\ i < from + n => i \in Places /\ c[i] # Blank
  PROVE  \E w : Way(S, c, Elements!Copy(from, to, n), w) /\ Copied(c, w, from, to, n)
<1>1. PICK s : s = Elements!Cells(from, n)
      OBVIOUS
<1>2. s \in Seq(Sources) /\ Len(s) = n
      BY <1>1, CellsSeq
<1>3. ASSUME NEW i \in 1..n PROVE s[i].of = from + i - 1 /\ Readable(c, s[i])
      BY <1>1, CellsRead
<1>4. ASSUME NEW i \in 1..n, NEW j \in 1..n, j < i, s[i].of = to + j - 1 PROVE FALSE
      BY <1>3, <1>4
<1>5. PICK w : Way(S, c, Elements!Set(to, s), w) /\ Placed(c, w, to, s)
      BY <1>2, <1>3, <1>4, WaySet
<1>6. Copied(c, w, from, to, n)
      BY <1>1, <1>5, PlacedCopied
<1>7. Elements!Copy(from, to, n) = Elements!Set(to, s)
      BY <1>1 DEF Elements!Copy
<1> QED BY <1>5, <1>6, <1>7

LEMMA WayBack ==
  ASSUME NEW S, NEW c \in CellMaps, NEW from \in Int, NEW to \in Int, NEW n \in Nat,
         n > 0 => "set" \in S, from <= to, Values \subseteq Nat,
         \A i \in Int : to <= i /\ i < to + n => i \in Places /\ c[i] # Blank,
         \A i \in Int : from <= i /\ i < from + n => i \in Places /\ c[i] # Blank
  PROVE  \E w : Way(S, c, Elements!CopyBackward(from, to, n), w) /\ Copied(c, w, from, to, n)
<1>1. PICK s : s = Elements!Cells(from, n)
      OBVIOUS
<1>2. s \in Seq(Sources) /\ Len(s) = n
      BY <1>1, CellsSeq
<1>3. \A i \in 1..n : Readable(c, s[i])
  <2>1. ASSUME NEW i \in 1..n PROVE Readable(c, s[i])
        BY <1>1, CellsRead
  <2> QED BY <2>1
<1>4. \A i \in 1..n : to + i - 1 \in Places /\ c[to + i - 1] # Blank
  <2>1. ASSUME NEW i \in 1..n PROVE to + i - 1 \in Places /\ c[to + i - 1] # Blank
    <3>1. to + i - 1 \in Int /\ to <= to + i - 1 /\ to + i - 1 < to + n
          OBVIOUS
    <3> QED BY <3>1
  <2> QED BY <2>1
<1>5. \A i \in 1..n : from + i - 1 \in Places /\ c[from + i - 1] # Blank
  <2>1. ASSUME NEW i \in 1..n PROVE from + i - 1 \in Places /\ c[from + i - 1] # Blank
    <3>1. from + i - 1 \in Int /\ from <= from + i - 1 /\ from + i - 1 < from + n
          OBVIOUS
    <3> QED BY <3>1
  <2> QED BY <2>1
<1>6. PICK p : p = Elements!CopyBackward(from, to, n)
      OBVIOUS
<1>7. /\ Leads(c, p, Over(c, to, s)) /\ Over(c, to, s) \in CellMaps
      /\ p \in Seq(Ops) /\ Len(p) = n /\ \A i \in 1..n : p[i].do = "set"
      BY <1>1, <1>4, <1>5, <1>6, CopyBackRight
<1>8. Only(S, p)
  <2>1. ASSUME NEW i \in 1..n PROVE p[i].do \in S
    <3>1. n > 0
          OBVIOUS
    <3> QED BY <1>7, <3>1
  <2> QED BY <1>7, <2>1 DEF Only
<1>9. Placed(c, Over(c, to, s), to, s)
      BY <1>2, <1>3, OverPlaced
<1>10. Copied(c, Over(c, to, s), from, to, n)
      BY <1>1, <1>9, PlacedCopied
<1> QED BY <1>6, <1>7, <1>8, <1>10 DEF Way

LEMMA Slice ==
  ASSUME NEW T, NEW s \in Seq(T), NEW a \in Nat, NEW b \in Nat, a >= 1, a <= b + 1, b <= Len(s),
         NEW t, t = SubSeq(s, a, b)
  PROVE  /\ t \in Seq(T) /\ Len(t) = b - a + 1
         /\ \A i \in 1..(b - a + 1) : t[i] = s[a + i - 1]
OBVIOUS

LEMMA FirstOf ==
  ASSUME NEW T, NEW s \in Seq(T), NEW b \in Nat, b <= Len(s), NEW t, t = SubSeq(s, 1, b)
  PROVE  t \in Seq(T) /\ Len(t) = b /\ \A i \in 1..b : t[i] = s[i]
OBVIOUS

-----------------------------------------------------------------------------
(* Insertions.                                                             *)

Full(c, n) == \A i \in Places : c[i] # Blank <=> 0 <= i /\ i < n

\* an insertion of src at off, by operations of S
Asked(S, c, off, src) ==
  /\ "make" \in S /\ (off # 0 /\ off # size => "set" \in S)
  /\ c \in CellMaps /\ Full(c, size)
  /\ size \in Int /\ off \in Int /\ 0 <= off /\ off <= size
  /\ src \in Seq(Sources) /\ 1 <= Len(src) /\ Len(src) <= MaxN /\ size + Len(src) <= MaxElements
  /\ \A i \in 1..Len(src) : Readable(c, src[i])
  /\ off # 0 /\ off # size => \A i \in 1..Len(src) : ~ src[i].cell

\* w holds what an insertion of src at off into c makes, from the cell `by' on
Inserted(c, w, off, src, by) ==
  /\ \A k \in Int : 0 <= k /\ k < size + Len(src) => k + by \in Places /\ w[k + by] # Blank
  /\ \A k \in Int : 0 <= k /\ k < off => w[k + by] = c[k]
  /\ \A k \in Int : off <= k /\ k < off + Len(src) => w[k + by] = Read(c, src[k - off + 1])
  /\ \A k \in Int : off + Len(src) <= k /\ k < size + Len(src) => w[k + by] = c[k - Len(src)]

LEMMA SameRead ==
  ASSUME NEW c, NEW d1, NEW s \in Sources, Readable(c, s),
         s.cell => \A i \in Places : c[i] # Blank => d1[i] = c[i]
  PROVE  Readable(d1, s) /\ Read(d1, s) = Read(c, s)
BY DEF Readable, Read, Sources

LEMMA InsertPast ==
  ASSUME NEW S, NEW c, NEW off, NEW src, Asked(S, c, off, src),
         Elements!Shorter(off), size - off < Len(src)
  PROVE  \E w : Way(S, c, Elements!InsertProg(off, src), w) /\ Inserted(c, w, off, src, 0)
<1>1. PICK n \in Nat, rem \in Nat, m \in Nat : n = Len(src) /\ rem = size - off /\ m = n - rem
      BY DEF Asked
<1>2. /\ c \in CellMaps /\ Full(c, size) /\ size \in Int /\ off \in Int /\ 0 <= off /\ off <= size
      /\ src \in Seq(Sources) /\ 1 <= n /\ n <= MaxN /\ size + n <= MaxElements
      /\ "make" \in S /\ MaxN \in Nat /\ MaxElements \in Nat /\ Values \subseteq Nat
      BY <1>1, Bounded DEF Asked, Bound
<1>3. rem > 0 => off # 0 /\ off # size
      BY <1>1, <1>2 DEF Elements!Shorter
<1>4. PICK s1 : s1 = SubSeq(src, rem + 1, n)
      OBVIOUS
<1>5. s1 \in Seq(Sources) /\ Len(s1) = m /\ \A i \in 1..m : s1[i] = src[rem + i]
      BY <1>1, <1>2, <1>4, Slice
<1>6. PICK s3 : s3 = SubSeq(src, 1, rem)
      OBVIOUS
<1>7. s3 \in Seq(Sources) /\ Len(s3) = rem /\ \A i \in 1..rem : s3[i] = src[i]
      BY <1>1, <1>2, <1>6, FirstOf
<1>8. \A i \in 1..n : src[i] \in Sources /\ Readable(c, src[i])
      BY <1>1, <1>2 DEF Asked
<1>9. \A i \in Int : i \in Places <=> -MaxN <= i /\ i <= MaxElements + MaxN
      BY <1>2 DEF Places
<1>10. \A i \in Int : -MaxN <= i /\ i < size + n => i \in Places
       BY <1>2, <1>9
<1>11. PICK v1 : Way(S, c, Elements!Make(size, s1), v1) /\ Placed(c, v1, size, s1)
  <2>1. \A i \in Int : size <= i /\ i < size + m => i \in Places /\ c[i] = Blank
        BY <1>1, <1>2, <1>10 DEF Full
  <2>2. \A i \in 1..m : rem + i \in 1..n
        BY <1>1
  <2>3. \A i \in 1..m : Readable(c, s1[i])
        BY <1>5, <1>8, <2>2
  <2> QED BY <1>2, <1>5, <2>1, <2>3, WayMake
<1>12. v1 \in CellMaps
       BY <1>11 DEF Way
<1>13. /\ \A i \in Places : size <= i /\ i < size + m => v1[i] = Read(c, s1[i - size + 1]) /\ v1[i] # Blank
       /\ \A i \in Places : ~ (size <= i /\ i < size + m) => v1[i] = c[i]
       BY <1>5, <1>11 DEF Placed
<1>14. PICK v2 : /\ Way(S, v1, Elements!Make(size + n - rem, Elements!Cells(off, rem)), v2)
                 /\ Copied(v1, v2, off, size + n - rem, rem)
  <2>0. PICK t \in Int : t = size + n - rem
        BY <1>2
  <2>1. ASSUME NEW i \in Int, size + n - rem <= i /\ i < size + n - rem + rem
        PROVE  i \in Places /\ v1[i] = Blank
    <3>1. i \in Places /\ ~ (size <= i /\ i < size + m) /\ ~ (0 <= i /\ i < size)
          BY <1>1, <1>2, <1>10, <2>1
    <3> QED BY <1>2, <1>13, <3>1 DEF Full
  <2>2. ASSUME NEW i \in Int, off <= i /\ i < off + rem
        PROVE  i \in Places /\ v1[i] # Blank
    <3>1. i \in Places /\ ~ (size <= i /\ i < size + m) /\ (0 <= i /\ i < size)
          BY <1>1, <1>2, <1>10, <2>2
    <3> QED BY <1>2, <1>13, <3>1 DEF Full
  <2>3. \A i \in Int : t <= i /\ i < t + rem => i \in Places /\ v1[i] = Blank
        BY <2>0, <2>1
  <2>4. \E v : Way(S, v1, Elements!Make(t, Elements!Cells(off, rem)), v) /\ Copied(v1, v, off, t, rem)
        BY <1>2, <1>12, <2>2, <2>3, WayMakeCells
  <2> QED BY <2>0, <2>4
<1>15. v2 \in CellMaps
       BY <1>14 DEF Way
<1>16. /\ \A i \in Places : size + m <= i /\ i < size + n => v2[i] = v1[i - (size + n - rem) + off] /\ v2[i] # Blank
       /\ \A i \in Places : ~ (size + m <= i /\ i < size + n) => v2[i] = v1[i]
  <2>1. /\ \A i \in Places : size + n - rem <= i /\ i < size + n - rem + rem => v2[i] = v1[i - (size + n - rem) + off] /\ v2[i] # Blank
        /\ \A i \in Places : ~ (size + n - rem <= i /\ i < size + n - rem + rem) => v2[i] = v1[i]
        BY <1>14 DEF Copied
  <2>2. size + n - rem = size + m /\ size + n - rem + rem = size + n
        BY <1>1, <1>2
  <2> QED BY <2>1, <2>2
<1>17. PICK w : Way(S, v2, Elements!Set(off, s3), w) /\ Placed(v2, w, off, s3)
  <2>1. ASSUME NEW i \in Int, off <= i /\ i < off + rem
        PROVE  i \in Places /\ v2[i] # Blank
    <3>1. i \in Places /\ ~ (size <= i /\ i < size + m) /\ ~ (size + m <= i /\ i < size + n) /\ 0 <= i /\ i < size
          BY <1>1, <1>2, <1>10, <2>1
    <3> QED BY <1>2, <1>13, <1>16, <3>1 DEF Full
  <2>2. rem > 0 => "set" \in S /\ \A i \in 1..rem : ~ src[i].cell
    <3>1. \A i \in 1..rem : i \in 1..n
          BY <1>1
    <3> QED BY <1>1, <1>3, <3>1 DEF Asked
  <2>3. ASSUME NEW i \in 1..rem PROVE Readable(v2, s3[i]) /\ ~ s3[i].cell
    <3>1. rem > 0 /\ i \in 1..n /\ s3[i] = src[i]
          BY <1>1, <1>7
    <3>2. ~ src[i].cell /\ Readable(c, src[i])
          BY <1>8, <2>2, <3>1
    <3> QED BY <3>1, <3>2 DEF Readable
  <2> QED BY <1>2, <1>7, <1>15, <2>1, <2>2, <2>3, WaySet
<1>18. /\ \A i \in Places : off <= i /\ i < off + rem => w[i] = Read(v2, s3[i - off + 1]) /\ w[i] # Blank
       /\ \A i \in Places : ~ (off <= i /\ i < off + rem) => w[i] = v2[i]
       BY <1>7, <1>17 DEF Placed
<1>19. Way(S, c, Elements!InsertProg(off, src), w)
  <2>1. Elements!InsertProg(off, src) =
          (Elements!Make(size, s1) \o Elements!Make(size + n - rem, Elements!Cells(off, rem)))
            \o Elements!Set(off, s3)
        BY <1>1, <1>4, <1>6 DEF Elements!InsertProg
  <2>2. Way(S, c, Elements!Make(size, s1) \o Elements!Make(size + n - rem, Elements!Cells(off, rem)), v2)
        BY <1>11, <1>14, WayJoined
  <2> QED BY <1>17, <2>1, <2>2, WayJoined
<1>20. ASSUME NEW k \in Int, 0 <= k, k < off PROVE k \in Places /\ w[k] = c[k] /\ w[k] # Blank
  <2>1. /\ k \in Places /\ ~ (size <= k /\ k < size + m) /\ ~ (size + m <= k /\ k < size + n)
        /\ ~ (off <= k /\ k < off + rem) /\ 0 <= k /\ k < size
        BY <1>1, <1>2, <1>10, <1>20
  <2> QED BY <1>2, <1>13, <1>16, <1>18, <2>1 DEF Full
<1>21. ASSUME NEW k \in Int, off <= k, k < off + n
       PROVE  k \in Places /\ w[k] = Read(c, src[k - off + 1]) /\ w[k] # Blank
  <2>1. k \in Places
        BY <1>1, <1>2, <1>10, <1>21
  <2>2. CASE k < size
    <3>1. PICK j \in 1..rem : j = k - off + 1
          BY <1>1, <1>2, <1>21, <2>2
    <3>2. off <= k /\ k < off + rem /\ rem > 0 /\ j \in 1..n
          BY <1>1, <1>2, <1>21, <2>2
    <3>3. w[k] = Read(v2, src[j]) /\ w[k] # Blank
          BY <1>7, <1>18, <2>1, <3>1, <3>2
    <3>4. ~ src[j].cell
          BY <1>1, <1>3, <3>2 DEF Asked
    <3> QED BY <2>1, <3>1, <3>3, <3>4 DEF Read
  <2>3. CASE ~ (k < size)
    <3>1. PICK j \in 1..m : j = k - size + 1
          BY <1>1, <1>2, <1>21, <2>3
    <3>2. /\ size <= k /\ k < size + m /\ ~ (size + m <= k /\ k < size + n) /\ ~ (off <= k /\ k < off + rem)
          /\ rem + j = k - off + 1
          BY <1>1, <1>2, <1>21, <2>3, <3>1
    <3>3. w[k] = Read(c, s1[j]) /\ w[k] # Blank /\ s1[j] = src[rem + j]
          BY <1>5, <1>13, <1>16, <1>18, <2>1, <3>1, <3>2
    <3> QED BY <2>1, <3>2, <3>3
  <2> QED BY <2>2, <2>3
<1>22. ASSUME NEW k \in Int, off + n <= k, k < size + n
       PROVE  k \in Places /\ w[k] = c[k - n] /\ w[k] # Blank
  <2>1. PICK j \in Int : j = k - n
        OBVIOUS
  <2>2. /\ k \in Places /\ size + m <= k /\ ~ (off <= k /\ k < off + rem)
        /\ k - (size + n - rem) + off = j
        /\ j \in Places /\ ~ (size <= j /\ j < size + m) /\ 0 <= j /\ j < size
        BY <1>1, <1>2, <1>10, <1>22, <2>1
  <2>3. w[k] = v1[j] /\ w[k] # Blank
        BY <1>16, <1>18, <1>22, <2>2
  <2>4. v1[j] = c[j]
        BY <1>13, <2>2
  <2> QED BY <2>1, <2>2, <2>3, <2>4
<1>23. Inserted(c, w, off, src, 0)
  <2>1. ASSUME NEW k \in Int, 0 <= k, k < size + n PROVE k \in Places /\ w[k] # Blank
    <3>1. k < off \/ (off <= k /\ k < off + n) \/ off + n <= k
          BY <1>1, <1>2
    <3> QED BY <1>20, <1>21, <1>22, <2>1, <3>1
  <2>2. \A k \in Int : k + 0 = k
        OBVIOUS
  <2> QED BY <1>1, <1>20, <1>21, <1>22, <2>1, <2>2 DEF Inserted
<1> QED BY <1>19, <1>23

LEMMA InsertBehind ==
  ASSUME NEW S, NEW c, NEW off, NEW src, Asked(S, c, off, src),
         Elements!Shorter(off), ~ (size - off < Len(src))
  PROVE  \E w : Way(S, c, Elements!InsertProg(off, src), w) /\ Inserted(c, w, off, src, 0)
<1>1. PICK n \in Nat, rem \in Nat : n = Len(src) /\ rem = size - off /\ n <= rem
      BY DEF Asked
<1>2. /\ c \in CellMaps /\ Full(c, size) /\ size \in Int /\ off \in Int /\ 0 <= off /\ off <= size
      /\ src \in Seq(Sources) /\ 1 <= n /\ n <= MaxN /\ size + n <= MaxElements
      /\ "make" \in S /\ MaxN \in Nat /\ MaxElements \in Nat /\ Values \subseteq Nat
      BY <1>1, Bounded DEF Asked, Bound
<1>3. off # 0 /\ off # size /\ rem <= off
      BY <1>1, <1>2 DEF Elements!Shorter
<1>4. PICK m \in Nat, f \in Int, t \in Int : m = rem - n /\ f = size - n /\ t = off + n
  <2>1. rem - n \in Nat /\ size - n \in Int /\ off + n \in Int
        BY <1>1, <1>2
  <2> QED BY <2>1
<1>5. "set" \in S /\ \A i \in 1..n : ~ src[i].cell /\ Readable(c, src[i])
      BY <1>1, <1>3 DEF Asked
<1>6. \A i \in Int : i \in Places <=> -MaxN <= i /\ i <= MaxElements + MaxN
      BY <1>2 DEF Places
<1>7. \A i \in Int : -MaxN <= i /\ i < size + n => i \in Places
      BY <1>2, <1>6
<1>8. PICK v1 : /\ Way(S, c, Elements!Make(size, Elements!Cells(f, n)), v1)
                /\ Copied(c, v1, f, size, n)
  <2>1. ASSUME NEW i \in Int, size <= i /\ i < size + n
        PROVE  i \in Places /\ c[i] = Blank
    <3>1. i \in Places /\ ~ (0 <= i /\ i < size)
          BY <1>1, <1>2, <1>7, <2>1
    <3> QED BY <1>2, <3>1 DEF Full
  <2>2. ASSUME NEW i \in Int, f <= i /\ i < f + n
        PROVE  i \in Places /\ c[i] # Blank
    <3>1. i \in Places /\ 0 <= i /\ i < size
          BY <1>1, <1>2, <1>4, <1>7, <2>2
    <3> QED BY <1>2, <3>1 DEF Full
  <2> QED BY <1>2, <2>1, <2>2, WayMakeCells
<1>9. v1 \in CellMaps
      BY <1>8 DEF Way
<1>10. /\ \A i \in Places : size <= i /\ i < size + n => v1[i] = c[i - size + f] /\ v1[i] # Blank
       /\ \A i \in Places : ~ (size <= i /\ i < size + n) => v1[i] = c[i]
       BY <1>8 DEF Copied
<1>11. PICK v2 : Way(S, v1, Elements!CopyBackward(off, t, m), v2) /\ Copied(v1, v2, off, t, m)
  <2>1. ASSUME NEW i \in Int, off <= i /\ i < size
        PROVE  i \in Places /\ v1[i] # Blank
    <3>1. i \in Places /\ 0 <= i /\ i < size /\ ~ (size <= i /\ i < size + n)
          BY <1>1, <1>2, <1>7, <2>1
    <3> QED BY <1>2, <1>10, <3>1 DEF Full
  <2>2. \A i \in Int : (t <= i /\ i < t + m) \/ (off <= i /\ i < off + m) => off <= i /\ i < size
        BY <1>1, <1>2, <1>4
  <2>3. off <= t
        BY <1>2, <1>4
  <2>4. \A i \in Int : t <= i /\ i < t + m => i \in Places /\ v1[i] # Blank
        BY <2>1, <2>2
  <2>5. \A i \in Int : off <= i /\ i < off + m => i \in Places /\ v1[i] # Blank
        BY <2>1, <2>2
  <2> QED BY <1>2, <1>5, <1>9, <2>3, <2>4, <2>5, WayBack
<1>12. v2 \in CellMaps
       BY <1>11 DEF Way
<1>13. /\ \A i \in Places : t <= i /\ i < t + m => v2[i] = v1[i - t + off] /\ v2[i] # Blank
       /\ \A i \in Places : ~ (t <= i /\ i < t + m) => v2[i] = v1[i]
       BY <1>11 DEF Copied
<1>14. PICK w : Way(S, v2, Elements!Set(off, src), w) /\ Placed(v2, w, off, src)
  <2>1. ASSUME NEW i \in Int, off <= i /\ i < off + n
        PROVE  i \in Places /\ v2[i] # Blank
    <3>1. i \in Places /\ ~ (size <= i /\ i < size + n) /\ ~ (t <= i /\ i < t + m) /\ 0 <= i /\ i < size
          BY <1>1, <1>2, <1>4, <1>7, <2>1
    <3> QED BY <1>2, <1>10, <1>13, <3>1 DEF Full
  <2>2. \A i \in 1..n : Readable(v2, src[i])
        BY <1>5 DEF Readable
  <2> QED BY <1>1, <1>2, <1>5, <1>12, <2>1, <2>2, WaySet
<1>15. /\ \A i \in Places : off <= i /\ i < off + n => w[i] = Read(v2, src[i - off + 1]) /\ w[i] # Blank
       /\ \A i \in Places : ~ (off <= i /\ i < off + n) => w[i] = v2[i]
       BY <1>1, <1>14 DEF Placed
<1>16. Way(S, c, Elements!InsertProg(off, src), w)
  <2>1. Elements!InsertProg(off, src) =
          (Elements!Make(size, Elements!Cells(f, n)) \o Elements!CopyBackward(off, t, m))
            \o Elements!Set(off, src)
    <3>1. ~ (rem < n)
          BY <1>1
    <3> QED BY <1>1, <1>4, <3>1 DEF Elements!InsertProg
  <2>2. Way(S, c, Elements!Make(size, Elements!Cells(f, n)) \o Elements!CopyBackward(off, t, m), v2)
        BY <1>8, <1>11, WayJoined
  <2> QED BY <1>14, <2>1, <2>2, WayJoined
<1>17. ASSUME NEW k \in Int, 0 <= k, k < off PROVE k \in Places /\ w[k] = c[k] /\ w[k] # Blank
  <2>1. /\ k \in Places /\ ~ (size <= k /\ k < size + n) /\ ~ (t <= k /\ k < t + m)
        /\ ~ (off <= k /\ k < off + n) /\ 0 <= k /\ k < size
        BY <1>1, <1>2, <1>4, <1>7, <1>17
  <2> QED BY <1>2, <1>10, <1>13, <1>15, <2>1 DEF Full
<1>18. ASSUME NEW k \in Int, off <= k, k < off + n
       PROVE  k \in Places /\ w[k] = Read(c, src[k - off + 1]) /\ w[k] # Blank
  <2>1. PICK j \in 1..n : j = k - off + 1
        BY <1>1, <1>2, <1>18
  <2>2. k \in Places
        BY <1>1, <1>2, <1>7, <1>18
  <2>3. w[k] = Read(v2, src[j]) /\ w[k] # Blank
        BY <1>15, <1>18, <2>1, <2>2
  <2> QED BY <1>5, <2>1, <2>2, <2>3 DEF Read
<1>19. ASSUME NEW k \in Int, off + n <= k, k < size + n
       PROVE  k \in Places /\ w[k] = c[k - n] /\ w[k] # Blank
  <2>1. PICK j \in Int : j = k - n
        OBVIOUS
  <2>2. /\ k \in Places /\ ~ (off <= k /\ k < off + n)
        /\ j \in Places /\ ~ (size <= j /\ j < size + n) /\ 0 <= j /\ j < size
        BY <1>1, <1>2, <1>7, <1>19, <2>1
  <2>3. CASE k < size
    <3>1. t <= k /\ k < t + m /\ k - t + off = j
          BY <1>1, <1>2, <1>4, <1>19, <2>1, <2>3
    <3>2. w[k] = v1[j] /\ w[k] # Blank
          BY <1>13, <1>15, <2>2, <3>1
    <3> QED BY <1>10, <2>1, <2>2, <3>2
  <2>4. CASE ~ (k < size)
    <3>1. ~ (t <= k /\ k < t + m) /\ size <= k /\ k < size + n /\ k - size + f = j
          BY <1>1, <1>2, <1>4, <1>19, <2>1, <2>4
    <3> QED BY <1>10, <1>13, <1>15, <2>1, <2>2, <3>1
  <2> QED BY <2>3, <2>4
<1>20. Inserted(c, w, off, src, 0)
  <2>1. ASSUME NEW k \in Int, 0 <= k, k < size + n PROVE k \in Places /\ w[k] # Blank
    <3>1. k < off \/ (off <= k /\ k < off + n) \/ off + n <= k
          BY <1>1, <1>2
    <3> QED BY <1>17, <1>18, <1>19, <2>1, <3>1
  <2>2. \A k \in Int : k + 0 = k
        OBVIOUS
  <2> QED BY <1>1, <1>17, <1>18, <1>19, <2>1, <2>2 DEF Inserted
<1> QED BY <1>16, <1>20

LEMMA InsertAhead ==
  ASSUME NEW S, NEW c, NEW off, NEW src, Asked(S, c, off, src),
         ~ Elements!Shorter(off), off < Len(src)
  PROVE  \E w : Way(S, c, Elements!InsertProg(off, src), w) /\ Inserted(c, w, off, src, -Len(src))
<1>1. PICK n \in Nat, m \in Nat : n = Len(src) /\ m = n - off
      BY DEF Asked
<1>2. /\ c \in CellMaps /\ Full(c, size) /\ size \in Int /\ off \in Nat /\ off <= size
      /\ src \in Seq(Sources) /\ 1 <= n /\ n <= MaxN /\ size + n <= MaxElements
      /\ "make" \in S /\ MaxN \in Nat /\ MaxElements \in Nat /\ Values \subseteq Nat
      BY <1>1, Bounded DEF Asked, Bound
<1>3. off < size
      BY <1>2 DEF Elements!Shorter
<1>4. PICK b \in Int, t \in Int, z \in Int : b = -n /\ t = off - n /\ z = 0
  <2>1. -n \in Int /\ off - n \in Int /\ 0 \in Int
        BY <1>1, <1>2
  <2> QED BY <2>1
<1>5. PICK s1 : s1 = SubSeq(src, 1, m)
      OBVIOUS
<1>6. s1 \in Seq(Sources) /\ Len(s1) = m /\ \A i \in 1..m : s1[i] = src[i]
      BY <1>1, <1>2, <1>5, FirstOf
<1>7. PICK s2 : s2 = SubSeq(src, m + 1, n)
      OBVIOUS
<1>8. s2 \in Seq(Sources) /\ Len(s2) = off /\ \A i \in 1..off : s2[i] = src[m + i]
  <2>1. n - (m + 1) + 1 = off
        BY <1>1, <1>2
  <2>2. /\ s2 \in Seq(Sources) /\ Len(s2) = n - (m + 1) + 1
        /\ \A i \in 1..(n - (m + 1) + 1) : s2[i] = src[(m + 1) + i - 1]
        BY <1>1, <1>2, <1>7, Slice
  <2>3. \A i \in 1..off : (m + 1) + i - 1 = m + i
        BY <1>1
  <2> QED BY <2>1, <2>2, <2>3
<1>9. \A i \in 1..n : src[i] \in Sources /\ Readable(c, src[i])
      BY <1>1, <1>2 DEF Asked
<1>10. \A i \in Int : i \in Places <=> -MaxN <= i /\ i <= MaxElements + MaxN
       BY <1>2 DEF Places
<1>11. \A i \in Int : -n <= i /\ i < size + n => i \in Places
       BY <1>1, <1>2, <1>10
<1>12. PICK v1 : /\ Way(S, c, Elements!Make(b, Elements!Cells(z, off)), v1)
                 /\ Copied(c, v1, z, b, off)
  <2>1. ASSUME NEW i \in Int, b <= i /\ i < b + off
        PROVE  i \in Places /\ c[i] = Blank
    <3>1. i \in Places /\ ~ (0 <= i /\ i < size)
          BY <1>1, <1>2, <1>4, <1>11, <2>1
    <3> QED BY <1>2, <3>1 DEF Full
  <2>2. ASSUME NEW i \in Int, z <= i /\ i < z + off
        PROVE  i \in Places /\ c[i] # Blank
    <3>1. i \in Places /\ 0 <= i /\ i < size
          BY <1>1, <1>2, <1>4, <1>11, <2>2
    <3> QED BY <1>2, <3>1 DEF Full
  <2> QED BY <1>2, <2>1, <2>2, WayMakeCells
<1>13. v1 \in CellMaps
       BY <1>12 DEF Way
<1>14. /\ \A i \in Places : b <= i /\ i < t => v1[i] = c[i - b + z] /\ v1[i] # Blank
       /\ \A i \in Places : ~ (b <= i /\ i < t) => v1[i] = c[i]
  <2>1. b + off = t
        BY <1>1, <1>2, <1>4
  <2> QED BY <1>12, <2>1 DEF Copied
<1>15. PICK v2 : Way(S, v1, Elements!Make(t, s1), v2) /\ Placed(v1, v2, t, s1)
  <2>1. ASSUME NEW i \in Int, t <= i /\ i < t + m
        PROVE  i \in Places /\ v1[i] = Blank
    <3>1. i \in Places /\ ~ (0 <= i /\ i < size) /\ ~ (b <= i /\ i < t)
          BY <1>1, <1>2, <1>4, <1>11, <2>1
    <3> QED BY <1>2, <1>14, <3>1 DEF Full
  <2>2. ASSUME NEW i \in 1..m PROVE Readable(v1, s1[i])
    <3>1. i \in 1..n /\ s1[i] = src[i]
          BY <1>1, <1>2, <1>6
    <3>2. src[i].cell => \A k \in Places : c[k] # Blank => v1[k] = c[k]
      <4>1. SUFFICES ASSUME src[i].cell, NEW k \in Places PROVE v1[k] = c[k]
            OBVIOUS
      <4>2. off = 0
            BY <1>1, <1>3, <3>1, <4>1 DEF Asked
      <4>3. k \in Int /\ ~ (b <= k /\ k < t)
            BY <1>1, <1>4, <4>2 DEF Places
      <4> QED BY <1>14, <4>3
    <3> QED BY <1>9, <3>1, <3>2, SameRead
  <2> QED BY <1>2, <1>6, <1>13, <2>1, <2>2, WayMake
<1>16. v2 \in CellMaps
       BY <1>15 DEF Way
<1>17. /\ \A i \in Places : t <= i /\ i < 0 => v2[i] = Read(v1, s1[i - t + 1]) /\ v2[i] # Blank
       /\ \A i \in Places : ~ (t <= i /\ i < 0) => v2[i] = v1[i]
  <2>1. t + m = 0
        BY <1>1, <1>2, <1>4
  <2> QED BY <1>6, <1>15, <2>1 DEF Placed
<1>18. PICK w : Way(S, v2, Elements!Set(z, s2), w) /\ Placed(v2, w, z, s2)
  <2>1. ASSUME NEW i \in Int, z <= i /\ i < z + off
        PROVE  i \in Places /\ v2[i] # Blank
    <3>1. i \in Places /\ ~ (b <= i /\ i < t) /\ ~ (t <= i /\ i < 0) /\ 0 <= i /\ i < size
          BY <1>1, <1>2, <1>4, <1>11, <2>1
    <3> QED BY <1>2, <1>14, <1>17, <3>1 DEF Full
  <2>2. off > 0 => "set" \in S /\ \A i \in 1..n : ~ src[i].cell
        BY <1>1, <1>2, <1>3 DEF Asked
  <2>3. ASSUME NEW i \in 1..off PROVE Readable(v2, s2[i]) /\ ~ s2[i].cell
    <3>0. m + i \in 1..n
          BY <1>1, <1>2
    <3>1. PICK j \in 1..n : j = m + i
          BY <3>0
    <3>2. off > 0 /\ s2[i] = src[j]
          BY <1>8, <3>1
    <3>3. ~ src[j].cell /\ Readable(c, src[j])
          BY <1>9, <2>2, <3>2
    <3> QED BY <3>2, <3>3 DEF Readable
  <2> QED BY <1>2, <1>8, <1>16, <2>1, <2>2, <2>3, WaySet
<1>19. /\ \A i \in Places : 0 <= i /\ i < off => w[i] = Read(v2, s2[i + 1]) /\ w[i] # Blank
       /\ \A i \in Places : ~ (0 <= i /\ i < off) => w[i] = v2[i]
  <2>1. z + off = off /\ \A i \in Int : (z <= i <=> 0 <= i) /\ i - z + 1 = i + 1
        BY <1>2, <1>4
  <2>2. \A i \in Places : i \in Int
        BY DEF Places
  <2> QED BY <1>8, <1>18, <2>1, <2>2 DEF Placed
<1>20. Way(S, c, Elements!InsertProg(off, src), w)
  <2>1. Elements!InsertProg(off, src) =
          (Elements!Make(b, Elements!Cells(z, off)) \o Elements!Make(t, s1)) \o Elements!Set(z, s2)
        BY <1>1, <1>4, <1>5, <1>7 DEF Elements!InsertProg
  <2>2. Way(S, c, Elements!Make(b, Elements!Cells(z, off)) \o Elements!Make(t, s1), v2)
        BY <1>12, <1>15, WayJoined
  <2> QED BY <1>18, <2>1, <2>2, WayJoined
<1>21. ASSUME NEW k \in Int, 0 <= k, k < off
       PROVE  k + b \in Places /\ w[k + b] = c[k] /\ w[k + b] # Blank
  <2>1. PICK j \in Int : j = k + b
        BY <1>4
  <2>2. /\ j \in Places /\ b <= j /\ j < t /\ ~ (t <= j /\ j < 0) /\ ~ (0 <= j /\ j < off)
        /\ j - b + z = k
        BY <1>1, <1>2, <1>4, <1>11, <1>21, <2>1
  <2> QED BY <1>14, <1>17, <1>19, <2>1, <2>2
<1>22. ASSUME NEW k \in Int, off <= k, k < off + n
       PROVE  k + b \in Places /\ w[k + b] = Read(c, src[k - off + 1]) /\ w[k + b] # Blank
  <2>1. PICK j \in Int, i \in 1..n : j = k + b /\ i = k - off + 1
        BY <1>1, <1>2, <1>22
  <2>2. j \in Places
        BY <1>1, <1>2, <1>4, <1>11, <1>22, <2>1
  <2>3. CASE j < 0
    <3>1. t <= j /\ ~ (0 <= j /\ j < off) /\ j - t + 1 = i /\ i \in 1..m
          BY <1>1, <1>2, <1>4, <1>22, <2>1, <2>3
    <3>2. w[j] = Read(v1, src[i]) /\ w[j] # Blank
          BY <1>6, <1>17, <1>19, <2>2, <2>3, <3>1
    <3>3. src[i].cell => \A q \in Places : c[q] # Blank => v1[q] = c[q]
      <4>1. SUFFICES ASSUME src[i].cell, NEW q \in Places PROVE v1[q] = c[q]
            OBVIOUS
      <4>2. off = 0
            BY <1>1, <1>3, <4>1 DEF Asked
      <4>3. q \in Int /\ ~ (b <= q /\ q < t)
            BY <1>1, <1>4, <4>2 DEF Places
      <4> QED BY <1>14, <4>3
    <3>4. Read(v1, src[i]) = Read(c, src[i])
      <4>1. src[i] \in Sources /\ Readable(c, src[i])
            BY <1>9
      <4> QED BY <3>3, <4>1, SameRead
    <3> QED BY <2>1, <2>2, <3>2, <3>4
  <2>4. CASE ~ (j < 0)
    <3>1. PICK q \in 1..off : q = j + 1
          BY <1>1, <1>2, <1>4, <1>22, <2>1, <2>4
    <3>2. 0 <= j /\ j < off /\ m + q = i
          BY <1>1, <1>2, <1>4, <1>22, <2>1, <2>4, <3>1
    <3>3. w[j] = Read(v2, src[i]) /\ w[j] # Blank
          BY <1>8, <1>19, <2>2, <3>1, <3>2
    <3>4. ~ src[i].cell
      <4>1. off # 0
            BY <1>2, <3>2
      <4> QED BY <1>1, <1>3, <4>1 DEF Asked
    <3> QED BY <2>1, <2>2, <3>3, <3>4 DEF Read
  <2> QED BY <2>3, <2>4
<1>23. ASSUME NEW k \in Int, off + n <= k, k < size + n
       PROVE  k + b \in Places /\ w[k + b] = c[k - n] /\ w[k + b] # Blank
  <2>1. PICK j \in Int : j = k + b
        BY <1>4
  <2>2. /\ j \in Places /\ ~ (b <= j /\ j < t) /\ ~ (t <= j /\ j < 0) /\ ~ (0 <= j /\ j < off)
        /\ j = k - n /\ 0 <= j /\ j < size
        BY <1>1, <1>2, <1>4, <1>11, <1>23, <2>1
  <2> QED BY <1>2, <1>14, <1>17, <1>19, <2>1, <2>2 DEF Full
<1>24. Inserted(c, w, off, src, b)
  <2>1. ASSUME NEW k \in Int, 0 <= k, k < size + n PROVE k + b \in Places /\ w[k + b] # Blank
    <3>1. k < off \/ (off <= k /\ k < off + n) \/ off + n <= k
          BY <1>1, <1>2
    <3> QED BY <1>21, <1>22, <1>23, <2>1, <3>1
  <2> QED BY <1>1, <1>21, <1>22, <1>23, <2>1 DEF Inserted
<1> QED BY <1>1, <1>4, <1>20, <1>24

LEMMA InsertBefore ==
  ASSUME NEW S, NEW c, NEW off, NEW src, Asked(S, c, off, src),
         ~ Elements!Shorter(off), ~ (off < Len(src))
  PROVE  \E w : Way(S, c, Elements!InsertProg(off, src), w) /\ Inserted(c, w, off, src, -Len(src))
<1>1. PICK n \in Nat, m \in Nat : n = Len(src) /\ m = off - n
      BY DEF Asked
<1>2. /\ c \in CellMaps /\ Full(c, size) /\ size \in Int /\ off \in Nat /\ off <= size
      /\ src \in Seq(Sources) /\ 1 <= n /\ n <= MaxN /\ size + n <= MaxElements
      /\ "make" \in S /\ MaxN \in Nat /\ MaxElements \in Nat /\ Values \subseteq Nat
      BY <1>1, Bounded DEF Asked, Bound
<1>3. off < size /\ off # 0 /\ off # size
      BY <1>1, <1>2 DEF Elements!Shorter
<1>4. PICK b \in Int, z \in Int : b = -n /\ z = 0
  <2>1. -n \in Int /\ 0 \in Int
        BY <1>1, <1>2
  <2> QED BY <2>1
<1>5. "set" \in S /\ \A i \in 1..n : ~ src[i].cell /\ Readable(c, src[i])
      BY <1>1, <1>3 DEF Asked
<1>6. \A i \in Int : i \in Places <=> -MaxN <= i /\ i <= MaxElements + MaxN
      BY <1>2 DEF Places
<1>7. \A i \in Int : -n <= i /\ i < size + n => i \in Places
      BY <1>1, <1>2, <1>6
<1>8. PICK v1 : /\ Way(S, c, Elements!Make(b, Elements!Cells(z, n)), v1)
                /\ Copied(c, v1, z, b, n)
  <2>1. ASSUME NEW i \in Int, b <= i /\ i < b + n
        PROVE  i \in Places /\ c[i] = Blank
    <3>1. i \in Places /\ ~ (0 <= i /\ i < size)
          BY <1>1, <1>2, <1>4, <1>7, <2>1
    <3> QED BY <1>2, <3>1 DEF Full
  <2>2. ASSUME NEW i \in Int, z <= i /\ i < z + n
        PROVE  i \in Places /\ c[i] # Blank
    <3>1. i \in Places /\ 0 <= i /\ i < size
          BY <1>1, <1>2, <1>3, <1>4, <1>7, <2>2
    <3> QED BY <1>2, <3>1 DEF Full
  <2> QED BY <1>2, <2>1, <2>2, WayMakeCells
<1>9. v1 \in CellMaps
      BY <1>8 DEF Way
<1>10. /\ \A i \in Places : b <= i /\ i < 0 => v1[i] = c[i - b + z] /\ v1[i] # Blank
       /\ \A i \in Places : ~ (b <= i /\ i < 0) => v1[i] = c[i]
  <2>1. b + n = 0
        BY <1>1, <1>2, <1>4
  <2> QED BY <1>8, <2>1 DEF Copied
<1>11. PICK v2 : Way(S, v1, Elements!Copy(n, z, m), v2) /\ Copied(v1, v2, n, z, m)
  <2>1. ASSUME NEW i \in Int, 0 <= i /\ i < off
        PROVE  i \in Places /\ v1[i] # Blank
    <3>1. i \in Places /\ 0 <= i /\ i < size /\ ~ (b <= i /\ i < 0)
          BY <1>1, <1>2, <1>3, <1>4, <1>7, <2>1
    <3> QED BY <1>2, <1>10, <3>1 DEF Full
  <2>2. \A i \in Int : (z <= i /\ i < z + m) \/ (n <= i /\ i < n + m) => 0 <= i /\ i < off
        BY <1>1, <1>2, <1>4
  <2>3. z <= n /\ n \in Int
        BY <1>2, <1>4
  <2>4. \A i \in Int : z <= i /\ i < z + m => i \in Places /\ v1[i] # Blank
        BY <2>1, <2>2
  <2>5. \A i \in Int : n <= i /\ i < n + m => i \in Places /\ v1[i] # Blank
        BY <2>1, <2>2
  <2> QED BY <1>2, <1>5, <1>9, <2>3, <2>4, <2>5, WayCopy
<1>12. v2 \in CellMaps
       BY <1>11 DEF Way
<1>13. /\ \A i \in Places : 0 <= i /\ i < m => v2[i] = v1[i - z + n] /\ v2[i] # Blank
       /\ \A i \in Places : ~ (0 <= i /\ i < m) => v2[i] = v1[i]
  <2>1. z + m = m /\ \A i \in Int : z <= i <=> 0 <= i
        BY <1>4
  <2>2. \A i \in Places : i \in Int
        BY DEF Places
  <2> QED BY <1>11, <2>1, <2>2 DEF Copied
<1>14. PICK w : Way(S, v2, Elements!Set(m, src), w) /\ Placed(v2, w, m, src)
  <2>1. ASSUME NEW i \in Int, m <= i /\ i < m + n
        PROVE  i \in Places /\ v2[i] # Blank
    <3>1. i \in Places /\ ~ (b <= i /\ i < 0) /\ ~ (0 <= i /\ i < m) /\ 0 <= i /\ i < size
          BY <1>1, <1>2, <1>3, <1>4, <1>7, <2>1
    <3> QED BY <1>2, <1>10, <1>13, <3>1 DEF Full
  <2>2. \A i \in 1..n : Readable(v2, src[i])
        BY <1>5 DEF Readable
  <2>3. m \in Int
        BY <1>1
  <2> QED BY <1>1, <1>2, <1>5, <1>12, <2>1, <2>2, <2>3, WaySet
<1>15. /\ \A i \in Places : m <= i /\ i < off => w[i] = Read(v2, src[i - m + 1]) /\ w[i] # Blank
       /\ \A i \in Places : ~ (m <= i /\ i < off) => w[i] = v2[i]
  <2>1. m + n = off
        BY <1>1, <1>2
  <2> QED BY <1>1, <1>14, <2>1 DEF Placed
<1>16. Way(S, c, Elements!InsertProg(off, src), w)
  <2>1. Elements!InsertProg(off, src) =
          (Elements!Make(b, Elements!Cells(z, n)) \o Elements!Copy(n, z, m)) \o Elements!Set(m, src)
    <3>1. ~ (off < n)
          BY <1>1, <1>2
    <3> QED BY <1>1, <1>4, <3>1 DEF Elements!InsertProg
  <2>2. Way(S, c, Elements!Make(b, Elements!Cells(z, n)) \o Elements!Copy(n, z, m), v2)
        BY <1>8, <1>11, WayJoined
  <2> QED BY <1>14, <2>1, <2>2, WayJoined
<1>17. ASSUME NEW k \in Int, 0 <= k, k < off
       PROVE  k + b \in Places /\ w[k + b] = c[k] /\ w[k + b] # Blank
  <2>1. PICK j \in Int : j = k + b
        BY <1>4
  <2>2. /\ j \in Places /\ ~ (m <= j /\ j < off) /\ k \in Places /\ 0 <= k /\ k < size /\ ~ (b <= k /\ k < 0)
        BY <1>1, <1>2, <1>3, <1>4, <1>7, <1>17, <2>1
  <2>3. CASE j < 0
    <3>1. b <= j /\ ~ (0 <= j /\ j < m) /\ j - b + z = k
          BY <1>1, <1>2, <1>4, <1>17, <2>1, <2>3
    <3>2. v1[j] = c[k] /\ v1[j] # Blank
          BY <1>10, <2>2, <2>3, <3>1
    <3>3. w[j] = v2[j] /\ v2[j] = v1[j]
          BY <1>13, <1>15, <2>2, <3>1
    <3> QED BY <2>1, <2>2, <3>2, <3>3
  <2>4. CASE ~ (j < 0)
    <3>1. 0 <= j /\ j < m /\ j - z + n = k
          BY <1>1, <1>2, <1>4, <1>17, <2>1, <2>4
    <3>2. w[j] = v2[j] /\ v2[j] = v1[k] /\ v2[j] # Blank
          BY <1>13, <1>15, <2>2, <3>1
    <3>3. v1[k] = c[k]
          BY <1>10, <2>2
    <3> QED BY <2>1, <2>2, <3>2, <3>3
  <2> QED BY <2>3, <2>4
<1>18. ASSUME NEW k \in Int, off <= k, k < off + n
       PROVE  k + b \in Places /\ w[k + b] = Read(c, src[k - off + 1]) /\ w[k + b] # Blank
  <2>1. PICK j \in Int, i \in 1..n : j = k + b /\ i = k - off + 1
    <3>1. k + b \in Int /\ k - off + 1 \in 1..n
          BY <1>1, <1>2, <1>4, <1>18
    <3> QED BY <3>1
  <2>2. j \in Places /\ m <= j /\ j < off /\ j - m + 1 = i
        BY <1>1, <1>2, <1>4, <1>7, <1>18, <2>1
  <2>3. w[j] = Read(v2, src[i]) /\ w[j] # Blank
        BY <1>15, <2>2
  <2> QED BY <1>5, <2>1, <2>2, <2>3 DEF Read
<1>19. ASSUME NEW k \in Int, off + n <= k, k < size + n
       PROVE  k + b \in Places /\ w[k + b] = c[k - n] /\ w[k + b] # Blank
  <2>1. PICK j \in Int : j = k + b
        BY <1>4
  <2>2. /\ j \in Places /\ ~ (b <= j /\ j < 0) /\ ~ (0 <= j /\ j < m) /\ ~ (m <= j /\ j < off)
        /\ j = k - n /\ 0 <= j /\ j < size
        BY <1>1, <1>2, <1>4, <1>7, <1>19, <2>1
  <2> QED BY <1>2, <1>10, <1>13, <1>15, <2>1, <2>2 DEF Full
<1>20. Inserted(c, w, off, src, b)
  <2>1. ASSUME NEW k \in Int, 0 <= k, k < size + n PROVE k + b \in Places /\ w[k + b] # Blank
    <3>1. k < off \/ (off <= k /\ k < off + n) \/ off + n <= k
          BY <1>1, <1>2
    <3> QED BY <1>17, <1>18, <1>19, <2>1, <3>1
  <2> QED BY <1>1, <1>17, <1>18, <1>19, <2>1 DEF Inserted
<1> QED BY <1>1, <1>4, <1>16, <1>20

LEMMA InsertRight ==
  ASSUME NEW S, NEW c, NEW off, NEW src, Asked(S, c, off, src)
  PROVE  \E w : /\ Way(S, c, Elements!InsertProg(off, src), w)
                /\ Inserted(c, w, off, src, IF Elements!Shorter(off) THEN 0 ELSE -Len(src))
<1>1. CASE Elements!Shorter(off)
      BY <1>1, InsertPast, InsertBehind
<1>2. CASE ~ Elements!Shorter(off)
      BY <1>2, InsertAhead, InsertBefore
<1> QED BY <1>1, <1>2

-----------------------------------------------------------------------------
(* Erasures.                                                               *)

\* operations of which the destructions are last
Falls(S, c, p, w) ==
  \E q, ref, v : p = q \o ref /\ Way(S, c, q, v) /\ Way({"destroy"}, v, ref, w)

\* w holds what c has without n elements at off, from the cell `by' on
Erased(c, w, off, n, by) ==
  /\ \A k \in Int : 0 <= k /\ k < size - n => k + by \in Places /\ w[k + by] # Blank
  /\ \A k \in Int : 0 <= k /\ k < off => w[k + by] = c[k]
  /\ \A k \in Int : off <= k /\ k < size - n => w[k + by] = c[k + n]

LEMMA WayDestroy ==
  ASSUME NEW c \in CellMaps, NEW to \in Int, NEW n \in Nat,
         \A i \in Int : to <= i /\ i < to + n => i \in Places /\ c[i] # Blank
  PROVE  \E w : /\ Way({"destroy"}, c, Elements!Destroy(to, n), w)
                /\ Way({"destroy"}, c, Elements!Reverse(Elements!Destroy(to, n)), w)
                /\ \A i \in Places : ~ (to <= i /\ i < to + n) => w[i] = c[i]
<1>1. PICK w : w = Wiped(c, to, n)
      OBVIOUS
<1>2. \A i \in 1..n : to + i - 1 \in Places /\ c[to + i - 1] # Blank
  <2>1. ASSUME NEW i \in 1..n PROVE to + i - 1 \in Places /\ c[to + i - 1] # Blank
    <3>1. to + i - 1 \in Int /\ to <= to + i - 1 /\ to + i - 1 < to + n
          OBVIOUS
    <3> QED BY <3>1
  <2> QED BY <2>1
<1>3. PICK p, q : p = Elements!Destroy(to, n) /\ q = Elements!Reverse(Elements!Destroy(to, n))
      OBVIOUS
<1>4. /\ Leads(c, p, w) /\ Leads(c, q, w)
      /\ p \in Seq(Ops) /\ Len(p) = n /\ (\A i \in 1..n : p[i].do = "destroy")
      /\ q \in Seq(Ops) /\ Len(q) = n /\ (\A i \in 1..n : q[i].do = "destroy")
      BY <1>1, <1>2, <1>3, DestroyRight
<1>5. w \in CellMaps
  <2>1. \A i \in Places : c[i] \in Values \cup {Blank}
        BY DEF CellMaps
  <2> QED BY <1>1, <2>1 DEF Wiped, CellMaps
<1>6. \A i \in Places : ~ (to <= i /\ i < to + n) => w[i] = c[i]
  <2>1. ASSUME NEW i \in Places, ~ (to <= i /\ i < to + n) PROVE w[i] = c[i]
    <3>1. i \in Int
          BY DEF Places
    <3>2. ~ (i \in to..(to + n - 1))
          BY <2>1, <3>1
    <3> QED BY <1>1, <3>2 DEF Wiped
  <2> QED BY <2>1
<1>7. Only({"destroy"}, p) /\ Only({"destroy"}, q)
      BY <1>4 DEF Only
<1>8. Way({"destroy"}, c, p, w) /\ Way({"destroy"}, c, q, w)
      BY <1>4, <1>5, <1>7 DEF Way
<1> QED BY <1>3, <1>6, <1>8

LEMMA EraseFront ==
  ASSUME NEW c \in CellMaps, Full(c, size), NEW off \in Nat, NEW n \in Nat, size \in Int,
         1 <= n, off + n <= size, size <= MaxElements, off < size - off - n
  PROVE  \E w : Falls({"set"}, c, Elements!EraseProg(off, n), w) /\ Erased(c, w, off, n, n)
<1>1. MaxN \in Nat /\ MaxElements \in Nat /\ Values \subseteq Nat
      BY Bounded DEF Bound
<1>2. \A i \in Int : 0 <= i /\ i < size => i \in Places /\ c[i] # Blank
  <2>1. ASSUME NEW i \in Int, 0 <= i /\ i < size PROVE i \in Places /\ c[i] # Blank
    <3>1. i \in Places
          BY <1>1, <2>1 DEF Places
    <3> QED BY <2>1, <3>1 DEF Full
  <2> QED BY <2>1
<1>3. PICK z \in Int : z = 0
      OBVIOUS
<1>4. PICK v : Way({"set"}, c, Elements!CopyBackward(z, n, off), v) /\ Copied(c, v, z, n, off)
  <2>1. \A i \in Int : (n <= i /\ i < n + off) \/ (z <= i /\ i < z + off) => 0 <= i /\ i < size
        BY <1>3
  <2>2. \A i \in Int : n <= i /\ i < n + off => i \in Places /\ c[i] # Blank
        BY <1>2, <2>1
  <2>3. \A i \in Int : z <= i /\ i < z + off => i \in Places /\ c[i] # Blank
        BY <1>2, <2>1
  <2>4. z <= n /\ n \in Int /\ "set" \in {"set"}
        BY <1>3
  <2> QED BY <1>1, <2>2, <2>3, <2>4, WayBack
<1>5. v \in CellMaps
      BY <1>4 DEF Way
<1>6. /\ \A i \in Places : n <= i /\ i < n + off => v[i] = c[i - n + z] /\ v[i] # Blank
      /\ \A i \in Places : ~ (n <= i /\ i < n + off) => v[i] = c[i]
      BY <1>4 DEF Copied
<1>7. PICK w : /\ Way({"destroy"}, v, Elements!Destroy(z, n), w)
               /\ \A i \in Places : ~ (z <= i /\ i < z + n) => w[i] = v[i]
  <2>1. ASSUME NEW i \in Int, z <= i /\ i < z + n PROVE i \in Places /\ v[i] # Blank
    <3>1. 0 <= i /\ i < size /\ ~ (n <= i /\ i < n + off)
          BY <1>3, <2>1
    <3> QED BY <1>2, <1>6, <3>1
  <2> QED BY <1>5, <2>1, WayDestroy
<1>8. Falls({"set"}, c, Elements!EraseProg(off, n), w)
  <2>1. Elements!EraseProg(off, n) = Elements!CopyBackward(z, n, off) \o Elements!Destroy(z, n)
        BY <1>3 DEF Elements!EraseProg
  <2> QED BY <1>4, <1>7, <2>1 DEF Falls
<1>9. ASSUME NEW k \in Int, 0 <= k, k < off
      PROVE  k + n \in Places /\ w[k + n] = c[k] /\ w[k + n] # Blank
  <2>1. PICK j \in Int : j = k + n
        OBVIOUS
  <2>2. 0 <= j /\ j < size /\ n <= j /\ j < n + off /\ ~ (z <= j /\ j < z + n) /\ j - n + z = k
        BY <1>3, <1>9, <2>1
  <2> QED BY <1>2, <1>6, <1>7, <2>1, <2>2
<1>10. ASSUME NEW k \in Int, off <= k, k < size - n
       PROVE  k + n \in Places /\ w[k + n] = c[k + n] /\ w[k + n] # Blank
  <2>1. PICK j \in Int : j = k + n
        OBVIOUS
  <2>2. 0 <= j /\ j < size /\ ~ (n <= j /\ j < n + off) /\ ~ (z <= j /\ j < z + n)
        BY <1>3, <1>10, <2>1
  <2> QED BY <1>2, <1>6, <1>7, <2>1, <2>2
<1>11. Erased(c, w, off, n, n)
  <2>1. \A k \in Int : 0 <= k => k < off \/ off <= k
        OBVIOUS
  <2> QED BY <1>9, <1>10, <2>1 DEF Erased
<1> QED BY <1>8, <1>11

LEMMA EraseBack ==
  ASSUME NEW c \in CellMaps, Full(c, size), NEW off \in Nat, NEW n \in Nat, size \in Int,
         1 <= n, off + n <= size, size <= MaxElements, ~ (off < size - off - n)
  PROVE  \E w : Falls({"set"}, c, Elements!EraseProg(off, n), w) /\ Erased(c, w, off, n, 0)
<1>1. MaxN \in Nat /\ MaxElements \in Nat /\ Values \subseteq Nat
      BY Bounded DEF Bound
<1>2. \A i \in Int : 0 <= i /\ i < size => i \in Places /\ c[i] # Blank
  <2>1. ASSUME NEW i \in Int, 0 <= i /\ i < size PROVE i \in Places /\ c[i] # Blank
    <3>1. i \in Places
          BY <1>1, <2>1 DEF Places
    <3> QED BY <2>1, <3>1 DEF Full
  <2> QED BY <2>1
<1>3. PICK f \in Int, e \in Int, m \in Nat : f = off + n /\ e = size - n /\ m = size - off - n
  <2>1. off + n \in Int /\ size - n \in Int /\ size - off - n \in Nat
        OBVIOUS
  <2> QED BY <2>1
<1>4. PICK v : Way({"set"}, c, Elements!Copy(f, off, m), v) /\ Copied(c, v, f, off, m)
  <2>1. \A i \in Int : (off <= i /\ i < off + m) \/ (f <= i /\ i < f + m) => 0 <= i /\ i < size
        BY <1>3
  <2>2. \A i \in Int : off <= i /\ i < off + m => i \in Places /\ c[i] # Blank
        BY <1>2, <2>1
  <2>3. \A i \in Int : f <= i /\ i < f + m => i \in Places /\ c[i] # Blank
        BY <1>2, <2>1
  <2>4. off <= f /\ off \in Int /\ "set" \in {"set"}
        BY <1>3
  <2> QED BY <1>1, <2>2, <2>3, <2>4, WayCopy
<1>5. v \in CellMaps
      BY <1>4 DEF Way
<1>6. /\ \A i \in Places : off <= i /\ i < e => v[i] = c[i - off + f] /\ v[i] # Blank
      /\ \A i \in Places : ~ (off <= i /\ i < e) => v[i] = c[i]
  <2>1. off + m = e
        BY <1>3
  <2> QED BY <1>4, <2>1 DEF Copied
<1>7. PICK w : /\ Way({"destroy"}, v, Elements!Reverse(Elements!Destroy(e, n)), w)
               /\ \A i \in Places : ~ (e <= i /\ i < e + n) => w[i] = v[i]
  <2>1. ASSUME NEW i \in Int, e <= i /\ i < e + n PROVE i \in Places /\ v[i] # Blank
    <3>1. 0 <= i /\ i < size /\ ~ (off <= i /\ i < e)
          BY <1>3, <2>1
    <3> QED BY <1>2, <1>6, <3>1
  <2> QED BY <1>5, <2>1, WayDestroy
<1>8. Falls({"set"}, c, Elements!EraseProg(off, n), w)
  <2>1. Elements!EraseProg(off, n) = Elements!Copy(f, off, m) \o Elements!Reverse(Elements!Destroy(e, n))
        BY <1>3 DEF Elements!EraseProg
  <2> QED BY <1>4, <1>7, <2>1 DEF Falls
<1>9. ASSUME NEW k \in Int, 0 <= k, k < off
      PROVE  k \in Places /\ w[k] = c[k] /\ w[k] # Blank
  <2>1. 0 <= k /\ k < size /\ ~ (off <= k /\ k < e) /\ ~ (e <= k /\ k < e + n)
        BY <1>3, <1>9
  <2> QED BY <1>2, <1>6, <1>7, <2>1
<1>10. ASSUME NEW k \in Int, off <= k, k < size - n
       PROVE  k \in Places /\ w[k] = c[k + n] /\ w[k] # Blank
  <2>1. 0 <= k /\ k < size /\ off <= k /\ k < e /\ ~ (e <= k /\ k < e + n) /\ k - off + f = k + n
        BY <1>3, <1>10
  <2> QED BY <1>2, <1>6, <1>7, <2>1
<1>11. Erased(c, w, off, n, 0)
  <2>1. \A k \in Int : k + 0 = k /\ (0 <= k => k < off \/ off <= k)
        OBVIOUS
  <2> QED BY <1>9, <1>10, <2>1 DEF Erased
<1> QED BY <1>8, <1>11

-----------------------------------------------------------------------------
(* A call that runs.                                                       *)

By(front, grow) == IF front THEN -grow ELSE 0

\* the n elements of w, from the cell `by' on, are those of want
Makes(w, n, by, want) ==
  /\ n \in 0..MaxElements
  /\ \A k \in Int : 0 <= k /\ k < n => k + by \in Places /\ w[k + by] # Blank
  /\ want = [i \in 1..n |-> w[i - 1 + by]]

DestroysLast(p) == \A i, j \in 1..Len(p) : i < j /\ p[i].do = "destroy" => p[j].do = "destroy"

\* the objects are the n elements and those that the call has made
Kept(c, n, mk) ==
  /\ mk \subseteq Places
  /\ \A i \in Places : c[i] # Blank <=> (0 <= i /\ i < n) \/ i \in mk
  /\ \A i \in mk : ~ (0 <= i /\ i < n)

Running(c, n, todo, mk, grow, front, was, want, ends) ==
  /\ todo \in Seq(Ops) /\ grow \in Int
  /\ \E w : Leads(c, todo, w) /\ Makes(w, n + grow, By(front, grow), want)
  /\ DestroysLast(todo)
  /\ todo # <<>> /\ Head(todo).do # "destroy" => Kept(c, n, mk)
  /\ ends => Only({"make"}, todo) /\ was = [i \in 1..n |-> c[i - 1]]

LEMMA FallsLast ==
  ASSUME NEW S, NEW c, NEW p, NEW w, Falls(S, c, p, w), "destroy" \notin S
  PROVE  p \in Seq(Ops) /\ Leads(c, p, w) /\ DestroysLast(p)
<1>1. PICK q, ref, v : p = q \o ref /\ Way(S, c, q, v) /\ Way({"destroy"}, v, ref, w)
      BY DEF Falls
<1>2. /\ q \in Seq(Ops) /\ ref \in Seq(Ops) /\ Leads(c, q, v) /\ Leads(v, ref, w)
      /\ Only(S, q) /\ Only({"destroy"}, ref)
      BY <1>1 DEF Way
<1>3. PICK a \in Nat, b \in Nat : a = Len(q) /\ b = Len(ref)
      BY <1>2
<1>4. /\ p \in Seq(Ops) /\ Len(p) = a + b
      /\ \A i \in 1..(a + b) : p[i] = IF i <= a THEN q[i] ELSE ref[i - a]
      BY <1>1, <1>2, <1>3, Joined
<1>5. Leads(c, p, w)
      BY <1>1, <1>2, LeadsJoined
<1>6. ASSUME NEW i \in 1..(a + b), NEW j \in 1..(a + b), i < j, p[i].do = "destroy"
      PROVE  p[j].do = "destroy"
  <2>1. ~ (i <= a)
    <3>1. SUFFICES ASSUME i <= a PROVE FALSE
          OBVIOUS
    <3>2. q[i].do \in S
          BY <1>2, <1>3, <3>1 DEF Only
    <3> QED BY <1>4, <1>6, <3>1, <3>2
  <2>2. PICK k \in 1..b : k = j - a
        BY <1>6, <2>1
  <2>3. p[j] = ref[k] /\ ref[k].do = "destroy"
        BY <1>2, <1>3, <1>4, <1>6, <2>1, <2>2 DEF Only
  <2> QED BY <2>3
<1> QED BY <1>4, <1>5, <1>6 DEF DestroysLast

LEMMA FallsWay ==
  ASSUME NEW S, NEW c, NEW p, NEW w, Way(S, c, p, w)
  PROVE  Falls(S, c, p, w)
<1>1. w \in CellMaps /\ p \in Seq(Ops)
      BY DEF Way
<1>2. <<>> \in Seq(Ops) /\ p = p \o <<>>
      BY <1>1
<1>3. Leads(w, <<>>, w)
      BY LeadsNone
<1>4. Only({"destroy"}, <<>>)
      BY DEF Only
<1>5. Way({"destroy"}, w, <<>>, w)
      BY <1>1, <1>2, <1>3, <1>4 DEF Way
<1> QED BY <1>2, <1>5 DEF Falls

LEMMA FallsJoined ==
  ASSUME NEW S, NEW T, T \subseteq S, NEW c, NEW p, NEW v, NEW t, NEW w,
         Way(S, c, p, v), Falls(T, v, t, w)
  PROVE  Falls(S, c, p \o t, w)
<1>1. PICK q, ref, u : t = q \o ref /\ Way(T, v, q, u) /\ Way({"destroy"}, u, ref, w)
      BY DEF Falls
<1>2. Way(S, v, q, u)
      BY <1>1 DEF Way, Only
<1>3. Way(S, c, p \o q, u)
      BY <1>2, WayJoined
<1>4. p \in Seq(Ops) /\ q \in Seq(Ops) /\ ref \in Seq(Ops)
      BY <1>1, <1>2 DEF Way
<1>5. p \o t = (p \o q) \o ref
      BY <1>1, <1>4
<1> QED BY <1>1, <1>3, <1>5 DEF Falls

\* a call that starts between calls
LEMMA CallStarts ==
  ASSUME NEW S, NEW c, NEW n \in Int, NEW p, NEW w, NEW grow \in Int, NEW front, NEW was, NEW want,
         NEW ends, Full(c, n), Falls(S, c, p, w), "destroy" \notin S, ends => S = {"make"},
         Makes(w, n + grow, By(front, grow), want), was = [i \in 1..n |-> c[i - 1]],
         ends => Way(S, c, p, w)
  PROVE  Running(c, n, p, {}, grow, front, was, want, ends)
<1>1. p \in Seq(Ops) /\ Leads(c, p, w) /\ DestroysLast(p)
      BY FallsLast
<1>2. Kept(c, n, {})
      BY DEF Full, Kept
<1>3. ends => Only({"make"}, p)
      BY DEF Way
<1> QED BY <1>1, <1>2, <1>3 DEF Running

LEMMA EffectIn ==
  ASSUME NEW c \in CellMaps, NEW o \in Ops, Sound(c, o)
  PROVE  /\ Effect(c, o) \in CellMaps
         /\ Effect(c, o)[o.at] # Blank <=> o.do # "destroy"
         /\ \A i \in Places : i # o.at => Effect(c, o)[i] = c[i]
<1>1. o.at \in Places /\ o.src \in Sources /\ Readable(c, o.src) /\ Values \subseteq Nat
      BY Bounded DEF Sound, Ops, Bound
<1>2. Read(c, o.src) \in Values /\ Read(c, o.src) # Blank
      BY <1>1, ReadIn
<1>3. c \in [Places -> Values \cup {Blank}]
      BY DEF CellMaps
<1>4. CASE o.do = "destroy"
  <2>1. Effect(c, o) = [c EXCEPT ![o.at] = Blank]
        BY <1>4 DEF Effect
  <2> QED BY <1>1, <1>3, <1>4, <2>1 DEF CellMaps
<1>5. CASE o.do # "destroy"
  <2>1. Effect(c, o) = [c EXCEPT ![o.at] = Read(c, o.src)]
        BY <1>5 DEF Effect
  <2> QED BY <1>1, <1>2, <1>3, <1>5, <2>1 DEF CellMaps
<1> QED BY <1>4, <1>5

LEMMA RunStep ==
  ASSUME NEW c \in CellMaps, NEW n \in 0..MaxElements, NEW todo, NEW mk, NEW grow, NEW front,
         NEW was, NEW want, NEW ends, NEW s, NEW mk2, Running(c, n, todo, mk, grow, front, was, want, ends),
         todo # <<>>, s = Head(todo),
         mk2 = IF s.do = "make" THEN mk \cup {s.at} ELSE mk
  PROVE  /\ Effect(c, s) \in CellMaps /\ Sound(c, s)
         /\ Running(Effect(c, s), n, Tail(todo), mk2, grow, front, was, want, ends)
<1>1. /\ todo \in Seq(Ops) /\ grow \in Int /\ DestroysLast(todo)
      /\ (s.do # "destroy" => Kept(c, n, mk))
      /\ (ends => Only({"make"}, todo) /\ was = [i \in 1..n |-> c[i - 1]])
      BY DEF Running
<1>2. PICK w : Leads(c, todo, w) /\ Makes(w, n + grow, By(front, grow), want)
      BY DEF Running
<1>3. PICK t : t = Tail(todo)
      OBVIOUS
<1>4. PICK m \in Nat : m = Len(todo) /\ 1 <= m
      BY <1>1
<1>5. /\ t \in Seq(Ops) /\ Len(t) = m - 1 /\ (\A i \in 1..(m - 1) : t[i] = todo[i + 1])
      /\ s = todo[1] /\ s \in Ops
      BY <1>1, <1>3, <1>4
<1>6. Sound(c, s) /\ Leads(Effect(c, s), t, w)
      BY <1>1, <1>2, <1>3, LeadsStep
<1>7. PICK e : e = Effect(c, s)
      OBVIOUS
<1>8. /\ e \in CellMaps /\ (e[s.at] # Blank <=> s.do # "destroy")
      /\ \A i \in Places : i # s.at => e[i] = c[i]
      BY <1>5, <1>6, <1>7, EffectIn
<1>9. s.at \in Places /\ (c[s.at] = Blank <=> s.do = "make")
      BY <1>6 DEF Sound
<1>10. DestroysLast(t)
  <2>1. ASSUME NEW i \in 1..(m - 1), NEW j \in 1..(m - 1), i < j, t[i].do = "destroy"
        PROVE  t[j].do = "destroy"
    <3>1. i + 1 \in 1..m /\ j + 1 \in 1..m /\ i + 1 < j + 1
          BY <1>4, <2>1
    <3>2. t[i] = todo[i + 1] /\ t[j] = todo[j + 1]
          BY <1>5
    <3> QED BY <1>1, <1>4, <2>1, <3>1, <3>2 DEF DestroysLast
  <2> QED BY <1>5, <2>1 DEF DestroysLast
<1>11. s.do # "destroy" => Kept(e, n, mk2)
  <2>1. SUFFICES ASSUME s.do # "destroy" PROVE Kept(e, n, mk2)
        OBVIOUS
  <2>2. /\ mk \subseteq Places
        /\ \A i \in Places : c[i] # Blank <=> (0 <= i /\ i < n) \/ i \in mk
        /\ \A i \in mk : ~ (0 <= i /\ i < n)
        BY <1>1, <2>1 DEF Kept
  <2>3. CASE s.do = "make"
    <3>1. mk2 = mk \cup {s.at}
          BY <2>3
    <3>2. ~ (0 <= s.at /\ s.at < n)
          BY <1>9, <2>2, <2>3
    <3> QED BY <1>8, <1>9, <2>1, <2>2, <3>1, <3>2 DEF Kept
  <2>4. CASE s.do # "make"
    <3>1. mk2 = mk /\ c[s.at] # Blank
          BY <1>9, <2>4
    <3> QED BY <1>8, <1>9, <2>1, <2>2, <3>1 DEF Kept
  <2> QED BY <2>3, <2>4
<1>12. t # <<>> /\ Head(t).do # "destroy" => s.do # "destroy"
  <2>1. SUFFICES ASSUME t # <<>>, Head(t).do # "destroy", s.do = "destroy" PROVE FALSE
        OBVIOUS
  <2>2. 1 \in 1..m /\ 2 \in 1..m /\ 1 \in 1..(m - 1) /\ Head(t) = t[1] /\ 1 + 1 = 2
        BY <1>4, <1>5, <2>1
  <2>3. Head(t) = todo[2]
        BY <1>5, <2>2
  <2>4. todo[2].do = "destroy"
        BY <1>1, <1>4, <1>5, <2>1, <2>2 DEF DestroysLast
  <2> QED BY <2>1, <2>3, <2>4
<1>13. ends => Only({"make"}, t) /\ was = [i \in 1..n |-> e[i - 1]]
  <2>1. SUFFICES ASSUME ends PROVE Only({"make"}, t) /\ was = [i \in 1..n |-> e[i - 1]]
        OBVIOUS
  <2>2. ASSUME NEW i \in 1..(m - 1) PROVE t[i].do = "make"
    <3>1. i + 1 \in 1..m /\ t[i] = todo[i + 1]
          BY <1>4, <1>5
    <3> QED BY <1>1, <1>4, <2>1, <3>1 DEF Only
  <2>3. s.do = "make"
    <3>1. 1 \in 1..m
          BY <1>4
    <3> QED BY <1>1, <1>4, <1>5, <2>1, <3>1 DEF Only
  <2>4. ASSUME NEW i \in 1..n PROVE e[i - 1] = c[i - 1]
    <3>1. i - 1 \in Int /\ 0 <= i - 1 /\ i - 1 < n
          OBVIOUS
    <3>2. s.at # i - 1
          BY <1>1, <1>9, <2>3, <3>1 DEF Kept
    <3>3. i - 1 \in Places
          BY <3>1, Bounded DEF Places, Bound
    <3> QED BY <1>8, <3>2, <3>3
  <2> QED BY <1>1, <1>5, <2>1, <2>2, <2>4 DEF Only
<1>14. Running(e, n, t, mk2, grow, front, was, want, ends)
       BY <1>1, <1>2, <1>5, <1>6, <1>7, <1>10, <1>11, <1>12, <1>13 DEF Running
<1> QED BY <1>3, <1>6, <1>7, <1>8, <1>14

LEMMA RunThrow ==
  ASSUME NEW c \in CellMaps, NEW n \in 0..MaxElements, NEW todo, NEW mk, NEW grow, NEW front,
         NEW was, NEW want, NEW ends, Running(c, n, todo, mk, grow, front, was, want, ends),
         todo # <<>>, Head(todo).do # "destroy",
         NEW e, e = [i \in Places |-> IF i \in mk THEN Blank ELSE c[i]]
  PROVE  e \in CellMaps /\ Full(e, n) /\ (ends => was = [i \in 1..n |-> e[i - 1]])
<1>1. /\ mk \subseteq Places
      /\ \A i \in Places : c[i] # Blank <=> (0 <= i /\ i < n) \/ i \in mk
      /\ \A i \in mk : ~ (0 <= i /\ i < n)
      BY DEF Running, Kept
<1>2. \A i \in Places : c[i] \in Values \cup {Blank}
      BY DEF CellMaps
<1>3. e \in CellMaps
      BY <1>2 DEF CellMaps
<1>4. Full(e, n)
      BY <1>1 DEF Full
<1>5. ASSUME NEW i \in 1..n PROVE e[i - 1] = c[i - 1]
  <2>1. i - 1 \in Places /\ 0 <= i - 1 /\ i - 1 < n
        BY Bounded DEF Places, Bound
  <2> QED BY <1>1, <2>1
<1>6. ends => was = [i \in 1..n |-> c[i - 1]]
      BY DEF Running
<1> QED BY <1>3, <1>4, <1>5, <1>6

LEMMA RunEnd ==
  ASSUME NEW c \in CellMaps, NEW n \in 0..MaxElements, NEW mk, NEW grow, NEW front,
         NEW was, NEW want, NEW ends, Running(c, n, <<>>, mk, grow, front, was, want, ends),
         NEW e, e = [i \in Places |->
                       IF i \in 0..(n + grow - 1) THEN c[i + By(front, grow)] ELSE Blank]
  PROVE  /\ n + grow \in 0..MaxElements /\ e \in CellMaps /\ Full(e, n + grow)
         /\ want = [i \in 1..(n + grow) |-> c[i - 1 + By(front, grow)]]
<1>1. PICK w : Leads(c, <<>>, w) /\ Makes(w, n + grow, By(front, grow), want) /\ grow \in Int
      BY DEF Running
<1>2. w = c
      BY <1>1, LeadsEnd
<1>3. PICK m \in 0..MaxElements : m = n + grow
      BY <1>1 DEF Makes
<1>4. PICK b : b = By(front, grow)
      OBVIOUS
<1>5. /\ \A k \in Int : 0 <= k /\ k < m => k + b \in Places /\ c[k + b] # Blank
      /\ want = [i \in 1..m |-> c[i - 1 + b]]
      BY <1>1, <1>2, <1>3, <1>4 DEF Makes
<1>6. e = [i \in Places |-> IF i \in 0..(m - 1) THEN c[i + b] ELSE Blank]
  <2>1. n + grow - 1 = m - 1
        BY <1>1, <1>3
  <2> QED BY <1>3, <1>4, <2>1
<1>7. ASSUME NEW i \in Places
      PROVE  (i \in 0..(m - 1) <=> 0 <= i /\ i < m) /\ (i \in 0..(m - 1) => i + b \in Places /\ c[i + b] # Blank)
  <2>1. i \in Int
        BY DEF Places
  <2> QED BY <1>5, <2>1
<1>8. Full(e, m)
      BY <1>6, <1>7 DEF Full
<1>9. \A i \in Places : c[i] \in Values \cup {Blank}
      BY DEF CellMaps
<1>10. e \in CellMaps
      BY <1>6, <1>7, <1>9 DEF CellMaps
<1> QED BY <1>3, <1>4, <1>5, <1>8, <1>10

-----------------------------------------------------------------------------
(* The calls start right.                                                  *)

Quiet == cells \in CellMaps /\ size \in 0..MaxElements /\ Full(cells, size)

LEMMA QuietCells ==
  ASSUME Quiet
  PROVE  \A i \in Int : 0 <= i /\ i < size => i \in Places /\ cells[i] \in Values /\ cells[i] # Blank
<1>1. ASSUME NEW i \in Int, 0 <= i, i < size
      PROVE  i \in Places /\ cells[i] \in Values /\ cells[i] # Blank
  <2>1. i \in Places
        BY <1>1, Bounded DEF Quiet, Places, Bound
  <2>2. cells[i] \in Values \cup {Blank}
        BY <2>1 DEF Quiet, CellMaps
  <2> QED BY <1>1, <2>1, <2>2 DEF Quiet, Full
<1> QED BY <1>1

LEMMA ContentsSeq ==
  ASSUME Quiet
  PROVE  /\ Elements!Contents \in Seq(Values) /\ Len(Elements!Contents) = size
         /\ \A i \in 1..size : Elements!Contents[i] = cells[i - 1]
<1>1. size \in Nat
      BY DEF Quiet
<1>2. ASSUME NEW i \in 1..size PROVE cells[i - 1] \in Values
  <2>1. i - 1 \in Int /\ 0 <= i - 1 /\ i - 1 < size
        BY <1>1
  <2> QED BY <2>1, QuietCells
<1> QED BY <1>1, <1>2 DEF Elements!Contents

\* u is s, of length a, and then t, of length b
Both(u, s, t, a, b) ==
  Len(u) = a + b /\ \A i \in 1..(a + b) : u[i] = IF i <= a THEN s[i] ELSE t[i - a]

LEMMA JoinedTo ==
  ASSUME NEW S, NEW s \in Seq(S), NEW t \in Seq(S), NEW u, u = s \o t
  PROVE  u \in Seq(S) /\ Both(u, s, t, Len(s), Len(t))
<1>1. u \in Seq(S)
      OBVIOUS
<1>2. Both(s \o t, s, t, Len(s), Len(t))
      BY Joined DEF Both
<1> QED BY <1>1, <1>2

\* t is the elements with those of new at off
WithNew(t, off, new) ==
  /\ t \in Seq(Values) /\ Len(t) = size + Len(new)
  /\ \A i \in 1..(size + Len(new)) :
       t[i] = IF i <= off THEN cells[i - 1]
              ELSE IF i <= off + Len(new) THEN new[i - off] ELSE cells[i - 1 - Len(new)]

LEMMA SplicedAt ==
  ASSUME Quiet, NEW off \in Nat, off <= size, NEW new \in Seq(Values),
         NEW t, t = Elements!Spliced(off, new)
  PROVE  WithNew(t, off, new)
<1>1. PICK n \in Nat, m \in Nat : n = Len(new) /\ m = size /\ off <= m
      BY DEF Quiet
<1>2. PICK s : s = Elements!Contents
      OBVIOUS
<1>3. s \in Seq(Values) /\ Len(s) = m /\ \A i \in 1..m : s[i] = cells[i - 1]
      BY <1>1, <1>2, ContentsSeq
<1>4. PICK a : a = SubSeq(s, 1, off)
      OBVIOUS
<1>5. a \in Seq(Values) /\ Len(a) = off /\ \A i \in 1..off : a[i] = cells[i - 1]
  <2>1. a \in Seq(Values) /\ Len(a) = off /\ \A i \in 1..off : a[i] = s[i]
        BY <1>1, <1>3, <1>4, FirstOf
  <2>2. \A i \in 1..off : i \in 1..m
        BY <1>1
  <2> QED BY <1>3, <2>1, <2>2
<1>6. PICK b : b = SubSeq(s, off + 1, m)
      OBVIOUS
<1>7. b \in Seq(Values) /\ Len(b) = m - off /\ \A i \in 1..(m - off) : b[i] = cells[off + i - 1]
  <2>1. /\ b \in Seq(Values) /\ Len(b) = m - (off + 1) + 1
        /\ \A i \in 1..(m - (off + 1) + 1) : b[i] = s[(off + 1) + i - 1]
        BY <1>1, <1>3, <1>6, Slice
  <2>2. m - (off + 1) + 1 = m - off
        BY <1>1
  <2>3. ASSUME NEW i \in 1..(m - off) PROVE b[i] = cells[off + i - 1]
    <3>1. PICK j \in 1..m : j = off + i
          BY <1>1
    <3>2. (off + 1) + i - 1 = j /\ off + i - 1 = j - 1
          BY <3>1
    <3> QED BY <1>3, <2>1, <2>2, <3>1, <3>2
  <2> QED BY <2>1, <2>2, <2>3
<1>8. PICK u : u = a \o new
      OBVIOUS
<1>9. /\ u \in Seq(Values) /\ Len(u) = off + n
      /\ \A i \in 1..(off + n) : u[i] = IF i <= off THEN a[i] ELSE new[i - off]
  <2>1. u \in Seq(Values) /\ Both(u, a, new, Len(a), Len(new))
        BY <1>5, <1>8, JoinedTo
  <2>2. Len(a) = off /\ Len(new) = n
        BY <1>1, <1>5
  <2> QED BY <2>1, <2>2 DEF Both
<1>10. PICK w : w = u \o b
       OBVIOUS
<1>11. /\ w \in Seq(Values) /\ Len(w) = m + n
       /\ \A i \in 1..(m + n) : w[i] = IF i <= off + n THEN u[i] ELSE b[i - (off + n)]
  <2>1. (off + n) + (m - off) = m + n /\ m - off \in Nat /\ off + n \in Nat
        BY <1>1
  <2>2. PICK p \in Nat, q \in Nat : p = off + n /\ q = m - off /\ p + q = m + n
        BY <2>1
  <2>3. u \in Seq(Values) /\ b \in Seq(Values) /\ Len(u) = p /\ Len(b) = q
        BY <1>7, <1>9, <2>2
  <2>4. w \in Seq(Values) /\ Both(w, u, b, p, q)
        BY <1>10, <2>3, JoinedTo
  <2> QED BY <2>2, <2>4 DEF Both
<1>12. ASSUME NEW i \in 1..(m + n)
       PROVE  w[i] = IF i <= off THEN cells[i - 1]
                     ELSE IF i <= off + n THEN new[i - off] ELSE cells[i - 1 - n]
  <2>1. CASE i <= off
    <3>1. i \in 1..off /\ i \in 1..(off + n) /\ i <= off + n
          BY <1>1, <2>1
    <3> QED BY <1>5, <1>9, <1>11, <2>1, <3>1
  <2>2. CASE ~ (i <= off) /\ i <= off + n
    <3>1. i \in 1..(off + n)
          BY <1>1, <2>2
    <3> QED BY <1>9, <1>11, <2>2, <3>1
  <2>3. CASE ~ (i <= off + n)
    <3>0. i - (off + n) \in 1..(m - off)
          BY <1>1, <2>3
    <3>1. PICK j \in 1..(m - off) : j = i - (off + n)
          BY <3>0
    <3>2. off + j - 1 = i - 1 - n /\ ~ (i <= off)
          BY <1>1, <2>3, <3>1
    <3> QED BY <1>7, <1>11, <2>3, <3>1, <3>2
  <2> QED BY <1>1, <2>1, <2>2, <2>3
<1>13. w = t
       BY <1>1, <1>2, <1>4, <1>6, <1>8, <1>10 DEF Elements!Spliced
<1> QED BY <1>1, <1>11, <1>12, <1>13 DEF WithNew

LEMMA StartInsert ==
  ASSUME Quiet, NEW off \in Nat, off <= size, NEW src \in Seq(Sources), NEW new \in Seq(Values),
         1 <= Len(src), Len(src) <= MaxN, size + Len(src) <= MaxElements,
         \A i \in 1..Len(src) : Readable(cells, src[i]),
         off # 0 /\ off # size => \A i \in 1..Len(src) : ~ src[i].cell,
         Len(new) = Len(src), \A i \in 1..Len(src) : new[i] = Read(cells, src[i])
  PROVE  Running(cells, size, Elements!InsertProg(off, src), {}, Len(src), ~ Elements!Shorter(off),
                 Elements!Contents, Elements!Spliced(off, new), off \in {0, size})
<1>1. PICK n \in Nat, m \in Nat : n = Len(src) /\ m = size /\ off <= m
      BY DEF Quiet
<1>2. PICK S : S = IF off \in {0, size} THEN {"make"} ELSE {"make", "set"}
      OBVIOUS
<1>3. "make" \in S /\ "destroy" \notin S /\ (off \in {0, size} => S = {"make"})
      /\ (off # 0 /\ off # size => "set" \in S)
      BY <1>2
<1>4. Asked(S, cells, off, src)
      BY <1>1, <1>3 DEF Asked, Quiet
<1>5. PICK by \in Int : by = IF Elements!Shorter(off) THEN 0 ELSE -n
  <2>1. (IF Elements!Shorter(off) THEN 0 ELSE -n) \in Int
        BY <1>1
  <2> QED BY <2>1
<1>6. PICK w : Way(S, cells, Elements!InsertProg(off, src), w) /\ Inserted(cells, w, off, src, by)
      BY <1>1, <1>4, <1>5, InsertRight
<1>7. by = By(~ Elements!Shorter(off), n)
      BY <1>5 DEF By
<1>8. /\ \A k \in Int : 0 <= k /\ k < m + n => k + by \in Places /\ w[k + by] # Blank
      /\ \A k \in Int : 0 <= k /\ k < off => w[k + by] = cells[k]
      /\ \A k \in Int : off <= k /\ k < off + n => w[k + by] = Read(cells, src[k - off + 1])
      /\ \A k \in Int : off + n <= k /\ k < m + n => w[k + by] = cells[k - n]
      BY <1>1, <1>6 DEF Inserted
<1>9. PICK s : s = Elements!Spliced(off, new)
      OBVIOUS
<1>10. /\ s \in Seq(Values) /\ Len(s) = m + n
       /\ \A i \in 1..(m + n) : s[i] = IF i <= off THEN cells[i - 1]
                                       ELSE IF i <= off + n THEN new[i - off] ELSE cells[i - 1 - n]
  <2>1. WithNew(s, off, new)
        BY <1>9, SplicedAt
  <2>2. size = m /\ Len(new) = n
        BY <1>1
  <2> QED BY <2>1, <2>2 DEF WithNew
<1>11. ASSUME NEW i \in 1..(m + n) PROVE s[i] = w[i - 1 + by]
  <2>1. PICK k \in Int : k = i - 1 /\ 0 <= k /\ k < m + n
        OBVIOUS
  <2>2. CASE i <= off
    <3>1. k < off
          BY <2>1, <2>2
    <3> QED BY <1>8, <1>10, <2>1, <2>2, <3>1
  <2>3. CASE ~ (i <= off) /\ i <= off + n
    <3>1. off <= k /\ k < off + n /\ k - off + 1 = i - off /\ i - off \in 1..n
          BY <2>1, <2>3
    <3>2. w[k + by] = Read(cells, src[i - off])
          BY <1>8, <3>1
    <3>3. new[i - off] = Read(cells, src[i - off])
          BY <1>1, <3>1
    <3> QED BY <1>10, <2>1, <2>3, <3>2, <3>3
  <2>4. CASE ~ (i <= off) /\ ~ (i <= off + n)
    <3>1. off + n <= k
          BY <2>1, <2>4
    <3>2. w[k + by] = cells[k - n]
          BY <1>8, <2>1, <3>1
    <3> QED BY <1>10, <2>1, <2>4, <3>2
  <2> QED BY <2>2, <2>3, <2>4
<1>12. s = [i \in 1..(m + n) |-> w[i - 1 + by]]
       BY <1>10, <1>11
<1>13. m + n \in 0..MaxElements
       BY <1>1, Bounded DEF Bound
<1>14. Makes(w, m + n, by, s)
       BY <1>8, <1>12, <1>13 DEF Makes
<1>15. PICK p : p = Elements!InsertProg(off, src)
       OBVIOUS
<1>16. Falls(S, cells, p, w)
       BY <1>6, <1>15, FallsWay
<1>17. Elements!Contents = [i \in 1..m |-> cells[i - 1]]
       BY <1>1 DEF Elements!Contents
<1>18. Full(cells, m)
       BY <1>1 DEF Quiet
<1>19. off \in {0, m} => S = {"make"} /\ Way(S, cells, p, w)
       BY <1>1, <1>3, <1>6, <1>15
<1>20. Running(cells, m, p, {}, n, ~ Elements!Shorter(off), Elements!Contents, s, off \in {0, m})
  <2>1. n \in Int /\ m \in Int
        OBVIOUS
  <2>2. Makes(w, m + n, By(~ Elements!Shorter(off), n), s)
        BY <1>7, <1>14
  <2> QED BY <1>3, <1>16, <1>17, <1>18, <1>19, <2>1, <2>2, CallStarts
<1> QED BY <1>1, <1>9, <1>15, <1>20

LEMMA RefRight ==
  ASSUME Quiet, NEW x \in Values, NEW a \in Int, -1 <= a, a < size
  PROVE  /\ Elements!Ref(x, a) \in Sources /\ Readable(cells, Elements!Ref(x, a))
         /\ Read(cells, Elements!Ref(x, a)) = Elements!Val(x, a)
         /\ Elements!Val(x, a) \in Values
         /\ Elements!Ref(x, a).cell => Elements!Ref(x, a).of = a /\ 0 <= a
         /\ ~ Elements!Ref(x, a).cell => Elements!Ref(x, a).of = Elements!Val(x, a)
<1>1. x \in Int
      BY Bounded DEF Bound
<1>2. CASE a = -1
  <2>1. Elements!Ref(x, a) = [cell |-> FALSE, of |-> x] /\ Elements!Val(x, a) = x
        BY <1>2 DEF Elements!Ref, Elements!Val, Elements!FromValue
  <2> QED BY <1>1, <2>1 DEF Sources, Readable, Read
<1>3. CASE a # -1
  <2>1. Elements!Ref(x, a) = [cell |-> TRUE, of |-> a] /\ Elements!Val(x, a) = cells[a]
        BY <1>3 DEF Elements!Ref, Elements!Val, Elements!FromCell
  <2>2. 0 <= a
        BY <1>3
  <2>3. a \in Places /\ cells[a] \in Values /\ cells[a] # Blank
        BY <2>2, QuietCells
  <2> QED BY <2>1, <2>2, <2>3 DEF Sources, Readable, Read
<1> QED BY <1>2, <1>3

LEMMA StartInsertN ==
  ASSUME Quiet, NEW off \in Nat, off <= size, NEW n \in Nat, 1 <= n, n <= MaxN,
         size + n <= MaxElements, NEW x \in Values, NEW a \in Int, -1 <= a, a < size,
         NEW s, s = Elements!Source(off, x, a)
  PROVE  Running(cells, size, Elements!InsertProg(off, [i \in 1..n |-> s]), {}, n,
                 ~ Elements!Shorter(off), Elements!Contents,
                 Elements!Spliced(off, [i \in 1..n |-> Elements!Val(x, a)]), off \in {0, size})
<1>1. PICK ref, v : ref = Elements!Ref(x, a) /\ v = Elements!Val(x, a)
      OBVIOUS
<1>2. ref \in Sources /\ Readable(cells, ref) /\ Read(cells, ref) = v /\ v \in Values
      BY <1>1, RefRight
<1>3. s \in Sources /\ Readable(cells, s) /\ Read(cells, s) = v /\ (off # 0 /\ off # size => ~ s.cell)
  <2>1. CASE off # 0 /\ off # size
    <3>1. s = [cell |-> FALSE, of |-> v]
          BY <1>1, <2>1 DEF Elements!Source, Elements!FromValue
    <3>2. v \in Int
          BY <1>2, Bounded DEF Bound
    <3> QED BY <1>2, <3>1, <3>2 DEF Sources, Readable, Read
  <2>2. CASE ~ (off # 0 /\ off # size)
        BY <1>1, <1>2, <2>2 DEF Elements!Source
  <2> QED BY <2>1, <2>2
<1>4. PICK src : src = [i \in 1..n |-> s]
      OBVIOUS
<1>5. PICK new : new = [i \in 1..n |-> v]
      OBVIOUS
<1>6. /\ src \in Seq(Sources) /\ Len(src) = n /\ (\A i \in 1..n : src[i] = s)
      /\ new \in Seq(Values) /\ Len(new) = n /\ (\A i \in 1..n : new[i] = v)
      BY <1>2, <1>3, <1>4, <1>5
<1>7. /\ \A i \in 1..n : Readable(cells, src[i])
      /\ off # 0 /\ off # size => \A i \in 1..n : ~ src[i].cell
      /\ \A i \in 1..n : new[i] = Read(cells, src[i])
      BY <1>3, <1>6
<1>8. Running(cells, size, Elements!InsertProg(off, src), {}, n, ~ Elements!Shorter(off),
              Elements!Contents, Elements!Spliced(off, new), off \in {0, size})
      BY <1>6, <1>7, StartInsert
<1> QED BY <1>1, <1>4, <1>5, <1>8

LEMMA StartInsertRange ==
  ASSUME Quiet, NEW off \in Nat, off <= size, NEW n \in Nat, 1 <= n, n <= MaxN,
         size + n <= MaxElements, NEW range \in Seq(Values), Len(range) = n
  PROVE  Running(cells, size,
                 Elements!InsertProg(off, [i \in 1..n |-> Elements!FromValue(range[i])]), {}, n,
                 ~ Elements!Shorter(off), Elements!Contents, Elements!Spliced(off, range),
                 off \in {0, size})
<1>1. PICK src : src = [i \in 1..n |-> Elements!FromValue(range[i])]
      OBVIOUS
<1>2. \A i \in 1..n : range[i] \in Values /\ range[i] \in Int
  <2>1. \A i \in 1..n : range[i] \in Values
        OBVIOUS
  <2>2. \A v \in Values : v \in Int
        BY Bounded DEF Bound
  <2> QED BY <2>1, <2>2
<1>3. \A i \in 1..n : src[i] = [cell |-> FALSE, of |-> range[i]]
      BY <1>1 DEF Elements!FromValue
<1>4. src \in Seq(Sources) /\ Len(src) = n
  <2>1. \A i \in 1..n : Elements!FromValue(range[i]) \in Sources
        BY <1>2 DEF Elements!FromValue, Sources
  <2> QED BY <1>1, <2>1
<1>5. ASSUME NEW i \in 1..n
      PROVE  Readable(cells, src[i]) /\ ~ src[i].cell /\ range[i] = Read(cells, src[i])
  <2>1. ~ src[i].cell /\ src[i].of = range[i]
    <3>1. src[i] = [cell |-> FALSE, of |-> range[i]]
          BY <1>3
    <3> QED BY <3>1
  <2> QED BY <1>2, <2>1 DEF Readable, Read
<1>6. Running(cells, size, Elements!InsertProg(off, src), {}, n, ~ Elements!Shorter(off),
              Elements!Contents, Elements!Spliced(off, range), off \in {0, size})
      BY <1>4, <1>5, StartInsert
<1> QED BY <1>1, <1>6

LEMMA StartErase ==
  ASSUME Quiet, NEW off \in Nat, NEW n \in Nat, 1 <= n, off + n <= size
  PROVE  Running(cells, size, Elements!EraseProg(off, n), {}, -n, off < size - off - n,
                 Elements!Contents,
                 SubSeq(Elements!Contents, 1, off) \o SubSeq(Elements!Contents, off + n + 1, size), FALSE)
<1>1. PICK m \in Nat : m = size /\ off + n <= m /\ m <= MaxElements
      BY DEF Quiet
<1>2. PICK by \in Int : by = IF off < m - off - n THEN n ELSE 0
  <2>1. (IF off < m - off - n THEN n ELSE 0) \in Int
        OBVIOUS
  <2> QED BY <2>1
<1>3. cells \in CellMaps /\ Full(cells, size) /\ size \in Int /\ size <= MaxElements /\ off + n <= size
      BY <1>1 DEF Quiet
<1>4. PICK p : p = Elements!EraseProg(off, n)
      OBVIOUS
<1>5. PICK w : Falls({"set"}, cells, p, w) /\ Erased(cells, w, off, n, by)
  <2>1. CASE off < m - off - n
        BY <1>1, <1>2, <1>3, <1>4, <2>1, EraseFront
  <2>2. CASE ~ (off < m - off - n)
        BY <1>1, <1>2, <1>3, <1>4, <2>2, EraseBack
  <2> QED BY <2>1, <2>2
<1>6. PICK e \in Nat : e = m - n
      BY <1>1
<1>7. /\ \A k \in Int : 0 <= k /\ k < e => k + by \in Places /\ w[k + by] # Blank
      /\ \A k \in Int : 0 <= k /\ k < off => w[k + by] = cells[k]
      /\ \A k \in Int : off <= k /\ k < e => w[k + by] = cells[k + n]
      BY <1>1, <1>5, <1>6 DEF Erased
<1>8. PICK s : s = Elements!Contents
      OBVIOUS
<1>9. s \in Seq(Values) /\ Len(s) = m /\ \A i \in 1..m : s[i] = cells[i - 1]
      BY <1>1, <1>8, ContentsSeq
<1>10. PICK a, b : a = SubSeq(s, 1, off) /\ b = SubSeq(s, off + n + 1, m)
       OBVIOUS
<1>11. a \in Seq(Values) /\ Len(a) = off /\ \A i \in 1..off : a[i] = s[i]
       BY <1>1, <1>9, <1>10, FirstOf
<1>12. PICK l \in Nat, o \in Nat : l = m - off - n /\ o = off + n
  <2>1. m - off - n \in Nat /\ off + n \in Nat
        BY <1>1
  <2> QED BY <2>1
<1>13. b \in Seq(Values) /\ Len(b) = l /\ \A i \in 1..l : b[i] = s[o + i]
  <2>1. PICK f \in Nat : f = off + n + 1 /\ f >= 1 /\ f <= m + 1 /\ f = o + 1
    <3>1. off + n + 1 \in Nat /\ off + n + 1 >= 1 /\ off + n + 1 <= m + 1 /\ off + n + 1 = o + 1
          BY <1>1, <1>12
    <3> QED BY <3>1
  <2>2. b = SubSeq(s, f, m)
        BY <1>10, <2>1
  <2>3. /\ b \in Seq(Values) /\ Len(b) = m - f + 1
        /\ \A i \in 1..(m - f + 1) : b[i] = s[f + i - 1]
        BY <1>1, <1>9, <2>1, <2>2, Slice
  <2>4. m - f + 1 = l
        BY <1>1, <1>12, <2>1
  <2>5. ASSUME NEW i \in 1..l PROVE b[i] = s[o + i]
    <3>1. f + i - 1 = o + i
          BY <2>1
    <3> QED BY <2>3, <2>4, <3>1
  <2> QED BY <2>3, <2>4, <2>5
<1>14. PICK want : want = a \o b
       OBVIOUS
<1>15. /\ want \in Seq(Values) /\ Len(want) = off + l
       /\ \A i \in 1..(off + l) : want[i] = IF i <= off THEN a[i] ELSE b[i - off]
  <2>1. want \in Seq(Values) /\ Both(want, a, b, Len(a), Len(b))
        BY <1>11, <1>13, <1>14, JoinedTo
  <2>2. Len(a) = off /\ Len(b) = l
        BY <1>11, <1>13
  <2> QED BY <2>1, <2>2 DEF Both
<1>16. off + l = e
       BY <1>1, <1>6, <1>12
<1>17. ASSUME NEW i \in 1..e PROVE want[i] = w[i - 1 + by]
  <2>1. PICK k \in Int : k = i - 1 /\ 0 <= k /\ k < e
        OBVIOUS
  <2>2. CASE i <= off
    <3>1. k < off /\ i \in 1..off /\ i \in 1..m
          BY <1>1, <2>1, <2>2
    <3>2. want[i] = a[i] /\ a[i] = s[i] /\ s[i] = cells[i - 1]
          BY <1>9, <1>11, <1>15, <1>16, <2>2, <3>1
    <3> QED BY <1>7, <2>1, <3>1, <3>2
  <2>3. CASE ~ (i <= off)
    <3>1. i - off \in 1..l /\ o + (i - off) \in 1..m /\ o + (i - off) = i + n
          BY <1>1, <1>12, <1>16, <2>3
    <3>2. PICK j \in 1..l : j = i - off
          BY <3>1
    <3>3. PICK q \in 1..m : q = o + j /\ q = i + n
          BY <3>1, <3>2
    <3>4. want[i] = b[j] /\ b[j] = s[q] /\ s[q] = cells[q - 1]
          BY <1>9, <1>13, <1>15, <1>16, <2>3, <3>2, <3>3
    <3>5. q - 1 = k + n /\ off <= k
          BY <2>1, <2>3, <3>3
    <3>6. w[k + by] = cells[k + n]
          BY <1>7, <2>1, <3>5
    <3> QED BY <2>1, <3>4, <3>5, <3>6
  <2> QED BY <2>2, <2>3
<1>18. want = [i \in 1..e |-> w[i - 1 + by]]
       BY <1>15, <1>16, <1>17
<1>19. e \in 0..MaxElements
       BY <1>1, <1>6, Bounded DEF Bound
<1>20. Makes(w, e, by, want)
       BY <1>7, <1>18, <1>19 DEF Makes
<1>21. PICK g \in Int : g = -n
       OBVIOUS
<1>22. PICK front : front = (off < m - off - n)
       OBVIOUS
<1>23. m + g = e /\ By(front, g) = by
  <2>1. m + g = e /\ -g = n
        BY <1>1, <1>6, <1>21
  <2>2. CASE off < m - off - n
        BY <1>2, <1>22, <2>1, <2>2 DEF By
  <2>3. CASE ~ (off < m - off - n)
        BY <1>2, <1>22, <2>1, <2>3 DEF By
  <2> QED BY <2>1, <2>2, <2>3
<1>24. s = [i \in 1..m |-> cells[i - 1]] /\ Full(cells, m)
       BY <1>1, <1>3, <1>8 DEF Elements!Contents
<1>25. Running(cells, m, p, {}, g, front, s, want, FALSE)
  <2>1. m \in Int /\ "destroy" \notin {"set"} /\ Makes(w, m + g, By(front, g), want)
        BY <1>20, <1>23
  <2> QED BY <1>5, <1>24, <2>1, CallStarts
<1> QED BY <1>1, <1>4, <1>8, <1>10, <1>14, <1>21, <1>22, <1>25

\* v has the elements of now, the first m of them assigned y
Assigned(v, m, y) ==
  /\ Full(v, size)
  /\ \A i \in Places : 0 <= i /\ i < m => v[i] = y
  /\ \A i \in Places : ~ (0 <= i /\ i < m) => v[i] = cells[i]

LEMMA AssignOver ==
  ASSUME Quiet, NEW m \in Nat, m <= size, NEW x \in Values, NEW a \in Int, -1 <= a, a < size,
         NEW ref, ref = Elements!Ref(x, a), NEW p, p = Elements!Set(0, [i \in 1..m |-> ref])
  PROVE  \E v : Way({"make", "set"}, cells, p, v) /\ Assigned(v, m, Elements!Val(x, a))
<1>1. PICK src : src = [i \in 1..m |-> ref]
      OBVIOUS
<1>2. PICK y : y = Elements!Val(x, a)
      OBVIOUS
<1>3. ref \in Sources /\ Readable(cells, ref) /\ Read(cells, ref) = y /\ y \in Values /\ (ref.cell => Read(cells, ref) = cells[ref.of])
      BY <1>2, RefRight DEF Read
<1>4. src \in Seq(Sources) /\ Len(src) = m /\ \A i \in 1..m : src[i] = ref
      BY <1>1, <1>3
<1>5. PICK z \in Int : z = 0
      OBVIOUS
<1>6. PICK v : Way({"make", "set"}, cells, Elements!Set(z, src), v) /\ Placed(cells, v, z, src)
  <2>1. ASSUME NEW i \in Int, z <= i /\ i < z + m PROVE i \in Places /\ cells[i] # Blank
    <3>1. 0 <= i /\ i < size
          BY <1>5, <2>1 DEF Quiet
    <3> QED BY <3>1, QuietCells
  <2>2. \A i \in 1..m : Readable(cells, src[i])
        BY <1>3, <1>4
  <2>3. ASSUME NEW i \in 1..m, NEW j \in 1..m, src[i].cell
        PROVE  Read(cells, src[j]) = cells[src[i].of]
        BY <1>3, <1>4, <2>3
  <2>4. cells \in CellMaps /\ Values \subseteq Nat /\ "set" \in {"make", "set"}
        BY Bounded DEF Quiet, Bound
  <2> QED BY <1>4, <2>1, <2>2, <2>3, <2>4, WaySet
<1>7. /\ \A i \in Places : z <= i /\ i < z + m => v[i] = Read(cells, src[i - z + 1]) /\ v[i] # Blank
      /\ \A i \in Places : ~ (z <= i /\ i < z + m) => v[i] = cells[i]
      BY <1>4, <1>6 DEF Placed
<1>8. ASSUME NEW i \in Places, 0 <= i /\ i < m PROVE v[i] = y /\ v[i] # Blank
  <2>1. i \in Int
        BY DEF Places
  <2>2. z <= i /\ i < z + m /\ i - z + 1 \in 1..m
        BY <1>5, <1>8, <2>1
  <2>3. src[i - z + 1] = ref
        BY <1>4, <2>2
  <2> QED BY <1>3, <1>7, <2>2, <2>3
<1>9. ASSUME NEW i \in Places, ~ (0 <= i /\ i < m) PROVE v[i] = cells[i]
  <2>1. i \in Int
        BY DEF Places
  <2>2. ~ (z <= i /\ i < z + m)
        BY <1>5, <1>9, <2>1
  <2> QED BY <1>7, <2>2
<1>10. Full(v, size)
  <2>1. ASSUME NEW i \in Places PROVE v[i] # Blank <=> 0 <= i /\ i < size
    <3>1. i \in Int
          BY DEF Places
    <3>2. CASE 0 <= i /\ i < m
      <4>1. 0 <= i /\ i < size
            BY <3>1, <3>2 DEF Quiet
      <4> QED BY <1>8, <3>2, <4>1
    <3>3. CASE ~ (0 <= i /\ i < m)
          BY <1>9, <3>3 DEF Quiet, Full
    <3> QED BY <3>2, <3>3
  <2> QED BY <2>1 DEF Full
<1>11. Assigned(v, m, y)
       BY <1>8, <1>9, <1>10 DEF Assigned
<1> QED BY <1>1, <1>2, <1>5, <1>6, <1>11

LEMMA StartAssignFewer ==
  ASSUME Quiet, NEW n \in Nat, n < size, NEW x \in Values, NEW a \in Int, -1 <= a, a < size,
         NEW ref, ref = Elements!Ref(x, a)
  PROVE  Running(cells, size,
                 Elements!Set(0, [i \in 1..n |-> ref]) \o Elements!EraseProg(n, size - n), {}, n - size, FALSE,
                 Elements!Contents, [i \in 1..n |-> Elements!Val(x, a)], FALSE)
<1>1. PICK m \in Nat, e \in Nat : m = size /\ e = m - n /\ n < m /\ m <= MaxElements
  <2>1. size \in Nat /\ size - n \in Nat /\ size <= MaxElements
        BY DEF Quiet
  <2> QED BY <2>1
<1>2. PICK y : y = Elements!Val(x, a)
      OBVIOUS
<1>3. PICK p, q : p = Elements!Set(0, [i \in 1..n |-> ref]) /\ q = Elements!EraseProg(n, e)
      OBVIOUS
<1>4. PICK v : /\ Way({"make", "set"}, cells, p, v) /\ Full(v, size)
               /\ \A i \in Places : 0 <= i /\ i < n => v[i] = y
  <2>1. n <= size
        BY <1>1
  <2>2. \E u : Way({"make", "set"}, cells, p, u) /\ Assigned(u, n, Elements!Val(x, a))
        BY <1>3, <2>1, AssignOver
  <2> QED BY <1>2, <2>2 DEF Assigned
<1>5. v \in CellMaps
      BY <1>4 DEF Way
<1>6. PICK w : Falls({"set"}, v, q, w) /\ Erased(v, w, n, e, 0)
  <2>1. ~ (n < size - n - e) /\ size \in Int /\ 1 <= e /\ n + e <= size /\ size <= MaxElements
        BY <1>1
  <2> QED BY <1>3, <1>4, <1>5, <2>1, EraseBack
<1>7. Falls({"make", "set"}, cells, p \o q, w)
  <2>1. {"set"} \subseteq {"make", "set"}
        OBVIOUS
  <2> QED BY <1>4, <1>6, <2>1, FallsJoined
<1>8. ASSUME NEW k \in Int, 0 <= k, k < n
      PROVE  k \in Places /\ w[k] # Blank /\ w[k] = y
  <2>1. k < size - e /\ k + 0 = k
        BY <1>1, <1>8
  <2>2. k + 0 \in Places /\ w[k + 0] # Blank /\ w[k + 0] = v[k]
        BY <1>6, <1>8, <2>1 DEF Erased
  <2> QED BY <1>4, <1>8, <2>1, <2>2
<1>9. [i \in 1..n |-> y] = [i \in 1..n |-> w[i - 1 + 0]]
  <2>1. ASSUME NEW i \in 1..n PROVE w[i - 1 + 0] = y
    <3>1. PICK k \in Int : k = i - 1 + 0 /\ 0 <= k /\ k < n
          OBVIOUS
    <3> QED BY <1>8, <3>1
  <2> QED BY <2>1
<1>10. Makes(w, n, 0, [i \in 1..n |-> y])
  <2>1. n \in 0..MaxElements
        BY <1>1, Bounded DEF Bound
  <2>2. \A k \in Int : k + 0 = k
        OBVIOUS
  <2> QED BY <1>8, <1>9, <2>1, <2>2 DEF Makes
<1>11. PICK g \in Int : g = n - m
  <2>1. n - m \in Int
        BY <1>1
  <2> QED BY <2>1
<1>12. Elements!Contents = [i \in 1..m |-> cells[i - 1]] /\ Full(cells, m)
       BY <1>1 DEF Elements!Contents, Quiet
<1>13. Running(cells, m, p \o q, {}, g, FALSE, Elements!Contents, [i \in 1..n |-> y], FALSE)
  <2>1. m + g = n /\ By(FALSE, g) = 0 /\ m \in Int
        BY <1>1, <1>11 DEF By
  <2>2. "destroy" \notin {"make", "set"} /\ Makes(w, m + g, By(FALSE, g), [i \in 1..n |-> y])
        BY <1>10, <2>1
  <2> QED BY <1>7, <1>12, <2>1, <2>2, CallStarts
<1> QED BY <1>1, <1>2, <1>3, <1>11, <1>13

LEMMA StartAssignMore ==
  ASSUME Quiet, NEW n \in Nat, ~ (n < size), n <= MaxElements, NEW x \in Values, NEW a \in Int,
         -1 <= a, a < size, NEW ref, ref = Elements!Ref(x, a)
  PROVE  Running(cells, size,
                 Elements!Set(0, [i \in 1..size |-> ref]) \o Elements!Make(size, [i \in 1..(n - size) |-> ref]),
                 {}, n - size, FALSE, Elements!Contents, [i \in 1..n |-> Elements!Val(x, a)], FALSE)
<1>1. PICK m \in Nat, e \in Nat : m = size /\ e = n - m /\ m <= n /\ m <= MaxElements
  <2>1. size \in Nat /\ n - size \in Nat /\ size <= n /\ size <= MaxElements
        BY DEF Quiet
  <2> QED BY <2>1
<1>2. PICK y : y = Elements!Val(x, a)
      OBVIOUS
<1>3. PICK src : src = [i \in 1..e |-> ref]
      OBVIOUS
<1>4. PICK p, q : p = Elements!Set(0, [i \in 1..m |-> ref]) /\ q = Elements!Make(m, src)
      OBVIOUS
<1>5. PICK v : /\ Way({"make", "set"}, cells, p, v) /\ Full(v, m)
               /\ \A i \in Places : 0 <= i /\ i < m => v[i] = y
  <2>1. m <= size
        BY <1>1
  <2>2. \E u : Way({"make", "set"}, cells, p, u) /\ Assigned(u, m, Elements!Val(x, a))
        BY <1>4, <2>1, AssignOver
  <2> QED BY <1>1, <1>2, <2>2 DEF Assigned
<1>6. v \in CellMaps
      BY <1>5 DEF Way
<1>7. /\ ref \in Sources /\ Readable(cells, ref) /\ Read(cells, ref) = y /\ y \in Values /\ y # Blank
      /\ (ref.cell => ref.of = a /\ 0 <= a) /\ (~ ref.cell => ref.of = y)
  <2>1. Values \subseteq Nat
        BY Bounded DEF Bound
  <2>2. /\ ref \in Sources /\ Readable(cells, ref) /\ Read(cells, ref) = y /\ y \in Values
        /\ (ref.cell => ref.of = a /\ 0 <= a) /\ (~ ref.cell => ref.of = y)
        BY <1>2, RefRight
  <2> QED BY <2>1, <2>2 DEF Blank
<1>8. Readable(v, ref) /\ Read(v, ref) = y
  <2>1. CASE ref.cell
    <3>1. ref.of = a /\ 0 <= a /\ a < m
          BY <1>1, <1>7, <2>1
    <3>2. a \in Places
          BY <1>7, <2>1, <3>1 DEF Readable
    <3>3. v[a] = y
          BY <1>5, <3>1, <3>2
    <3> QED BY <1>7, <2>1, <3>1, <3>2, <3>3 DEF Readable, Read
  <2>2. CASE ~ ref.cell
        BY <1>7, <2>2 DEF Readable, Read
  <2> QED BY <2>1, <2>2
<1>9. src \in Seq(Sources) /\ Len(src) = e /\ \A i \in 1..e : src[i] = ref
      BY <1>3, <1>7
<1>10. \A i \in Int : 0 <= i /\ i < n => i \in Places
       BY Bounded DEF Places, Bound
<1>11. PICK w : Way({"make", "set"}, v, q, w) /\ Placed(v, w, m, src)
  <2>1. ASSUME NEW i \in Int, m <= i /\ i < m + e PROVE i \in Places /\ v[i] = Blank
    <3>1. 0 <= i /\ i < n /\ ~ (0 <= i /\ i < m)
          BY <1>1, <2>1
    <3> QED BY <1>5, <1>10, <3>1 DEF Full
  <2>2. \A i \in 1..e : Readable(v, src[i])
        BY <1>8, <1>9
  <2>3. m \in Int /\ Values \subseteq Nat /\ "make" \in {"make", "set"}
        BY Bounded DEF Bound
  <2> QED BY <1>4, <1>6, <1>9, <2>1, <2>2, <2>3, WayMake
<1>12. /\ \A i \in Places : m <= i /\ i < n => w[i] = Read(v, src[i - m + 1]) /\ w[i] # Blank
       /\ \A i \in Places : ~ (m <= i /\ i < n) => w[i] = v[i]
  <2>1. m + e = n
        BY <1>1
  <2> QED BY <1>9, <1>11, <2>1 DEF Placed
<1>13. Falls({"make", "set"}, cells, p \o q, w)
  <2>1. Way({"make", "set"}, cells, p \o q, w)
        BY <1>5, <1>11, WayJoined
  <2> QED BY <2>1, FallsWay
<1>14. ASSUME NEW k \in Int, 0 <= k, k < n
       PROVE  k \in Places /\ w[k] # Blank /\ w[k] = y
  <2>1. k \in Places
        BY <1>10, <1>14
  <2>2. CASE k < m
    <3>1. ~ (m <= k /\ k < n)
          BY <2>2
    <3> QED BY <1>5, <1>7, <1>12, <1>14, <2>1, <2>2, <3>1
  <2>3. CASE ~ (k < m)
    <3>1. m <= k /\ k - m + 1 \in 1..e
          BY <1>1, <1>14, <2>3
    <3>2. src[k - m + 1] = ref
          BY <1>9, <3>1
    <3> QED BY <1>7, <1>8, <1>12, <1>14, <2>1, <3>1, <3>2
  <2> QED BY <2>2, <2>3
<1>15. [i \in 1..n |-> y] = [i \in 1..n |-> w[i - 1 + 0]]
  <2>1. ASSUME NEW i \in 1..n PROVE w[i - 1 + 0] = y
    <3>1. PICK k \in Int : k = i - 1 + 0 /\ 0 <= k /\ k < n
          OBVIOUS
    <3> QED BY <1>14, <3>1
  <2> QED BY <2>1
<1>16. Makes(w, n, 0, [i \in 1..n |-> y])
  <2>1. n \in 0..MaxElements
        BY Bounded DEF Bound
  <2>2. \A k \in Int : k + 0 = k
        OBVIOUS
  <2> QED BY <1>14, <1>15, <2>1, <2>2 DEF Makes
<1>17. Elements!Contents = [i \in 1..m |-> cells[i - 1]] /\ Full(cells, m)
       BY <1>1 DEF Elements!Contents, Quiet
<1>18. PICK g \in Int : g = n - m
  <2>1. n - m \in Int
        BY <1>1
  <2> QED BY <2>1
<1>19. Running(cells, m, p \o q, {}, g, FALSE, Elements!Contents, [i \in 1..n |-> y], FALSE)
  <2>1. m + g = n /\ By(FALSE, g) = 0 /\ m \in Int
        BY <1>1, <1>18 DEF By
  <2>2. "destroy" \notin {"make", "set"} /\ Makes(w, m + g, By(FALSE, g), [i \in 1..n |-> y])
        BY <1>16, <2>1
  <2> QED BY <1>13, <1>17, <2>1, <2>2, CallStarts
<1> QED BY <1>1, <1>2, <1>3, <1>4, <1>18, <1>19

-----------------------------------------------------------------------------
(* CallRight, from the invariant that what is left of a call leads to what *)
(* was asked for.                                                          *)

CallShape ==
  call = [pc |-> call.pc, todo |-> call.todo, made |-> call.made, grow |-> call.grow,
          front |-> call.front, was |-> call.was, want |-> call.want, ends |-> call.ends]

ElementsInv ==
  /\ cells \in CellMaps /\ size \in 0..MaxElements
  /\ call.pc \in {"idle", "run", "thrown"}
  /\ call.pc # "idle" => CallShape
  /\ call.pc # "run" => Full(cells, size)
  /\ call.pc = "run" => Running(cells, size, call.todo, call.made, call.grow, call.front,
                                call.was, call.want, call.ends)
  /\ call.pc = "thrown" /\ call.ends => call.was = [i \in 1..size |-> cells[i - 1]]

LEMMA ElementsStart == Elements!Init => ElementsInv
<1> SUFFICES ASSUME Elements!Init PROVE ElementsInv
    OBVIOUS
<1>1. cells = [i \in Places |-> Blank] /\ size = 0 /\ call.pc = "idle"
      BY DEF Elements!Init, Elements!Index, Elements!Raw, Elements!Idle, Places, Blank
<1>2. \A i \in Places : ~ (0 <= i /\ i < 0)
      BY DEF Places
<1>3. cells \in CellMaps /\ Full(cells, size)
      BY <1>1, <1>2 DEF CellMaps, Full
<1>4. size \in 0..MaxElements
      BY <1>1, Bounded DEF Bound
<1> QED BY <1>1, <1>3, <1>4 DEF ElementsInv

LEMMA BeginKeeps ==
  ASSUME ElementsInv, NEW prog, NEW grow, NEW front, NEW ends, NEW want,
         Elements!Begin(prog, grow, front, ends, want),
         Quiet => Running(cells, size, prog, {}, grow, front, Elements!Contents, want, ends)
  PROVE  ElementsInv'
<1>1. Quiet /\ size \in 0..MaxElements /\ cells \in CellMaps
  <2>1. call.pc = "idle"
        BY DEF Elements!Begin, Elements!Idle
  <2> QED BY <2>1 DEF ElementsInv, Quiet
<1>2. PICK was : was = Elements!Contents
      OBVIOUS
<1>3. call' = [pc |-> "run", todo |-> prog, made |-> {}, grow |-> grow, front |-> front,
               was |-> was, want |-> want, ends |-> ends]
      /\ cells' = cells /\ size' = size
      BY <1>2 DEF Elements!Begin
<1>4. /\ call'.pc = "run" /\ call'.todo = prog /\ call'.made = {} /\ call'.grow = grow
      /\ call'.front = front /\ call'.was = was /\ call'.want = want /\ call'.ends = ends
      BY <1>3
<1>5. CallShape'
      BY <1>3, <1>4 DEF CallShape
<1>6. Running(cells, size, prog, {}, grow, front, was, want, ends)
      BY <1>1, <1>2
<1>7. PICK c, n : c = cells /\ n = size
      OBVIOUS
<1>8. /\ Running(c, n, prog, {}, grow, front, was, want, ends)
      /\ c = cells' /\ n = size' /\ c \in CellMaps /\ n \in 0..MaxElements
      BY <1>1, <1>3, <1>6, <1>7
<1>9. Running(cells', size', call'.todo, call'.made, call'.grow, call'.front,
              call'.was, call'.want, call'.ends)
      BY <1>4, <1>8
<1>10. /\ cells' \in CellMaps /\ size' \in 0..MaxElements
       BY <1>8
<1> QED BY <1>4, <1>5, <1>9, <1>10 DEF ElementsInv, CellMaps, Places, Running, Full, Blank

LEMMA InsertNKeeps ==
  ASSUME ElementsInv, NEW off \in 0..size, NEW n \in 1..MaxN, NEW x \in Values, NEW a \in -1..(size - 1),
         size + n <= MaxElements, Elements!InsertN(off, n, x, a)
  PROVE  ElementsInv'
<1>1. size \in 0..MaxElements /\ MaxN \in Nat
      BY Bounded DEF ElementsInv, Bound
<1>2. off \in Nat /\ off <= size /\ n \in Nat /\ 1 <= n /\ n <= MaxN /\ a \in Int /\ -1 <= a /\ a < size
      BY <1>1
<1>3. PICK s : s = Elements!Source(off, x, a)
      OBVIOUS
<1>4. PICK prog, want : /\ prog = Elements!InsertProg(off, [i \in 1..n |-> s])
                        /\ want = Elements!Spliced(off, [i \in 1..n |-> Elements!Val(x, a)])
      OBVIOUS
<1>5. PICK front, ends : front = ~ Elements!Shorter(off) /\ ends = (off \in {0, size})
      OBVIOUS
<1>6. Elements!Begin(prog, n, front, ends, want)
      BY <1>3, <1>4, <1>5 DEF Elements!InsertN
<1>7. Quiet => Running(cells, size, prog, {}, n, front, Elements!Contents, want, ends)
  <2>1. SUFFICES ASSUME Quiet
                 PROVE  Running(cells, size, prog, {}, n, front, Elements!Contents, want, ends)
        OBVIOUS
  <2>2. Running(cells, size, Elements!InsertProg(off, [i \in 1..n |-> s]), {}, n,
                 ~ Elements!Shorter(off), Elements!Contents,
                 Elements!Spliced(off, [i \in 1..n |-> Elements!Val(x, a)]), off \in {0, size})
        BY <1>2, <1>3, <2>1, StartInsertN
  <2> QED BY <1>4, <1>5, <2>2
<1> QED BY <1>6, <1>7, BeginKeeps

LEMMA InsertRangeKeeps ==
  ASSUME ElementsInv, NEW off \in 0..size, NEW n \in 1..MaxN, NEW range \in [1..n -> Values],
         size + n <= MaxElements, Elements!InsertRange(off, range)
  PROVE  ElementsInv'
<1>1. size \in 0..MaxElements /\ MaxN \in Nat
      BY Bounded DEF ElementsInv, Bound
<1>2. off \in Nat /\ off <= size /\ n \in Nat /\ 1 <= n /\ n <= MaxN
      BY <1>1
<1>3. range \in Seq(Values) /\ Len(range) = n
      BY <1>2
<1>4. PICK prog, want :
        /\ prog = Elements!InsertProg(off, [i \in 1..n |-> Elements!FromValue(range[i])])
        /\ want = Elements!Spliced(off, range)
      OBVIOUS
<1>5. PICK front, ends : front = ~ Elements!Shorter(off) /\ ends = (off \in {0, size})
      OBVIOUS
<1>6. Elements!Begin(prog, n, front, ends, want)
      BY <1>3, <1>4, <1>5 DEF Elements!InsertRange
<1>7. Quiet => Running(cells, size, prog, {}, n, front, Elements!Contents, want, ends)
  <2>1. SUFFICES ASSUME Quiet
                 PROVE  Running(cells, size, prog, {}, n, front, Elements!Contents, want, ends)
        OBVIOUS
  <2>2. Running(cells, size, Elements!InsertProg(off, [i \in 1..n |-> Elements!FromValue(range[i])]),
                {}, n, ~ Elements!Shorter(off), Elements!Contents, Elements!Spliced(off, range),
                off \in {0, size})
        BY <1>2, <1>3, <2>1, StartInsertRange
  <2> QED BY <1>4, <1>5, <2>2
<1> QED BY <1>6, <1>7, BeginKeeps

LEMMA EraseKeeps ==
  ASSUME ElementsInv, NEW off \in 0..(size - 1), NEW n \in 1..(size - off), Elements!Erase(off, n)
  PROVE  ElementsInv'
<1>1. size \in 0..MaxElements
      BY DEF ElementsInv
<1>2. off \in Nat /\ n \in Nat /\ 1 <= n /\ off + n <= size
      BY <1>1
<1>3. PICK prog, want :
        /\ prog = Elements!EraseProg(off, n)
        /\ want = SubSeq(Elements!Contents, 1, off) \o SubSeq(Elements!Contents, off + n + 1, size)
      OBVIOUS
<1>4. PICK front, grow : front = (off < size - off - n) /\ grow = -n
      OBVIOUS
<1>5. Elements!Begin(prog, grow, front, FALSE, want)
      BY <1>3, <1>4 DEF Elements!Erase
<1>6. Quiet => Running(cells, size, prog, {}, grow, front, Elements!Contents, want, FALSE)
  <2>1. SUFFICES ASSUME Quiet
                 PROVE  Running(cells, size, prog, {}, grow, front, Elements!Contents, want, FALSE)
        OBVIOUS
  <2>2. Running(cells, size, Elements!EraseProg(off, n), {}, -n, off < size - off - n, Elements!Contents,
                SubSeq(Elements!Contents, 1, off) \o SubSeq(Elements!Contents, off + n + 1, size), FALSE)
        BY <1>2, <2>1, StartErase
  <2> QED BY <1>3, <1>4, <2>2
<1> QED BY <1>5, <1>6, BeginKeeps

LEMMA AssignNKeeps ==
  ASSUME ElementsInv, NEW n \in 0..MaxElements, NEW x \in Values, NEW a \in -1..(size - 1),
         Elements!AssignN(n, x, a)
  PROVE  ElementsInv'
<1>1. size \in 0..MaxElements /\ MaxElements \in Nat
      BY Bounded DEF ElementsInv, Bound
<1>2. n \in Nat /\ n <= MaxElements /\ a \in Int /\ -1 <= a /\ a < size
      BY <1>1
<1>3. PICK ref : ref = Elements!Ref(x, a)
      OBVIOUS
<1>4. PICK grow, want : grow = n - size /\ want = [i \in 1..n |-> Elements!Val(x, a)]
      OBVIOUS
<1>5. CASE n < size
  <2>1. PICK prog : prog = Elements!Set(0, [i \in 1..n |-> ref]) \o Elements!EraseProg(n, size - n)
        OBVIOUS
  <2>2. Elements!Begin(prog, grow, FALSE, FALSE, want)
        BY <1>3, <1>4, <1>5, <2>1 DEF Elements!AssignN
  <2>3. ASSUME Quiet
        PROVE  Running(cells, size, prog, {}, grow, FALSE, Elements!Contents, want, FALSE)
    <3>1. Running(cells, size,
                  Elements!Set(0, [i \in 1..n |-> ref]) \o Elements!EraseProg(n, size - n), {}, n - size, FALSE,
                  Elements!Contents, [i \in 1..n |-> Elements!Val(x, a)], FALSE)
          BY <1>2, <1>3, <1>5, <2>3, StartAssignFewer
    <3> QED BY <1>4, <2>1, <3>1
  <2> QED BY <2>2, <2>3, BeginKeeps
<1>6. CASE ~ (n < size)
  <2>1. PICK prog : prog = Elements!Set(0, [i \in 1..size |-> ref])
                              \o Elements!Make(size, [i \in 1..(n - size) |-> ref])
        OBVIOUS
  <2>2. Elements!Begin(prog, grow, FALSE, FALSE, want)
        BY <1>3, <1>4, <1>6, <2>1 DEF Elements!AssignN
  <2>3. ASSUME Quiet
        PROVE  Running(cells, size, prog, {}, grow, FALSE, Elements!Contents, want, FALSE)
    <3>1. Running(cells, size,
                 Elements!Set(0, [i \in 1..size |-> ref]) \o Elements!Make(size, [i \in 1..(n - size) |-> ref]),
                 {}, n - size, FALSE, Elements!Contents, [i \in 1..n |-> Elements!Val(x, a)], FALSE)
          BY <1>2, <1>3, <1>6, <2>3, StartAssignMore
    <3> QED BY <1>4, <2>1, <3>1
  <2> QED BY <2>2, <2>3, BeginKeeps
<1> QED BY <1>5, <1>6

LEMMA StepKeeps ==
  ASSUME ElementsInv, Elements!Step
  PROVE  ElementsInv'
<1>1. call.pc = "run" /\ call.todo # <<>> /\ size' = size
      BY DEF Elements!Step
<1>2. PICK c, n, todo, mk, grow, front, was, want, ends :
        /\ c = cells /\ n = size /\ todo = call.todo /\ mk = call.made /\ grow = call.grow
        /\ front = call.front /\ was = call.was /\ want = call.want /\ ends = call.ends
      OBVIOUS
<1>3. /\ c \in CellMaps /\ n \in 0..MaxElements /\ todo # <<>>
      /\ Running(c, n, todo, mk, grow, front, was, want, ends)
      BY <1>1, <1>2 DEF ElementsInv
<1>4. PICK s : s = Head(todo)
      OBVIOUS
<1>5. PICK mk2 : mk2 = IF s.do = "make" THEN mk \cup {s.at} ELSE mk
      OBVIOUS
<1>6. PICK e, t : e = Effect(c, s) /\ t = Tail(todo)
      OBVIOUS
<1>7. e \in CellMaps /\ Running(e, n, t, mk2, grow, front, was, want, ends)
      BY <1>3, <1>4, <1>5, <1>6, RunStep
<1>8. cells' = e
      BY <1>2, <1>4, <1>6 DEF Elements!Step, Elements!Apply, Elements!Raw, Effect, Read, Blank
<1>9. call = [pc |-> "run", todo |-> todo, made |-> mk, grow |-> grow, front |-> front,
              was |-> was, want |-> want, ends |-> ends]
      BY <1>1, <1>2 DEF ElementsInv, CallShape
<1>10. call' = [call EXCEPT !.todo = t, !.made = mk2]
       BY <1>2, <1>4, <1>5, <1>6 DEF Elements!Step
<1>11. call' = [pc |-> "run", todo |-> t, made |-> mk2, grow |-> grow, front |-> front,
                was |-> was, want |-> want, ends |-> ends]
       BY <1>9, <1>10
<1>12. /\ call'.pc = "run" /\ call'.todo = t /\ call'.made = mk2 /\ call'.grow = grow
       /\ call'.front = front /\ call'.was = was /\ call'.want = want /\ call'.ends = ends
       BY <1>11
<1>13. CallShape'
       BY <1>11, <1>12 DEF CallShape
<1>14. Running(cells', size', call'.todo, call'.made, call'.grow, call'.front,
               call'.was, call'.want, call'.ends)
       BY <1>1, <1>2, <1>7, <1>8, <1>12
<1>15. cells' \in CellMaps /\ size' \in 0..MaxElements
       BY <1>1, <1>2, <1>3, <1>7, <1>8
<1> QED BY <1>12, <1>13, <1>14, <1>15 DEF ElementsInv, CellMaps, Places, Running, Blank

LEMMA FinishKeeps ==
  ASSUME ElementsInv, Elements!Finish
  PROVE  ElementsInv'
<1>1. call.pc = "run" /\ call.todo = <<>>
      BY DEF Elements!Finish
<1>2. PICK c, n, mk, grow, front, was, want, ends :
        /\ c = cells /\ n = size /\ mk = call.made /\ grow = call.grow
        /\ front = call.front /\ was = call.was /\ want = call.want /\ ends = call.ends
      OBVIOUS
<1>3. c \in CellMaps /\ n \in 0..MaxElements /\ Running(c, n, <<>>, mk, grow, front, was, want, ends)
      BY <1>1, <1>2 DEF ElementsInv
<1>4. PICK e : e = [i \in Places |-> IF i \in 0..(n + grow - 1) THEN c[i + By(front, grow)] ELSE Blank]
      OBVIOUS
<1>5. n + grow \in 0..MaxElements /\ e \in CellMaps /\ Full(e, n + grow)
      BY <1>3, <1>4, RunEnd
<1>6. size' = n + grow /\ call'.pc = "idle"
      BY <1>2 DEF Elements!Finish, Elements!Idle
<1>7. cells' = e
  <2>1. PICK by : by = IF call.front THEN -call.grow ELSE 0
        OBVIOUS
  <2>2. cells' = [i \in Places |-> IF i \in 0..(size' - 1) THEN cells[i + by] ELSE Blank]
        BY <2>1 DEF Elements!Finish, Elements!Renumber, Elements!Index, Elements!Raw, Places, Blank
  <2>3. by = By(front, grow)
        BY <1>2, <2>1 DEF By
  <2>4. PICK l : l = n + grow - 1
        OBVIOUS
  <2>5. size' - 1 = l
    <3>1. n \in Int /\ grow \in Int
          BY <1>3 DEF Running
    <3> QED BY <1>6, <2>4, <3>1
  <2>6. e = [i \in Places |-> IF i \in 0..l THEN c[i + by] ELSE Blank]
        BY <1>4, <2>3, <2>4
  <2> QED BY <1>2, <2>2, <2>5, <2>6
<1>8. Full(cells', size')
      BY <1>5, <1>6, <1>7
<1>9. cells' \in CellMaps /\ size' \in 0..MaxElements
      BY <1>5, <1>6, <1>7
<1> QED BY <1>6, <1>8, <1>9 DEF ElementsInv, CellMaps, Places, Full, Blank

LEMMA ThrowKeeps ==
  ASSUME ElementsInv, Elements!Throw
  PROVE  ElementsInv'
<1>1. call.pc = "run" /\ call.todo # <<>> /\ Head(call.todo).do # "destroy" /\ size' = size
      BY DEF Elements!Throw
<1>2. PICK c, n, todo, mk, grow, front, was, want, ends :
        /\ c = cells /\ n = size /\ todo = call.todo /\ mk = call.made /\ grow = call.grow
        /\ front = call.front /\ was = call.was /\ want = call.want /\ ends = call.ends
      OBVIOUS
<1>3. /\ c \in CellMaps /\ n \in 0..MaxElements /\ todo # <<>> /\ Head(todo).do # "destroy"
      /\ Running(c, n, todo, mk, grow, front, was, want, ends)
      BY <1>1, <1>2 DEF ElementsInv
<1>4. PICK e : e = [i \in Places |-> IF i \in mk THEN Blank ELSE c[i]]
      OBVIOUS
<1>5. e \in CellMaps /\ Full(e, n) /\ (ends => was = [i \in 1..n |-> e[i - 1]])
      BY <1>3, <1>4, RunThrow
<1>6. cells' = e
      BY <1>2, <1>4 DEF Elements!Throw, Elements!Cleared, Elements!Index, Elements!Raw, Places, Blank
<1>7. call = [pc |-> "run", todo |-> todo, made |-> mk, grow |-> grow, front |-> front,
              was |-> was, want |-> want, ends |-> ends]
      BY <1>1, <1>2 DEF ElementsInv, CallShape
<1>8. call' = [call EXCEPT !.pc = "thrown"]
      BY DEF Elements!Throw
<1>9. call' = [pc |-> "thrown", todo |-> todo, made |-> mk, grow |-> grow, front |-> front,
               was |-> was, want |-> want, ends |-> ends]
      BY <1>7, <1>8
<1>10. /\ call'.pc = "thrown" /\ call'.todo = todo /\ call'.made = mk /\ call'.grow = grow
       /\ call'.front = front /\ call'.was = was /\ call'.want = want /\ call'.ends = ends
       BY <1>9
<1>11. CallShape'
       BY <1>9, <1>10 DEF CallShape
<1>12. Full(cells', size') /\ cells' \in CellMaps /\ size' \in 0..MaxElements
       BY <1>1, <1>2, <1>3, <1>5, <1>6
<1>13. call'.ends => call'.was = [i \in 1..size' |-> cells'[i - 1]]
       BY <1>1, <1>2, <1>5, <1>6, <1>10
<1> QED BY <1>10, <1>11, <1>12, <1>13 DEF ElementsInv, CellMaps, Places, Full, Blank

LEMMA CaughtKeeps ==
  ASSUME ElementsInv, Elements!Caught
  PROVE  ElementsInv'
<1>1. call.pc = "thrown" /\ call'.pc = "idle" /\ cells' = cells /\ size' = size
      BY DEF Elements!Caught, Elements!Idle
<1> QED BY <1>1 DEF ElementsInv, CellMaps, Places, Full, Blank

LEMMA ElementsNext ==
  ASSUME ElementsInv, [StorageStep \/ ElementStep]_allVars
  PROVE  ElementsInv'
<1>1. CASE cells' = cells /\ size' = size /\ call' = call
      BY <1>1 DEF ElementsInv, CallShape, CellMaps, Places, Running, Full, Blank
<1>2. CASE Elements!Next
  <2>1. CASE \E off \in 0..size, n \in 1..MaxN, x \in Values, a \in -1..(size - 1) :
               size + n <= MaxElements /\ Elements!InsertN(off, n, x, a)
        BY <2>1, InsertNKeeps
  <2>2. CASE \E off \in 0..size, n \in 1..MaxN : \E range \in [1..n -> Values] :
               size + n <= MaxElements /\ Elements!InsertRange(off, range)
        BY <2>2, InsertRangeKeeps
  <2>3. CASE \E off \in 0..(size - 1) : \E n \in 1..(size - off) : Elements!Erase(off, n)
        BY <2>3, EraseKeeps
  <2>4. CASE \E n \in 0..MaxElements, x \in Values, a \in -1..(size - 1) :
               n <= size + MaxN /\ Elements!AssignN(n, x, a)
        BY <2>4, AssignNKeeps
  <2> QED BY <1>2, <2>1, <2>2, <2>3, <2>4, StepKeeps, FinishKeeps, ThrowKeeps, CaughtKeeps
          DEF Elements!Next
<1> QED BY <1>1, <1>2 DEF StorageStep, ElementStep, allVars

LEMMA CallRightThen ==
  ASSUME ElementsInv
  PROVE  CallRight
<1>1. Elements!TypeOK
      BY DEF Elements!TypeOK, Elements!Index, Elements!Raw, ElementsInv, CellMaps, Places, Blank
<1>2. Elements!CellsRight
  <2>1. SUFFICES ASSUME call.pc = "run", call.todo # <<>>, NEW s, s = Head(call.todo)
                 PROVE  /\ (cells[s.at] = Elements!Raw) = (s.do = "make")
                        /\ s.src.cell => cells[s.src.of] # Elements!Raw
        BY DEF Elements!CellsRight
  <2>2. PICK c, n, todo, mk, grow, front, was, want, ends :
          /\ c = cells /\ n = size /\ todo = call.todo /\ mk = call.made /\ grow = call.grow
          /\ front = call.front /\ was = call.was /\ want = call.want /\ ends = call.ends
        OBVIOUS
  <2>3. /\ c \in CellMaps /\ n \in 0..MaxElements /\ todo # <<>> /\ s = Head(todo)
        /\ Running(c, n, todo, mk, grow, front, was, want, ends)
        BY <2>1, <2>2 DEF ElementsInv
  <2>4. PICK mk2 : mk2 = IF s.do = "make" THEN mk \cup {s.at} ELSE mk
        OBVIOUS
  <2>5. Sound(c, s)
        BY <2>3, <2>4, RunStep
  <2>6. (c[s.at] = Blank <=> s.do = "make") /\ (s.src.cell => c[s.src.of] # Blank)
        BY <2>5 DEF Sound, Readable
  <2> QED BY <2>2, <2>6 DEF Elements!Raw, Blank
<1>3. Elements!ResultRight
  <2>1. SUFFICES ASSUME call.pc = "run", call.todo = <<>>
                 PROVE  [i \in 1..(size + call.grow) |->
                           cells[i - 1 + (IF call.front THEN -call.grow ELSE 0)]] = call.want
        BY DEF Elements!ResultRight
  <2>2. PICK c, n, mk, grow, front, was, want, ends :
          /\ c = cells /\ n = size /\ mk = call.made /\ grow = call.grow
          /\ front = call.front /\ was = call.was /\ want = call.want /\ ends = call.ends
        OBVIOUS
  <2>3. c \in CellMaps /\ n \in 0..MaxElements /\ Running(c, n, <<>>, mk, grow, front, was, want, ends)
        BY <2>1, <2>2 DEF ElementsInv
  <2>4. PICK e : e = [i \in Places |-> IF i \in 0..(n + grow - 1) THEN c[i + By(front, grow)] ELSE Blank]
        OBVIOUS
  <2>5. want = [i \in 1..(n + grow) |-> c[i - 1 + By(front, grow)]]
        BY <2>3, <2>4, RunEnd
  <2> QED BY <2>2, <2>5 DEF By
<1>4. Elements!ThrowKeeps
  <2>1. SUFFICES ASSUME call.pc \in {"idle", "thrown"}
                 PROVE  /\ \A i \in Places : cells[i] # Blank <=> i \in 0..(size - 1)
                        /\ call.pc = "thrown" /\ call.ends => Elements!Contents = call.was
        BY DEF Elements!ThrowKeeps, Elements!Index, Elements!Raw, Places, Blank
  <2>2. \A i \in Places : cells[i] # Blank <=> i \in 0..(size - 1)
    <3>1. size \in Int /\ Full(cells, size)
          BY <2>1 DEF ElementsInv
    <3>2. \A i \in Places : i \in 0..(size - 1) <=> 0 <= i /\ i < size
          BY <3>1 DEF Places
    <3> QED BY <3>1, <3>2 DEF Full
  <2> QED BY <2>2 DEF ElementsInv, Elements!Contents
<1> QED BY <1>1, <1>2, <1>3, <1>4 DEF CallRight, Elements!CallRight

(* Whatever the values and the bounds: the insertions, erasures and        *)
(* assignments of std::deque construct in raw cells only and read, assign  *)
(* and destroy objects only, a call that ends has made what it says,       *)
(* whatever element its argument referred to, and one that throws leaves   *)
(* no object but the elements (_C_insert_fill, _C_insert_range, erase,     *)
(* _C_assign_n).                                                           *)
THEOREM CallRightAlways == MCSpec => []CallRight
<1>1. MCInit => ElementsInv
      BY ElementsStart DEF MCInit
<1>2. ElementsInv /\ [StorageStep \/ ElementStep]_allVars => ElementsInv'
      BY ElementsNext
<1>3. ElementsInv => CallRight
      BY CallRightThen
<1> QED BY <1>1, <1>2, <1>3, PTL DEF MCSpec
=============================================================================
