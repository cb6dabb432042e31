------------------------------- MODULE Vector ------------------------------
(***************************************************************************)
(* std::vector (include/vector, include/vector.cc): where each member       *)
(* constructs, assigns and destroys elements, in which order, in place or   *)
(* in a temporary that is swapped in, when any copy may throw.  A call is   *)
(* the list of the operations on elements that it performs; those up to     *)
(* the one that throws are performed, and what a handler or a destructor    *)
(* then destroys is destroyed.                                              *)
(***************************************************************************)
EXTENDS Naturals, Sequences, FiniteSets

CONSTANTS Values,       \* what elements hold: numbers
          MaxElements,  \* the most elements
          MaxNew,       \* the most that a call inserts or assigns
          OwnValue      \* whether a value to insert in place may be an element

VARIABLES cells,        \* the allocated cells, from _C_begin on
          size,         \* _C_end - _C_begin
          thrown,       \* whether the last call threw
          wanted        \* the elements there should be

vecVars == <<cells, size, thrown, wanted>>

Raw == 0                \* a cell that holds no object
SeqX == INSTANCE SequencesExt

Init == cells = <<>> /\ size = 0 /\ thrown = FALSE /\ wanted = <<>>

Capacity == Len(cells)
\* __rw_new_capacity, with a ratio of one and a half
NewCapacity(n) == LET cap == (n * 3) \div 2 IN IF n + 1 > cap THEN n + 1 ELSE cap
-----------------------------------------------------------------------------
\* operations on cells; a source is a cell of the vector or a value

Cell(i) == [cell |-> TRUE, of |-> i]
Value(v) == [cell |-> FALSE, of |-> v]
CellsFrom(i, n) == [k \in 1 .. n |-> Cell(i + k - 1)]
Read(c, src) == IF src.cell THEN c[src.of] ELSE src.of

\* push: _C_push_back, which counts the element at once; make: a copy of one
\* of the helpers on raw storage, counted by the "count" that ends the block;
\* set: an assignment; drop: the destruction of the last n
Op(do, at, src) == [do |-> do, at |-> at, src |-> src]
Do(do, at, srcs) == [k \in DOMAIN srcs |-> Op(do, at + k - 1, srcs[k])]
Push(srcs) == Do("push", 0, srcs)
Make(srcs) == Do("make", 1, srcs) \o <<Op("count", 0, Value(Len(srcs)))>>
Set(at, srcs) == Do("set", at, srcs)
SetBackward(at, srcs) == SeqX!Reverse(Set(at, srcs))
Drop(n) == <<Op("drop", 0, Value(n))>>

Copies(op) == op.do \in {"push", "make", "set"}

\* one operation on b = the cells c and their count n; old is what a source
\* in a cell refers to, the vector or what is replaced
Perform(b, op, old) ==
    LET from == IF old = <<>> THEN b.c ELSE old
    IN  CASE op.do = "push" -> [c |-> [b.c EXCEPT ![b.n + 1] = Read(from, op.src)], n |-> b.n + 1]
          [] op.do = "make" -> [b EXCEPT !.c[b.n + op.at] = Read(from, op.src)]
          [] op.do = "count" -> [b EXCEPT !.n = @ + op.src.of]
          [] op.do = "set" -> [b EXCEPT !.c[op.at] = Read(from, op.src)]
          [] op.do = "drop" ->
                [c |-> [i \in DOMAIN b.c |-> IF i > b.n - op.src.of THEN Raw ELSE b.c[i]],
                 n |-> b.n - op.src.of]

\* the operations before the copy numbered fails; what is not counted is
\* destroyed by the handler of the block it is in
Run(b, prog, fails, old) ==
    LET copies(k) == Cardinality({i \in 1 .. k : Copies(prog[i])})
        done == {k \in 0 .. Len(prog) : copies(k) < fails}
        m == CHOOSE k \in done : \A j \in done : j <= k
        r == SeqX!FoldLeft(LAMBDA a, op : Perform(a, op, old), b, SubSeq(prog, 1, m))
    IN  IF m = Len(prog) THEN [r |-> r, ok |-> TRUE]
        ELSE [r |-> [r EXCEPT !.c = [i \in DOMAIN r.c |-> IF i > r.n THEN Raw ELSE r.c[i]]],
              ok |-> FALSE]

\* a call that works in place, and one that fills a temporary and swaps it in
InPlace(prog, fails) ==
    LET b == Run([c |-> cells, n |-> size], prog, fails, <<>>)
    IN  cells' = b.r.c /\ size' = b.r.n /\ thrown' = ~b.ok
Swapped(cap, prog, fails) ==
    LET b == Run([c |-> [i \in 1 .. cap |-> Raw], n |-> 0], prog, fails, cells)
    IN  IF b.ok THEN cells' = b.r.c /\ size' = b.r.n /\ thrown' = FALSE
        ELSE thrown' = TRUE /\ UNCHANGED <<cells, size>>
-----------------------------------------------------------------------------
\* the members, each as the way that it goes; at is the place, from 1

\* _C_insert_1 in place, and the push_back() of an element at the end
InsertOne(at, src) ==
    IF at = size + 1 THEN Push(<<src>>)
    ELSE Push(<<Cell(size)>>) \o SetBackward(at + 1, CellsFrom(at, size - at)) \o Set(at, <<src>>)

\* _C_insert_n in place
InsertFill(at, n, src) ==
    LET rest == size + 1 - at
        fill(k) == [i \in 1 .. k |-> src]
    IN  IF n <= rest
        THEN Make(CellsFrom(size + 1 - n, n)) \o SetBackward(at + n, CellsFrom(at, rest - n))
             \o Set(at, fill(n))
        ELSE Make(fill(n - rest)) \o Make(CellsFrom(at, rest)) \o Set(at, fill(rest))

\* a mutant: the elements that move are copied from the first on
InsertRangeForward(at, srcs) ==
    LET rest == size + 1 - at
        n == Len(srcs)
    IN  IF n <= rest
        THEN Push(CellsFrom(size + 1 - n, n)) \o Set(at + n, CellsFrom(at, rest - n))
             \o Set(at, srcs)
        ELSE Push(SubSeq(srcs, rest + 1, n)) \o Push(CellsFrom(at, rest))
             \o Set(at, SubSeq(srcs, 1, rest))

\* _C_insert_range in place
InsertRange(at, srcs) ==
    LET rest == size + 1 - at
        n == Len(srcs)
    IN  IF n <= rest
        THEN Push(CellsFrom(size + 1 - n, n)) \o SetBackward(at + n, CellsFrom(at, rest - n))
             \o Set(at, srcs)
        ELSE Push(SubSeq(srcs, rest + 1, n)) \o Push(CellsFrom(at, rest))
             \o Set(at, SubSeq(srcs, 1, rest))

\* the same where there is no room, in a temporary
Rebuilt(at, srcs) == Push(CellsFrom(1, at - 1)) \o Push(srcs) \o Push(CellsFrom(at, size + 1 - at))

\* erase (first, last)
EraseFrom(first, last) ==
    Set(first, CellsFrom(last, size + 1 - last)) \o Drop(last - first)

\* _C_assign_range over the elements, then an erasure or an insertion
AssignOver(srcs) ==
    LET n == Len(srcs)
    IN  IF n <= size THEN Set(1, srcs) \o EraseFrom(n + 1, size + 1)
        ELSE Set(1, SubSeq(srcs, 1, size)) \o Push(SubSeq(srcs, size + 1, n))
-----------------------------------------------------------------------------
Ranges == UNION {[1 .. n -> Values] : n \in 0 .. MaxNew}
External(vs) == [k \in DOMAIN vs |-> Value(vs[k])]
Grow(at, vs) == SubSeq(wanted, 1, at - 1) \o vs \o SubSeq(wanted, at, Len(wanted))
\* after a throw the elements are as before the call, or what they are now
Expect(s, strong) ==
    wanted' = IF ~thrown' THEN s ELSE IF strong THEN wanted ELSE SubSeq(cells', 1, size')
Fails == 1 .. MaxElements + 2 * MaxNew

NoRoom(n) == Capacity < size + n
Sources(v) == {Value(v)} \cup {Cell(i) : i \in {j \in 1 .. size : cells[j] = v}}

Insert == \E at \in 1 .. size + 1, v \in Values, fails \in Fails :
    \E src \in Sources(v) :
       /\ size < MaxElements
       /\ IF ~NoRoom(1)
          THEN (src.cell => OwnValue \/ at = size + 1) /\ InPlace(InsertOne(at, src), fails)
          ELSE Swapped(NewCapacity(size + 1), Rebuilt(at, <<src>>), fails)
       /\ Expect(Grow(at, <<v>>), NoRoom(1) \/ at = size + 1)

InsertMany == \E at \in 1 .. size + 1, v \in Values, n \in 1 .. MaxNew, fails \in Fails :
    \E src \in Sources(v) :
       /\ size + n <= MaxElements
       /\ IF ~NoRoom(n)
          THEN (src.cell => OwnValue) /\ InPlace(InsertFill(at, n, src), fails)
          ELSE Swapped(NewCapacity(size + n), Rebuilt(at, [k \in 1 .. n |-> src]), fails)
       /\ Expect(Grow(at, [k \in 1 .. n |-> v]), NoRoom(n) \/ at = size + 1)

InsertSequence == \E at \in 1 .. size + 1, vs \in Ranges, fails \in Fails :
    /\ vs # <<>> /\ size + Len(vs) <= MaxElements
    /\ IF ~NoRoom(Len(vs)) THEN InPlace(InsertRange(at, External(vs)), fails)
       ELSE Swapped(NewCapacity(size + Len(vs)), Rebuilt(at, External(vs)), fails)
    /\ Expect(Grow(at, vs), NoRoom(Len(vs)))

Erase == \E first \in 1 .. size + 1, last \in 1 .. size + 1, fails \in Fails :
    /\ first <= last
    /\ InPlace(EraseFrom(first, last), fails)
    /\ Expect(SubSeq(wanted, 1, first - 1) \o SubSeq(wanted, last, size), FALSE)

\* assign() of a range: over the elements only if there were room for both
Assign == \E vs \in Ranges, fails \in Fails :
    /\ IF NoRoom(Len(vs))
       THEN Swapped(NewCapacity(size + Len(vs)), Push(External(vs)), fails)
       ELSE InPlace(AssignOver(External(vs)), fails)
    /\ Expect(vs, NoRoom(Len(vs)))

\* operator=: a copy to swap with if there is no room, or an assign()
AssignOther == \E vs \in Ranges, fails \in Fails :
    /\ Capacity < Len(vs)
    /\ Swapped(NewCapacity(Len(vs)), Push(External(vs)), fails)
    /\ Expect(vs, TRUE)

\* assign (n, x): clear(), then an insertion
AssignFill == \E v \in Values, n \in 0 .. MaxNew, fails \in Fails :
    /\ IF n <= Capacity
       THEN InPlace(Drop(size) \o Make([k \in 1 .. n |-> Value(v)]), fails)
       ELSE LET b == Run([c |-> [i \in 1 .. NewCapacity(n) |-> Raw], n |-> 0],
                         Push([k \in 1 .. n |-> Value(v)]), fails, <<>>)
            IN  IF b.ok THEN cells' = b.r.c /\ size' = b.r.n /\ thrown' = FALSE
                ELSE cells' = [i \in DOMAIN cells |-> Raw] /\ size' = 0 /\ thrown' = TRUE
    /\ Expect([k \in 1 .. n |-> v], FALSE)

\* reserve(): _C_realloc
Reserve == \E n \in 1 .. MaxElements, fails \in Fails :
    /\ n > Capacity
    /\ Swapped(NewCapacity(n), Push(CellsFrom(1, size)), fails)
    /\ Expect(wanted, TRUE)

PopBack == size > 0 /\ InPlace(Drop(1), 1) /\ Expect(SubSeq(wanted, 1, size - 1), TRUE)

Next == Insert \/ InsertMany \/ InsertSequence \/ Erase \/ Assign \/ AssignOther \/ AssignFill
        \/ Reserve \/ PopBack

Spec == Init /\ [][Next]_vecVars
-----------------------------------------------------------------------------
(* The elements are what the calls so far say, whatever element an argument *)
(* referred to; a call that throws when it had to find new memory, or that  *)
(* was to add one value at the end, has changed nothing; and after any      *)
(* throw the cells up to size are objects and no others (vector.cc:286).    *)
VectorRight ==
    /\ SubSeq(cells, 1, size) = wanted
    /\ \A i \in DOMAIN cells : (cells[i] # Raw) <=> (i <= size)
=============================================================================
