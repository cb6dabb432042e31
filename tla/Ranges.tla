------------------------------- MODULE Ranges ------------------------------
(***************************************************************************)
(* The algorithms of <algorithm> that search, rearrange and merge ranges    *)
(* (include/algorithm, include/algorithm.cc), as operators on sequences.    *)
(* An iterator is an index and the end of a range one past its last.  A     *)
(* value is a key and a tag, 10 * key + tag: values compare by their keys,  *)
(* and their tags tell them apart.                                          *)
(***************************************************************************)
EXTENDS Naturals, Sequences, FiniteSetsExt

Key(v) == v \div 10
Less(x, y) == Key(x) < Key(y)
Same(x, y) == Key(x) = Key(y)

End(s) == Len(s) + 1
Swap(s, i, j) == [s EXCEPT ![i] = s[j], ![j] = s[i]]
Lower(a, b) == IF a < b THEN a ELSE b       \* std::min

\* s with the range that starts at f written over by t
Over(s, f, t) == [i \in DOMAIN s |-> IF i \in f .. f + Len(t) - 1 THEN t[i - f + 1] ELSE s[i]]
-----------------------------------------------------------------------------
\* __search: dist is what is left from first on
RECURSIVE SearchFrom(_, _, _, _, _)
SearchFrom(s, p, first, matched, dist) ==
    IF matched = Len(p) THEN first
    ELSE IF Same(s[first + matched], p[matched + 1])
         THEN SearchFrom(s, p, first, matched + 1, dist)
    ELSE IF dist = Len(p) THEN End(s)
    ELSE SearchFrom(s, p, first + 1, 0, dist - 1)
Search(s, p) == IF Len(s) < Len(p) THEN End(s) ELSE SearchFrom(s, p, 1, 0, Len(s))

\* __search_n: span is how many more elements may be passed over
RECURSIVE SearchNFrom(_, _, _, _, _, _, _)
SearchNFrom(s, n, v, first, current, span, matches) ==
    IF current = End(s) THEN End(s)
    ELSE IF Same(s[current], v)
         THEN IF matches + 1 = n THEN first
              ELSE SearchNFrom(s, n, v, first, current + 1, span, matches + 1)
    ELSE IF span < matches + 1 THEN End(s)
    ELSE SearchNFrom(s, n, v, current + 1, current + 1, span - (matches + 1), 0)
SearchN(s, n, v) ==
    IF n = 0 THEN 1
    ELSE IF Len(s) < n THEN End(s) ELSE SearchNFrom(s, n, v, 1, 1, Len(s) - n, 0)

\* __find_end, from the position after the last that can match
RECURSIVE FindEndTo(_, _, _)
FindEndTo(s, p, first) ==
    IF first = 0 THEN End(s)
    ELSE IF \A i \in DOMAIN p : Same(s[first + i - 1], p[i]) THEN first
    ELSE FindEndTo(s, p, first - 1)
FindEnd(s, p) ==
    IF p = <<>> \/ Len(s) < Len(p) THEN End(s) ELSE FindEndTo(s, p, End(s) - Len(p))

AdjacentFind(s) ==
    Min({i \in 1 .. Len(s) - 1 : Same(s[i], s[i + 1])} \cup {End(s)})

\* __lower_bound and __upper_bound of dist elements from first on
RECURSIVE LowerBound(_, _, _, _)
LowerBound(s, first, dist, v) ==
    LET half == dist \div 2
    IN  IF dist = 0 THEN first
        ELSE IF Less(s[first + half], v)
             THEN LowerBound(s, first + half + 1, dist - half - 1, v)
        ELSE LowerBound(s, first, half, v)
RECURSIVE UpperBound(_, _, _, _)
UpperBound(s, first, dist, v) ==
    LET half == dist \div 2
    IN  IF dist = 0 THEN first
        ELSE IF Less(v, s[first + half]) THEN UpperBound(s, first, half, v)
        ELSE UpperBound(s, first + half + 1, dist - half - 1, v)

\* __equal_range: the bounds are sought on either side of the first element
\* that compares equal
RECURSIVE EqualRange(_, _, _, _)
EqualRange(s, first, dist, v) ==
    LET half == dist \div 2
        middle == first + half
    IN  IF dist = 0 THEN <<first, first>>
        ELSE IF Less(s[middle], v) THEN EqualRange(s, middle + 1, dist - half - 1, v)
        ELSE IF Less(v, s[middle]) THEN EqualRange(s, first, half, v)
        ELSE <<LowerBound(s, first, half, v),
               UpperBound(s, middle + 1, first + dist - (middle + 1), v)>>
-----------------------------------------------------------------------------
\* __unique_copy over the range itself: from first on, to res and after
RECURSIVE UniqueOver(_, _, _)
UniqueOver(s, first, res) ==
    IF first = End(s) THEN SubSeq(s, 1, res)
    ELSE IF Same(s[res], s[first]) THEN UniqueOver(s, first + 1, res)
    ELSE UniqueOver([s EXCEPT ![res + 1] = s[first]], first + 1, res + 1)

\* what unique() leaves up to the iterator it returns
Unique(s) ==
    LET first == AdjacentFind(s) + 1
        next == Min({i \in first + 1 .. Len(s) : ~Same(s[i], s[first])} \cup {End(s)})
    IN  IF first > Len(s) THEN s
        ELSE IF next = End(s) THEN SubSeq(s, 1, first - 1)
        ELSE UniqueOver([s EXCEPT ![first] = s[next]], next + 1, first)

\* __reverse
RECURSIVE Reversed(_, _, _)
Reversed(s, first, last) ==
    IF first < last - 1 THEN Reversed(Swap(s, first, last - 1), first + 1, last - 1) ELSE s

\* __rotate of forward iterators, from the place i of the next to go to first
RECURSIVE RotateOn(_, _, _, _, _)
RotateOn(s, first, middle, last, i) ==
    LET t == Swap(s, first, i)
    IN  IF first + 1 = middle
        THEN IF i + 1 = last THEN t ELSE RotateOn(t, first + 1, i + 1, last, i + 1)
        ELSE RotateOn(t, first + 1, middle, last, IF i + 1 = last THEN middle ELSE i + 1)

\* __rotate of bidirectional iterators
RotateByReversal(s, first, middle, last) ==
    Reversed(Reversed(Reversed(s, first, middle), middle, last), first, last)

RECURSIVE Gcd(_, _)
Gcd(m, n) == IF n = 0 THEN m ELSE Gcd(n, m % n)

\* __rotate_cycle: the element at from goes where the last of its cycle was
RECURSIVE Cycle(_, _, _, _, _, _, _)
Cycle(s, first, last, from, shift, it, val) ==
    LET next == IF last - it > shift THEN it + shift ELSE first + (shift - (last - it))
    IN  IF next = from THEN [s EXCEPT ![it] = val]
        ELSE Cycle([s EXCEPT ![it] = s[next]], first, last, from, shift, next, val)

\* __rotate of random access iterators: as many cycles as the divisor says
RECURSIVE Cycles(_, _, _, _, _)
Cycles(s, first, middle, last, n) ==
    IF n = 0 THEN s
    ELSE Cycles(Cycle(s, first, last, first + n - 1, middle - first, first + n - 1, s[first + n - 1]),
                first, middle, last, n - 1)

\* rotate(), by the category of the iterators
Rotate(s, first, middle, last, category) ==
    IF first = middle \/ middle = last THEN s
    ELSE CASE category = "forward" -> RotateOn(s, first, middle, last, middle)
           [] category = "bidirectional" -> RotateByReversal(s, first, middle, last)
           [] category = "random" ->
                Cycles(s, first, middle, last, Gcd(last - first, middle - first))
-----------------------------------------------------------------------------
\* partition(): the range and the place that is returned
RECURSIVE Partition(_, _, _, _)
Partition(s, first, last, Yes) ==
    LET f == Min({i \in first .. last - 1 : s[i] \notin Yes} \cup {last})
        l == Max({i \in f .. last - 1 : s[i] \in Yes} \cup {f})
    IN  IF f = last \/ l = f THEN [s |-> s, cut |-> f]
        ELSE Partition(Swap(s, f, l), f + 1, l, Yes)

\* __inplace_stable_partition
RECURSIVE InPlacePartition(_, _, _, _)
InPlacePartition(s, first, dist, Yes) ==
    LET middle == first + dist \div 2
        a == InPlacePartition(s, first, dist \div 2, Yes)
        b == InPlacePartition(a.s, middle, dist - dist \div 2, Yes)
    IN  IF dist = 1 THEN [s |-> s, cut |-> IF s[first] \in Yes THEN first + 1 ELSE first]
        ELSE [s |-> Rotate(b.s, a.cut, middle, b.cut, "random"),
              cut |-> a.cut + (b.cut - middle)]

\* __stable_partition_adaptive, with a buffer of size elements for those that
\* are to come last
RECURSIVE AdaptivePartition(_, _, _, _, _)
AdaptivePartition(s, first, dist, size, Yes) ==
    LET part == SubSeq(s, first, first + dist - 1)
        kept == SelectSeq(part, LAMBDA v : v \in Yes)
        rest == SelectSeq(part, LAMBDA v : v \notin Yes)
        middle == first + dist \div 2
        a == AdaptivePartition(s, first, dist \div 2, size, Yes)
        b == AdaptivePartition(a.s, middle, dist - dist \div 2, size, Yes)
    IN  IF dist <= size
        THEN [s |-> Over(s, first, kept \o rest), cut |-> first + Len(kept)]
        ELSE [s |-> Rotate(b.s, a.cut, middle, b.cut, "random"),
              cut |-> a.cut + (b.cut - middle)]

\* __stable_partition, with a temporary buffer of size elements or of none
StablePartition(s, size, Yes) ==
    IF s = <<>> THEN [s |-> s, cut |-> 1]
    ELSE IF size = 0 THEN InPlacePartition(s, 1, Len(s), Yes)
    ELSE AdaptivePartition(s, 1, Len(s), size, Yes)
-----------------------------------------------------------------------------
\* the merges and the set operations of two ranges that are sorted

RECURSIVE Merge(_, _)
Merge(a, b) ==
    IF a = <<>> \/ b = <<>> THEN a \o b
    ELSE IF Less(b[1], a[1]) THEN <<b[1]>> \o Merge(a, Tail(b))
    ELSE <<a[1]>> \o Merge(Tail(a), b)

RECURSIVE Includes(_, _)
Includes(a, b) ==
    IF a = <<>> \/ b = <<>> THEN b = <<>>
    ELSE IF Less(b[1], a[1]) THEN FALSE
    ELSE IF Less(a[1], b[1]) THEN Includes(Tail(a), b)
    ELSE Includes(Tail(a), Tail(b))

RECURSIVE SetUnion(_, _)
SetUnion(a, b) ==
    IF a = <<>> \/ b = <<>> THEN a \o b
    ELSE IF Less(a[1], b[1]) THEN <<a[1]>> \o SetUnion(Tail(a), b)
    ELSE IF Less(b[1], a[1]) THEN <<b[1]>> \o SetUnion(a, Tail(b))
    ELSE <<a[1]>> \o SetUnion(Tail(a), Tail(b))

RECURSIVE SetIntersection(_, _)
SetIntersection(a, b) ==
    IF a = <<>> \/ b = <<>> THEN <<>>
    ELSE IF Less(a[1], b[1]) THEN SetIntersection(Tail(a), b)
    ELSE IF Less(b[1], a[1]) THEN SetIntersection(a, Tail(b))
    ELSE <<a[1]>> \o SetIntersection(Tail(a), Tail(b))

RECURSIVE SetDifference(_, _)
SetDifference(a, b) ==
    IF a = <<>> \/ b = <<>> THEN a
    ELSE IF Less(a[1], b[1]) THEN <<a[1]>> \o SetDifference(Tail(a), b)
    ELSE IF Less(b[1], a[1]) THEN SetDifference(a, Tail(b))
    ELSE SetDifference(Tail(a), Tail(b))

RECURSIVE SymmetricDifference(_, _)
SymmetricDifference(a, b) ==
    IF a = <<>> \/ b = <<>> THEN a \o b
    ELSE IF Less(a[1], b[1]) THEN <<a[1]>> \o SymmetricDifference(Tail(a), b)
    ELSE IF Less(b[1], a[1]) THEN <<b[1]>> \o SymmetricDifference(a, Tail(b))
    ELSE SymmetricDifference(Tail(a), Tail(b))
-----------------------------------------------------------------------------
\* next_permutation() and prev_permutation(), Before being the order
Permuted(s, Before(_, _)) ==
    LET I == {i \in 1 .. Len(s) - 1 : Before(s[i], s[i + 1])}
        i == Max(I)
        j == Max({k \in DOMAIN s : Before(s[i], s[k])})
    IN  IF I = {} THEN [s |-> Reversed(s, 1, End(s)), more |-> FALSE]
        ELSE [s |-> Reversed(Swap(s, i, j), i + 1, End(s)), more |-> TRUE]
NextPermutation(s) == Permuted(s, Less)
PrevPermutation(s) == Permuted(s, LAMBDA x, y : Less(y, x))
=============================================================================
