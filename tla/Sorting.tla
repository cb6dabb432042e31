------------------------------ MODULE Sorting ------------------------------
(***************************************************************************)
(* The sorts, selections, merges in place and heaps of <algorithm>          *)
(* (include/algorithm.cc, include/rw/_heap.cc) on the ranges of Ranges,     *)
(* each in the way the code goes: the introsort with its unguarded loops,   *)
(* the merge sorts with a temporary buffer of any size or none.  A loop     *)
(* that ran off the sequence would be an index that TLC reports.           *)
(***************************************************************************)
EXTENDS Ranges

CONSTANTS Threshold,    \* __rw_threshold, 16
          Chunk,        \* the chunk size of the merge sort, 7
          Small         \* what __inplace_stable_sort leaves to insertion, 15

\* 1. heaps; the places in one are counted from 0 after first

\* __push_heap
RECURSIVE PushHeap(_, _, _, _, _)
PushHeap(s, first, hole, top, val) ==
    LET parent == (hole - 1) \div 2
    IN  IF hole > top /\ Less(s[first + parent], val)
        THEN PushHeap([s EXCEPT ![first + hole] = s[first + parent]], first, parent, top, val)
        ELSE [s EXCEPT ![first + hole] = val]

\* __adjust_heap: the hole sinks to a leaf, then val rises from there
RECURSIVE Sink(_, _, _, _, _, _)
Sink(s, first, hole, top, dist, val) ==
    LET right == 2 * hole + 2
        child == IF right < dist /\ ~Less(s[first + right], s[first + right - 1])
                 THEN right ELSE right - 1
    IN  IF right <= dist
        THEN Sink([s EXCEPT ![first + hole] = s[first + child]], first, child, top, dist, val)
        ELSE PushHeap(s, first, hole, top, val)
AdjustHeap(s, first, hole, dist, val) == Sink(s, first, hole, hole, dist, val)

\* __make_heap, of the parents below n
RECURSIVE HeapBelow(_, _, _, _)
HeapBelow(s, first, n, dist) ==
    IF n = 0 THEN s
    ELSE HeapBelow(AdjustHeap(s, first, n - 1, dist, s[first + n - 1]), first, n - 1, dist)
MakeHeap(s, first, last) == HeapBelow(s, first, (last - first) \div 2, last - first)

\* __pop_heap: the largest goes to res and val takes its place
PopHeap(s, first, last, res, val) ==
    AdjustHeap([s EXCEPT ![res] = s[first]], first, 0, last - first, val)

RECURSIVE SortHeap(_, _, _)
SortHeap(s, first, last) ==
    IF last - first <= 1 THEN s
    ELSE SortHeap(PopHeap(s, first, last - 1, last - 1, s[last - 1]), first, last - 1)

IsHeap(s, first, last) ==
    \A hole \in 1 .. last - first - 1 : ~Less(s[first + (hole - 1) \div 2], s[first + hole])

\* 2. sort, partial_sort, nth_element

\* __unguarded_partition: each scan stops at an element that it must find
RECURSIVE UnguardedPartition(_, _, _, _)
UnguardedPartition(s, first, last, pivot) ==
    LET f == Min({i \in first .. Len(s) : ~Less(s[i], pivot)})
        l == Max({i \in 1 .. last - 1 : ~Less(pivot, s[i])})
    IN  IF f < l THEN UnguardedPartition(Swap(s, f, l), f + 1, l, pivot)
        ELSE [s |-> s, cut |-> f]

Median(a, b, c) ==
    IF Less(a, b) THEN IF Less(b, c) THEN b ELSE IF Less(a, c) THEN c ELSE a
    ELSE IF Less(a, c) THEN a ELSE IF Less(b, c) THEN c ELSE b

\* a range split at the median of its first, middle and last element
Split(s, first, last) ==
    UnguardedPartition(s, first, last,
        Median(s[first], s[first + (last - first) \div 2], s[last - 1]))

\* the element at i moved down to place at
Insert(s, i, at) ==
    [k \in DOMAIN s |-> IF k = at THEN s[i] ELSE IF k \in at + 1 .. i THEN s[k - 1] ELSE s[k]]

\* __unguarded_linear_insert
UnguardedInsert(s, i) == Insert(s, i, Max({k \in 1 .. i - 1 : ~Less(s[i], s[k])}) + 1)
LinearInsert(s, first, i) ==
    IF Less(s[i], s[first]) THEN Insert(s, i, first) ELSE UnguardedInsert(s, i)

\* __insertion_sort and __unguarded_insertion_sort, from i on
RECURSIVE InsertFrom(_, _, _, _)
InsertFrom(s, first, i, last) ==
    IF i >= last THEN s ELSE InsertFrom(LinearInsert(s, first, i), first, i + 1, last)
InsertionSort(s, first, last) == InsertFrom(s, first, first + 1, last)
RECURSIVE UnguardedInsertionSort(_, _, _)
UnguardedInsertionSort(s, i, last) ==
    IF i = last THEN s ELSE UnguardedInsertionSort(UnguardedInsert(s, i), i + 1, last)

FinalInsertionSort(s, first, last) ==
    IF last - first > Threshold
    THEN UnguardedInsertionSort(InsertionSort(s, first, first + Threshold),
                                first + Threshold, last)
    ELSE InsertionSort(s, first, last)

\* __partial_sort, the elements from i on still to be looked at
RECURSIVE SelectFrom(_, _, _, _, _)
SelectFrom(s, first, middle, i, last) ==
    IF i = last THEN SortHeap(s, first, middle)
    ELSE SelectFrom(IF Less(s[i], s[first]) THEN PopHeap(s, first, middle, i, s[i]) ELSE s,
                    first, middle, i + 1, last)
PartialSort(s, first, middle, last) ==
    IF first = middle THEN s
    ELSE SelectFrom(MakeHeap(s, first, middle), first, middle, middle, last)

\* __partial_sort_copy to a range of n elements: what it leaves there
RECURSIVE CopyFrom(_, _, _)
CopyFrom(s, i, t) ==
    IF i > Len(s) THEN SortHeap(t, 1, End(t))
    ELSE CopyFrom(s, i + 1, IF Less(s[i], t[1]) THEN AdjustHeap(t, 1, 0, Len(t), s[i]) ELSE t)
PartialSortCopy(s, n) ==
    LET m == Lower(n, Len(s))
    IN  IF m = 0 THEN <<>> ELSE CopyFrom(s, m + 1, MakeHeap(SubSeq(s, 1, m), 1, m + 1))

\* __introsort_loop: it stops at short ranges, and sorts the range as a heap
\* when it has split too often
RECURSIVE IntrosortLoop(_, _, _, _)
IntrosortLoop(s, first, last, depth) ==
    LET p == Split(s, first, last)
    IN  IF last - first <= Threshold THEN s
        ELSE IF depth = 0 THEN PartialSort(s, first, last, last)
        ELSE IntrosortLoop(IntrosortLoop(p.s, p.cut, last, depth \div 2),
                           first, p.cut, depth \div 2)

\* sort, and sort with the depth that a part of a longer range has left
SortWithin(s, depth) ==
    IF s = <<>> THEN s
    ELSE FinalInsertionSort(IntrosortLoop(s, 1, End(s), depth), 1, End(s))
Sort(s) == SortWithin(s, Len(s))

\* __nth_element: it stops only if a split leaves something on either side
RECURSIVE NthLoop(_, _, _, _)
NthLoop(s, first, nth, last) ==
    LET p == Split(s, first, last)
    IN  IF last - first <= 3 THEN InsertionSort(s, first, last)
        ELSE IF p.cut \in {first, last} THEN <<>>       \* it would go on forever
        ELSE IF nth < p.cut THEN NthLoop(p.s, first, nth, p.cut)
        ELSE NthLoop(p.s, p.cut, nth, last)
NthElement(s, nth) == NthLoop(s, 1, nth, End(s))

\* 3. stable sorts and merges; a is followed by b, and the result by nothing

\* where __merge_without_buffer and __merge_adaptive cut the two ranges
Cuts(a, b) ==
    LET i == Len(a) \div 2
        j == Len(b) \div 2
    IN  IF Len(a) > Len(b)
        THEN <<i, LowerBound(b, 1, Len(b), a[i + 1]) - 1>>
        ELSE <<UpperBound(a, 1, Len(a), b[j + 1]) - 1, j>>

\* a from i on and b up to j exchanged, by rotate() or by __rotate_adaptive
First(s, n) == SubSeq(s, 1, n)
Rest(s, n) == SubSeq(s, n + 1, Len(s))
Exchanged(x, y) == Rotate(x \o y, 1, Len(x) + 1, Len(x) + Len(y) + 1, "random")
RotateAdaptive(x, y, size) ==
    IF (Len(x) > Len(y) /\ Len(y) <= size) \/ Len(x) <= size THEN y \o x
    ELSE Exchanged(x, y)

RECURSIVE MergeWithoutBuffer(_, _)
MergeWithoutBuffer(a, b) ==
    LET c == Cuts(a, b)
        m == Exchanged(Rest(a, c[1]), First(b, c[2]))
    IN  IF a = <<>> \/ b = <<>> THEN a \o b
        ELSE IF Len(a) + Len(b) = 2 THEN IF Less(b[1], a[1]) THEN b \o a ELSE a \o b
        ELSE MergeWithoutBuffer(First(a, c[1]), First(m, c[2]))
             \o MergeWithoutBuffer(Rest(m, c[2]), Rest(b, c[2]))

\* a mutant: of two that compare equal the one of the first range goes last
MergeBackwardFirst(a, b) == Merge(b, a)

\* __merge_backward, from the ends
RECURSIVE MergeBackward(_, _)
MergeBackward(a, b) ==
    IF a = <<>> \/ b = <<>> THEN a \o b
    ELSE IF Less(b[Len(b)], a[Len(a)])
         THEN MergeBackward(First(a, Len(a) - 1), b) \o <<a[Len(a)]>>
    ELSE MergeBackward(a, First(b, Len(b) - 1)) \o <<b[Len(b)]>>

RECURSIVE MergeAdaptive(_, _, _)
MergeAdaptive(a, b, size) ==
    LET c == Cuts(a, b)
        m == RotateAdaptive(Rest(a, c[1]), First(b, c[2]), size)
    IN  IF Len(a) <= Len(b) /\ Len(a) <= size THEN Merge(a, b)
        ELSE IF Len(b) <= size THEN MergeBackward(a, b)
        ELSE MergeAdaptive(First(a, c[1]), First(m, c[2]), size)
             \o MergeAdaptive(Rest(m, c[2]), Rest(b, c[2]), size)

InplaceMerge(a, b, size) ==
    IF size = 0 THEN MergeWithoutBuffer(a, b) ELSE MergeAdaptive(a, b, size)

RECURSIVE InplaceStableSort(_)
InplaceStableSort(s) ==
    LET h == Len(s) \div 2
    IN  IF Len(s) < Small THEN InsertionSort(s, 1, End(s))
        ELSE MergeWithoutBuffer(InplaceStableSort(First(s, h)), InplaceStableSort(Rest(s, h)))

\* __chunk_insertion_sort, __merge_sort_loop: one pass, to the other array
RECURSIVE ChunkSort(_)
ChunkSort(s) ==
    IF Len(s) < Chunk THEN InsertionSort(s, 1, End(s))
    ELSE InsertionSort(First(s, Chunk), 1, Chunk + 1) \o ChunkSort(Rest(s, Chunk))
RECURSIVE MergePass(_, _)
MergePass(s, step) ==
    IF Len(s) >= 2 * step
    THEN Merge(First(s, step), SubSeq(s, step + 1, 2 * step)) \o MergePass(Rest(s, 2 * step), step)
    ELSE LET n == Lower(Len(s), step) IN Merge(First(s, n), Rest(s, n))

\* __merge_sort_with_buffer: to the buffer and back, until one pass is enough
RECURSIVE MergePasses(_, _)
MergePasses(s, step) ==
    IF step >= Len(s) THEN s ELSE MergePasses(MergePass(MergePass(s, step), 2 * step), 4 * step)
MergeSortWithBuffer(s) == MergePasses(ChunkSort(s), Chunk)

RECURSIVE StableSortAdaptive(_, _)
StableSortAdaptive(s, size) ==
    LET h == (Len(s) + 1) \div 2
    IN  IF h > size
        THEN MergeAdaptive(StableSortAdaptive(First(s, h), size),
                           StableSortAdaptive(Rest(s, h), size), size)
        ELSE MergeAdaptive(MergeSortWithBuffer(First(s, h)),
                           MergeSortWithBuffer(Rest(s, h)), size)

StableSort(s, size) ==
    IF s = <<>> THEN s
    ELSE IF size = 0 THEN InplaceStableSort(s) ELSE StableSortAdaptive(s, size)
=============================================================================
