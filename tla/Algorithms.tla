----------------------------- MODULE Algorithms ----------------------------
(***************************************************************************)
(* Calls of the algorithms of Ranges and Sorting on every short range, and  *)
(* what each is to do.                                                      *)
(***************************************************************************)
EXTENDS Sorting, TLC

CONSTANTS Keys,         \* the keys of the elements
          MaxRange      \* the longest range, of single digits in length

VARIABLES in,           \* the range
          call,         \* the algorithm called and its arguments
          out           \* what it left or returned

algVars == <<in, call, out>>

\* keys in any order, tagged with their places
Ranges1 == UNION {{[i \in 1 .. n |-> 10 * f[i] + i] : f \in [1 .. n -> Keys]} : n \in 0 .. MaxRange}

Init == in \in Ranges1 /\ call = <<"none">> /\ out = <<>>

Ordered(s) == \A i \in 1 .. Len(s) - 1 : ~Less(s[i + 1], s[i])
Elements(s) == {s[i] : i \in DOMAIN s}
Returns(name, args, value) ==
    call = <<"none">> /\ call' = <<name>> \o args /\ out' = value /\ UNCHANGED in

CallSort == \/ Returns("sort", <<>>, Sort(in))
            \/ \E depth \in 0 .. Len(in) - 1 :
                   Returns("sort", <<depth>>, SortWithin(in, depth))
CallStable == \E size \in 0 .. Len(in) : Returns("stable", <<size>>, StableSort(in, size))
CallPartial == \E m \in 0 .. Len(in) :
                  Returns("partial", <<m>>, PartialSort(in, 1, m + 1, End(in)))
CallCopy == \E m \in 0 .. Len(in) + 1 : Returns("copy", <<m>>, PartialSortCopy(in, m))
CallNth == \E n \in DOMAIN in : Returns("nth", <<n>>, NthElement(in, n))
CallHeap == \E m \in 1 .. Len(in) :
               LET h == MakeHeap(in, 1, m)
               IN  Returns("heap", <<m>>, PushHeap(h, 1, m - 1, 0, h[m]))
CallPop == LET h == MakeHeap(in, 1, End(in))
           IN  in # <<>> /\ Returns("pop", <<>>, PopHeap(h, 1, Len(in), Len(in), h[Len(in)]))
CallRotate == \E m \in 1 .. End(in), c \in {"forward", "bidirectional", "random"} :
                 Returns("rotate", <<m>>, Rotate(in, 1, m, End(in), c))
CallUnique == Returns("unique", <<>>, Unique(in))
CallPartition == \E Yes \in SUBSET Elements(in) :
                    /\ \A x, y \in Elements(in) : Same(x, y) /\ x \in Yes => y \in Yes
                    /\ \/ Returns("partition", <<Yes>>, Partition(in, 1, End(in), Yes))
                       \/ \E size \in 0 .. Len(in) :
                             Returns("stable partition", <<Yes>>, StablePartition(in, size, Yes))
CallPermute == \/ Returns("next", <<>>, NextPermutation(in))
               \/ Returns("previous", <<>>, PrevPermutation(in))
CallBounds == /\ Ordered(in)
              /\ \E k \in Keys : Returns("bounds", <<k>>,
                    EqualRange(in, 1, Len(in), 10 * k)
                    \o <<LowerBound(in, 1, Len(in), 10 * k), UpperBound(in, 1, Len(in), 10 * k)>>)

\* the range in two, a and b
CallSearch == \E m \in 0 .. Len(in) :
                 LET a == First(in, m)
                     b == Rest(in, m)
                 IN  Returns("search", <<a, b>>, <<Search(a, b), FindEnd(a, b)>>)
CallSearchN == \E n \in 0 .. Len(in) + 1, k \in Keys :
                  Returns("search_n", <<n, k>>, SearchN(in, n, 10 * k))
CallMerge == \E m \in 0 .. Len(in), size \in 0 .. Len(in) :
                LET a == First(in, m)
                    b == Rest(in, m)
                IN  Ordered(a) /\ Ordered(b) /\ Returns("merge", <<>>, InplaceMerge(a, b, size))
CallSets == \E m \in 0 .. Len(in) :
               LET a == First(in, m)
                   b == Rest(in, m)
               IN  /\ Ordered(a) /\ Ordered(b)
                   /\ Returns("sets", <<a, b>>,
                         [includes |-> Includes(a, b), union |-> SetUnion(a, b),
                          both |-> SetIntersection(a, b), minus |-> SetDifference(a, b),
                          either |-> SymmetricDifference(a, b), merge |-> Merge(a, b)])

\* the next call on the range
Again == call # <<"none">> /\ call' = <<"none">> /\ out' = <<>> /\ UNCHANGED in

Next == \/ Again
        \/ CallSort \/ CallStable \/ CallPartial \/ CallCopy \/ CallNth \/ CallHeap \/ CallPop
        \/ CallRotate \/ CallUnique \/ CallPartition \/ CallPermute \/ CallBounds
        \/ CallSearch \/ CallSearchN \/ CallMerge \/ CallSets

Spec == Init /\ [][Next]_algVars
-----------------------------------------------------------------------------
Rearranged(s, t) == Len(s) = Len(t) /\ Elements(s) = Elements(t)
\* in order, and of those that compare equal the first is first
Stable(s) == \A i \in 1 .. Len(s) - 1 : s[i] < s[i + 1]
Times(s, k) == Cardinality({i \in DOMAIN s : Key(s[i]) = k})
Occurs(p, s, i) == i + Len(p) <= End(s) /\ \A j \in DOMAIN p : Same(s[i + j - 1], p[j])

\* s precedes t as the sequences of their keys
Precedes(s, t) == \E i \in DOMAIN s :
                     Less(s[i], t[i]) /\ \A j \in 1 .. i - 1 : Same(s[j], t[j])

\* the k-th smallest key of the range, k from 1
Smallest(n) == CHOOSE k \in Keys : /\ Cardinality({i \in DOMAIN in : Key(in[i]) < k}) < n
                                   /\ Cardinality({i \in DOMAIN in : Key(in[i]) <= k}) >= n

SortsAsDue ==
    CASE call[1] = "sort" -> Ordered(out) /\ Rearranged(in, out)
      [] call[1] \in {"stable", "merge"} -> Stable(out) /\ Rearranged(in, out)
      [] call[1] = "partial" ->
            /\ Rearranged(in, out)
            /\ \A i \in 1 .. call[2] : Key(out[i]) = Smallest(i)
      [] call[1] = "copy" ->
            /\ Len(out) = Lower(call[2], Len(in)) /\ Elements(out) \subseteq Elements(in)
            /\ Cardinality(Elements(out)) = Len(out)
            /\ \A i \in DOMAIN out : Key(out[i]) = Smallest(i)
      [] call[1] = "nth" ->
            /\ Rearranged(in, out) /\ Key(out[call[2]]) = Smallest(call[2])
            /\ \A i \in 1 .. call[2], j \in call[2] .. Len(out) : ~Less(out[j], out[i])
      [] call[1] = "heap" -> IsHeap(out, 1, call[2] + 1) /\ Rearranged(in, out)
      [] call[1] = "pop" ->
            /\ IsHeap(out, 1, Len(out)) /\ Rearranged(in, out)
            /\ Key(out[Len(out)]) = Smallest(Len(in))
      [] OTHER -> TRUE

MovesAsDue ==
    CASE call[1] = "rotate" -> out = Rest(in, call[2] - 1) \o First(in, call[2] - 1)
      [] call[1] = "unique" ->
            out = SelectSeq(in, LAMBDA v : v % 10 = 1 \/ ~Same(v, in[(v % 10) - 1]))
      [] call[1] \in {"partition", "stable partition"} ->
            /\ Rearranged(in, out.s)
            /\ Elements(First(out.s, out.cut - 1)) = call[2]
            /\ call[1] = "stable partition" =>
                  Stable([i \in DOMAIN in |-> (out.s[i] % 10)
                             + IF out.s[i] \in call[2] THEN 0 ELSE 10])
      [] call[1] \in {"next", "previous"} ->
            LET a == IF call[1] = "next" THEN in ELSE out.s
                b == IF call[1] = "next" THEN out.s ELSE in
                Between == {p \in {[i \in DOMAIN in |-> in[q[i]]] : q \in Permutations(DOMAIN in)} :
                               Precedes(a, p) /\ Precedes(p, b)}
            IN  /\ Rearranged(in, out.s)
                /\ out.more => Precedes(a, b) /\ Between = {}
                /\ ~out.more => IF call[1] = "next" THEN Ordered(out.s)
                                ELSE Ordered(Reversed(out.s, 1, End(in)))
      [] OTHER -> TRUE

FindsAsDue ==
    CASE call[1] = "bounds" ->
            LET k == call[2]
                low == Cardinality({i \in DOMAIN in : Key(in[i]) < k}) + 1
                high == Cardinality({i \in DOMAIN in : Key(in[i]) <= k}) + 1
            IN  out = <<low, high, low, high>>
      [] call[1] = "search" ->
            LET at == {i \in 1 .. End(call[2]) : Occurs(call[3], call[2], i)}
            IN  out = <<Min(at \cup {End(call[2])}),
                        IF call[3] = <<>> \/ at = {} THEN End(call[2]) ELSE Max(at)>>
      [] call[1] = "search_n" ->
            out = Min({i \in 1 .. End(in) :
                         Occurs([j \in 1 .. call[2] |-> 10 * call[3]], in, i)} \cup {End(in)})
      [] call[1] = "sets" ->
            LET a == call[2]
                b == call[3]
                Numbers(s, N(_)) == Ordered(s) /\ \A k \in Keys : Times(s, k) = N(k)
            IN  /\ out.includes <=> \A k \in Keys : Times(b, k) <= Times(a, k)
                /\ Numbers(out.union, LAMBDA k : Max({Times(a, k), Times(b, k)}))
                /\ Numbers(out.both, LAMBDA k : Min({Times(a, k), Times(b, k)}))
                /\ Elements(out.both) \subseteq Elements(a)
                /\ Numbers(out.minus, LAMBDA k : Max({Times(a, k) - Times(b, k), 0}))
                /\ Numbers(out.either, LAMBDA k : Max({Times(a, k) - Times(b, k),
                                                       Times(b, k) - Times(a, k)}))
                /\ Stable(out.merge) /\ Elements(out.merge) = Elements(in)
      [] OTHER -> TRUE

(* Every algorithm does to every short range what its definition says: what *)
(* is sorted is a rearrangement of what there was, what is stable keeps the *)
(* order of elements that compare equal with a temporary buffer of any size *)
(* or none, and the searches find the places there are (algorithm.cc).      *)
AlgorithmsRight == SortsAsDue /\ MovesAsDue /\ FindsAsDue
=============================================================================
