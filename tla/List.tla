-------------------------------- MODULE List -------------------------------
(***************************************************************************)
(* std::list (include/list, include/list.cc): two lists and the links of    *)
(* their nodes, one call at a time, each link in the order in which it is   *)
(* set.  A list is a cycle through its sentinel, head.  Copies of values    *)
(* and the memory for nodes may fail at any element.  Values compare by     *)
(* their keys (Ranges), so that what is stable can be told.                 *)
(***************************************************************************)
EXTENDS Ranges, TLC

CONSTANTS Nodes,        \* 1 .. n, those of elements
          Values,       \* what they hold
          RemoveOwn     \* whether remove() is passed an element of the list

SeqX == INSTANCE SequencesExt

Lists == {"x", "y"}
Other(l) == CHOOSE k \in Lists : k # l
Sentinels == {101, 102}      \* and of the lists themselves

VARIABLES L,            \* the links, the lengths and what the nodes hold
          alike,        \* whether the lists' allocators compare equal
          want          \* the values that each list is to have

listVars == <<L, alike, want>>

Init ==
    /\ L = [nxt |-> [n \in Sentinels |-> n], prv |-> [n \in Sentinels |-> n],
            val |-> [n \in {} |-> n], head |-> ("x" :> 101 @@ "y" :> 102),
            len |-> [l \in Lists |-> 0]]
    /\ alike \in BOOLEAN
    /\ want = [l \in Lists |-> <<>>]
-----------------------------------------------------------------------------
\* 1. walking; the places in a list are the nodes from begin() to end()

RECURSIVE Advance(_, _, _, _)
Advance(R, it, n, end) == IF n = 0 \/ it = end THEN it ELSE Advance(R, R.nxt[it], n - 1, end)
At(R, l, i) == Advance(R, R.nxt[R.head[l]], i - 1, R.head[l])
Begin(R, l) == R.nxt[R.head[l]]

\* a node more, or one less, in the functions of R
With(f, n, v) == [k \in DOMAIN f \cup {n} |-> IF k = n THEN v ELSE f[k]]
Without(f, n) == [k \in DOMAIN f \ {n} |-> f[k]]
Free(R) == Nodes \ DOMAIN R.val

\* 2. insert and erase

InsertNode(R, l, it, v) ==
    LET new == Min(Free(R))
        n1 == With(R.nxt, new, it)
        p1 == With(R.prv, new, R.prv[it])
        n2 == [n1 EXCEPT ![p1[it]] = new]
    IN  [R EXCEPT !.nxt = n2, !.prv = [p1 EXCEPT ![it] = new],
                  !.val = With(R.val, new, v), !.len[l] = @ + 1]

EraseNode(R, l, it) ==
    LET n1 == [R.nxt EXCEPT ![R.prv[it]] = R.nxt[it]]
        p1 == [R.prv EXCEPT ![n1[it]] = R.prv[it]]
    IN  IF it = R.head[l] THEN R
        ELSE [R EXCEPT !.nxt = Without(n1, it), !.prv = Without(p1, it),
                       !.val = Without(R.val, it), !.len[l] = @ - 1]

RECURSIVE EraseRange(_, _, _, _)
EraseRange(R, l, first, last) ==
    IF first = last THEN R ELSE EraseRange(EraseNode(R, l, first), l, R.nxt[first], last)

\* a mutant: what was inserted before the failure stays
InsertKeep(R, l, it, vs, fails) ==
    SeqX!FoldLeft(LAMBDA Q, v : InsertNode(Q, l, it, v), R, SubSeq(vs, 1, fails - 1))

\* insert() of the values vs, which throws at the one numbered fails (never,
\* if that is more than there are): those inserted are erased again
InsertRange(R, l, it, vs, fails) ==
    LET m == Lower(Len(vs), fails - 1)
        Q == SeqX!FoldLeft(LAMBDA P, v : InsertNode(P, l, it, v), R, SubSeq(vs, 1, m))
    IN  IF fails > Len(vs) THEN Q
        ELSE IF m = 0 THEN R
        ELSE EraseRange(Q, l, Q.nxt[R.prv[it]], it)

\* 3. splices: the links of the nodes are set in the order given here

SpliceAll(R, l, it, x) ==
    LET h == R.head[x]
        n1 == [R.nxt EXCEPT ![R.prv[it]] = R.nxt[h]]
        p1 == [R.prv EXCEPT ![n1[h]] = R.prv[it]]
        p2 == [p1 EXCEPT ![it] = p1[h]]
        n2 == [n1 EXCEPT ![p2[h]] = it]
    IN  [R EXCEPT !.nxt = [n2 EXCEPT ![h] = h], !.prv = [p2 EXCEPT ![h] = h],
                  !.len = [@ EXCEPT ![l] = R.len[l] + R.len[x], ![x] = 0]]

SpliceOne(R, l, i, x, j) ==
    LET before == R.prv[i]
        n1 == [R.nxt EXCEPT ![before] = j]
        p1 == [R.prv EXCEPT ![i] = j]
        n2 == [n1 EXCEPT ![p1[j]] = n1[j]]
        p2 == [p1 EXCEPT ![n2[j]] = p1[j]]
    IN  IF j = R.head[x] \/ i = j \/ i = R.nxt[j] THEN R
        ELSE [R EXCEPT !.nxt = [n2 EXCEPT ![j] = i], !.prv = [p2 EXCEPT ![j] = before],
                       !.len = IF l = x THEN @ ELSE [@ EXCEPT ![l] = @ + 1, ![x] = @ - 1]]

RECURSIVE Distance(_, _, _)
Distance(R, j, k) == IF j = k THEN 0 ELSE 1 + Distance(R, R.nxt[j], k)

SpliceRange(R, l, i, x, j, k) ==
    LET moved == IF l = x THEN 0 ELSE Distance(R, j, k)
        n1 == [R.nxt EXCEPT ![R.prv[k]] = i]
        n2 == [n1 EXCEPT ![R.prv[j]] = k]
        n3 == [n2 EXCEPT ![R.prv[i]] = j]
        before == R.prv[i]
        p1 == [R.prv EXCEPT ![i] = R.prv[k]]
        p2 == [p1 EXCEPT ![k] = p1[j]]
    IN  IF j = k \/ i = k THEN R
        ELSE [R EXCEPT !.nxt = n3, !.prv = [p2 EXCEPT ![j] = before],
                       !.len = IF l = x THEN @
                               ELSE [@ EXCEPT ![l] = @ + moved, ![x] = @ - moved]]

\* 4. remove, unique, merge, reverse, sort

\* remove() of the values S that equal its argument; if that is an element,
\* then what its node leaves behind when it is erased equals nothing
RECURSIVE RemoveFrom(_, _, _, _, _)
RemoveFrom(R, l, it, S, own) ==
    IF it = R.head[l] THEN R
    ELSE IF R.val[it] \in S
         THEN RemoveFrom(EraseNode(R, l, it), l, R.nxt[it], IF it = own THEN {} ELSE S, own)
    ELSE RemoveFrom(R, l, R.nxt[it], S, own)

RECURSIVE UniqueFrom(_, _, _)
UniqueFrom(R, l, first) ==
    LET next == R.nxt[first]
    IN  IF next = R.head[l] THEN R
        ELSE IF Same(R.val[first], R.val[next]) THEN UniqueFrom(EraseNode(R, l, next), l, first)
        ELSE UniqueFrom(R, l, next)

RECURSIVE MergeFrom(_, _, _, _, _)
MergeFrom(R, l, x, first1, first2) ==
    IF first1 = R.head[l] \/ first2 = R.head[x]
    THEN IF first2 = R.head[x] THEN R
         ELSE SpliceRange(R, l, R.head[l], x, first2, R.head[x])
    ELSE IF Less(R.val[first2], R.val[first1])
         THEN MergeFrom(SpliceRange(R, l, first1, x, first2, R.nxt[first2]),
                        l, x, first1, R.nxt[first2])
    ELSE MergeFrom(R, l, x, R.nxt[first1], first2)

RECURSIVE ReverseFrom(_, _, _)
ReverseFrom(R, l, first) ==
    IF first = R.head[l] THEN R
    ELSE ReverseFrom(SpliceRange(R, l, Begin(R, l), l, first, R.nxt[first]), l, R.nxt[first])
Reverse(R, l) == IF R.len[l] < 2 THEN R ELSE ReverseFrom(R, l, R.nxt[Begin(R, l)])

\* _C_adjacent_merge: n is how many of the first run are left
RECURSIVE AdjacentMerge(_, _, _, _, _, _)
AdjacentMerge(R, l, first1, first2, last2, n) ==
    IF n < 0 \/ first2 = last2 THEN R
    ELSE IF Less(R.val[first2], R.val[first1])
         THEN AdjacentMerge(SpliceRange(R, l, first1, l, first2, R.nxt[first2]),
                            l, first1, R.nxt[first2], last2, n)
    ELSE AdjacentMerge(R, l, R.nxt[first1], first2, last2, n - 1)

\* the merges of pairs of runs of n, m more of them at most
RECURSIVE SortPass(_, _, _, _, _)
SortPass(R, l, n, m, i1) ==
    LET end == R.head[l]
        i2 == Advance(R, i1, n, end)
        i3 == Advance(R, i1, 2 * n, end)
    IN  IF m = 0 \/ i1 = end \/ i2 = end THEN R
        ELSE SortPass(AdjacentMerge(R, l, i1, i2, i3, Distance(R, i1, i2)), l, n, m - 1, i3)
RECURSIVE SortFrom(_, _, _)
SortFrom(R, l, n) ==
    IF n >= R.len[l] THEN R
    ELSE SortFrom(SortPass(R, l, n, (R.len[l] + 2 * n) \div (2 * n), Begin(R, l)), l, 2 * n)

\* operator=: the values of the first elements, then an insertion or an erasure
RECURSIVE AssignFrom(_, _, _, _, _, _)
AssignFrom(R, l, x, first1, first2, fails) ==
    IF first2 = R.head[x] THEN EraseRange(R, l, first1, R.head[l])
    ELSE IF first1 = R.head[l]
         THEN InsertRange(R, l, first1,
                 [i \in 1 .. Distance(R, first2, R.head[x]) |->
                     R.val[Advance(R, first2, i - 1, R.head[x])]], fails)
    ELSE IF fails = 1 THEN R
    ELSE AssignFrom([R EXCEPT !.val[first1] = R.val[first2]],
                    l, x, R.nxt[first1], R.nxt[first2], fails - 1)
Assign(R, l, x, fails) == AssignFrom(R, l, x, Begin(R, l), Begin(R, x), fails)
-----------------------------------------------------------------------------
\* 5. the calls, and what each is to do to the values of the lists

Now(l) == want[l]
Upto(s, i) == SubSeq(s, 1, i - 1)
From(s, i) == SubSeq(s, i, Len(s))
Wants(l, s) == want' = [want EXCEPT ![l] = s]
Places(l) == 1 .. Len(Now(l)) + 1
Room == Cardinality(Free(L))

Insert == \E l \in Lists : \E i \in Places(l), vs \in UNION {[1 .. n -> Values] : n \in 1 .. 2} :
    /\ Len(vs) <= Room
    /\ \E fails \in 1 .. Len(vs) + 1 :
          /\ L' = InsertRange(L, l, At(L, l, i), vs, fails)
          /\ Wants(l, IF fails <= Len(vs) THEN Now(l) ELSE Upto(Now(l), i) \o vs \o From(Now(l), i))

Erase == \E l \in Lists : \E i \in Places(l), j \in Places(l) :
    /\ i < j
    /\ L' = EraseRange(L, l, At(L, l, i), At(L, l, j))
    /\ Wants(l, Upto(Now(l), i) \o From(Now(l), j))

AssignOther == \E l \in Lists : LET x == Other(l) IN
    /\ Room >= Len(Now(x)) - Len(Now(l))
    /\ \E fails \in 1 .. Len(Now(x)) + 1 :
          /\ L' = Assign(L, l, x, fails)
          /\ Wants(l, IF fails > Len(Now(x)) THEN Now(x)
                      ELSE [i \in DOMAIN Now(l) |-> IF i < fails /\ i <= Len(Now(x))
                                                    THEN Now(x)[i] ELSE Now(l)[i]])

Both(l, s, x, t) == want' = [want EXCEPT ![l] = s, ![x] = t]

\* the three splices from the other list; with another allocator they copy
\* and then erase
SpliceOther == \E l \in Lists : \E i \in Places(l) :
    LET x == Other(l)
        it == At(L, l, i)
    IN  \E j \in Places(x), k \in Places(x), fails \in 1 .. Len(Now(x)) + 1 :
          LET vs == SubSeq(Now(x), j, k - 1)
              a == At(L, x, j)
              b == At(L, x, k)
              Q == InsertRange(L, l, it, vs, fails)
          IN  /\ j <= k /\ fails <= Len(vs) + 1 /\ (alike => fails = Len(vs) + 1)
              /\ ~alike => Len(vs) <= Room
              /\ \/ /\ j = 1 /\ k = Len(Now(x)) + 1
                    /\ L' = IF alike THEN SpliceAll(L, l, it, x)
                            ELSE IF fails <= Len(vs) THEN Q ELSE EraseRange(Q, x, a, b)
                 \/ /\ k = j + 1
                    /\ L' = IF alike THEN SpliceOne(L, l, it, x, a)
                            ELSE IF fails <= Len(vs) THEN Q ELSE EraseNode(Q, x, a)
                 \/ L' = IF alike THEN SpliceRange(L, l, it, x, a, b)
                         ELSE IF fails <= Len(vs) THEN Q ELSE EraseRange(Q, x, a, b)
              /\ IF fails <= Len(vs) THEN UNCHANGED want
                 ELSE Both(l, Upto(Now(l), i) \o vs \o From(Now(l), i),
                           x, Upto(Now(x), j) \o From(Now(x), k))

\* a splice within one list; before a place that is not in the range
SpliceOwn == \E l \in Lists : \E i \in Places(l), j \in Places(l), k \in Places(l) :
    LET s == Now(l)
        vs == SubSeq(s, j, k - 1)
    IN  /\ j < k /\ (i < j \/ i >= k)
        /\ \/ k = j + 1 /\ L' = SpliceOne(L, l, At(L, l, i), l, At(L, l, j))
           \/ L' = SpliceRange(L, l, At(L, l, i), l, At(L, l, j), At(L, l, k))
        /\ Wants(l, IF i < j THEN Upto(s, i) \o vs \o SubSeq(s, i, j - 1) \o From(s, k)
                    ELSE Upto(s, j) \o SubSeq(s, k, i - 1) \o vs \o From(s, i))

Remove == \E l \in Lists : \E v \in Values :
    \E own \in {0} \cup IF RemoveOwn THEN {n \in DOMAIN L.val : L.val[n] = v} ELSE {} :
       /\ L' = RemoveFrom(L, l, Begin(L, l), {w \in Values : Same(v, w)}, own)
       /\ Wants(l, SelectSeq(Now(l), LAMBDA w : ~Same(v, w)))

UniqueList == \E l \in Lists :
    /\ L' = IF Now(l) = <<>> THEN L ELSE UniqueFrom(L, l, Begin(L, l))
    /\ Wants(l, Unique(Now(l)))

InOrder(s) == \A i \in 1 .. Len(s) - 1 : ~Less(s[i + 1], s[i])
KeySet == {Key(v) : v \in Values}
RECURSIVE ByKey(_, _)
ByKey(s, S) == IF S = {} THEN <<>>
               ELSE SelectSeq(s, LAMBDA v : Key(v) = Min(S)) \o ByKey(s, S \ {Min(S)})

MergeOther == \E l \in Lists : LET x == Other(l) IN
    /\ InOrder(Now(l)) /\ InOrder(Now(x)) /\ alike
    /\ L' = MergeFrom(L, l, x, Begin(L, l), Begin(L, x))
    /\ Both(l, ByKey(Now(l) \o Now(x), KeySet), x, <<>>)

ReverseList == \E l \in Lists :
    /\ L' = Reverse(L, l)
    /\ Wants(l, [i \in DOMAIN Now(l) |-> Now(l)[Len(Now(l)) + 1 - i]])

SortList == \E l \in Lists :
    L' = SortFrom(L, l, 1) /\ Wants(l, ByKey(Now(l), KeySet))

Swapped ==
    /\ alike
    /\ L' = [L EXCEPT !.head = [l \in Lists |-> L.head[Other(l)]],
                      !.len = [l \in Lists |-> L.len[Other(l)]]]
    /\ want' = [l \in Lists |-> want[Other(l)]]

Next == /\ \/ Insert \/ Erase \/ AssignOther \/ SpliceOther \/ SpliceOwn \/ Remove \/ UniqueList
           \/ MergeOther \/ ReverseList \/ SortList \/ Swapped
        /\ UNCHANGED alike

Spec == Init /\ [][Next]_listVars
-----------------------------------------------------------------------------
Nodes1(l) == LET N[i \in 0 .. Cardinality(Nodes)] ==
                   IF i = 0 THEN <<>> ELSE Append(N[i - 1], At(L, l, i))
             IN  N[Lower(L.len[l], Cardinality(Nodes))]

(* The links of a list are one cycle, the same both ways, through as many    *)
(* nodes as it counts, and these hold what the calls so far have made of it, *)
(* also after a call that threw; every other node is freed (list.cc:126).    *)
ListsRight ==
    /\ \A n \in DOMAIN L.nxt : L.prv[L.nxt[n]] = n
    /\ \A l \in Lists :
          /\ Len(want[l]) = L.len[l]
          /\ [i \in DOMAIN Nodes1(l) |-> L.val[Nodes1(l)[i]]] = want[l]
          /\ Advance(L, Begin(L, l), L.len[l], L.head[l]) = L.head[l]
    /\ Cardinality(DOMAIN L.val) = L.len["x"] + L.len["y"]
=============================================================================
