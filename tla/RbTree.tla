------------------------------- MODULE RbTree -------------------------------
(***************************************************************************)
(* The red-black tree behind set, multiset, map and multimap (__rb_tree):  *)
(* insertion, insertion with a hint, erasure, the bulk operations, the     *)
(* searches and the iterator, on the linked nodes the code keeps.          *)
(*                                                                         *)
(* A node is named by its key and the number of the copy, as the code      *)
(* never looks at an address but to compare it.  The header _C_end is a    *)
(* node too: its parent is the root, its children the first and the last   *)
(* node.  One step is one call, but for the two loops that rebalance the   *)
(* tree, of which one step is one pass.  The ghost `list' is the sequence  *)
(* the tree stands for.                                                    *)
(***************************************************************************)
EXTENDS Integers, Sequences, FiniteSets, SequencesExt

CONSTANTS Keys,        \* the keys: numbers
          Copies,      \* how many nodes of one key a tree may hold
          Trees,       \* the trees
          Dups,        \* whether duplicate keys are allowed (multiset, multimap)
          LateThrow,   \* the comparison after a node has been made may throw
          MaxSize,     \* bound: the nodes of one tree while the others are empty
          MaxBoth      \* bound: the nodes of all the trees otherwise

ASSUME KeysAssumption == Keys \subseteq Nat \ {0} /\ IsFiniteSet(Keys)
ASSUME CopiesAssumption == Copies \in 1..9
ASSUME DupsAssumption == Dups \subseteq BOOLEAN
ASSUME LateThrowAssumption == LateThrow \in BOOLEAN

VARIABLES t,     \* each tree: links, colours, size, constructed values
          dup,   \* __dup, which a container gives to each insertion
          at,    \* where the running call is
          list,  \* ghost: the nodes of each tree in order
          ret    \* what the last call returned, and what it should have

vars == <<t, dup, at, list, ret>>

Null == 0
End == 1
Node == {10 * k + c : k \in Keys, c \in 1..Copies}
Key(n) == n \div 10
Link == Node \cup {Null, End}

Idle == [pc |-> "idle", tree |-> Null, x |-> Null, up |-> Null,
         node |-> Null, next |-> Null, last |-> Null]
None == [got |-> 0, want |-> 0]

(* A node as _C_get_link() hands it out: red, and linked to nothing. *)
Empty ==
  [up |-> [n \in Node \cup {End} |-> Null],
   kid |-> [n \in Node \cup {End} |-> IF n = End THEN <<End, End>> ELSE <<Null, Null>>],
   red |-> [n \in Node \cup {End} |-> TRUE],
   size |-> 0, made |-> {}, alive |-> TRUE]
Dead == [Empty EXCEPT !.alive = FALSE]

-----------------------------------------------------------------------------
(* Links.  Side 1 is the left child, side 2 the right one. *)

Other(d) == 3 - d
Root(m) == m.up[End]
Begin(m) == m.kid[End][1]
Side(m, x) == IF m.kid[m.up[x]][1] = x THEN 1 ELSE 2
IsRed(m, x) == x # Null /\ m.red[x]
SetUp(up, x, p) == IF x = Null THEN up ELSE [up EXCEPT ![x] = p]
Paint(m, x, c) == IF x = Null THEN m ELSE [m EXCEPT !.red[x] = c]

(* __y takes the place of __x below the parent of __x. *)
Replace(m, x, y) ==
  IF Root(m) = x THEN [m EXCEPT !.up[End] = y]
  ELSE [m EXCEPT !.kid[m.up[x]][Side(m, x)] = y]

(* The leftmost (d = 1) or the rightmost node below x. *)
MinMax(m, x, d) ==
  LET Go[n \in Node] == IF m.kid[n][d] = Null THEN n ELSE Go[m.kid[n][d]]
  IN  Go[x]

(* The child of x on the other side rises, and x goes down to side d. *)
Rotate(m, x, d) ==
  LET y == m.kid[x][Other(d)]
      inner == m.kid[y][d]
      r == Replace(m, x, y)
  IN  [r EXCEPT !.kid[x][Other(d)] = inner, !.kid[y][d] = x,
                !.up = [SetUp(@, inner, x) EXCEPT ![y] = m.up[x], ![x] = y]]

-----------------------------------------------------------------------------
(* The iterator and the searches. *)

(* operator++ *)
Next1(m, n) ==
  LET Climb[x \in Node \cup {End}] ==
        IF m.kid[m.up[x]][2] = x THEN Climb[m.up[x]]
        ELSE IF m.kid[x][2] # m.up[x] THEN m.up[x] ELSE x
  IN  IF m.kid[n][2] # Null THEN MinMax(m, m.kid[n][2], 1) ELSE Climb[n]

(* operator--; the header is known by its colour and by being its own     *)
(* grandparent.                                                            *)
Prev1(m, n) ==
  LET Climb[x \in Node \cup {End}] ==
        IF m.kid[m.up[x]][1] = x THEN Climb[m.up[x]] ELSE m.up[x]
  IN  IF m.red[n] /\ m.up[m.up[n]] = n THEN m.kid[n][2]
      ELSE IF m.kid[n][1] # Null THEN MinMax(m, m.kid[n][1], 2)
      ELSE Climb[n]

Lower(m, k) ==
  LET Go[x \in Node \cup {Null}, y \in Node \cup {End}] ==
        IF x = Null THEN y
        ELSE IF Key(x) < k THEN Go[m.kid[x][2], y] ELSE Go[m.kid[x][1], x]
  IN  Go[Root(m), End]

Upper(m, k) ==
  LET Go[x \in Node \cup {Null}, y \in Node \cup {End}] ==
        IF x = Null THEN y
        ELSE IF k < Key(x) THEN Go[m.kid[x][1], x] ELSE Go[m.kid[x][2], y]
  IN  Go[Root(m), End]

Find(m, k) ==
  LET j == Lower(m, k) IN IF j = End \/ k < Key(j) THEN End ELSE j

(* The node below which a new key goes: the end of the search for it. *)
Descend(m, k) ==
  LET Go[x \in Node] ==
        LET y == m.kid[x][IF k < Key(x) THEN 1 ELSE 2]
        IN  IF y = Null THEN x ELSE Go[y]
  IN  IF Root(m) = Null THEN End ELSE Go[Root(m)]

(* A test for a duplicate that does not go back to the node before. *)
HolderStay(m, k) ==
  LET y == Descend(m, k)
  IN  IF y = End \/ (k < Key(y) /\ y = Begin(m)) THEN Null
      ELSE IF Key(y) < k THEN Null ELSE y

(* The node that keeps a set from taking key k, or Null. *)
Holder(m, k) ==
  LET y == Descend(m, k)
      left == y = End \/ k < Key(y)
      j == IF left /\ y # Begin(m) THEN Prev1(m, y) ELSE y
  IN  IF left /\ y = Begin(m) THEN Null
      ELSE IF Key(j) < k THEN Null ELSE j

(* Key k belongs right after the node at the hint.                          *)
Between(m, h, k) == Key(h) < k /\ k < Key(Next1(m, h))

(* Where a hint puts a new key: <<x, y>> as _C_insert() takes them, or     *)
(* <<>> when the hint is of no use.                                        *)
Hint(m, h, k) ==
  LET last == m.kid[End][2] IN
  IF h = last /\ m.size # 0 /\ Key(h) < k THEN <<Null, h>>
  ELSE IF h = last THEN <<>>
  ELSE IF h = End THEN IF Key(last) < k THEN <<Null, last>> ELSE <<>>
  ELSE IF h = Begin(m) THEN IF k < Key(h) THEN <<h, h>> ELSE <<>>
  ELSE IF ~Between(m, h, k) THEN <<>>
  ELSE IF m.kid[h][2] = Null THEN <<Null, h>>
  ELSE <<Next1(m, h), Next1(m, h)>>

(* _C_depth(): the longest way down, in links. *)
Depth(m) ==
  LET Go[n \in Node] ==
        LET D == {1 + Go[m.kid[n][d]] : d \in {d \in 1..2 : m.kid[n][d] # Null}}
        IN  IF D = {} THEN 0 ELSE Max(D)
  IN  IF Root(m) = Null THEN 0 ELSE Go[Root(m)]

-----------------------------------------------------------------------------
(* Insertion. *)

(* _C_insert (x, y, v): the new node z below y, before it is balanced. *)
Attach(m, x, y, z) ==
  LET d == IF y = End \/ x # Null \/ Key(z) < Key(y) THEN 1 ELSE 2
      corner == IF y = End THEN <<z, z>>
                ELSE IF m.kid[End][d] = y THEN [m.kid[End] EXCEPT ![d] = z]
                ELSE m.kid[End]
  IN  [m EXCEPT !.kid = [IF y = End THEN @ ELSE [@ EXCEPT ![y][d] = z]
                           EXCEPT ![End] = corner],
                !.up = [IF y = End THEN [@ EXCEPT ![End] = z] ELSE @
                          EXCEPT ![z] = y],
                !.size = @ + 1, !.made = @ \cup {z}]

(* A node for key k: the copy with the least number is free in this tree. *)
Free(m, k) == {n \in Node : Key(n) = k} \ m.made
NewNode(m, k) == Min(Free(m, k))

(* Where the sequence takes key k: after the keys that are not greater. *)
Slot(s, k) == 1 + Cardinality({i \in DOMAIN s : Key(s[i]) <= k})

Held(s, k) == {s[i] : i \in {i \in DOMAIN s : Key(s[i]) = k}}

(* What insert() should return: the node that is there, or the new one. *)
Wanted(s, m, k) ==
  IF ~dup /\ Held(s, k) # {} THEN Min(Held(s, k)) ELSE NewNode(m, k)

Sit(q, z, x, y, k) ==
  LET m == Attach(t[q], x, y, z)
  IN  /\ t' = [t EXCEPT ![q] = m]
      /\ at' = [Idle EXCEPT !.pc = "insert", !.tree = q, !.x = z, !.node = z]
      /\ list' = [list EXCEPT ![q] = InsertAt(@, Slot(@, k), z)]
      /\ ret' = [got |-> z, want |-> Wanted(list[q], t[q], k)]

Holds(q, k, j) ==
  /\ ret' = [got |-> j, want |-> Wanted(list[q], t[q], k)]
  /\ UNCHANGED <<t, at, list>>

Fits(q, n) ==
  n <= IF \A s \in Trees \ {q} : t[s].size = 0 THEN MaxSize
       ELSE MaxBoth - Max({t[s].size : s \in Trees \ {q}})

(* A comparison throws on the way down, or the allocation, or the copy of   *)
(* the value: the node goes back to the free list, and nothing has changed. *)
Throws == ret' = None /\ UNCHANGED <<t, at, list>>

(* The comparison of _C_insert() throws: the node z has been made and       *)
(* counted, nobody has it, and nothing takes that back.                    *)
Loses(q, z) ==
  /\ t' = [t EXCEPT ![q].size = @ + 1, ![q].made = @ \cup {z}]
  /\ ret' = None
  /\ UNCHANGED <<at, list>>

(* _C_insert (x, y, v), which compares with y unless it is told the side.  *)
Place(q, x, y, k) ==
  /\ Free(t[q], k) # {}
  /\ LET z == NewNode(t[q], k)
     IN  \/ Sit(q, z, x, y, k)
         \/ LateThrow /\ y # End /\ x = Null /\ Loses(q, z)

MayInsert(q) == at = Idle /\ t[q].alive /\ Fits(q, t[q].size + 1)

(* insert (v, dup) *)
Insert(q, k) ==
  /\ MayInsert(q)
  /\ LET m == t[q]
         j == IF dup THEN Null ELSE Holder(m, k)
     IN  \/ Throws
         \/ j # Null /\ Holds(q, k, j)
         \/ j = Null /\ Place(q, Null, Descend(m, k), k)

(* insert (hint, v, dup): of no use, the hint is forgotten.  In a tree that *)
(* is empty but for nodes that were lost the key it is compared with is the *)
(* header's, of no value; either way the node becomes the root.             *)
InsertHint(q, h, k) ==
  /\ MayInsert(q)
  /\ h \in ToSet(list[q]) \cup {End}
  /\ LET p == Hint(t[q], h, k)
     IN  \/ p = <<>> /\ Insert(q, k)
         \/ p # <<>> /\ (Throws \/ Place(q, p[1], p[2], k))

(* The case of a black uncle: one rotation or two. *)
Straighten(m, x) ==
  LET d == Side(m, m.up[x])
      inside == m.kid[m.up[x]][Other(d)] = x
      x2 == IF inside THEN m.up[x] ELSE x
      m2 == IF inside THEN Rotate(m, x2, d) ELSE m
      p == m2.up[x2]
      g == m2.up[p]
  IN  <<Rotate(Paint(Paint(m2, p, FALSE), g, TRUE), g, Other(d)), x2>>

(* One pass of the loop that balances the tree after an insertion, or its  *)
(* end.                                                                    *)
InsertFix ==
  /\ at.pc = "insert"
  /\ LET q == at.tree
         m == t[q]
         x == at.x
         p == m.up[x]
         g == m.up[p]
         u == m.kid[g][Other(Side(m, p))]
         s == Straighten(m, x)
     IN  IF x = Root(m) \/ ~m.red[p]
         THEN /\ t' = [t EXCEPT ![q] = Paint(m, Root(m), FALSE)]
              /\ at' = Idle
         ELSE IF IsRed(m, u)
         THEN /\ t' = [t EXCEPT ![q].red = [@ EXCEPT ![p] = FALSE, ![u] = FALSE, ![g] = TRUE]]
              /\ at' = [at EXCEPT !.x = g]
         ELSE /\ t' = [t EXCEPT ![q] = s[1]]
              /\ at' = [at EXCEPT !.x = s[2]]
  /\ UNCHANGED <<list, ret>>

-----------------------------------------------------------------------------
(* Erasure.  Unlink(m, z) takes z out of the links: the tree, the node x   *)
(* that came up (which may be null), its parent, and whether a black node  *)
(* went missing above x. *)

(* The first (d = 1) or last node once z is gone, x being in its place.    *)
Corner(m, z, x, d) ==
  IF m.kid[End][d] # z THEN m.kid[End][d]
  ELSE IF m.kid[z][Other(d)] = Null THEN m.up[z]
  ELSE MinMax(m, x, d)

(* z has one child at most: the child takes its place.                     *)
UnlinkOuter(m, z) ==
  LET x == IF m.kid[z][1] = Null THEN m.kid[z][2] ELSE m.kid[z][1]
      r == Replace(m, z, x)
  IN  [m |-> [r EXCEPT !.up = SetUp(@, x, m.up[z]),
                       !.kid[End] = <<Corner(r, z, x, 1), Corner(r, z, x, 2)>>],
       x |-> x, up |-> m.up[z], black |-> ~m.red[z]]

(* z has two children: its successor y takes its place and its colour.     *)
UnlinkInner(m, z) ==
  LET y == MinMax(m, m.kid[z][2], 1)
      x == m.kid[y][2]
      away == y # m.kid[z][2]
      r == Replace(m, z, y)
      r2 == IF away THEN [r EXCEPT !.kid[m.up[y]][1] = x, !.kid[y] = m.kid[z],
                                   !.up = [SetUp(@, x, m.up[y]) EXCEPT ![m.kid[z][2]] = y]]
            ELSE [r EXCEPT !.kid[y][1] = m.kid[z][1]]
  IN  [m |-> [r2 EXCEPT !.up[m.kid[z][1]] = y, !.up[y] = m.up[z], !.red[y] = m.red[z]],
       x |-> x, up |-> IF away THEN m.up[y] ELSE y, black |-> ~m.red[y]]

Unlink(m, z) ==
  IF Null \in {m.kid[z][1], m.kid[z][2]} THEN UnlinkOuter(m, z) ELSE UnlinkInner(m, z)

(* _C_put_node (z): the value is destroyed and the node is free again.     *)
Put(m, z) ==
  [m EXCEPT !.up[z] = Null, !.kid[z] = <<Null, Null>>, !.red[z] = TRUE,
            !.made = @ \ {z}, !.size = @ - 1]

(* erase (it) up to the loop, for the node z of a range that ends at last. *)
Cut(q, z, last) ==
  LET u == Unlink(t[q], z)
  IN  /\ t' = [t EXCEPT ![q] = u.m]
      /\ at' = [pc |-> IF u.black THEN "erase" ELSE "put", tree |-> q, x |-> u.x,
                up |-> u.up, node |-> z, next |-> Next1(t[q], z), last |-> last]
      /\ list' = [list EXCEPT ![q] = SelectSeq(@, LAMBDA e : e # z)]

(* The sibling w of x, made black: __x_parent goes down on the side of x.  *)
BlackSibling(m, p, d) ==
  LET w == m.kid[p][Other(d)]
  IN  IF m.red[w] THEN Rotate(Paint(Paint(m, w, FALSE), p, TRUE), p, d) ELSE m

(* LeanBlack gives the sibling no colour. *)
LeanBlack(m, p, d) ==
  LET w == m.kid[p][Other(d)]
  IN  Rotate(Paint(Paint(m, p, FALSE), m.kid[w][Other(d)], FALSE), p, d)

(* The last pass: the red child of the sibling comes outside, takes the    *)
(* colour along, and the parent of x goes down as a black node.            *)
Lean(m, p, d) ==
  LET w == m.kid[p][Other(d)]
      near == m.kid[w][d]
      m2 == IF IsRed(m, m.kid[w][Other(d)]) THEN m
            ELSE Rotate(Paint(Paint(m, near, FALSE), w, TRUE), w, Other(d))
      w2 == m2.kid[p][Other(d)]
      m3 == Paint(Paint(Paint(m2, w2, m2.red[p]), p, FALSE), m2.kid[w2][Other(d)], FALSE)
  IN  Rotate(m3, p, d)

(* One pass of the loop that balances the tree after an erasure, or its    *)
(* end.                                                                    *)
EraseFix ==
  /\ at.pc = "erase"
  /\ LET q == at.tree
         x == at.x
         p == at.up
         d == IF t[q].kid[p][1] = x THEN 1 ELSE 2
         m == BlackSibling(t[q], p, d)
         w == m.kid[p][Other(d)]
     IN  IF x = Root(t[q]) \/ IsRed(t[q], x)
         THEN /\ t' = [t EXCEPT ![q] = Paint(@, x, FALSE)]
              /\ at' = [at EXCEPT !.pc = "put"]
         ELSE IF ~IsRed(m, m.kid[w][1]) /\ ~IsRed(m, m.kid[w][2])
         THEN /\ t' = [t EXCEPT ![q] = Paint(m, w, TRUE)]
              /\ at' = [at EXCEPT !.x = p, !.up = m.up[p]]
         ELSE /\ t' = [t EXCEPT ![q] = Paint(Lean(m, p, d), x, FALSE)]
              /\ at' = [at EXCEPT !.pc = "put"]
  /\ UNCHANGED <<list, ret>>

(* The end of erase (it); a range goes on with the node after it.          *)
EraseDone ==
  /\ at.pc = "put"
  /\ t' = [t EXCEPT ![at.tree] = Put(@, at.node)]
  /\ at' = IF at.next = at.last THEN Idle ELSE [at EXCEPT !.pc = "range"]
  /\ UNCHANGED <<list, ret>>

EraseNext ==
  /\ at.pc = "range"
  /\ Cut(at.tree, at.next, at.last)
  /\ UNCHANGED ret

After(s, n) == IF n = Last(s) THEN End ELSE s[SelectInSeq(s, LAMBDA e : e = n) + 1]

(* erase (it) *)
Erase(q, z) ==
  /\ at = Idle
  /\ z \in ToSet(list[q])
  /\ Cut(q, z, Next1(t[q], z))
  /\ ret' = [got |-> Next1(t[q], z), want |-> After(list[q], z)]

(* The nodes in order, by the links. *)
InOrder(m) ==
  LET Go[n \in Node \cup {Null}] ==
        IF n = Null THEN <<>> ELSE Go[m.kid[n][1]] \o <<n>> \o Go[m.kid[n][2]]
  IN  Go[Root(m)]

(* _C_erase (root): every node is put, and the header reset. *)
Emptied(m) == [Empty EXCEPT !.made = m.made \ ToSet(InOrder(m))]

(* erase (first, last); the whole of a tree goes without balancing.        *)
EraseSpan(q, first, last) ==
  IF first = Begin(t[q]) /\ last = End /\ t[q].size # 0
  THEN /\ t' = [t EXCEPT ![q] = Emptied(@)]
       /\ list' = [list EXCEPT ![q] = <<>>]
       /\ UNCHANGED at
  ELSE IF first = last THEN UNCHANGED <<t, at, list>>
  ELSE Cut(q, first, last)

EraseRange(q, first, last) ==
  /\ at = Idle
  /\ first \in ToSet(list[q])
  /\ last \in {list[q][i] : i \in {i \in DOMAIN list[q] :
                                    \E j \in 1..(i - 1) : list[q][j] = first}} \cup {End}
  /\ EraseSpan(q, first, last)
  /\ ret' = [got |-> last, want |-> last]

(* erase (key): the distance between the bounds is what it returns.        *)
EraseKey(q, k) ==
  /\ at = Idle
  /\ t[q].alive
  /\ LET m == t[q]
         Far[x \in Node \cup {End}] == IF x = Upper(m, k) THEN 0 ELSE 1 + Far[Next1(m, x)]
     IN  ret' = [got |-> Far[Lower(m, k)], want |-> Cardinality(Held(list[q], k))]
  /\ EraseSpan(q, Lower(t[q], k), Upper(t[q], k))

-----------------------------------------------------------------------------
(* Whole trees. *)

(* _C_copy() and the corners set after it: the same links with copies of   *)
(* the values.                                                             *)
Copied(m) ==
  LET r == Root(m)
  IN  [m EXCEPT !.kid[End] = IF r = Null THEN <<End, End>>
                             ELSE <<MinMax(m, r, 1), MinMax(m, r, 2)>>,
                !.made = ToSet(InOrder(m))]

(* The order in which _C_copy() makes the nodes: right subtrees first.     *)
CopyOrder(m) ==
  LET Go[n \in Node \cup {Null}] ==
        IF n = Null THEN <<>> ELSE <<n>> \o Go[m.kid[n][2]] \o Go[m.kid[n][1]]
  IN  Go[Root(m)]

(* operator= (x).  When the copy of value i + 1 throws the header has a    *)
(* first node and no root: _C_copy() has linked the copies below it, and   *)
(* the assignments after it are never made.  What follows a copy that      *)
(* threw is not modelled (Broken).                                         *)
Assign(q, s) ==
  /\ at = Idle
  /\ t[q].alive /\ t[s].alive
  /\ q = s \/ Fits(q, t[s].size)
  /\ IF q = s THEN UNCHANGED <<t, list>>
     ELSE /\ t' = [t EXCEPT ![q] = [Copied(t[s]) EXCEPT !.made = @ \cup Emptied(t[q]).made]]
          /\ list' = [list EXCEPT ![q] = list[s]]
  /\ ret' = None
  /\ UNCHANGED at

AssignPart(q, s, i) ==
  /\ at = Idle
  /\ q # s
  /\ t[q].alive /\ t[s].alive
  /\ i \in 1..(Len(CopyOrder(t[s])) - 1)
  /\ LET first == CopyOrder(t[s])[1]
         made == ToSet(SubSeq(CopyOrder(t[s]), 1, i))
     IN  t' = [t EXCEPT ![q] = [Emptied(@) EXCEPT !.kid[End] = <<first, End>>,
                                                  !.up[first] = End,
                                                  !.made = @ \cup made]]
  /\ at' = [Idle EXCEPT !.pc = "broken", !.tree = q]
  /\ list' = [list EXCEPT ![q] = <<>>]
  /\ ret' = None

(* The copy constructor; when a copy throws the buffers are released with  *)
(* the values that have been made in them.                                 *)
Copy(q, s) ==
  /\ at = Idle
  /\ ~t[q].alive /\ t[s].alive
  /\ Fits(q, t[s].size)
  /\ t' = [t EXCEPT ![q] = Copied(t[s])]
  /\ list' = [list EXCEPT ![q] = list[s]]
  /\ ret' = None
  /\ UNCHANGED at

CopyFails(q, s, i) ==
  /\ at = Idle
  /\ ~t[q].alive /\ t[s].alive
  /\ i \in 1..(Len(CopyOrder(t[s])) - 1)
  /\ t' = [t EXCEPT ![q].made = ToSet(SubSeq(CopyOrder(t[s]), 1, i))]
  /\ at' = [Idle EXCEPT !.pc = "broken", !.tree = q]
  /\ ret' = None
  /\ UNCHANGED list

Broken == at.pc = "broken" /\ UNCHANGED <<t, at, list, ret>>

(* The default constructor and the destructor. *)
Construct(q) ==
  /\ at = Idle
  /\ ~t[q].alive
  /\ t' = [t EXCEPT ![q] = Empty]
  /\ ret' = None
  /\ UNCHANGED <<at, list>>

Destroy(q) ==
  /\ at = Idle
  /\ t[q].alive
  /\ t' = [t EXCEPT ![q] = [Emptied(@) EXCEPT !.alive = FALSE]]
  /\ list' = [list EXCEPT ![q] = <<>>]
  /\ ret' = None
  /\ UNCHANGED at

(* swap (x): the members change hands, or three copies do what that does.  *)
Swap(q, s) ==
  /\ at = Idle
  /\ q # s
  /\ t[q].alive /\ t[s].alive
  /\ t' = [t EXCEPT ![q] = t[s], ![s] = t[q]]
  /\ list' = [list EXCEPT ![q] = list[s], ![s] = list[q]]
  /\ ret' = None
  /\ UNCHANGED at

-----------------------------------------------------------------------------
Init ==
  /\ t = [q \in Trees |-> Dead]
  /\ dup \in Dups
  /\ at = Idle
  /\ list = [q \in Trees |-> <<>>]
  /\ ret = None

Step ==
  \/ InsertFix
  \/ EraseFix
  \/ EraseDone
  \/ EraseNext
  \/ \E q \in Trees, k \in Keys : Insert(q, k)
  \/ \E q \in Trees, k \in Keys, h \in Node \cup {End} : InsertHint(q, h, k)
  \/ \E q \in Trees, z \in Node : Erase(q, z)
  \/ \E q \in Trees, f \in Node, l \in Node \cup {End} : EraseRange(q, f, l)
  \/ \E q \in Trees, k \in Keys : EraseKey(q, k)
  \/ \E q, s \in Trees : Assign(q, s) \/ Copy(q, s) \/ Swap(q, s)
  \/ \E q, s \in Trees, i \in 1..Cardinality(Node) : AssignPart(q, s, i) \/ CopyFails(q, s, i)
  \/ \E q \in Trees : Construct(q) \/ Destroy(q)
  \/ Broken

Next == Step /\ UNCHANGED dup

Spec == Init /\ [][Next]_vars

-----------------------------------------------------------------------------
TypeOK ==
  /\ \A q \in Trees :
       /\ t[q].up \in [Node \cup {End} -> Link]
       /\ \A n \in Node \cup {End} : t[q].kid[n] \in Link \X Link
       /\ t[q].red \in [Node \cup {End} -> BOOLEAN]
       /\ t[q].made \subseteq Node
       /\ t[q].size \in 0..Cardinality(Node)
       /\ list[q] \in Seq(Node)
  /\ dup \in Dups
  /\ at.pc \in {"idle", "insert", "erase", "put", "range", "broken"}

Busy(q) == at.tree = q /\ at.pc \in {"erase", "put"}
Sound(q) == ~(at.tree = q /\ at.pc = "broken")

(* At every step, in the middle of balancing too, the links spell the      *)
(* sequence the calls have made (equal keys in the order they came), each   *)
(* child knows its parent, and size() counts the nodes (_C_insert, erase,   *)
(* _C_rol, _C_ror, _C_copy).                                               *)
InOrderRight ==
  \A q \in Trees : t[q].alive /\ Sound(q) =>
    /\ InOrder(t[q]) = list[q]
    /\ \A n \in ToSet(list[q]), d \in 1..2 :
         t[q].kid[n][d] # Null => t[q].up[t[q].kid[n][d]] = n
    /\ Root(t[q]) # Null => t[q].up[Root(t[q])] = End
    /\ t[q].size = Len(list[q]) + (IF Busy(q) THEN 1 ELSE 0)

(* The black nodes on the ways down from n, one too few on the way through  *)
(* x below p: -1 when they are not the same everywhere.                    *)
BlackHeight(m, p0, x0) ==
  LET Go[n \in Node \cup {Null}, p \in Node \cup {End}] ==
        LET below == IF n = Null THEN {0}
                     ELSE {Go[m.kid[n][1], n], Go[m.kid[n][2], n]}
        IN  IF -1 \in below \/ Cardinality(below) # 1 THEN -1
            ELSE Max(below) + (IF n # Null /\ ~m.red[n] THEN 1 ELSE 0)
                            + (IF n = x0 /\ p = p0 THEN 1 ELSE 0)
  IN  Go[Root(m), End]

(* Between calls a tree is a red-black tree: a black root, no red node      *)
(* below a red one, as many black nodes on every way down.  While it is     *)
(* balanced only the node the loop is at breaks one of the rules: it is red *)
(* next to a red one, or one black node short (_C_insert, erase).           *)
Balanced ==
  \A q \in Trees :
    LET m == t[q]
        here == at.tree = q
        short == here /\ at.pc = "erase"
    IN  m.alive /\ Sound(q) =>
          /\ BlackHeight(m, IF short THEN at.up ELSE Null, at.x) # -1
          /\ \A n \in ToSet(list[q]) :
               m.red[n] /\ (n = Root(m) \/ m.red[m.up[n]]) =>
                  here /\ at.x \in IF short THEN {n, m.up[n]} ELSE {n}

(* Between calls the iterator walks the sequence: from begin() to end() by  *)
(* operator++ and back by operator--, the header's corners being the first  *)
(* and the last node (erase adjusts them, __rw_tree_iter).                  *)
WalksRight ==
  at.pc \in {"idle", "range"} => \A q \in Trees : t[q].alive =>
    LET s == list[q]
        m == t[q]
    IN  /\ m.kid[End] = IF s = <<>> THEN <<End, End>> ELSE <<Head(s), Last(s)>>
        /\ m.red[End]
        /\ \A i \in 1..Len(s) :
             /\ Next1(m, s[i]) = After(s, s[i])
             /\ Prev1(m, After(s, s[i])) = s[i]

(* Between calls lower_bound(), upper_bound() and find() are the first     *)
(* element not less than the key, the first greater, and the first equal.   *)
SearchRight ==
  at.pc = "idle" => \A q \in Trees, k \in Keys : t[q].alive =>
    LET First(P(_)) == IF \E i \in DOMAIN list[q] : P(Key(list[q][i]))
                       THEN SelectSeq(list[q], LAMBDA e : P(Key(e)))[1] ELSE End
    IN  /\ Lower(t[q], k) = First(LAMBDA e : e >= k)
        /\ Upper(t[q], k) = First(LAMBDA e : e > k)
        /\ Find(t[q], k) = First(LAMBDA e : e = k)

(* What a call returns is what it should: insert() the node of the key and  *)
(* never a second one in a set, with or without a hint, erase() the node    *)
(* after the erased one or the number of nodes erased.                      *)
ReturnAsDue == ret.got = ret.want

(* Every node that _C_get_node() makes is given to _C_put_node() in the     *)
(* end: the values that exist are those of the nodes in a tree, and none    *)
(* outlives its tree (the comment on _C_get_node in _tree.h).               *)
NothingLost ==
  \A q \in Trees : Sound(q) =>
    t[q].made = ToSet(list[q]) \cup (IF Busy(q) THEN {at.node} ELSE {})

(* The depth stays within 2 log2 (size + 1), which the code asserts at each *)
(* insert() with a hint and each erase() (_RWSTDDEBUG).                     *)
DepthRight ==
  at.pc = "idle" => \A q \in Trees : t[q].alive =>
    \E l \in 0..6 : 2^l <= t[q].size + 1 /\ t[q].size + 1 < 2^(l + 1)
                      /\ Depth(t[q]) <= 2 * l

(* At every step the nodes are the elements, in order, and nothing else -   *)
(* what a call takes out of the tree is destroyed, once - and erasures and  *)
(* insertions in any order leave a red-black tree, which is what keeps the  *)
(* depth in its bound.  A copy or assignment that throws leaves the other  *)
(* tree so (the one it was making is not, see CornersAgree), and so does an *)
(* insertion that throws while it searches or makes its node.  One whose   *)
(* last comparison throws does not: with LateThrow the node it has made is *)
(* never destroyed, and size() counts it (_tree.cc:185).                   *)
TreeRight == TypeOK /\ InOrderRight /\ NothingLost /\ Balanced /\ DepthRight

(* What a call returns is what it should, and what a program finds in a     *)
(* tree by walking or searching it is what the calls put there.             *)
ReturnsRight == ReturnAsDue /\ WalksRight /\ SearchRight

(* The root is _C_end's parent and begin() its first child: a tree without  *)
(* a root has nothing to begin with (the comment on _C_end in _tree.h).     *)
CornersAgree ==
  \A q \in Trees : t[q].alive => (Root(t[q]) = Null <=> Begin(t[q]) = End)
=============================================================================
