------------------------------ MODULE DequeShift ------------------------------
(***************************************************************************)
(* What the insertions, erasures and assignments of std::deque do to the   *)
(* elements: which cells are constructed, assigned and destroyed, in which *)
(* order and from what, when the inserted value may be an element itself   *)
(* and each construction and each assignment may throw.                    *)
(*                                                                         *)
(* Cell 0 is begin(); a reservation has made room in the n raw cells       *)
(* before it or past the last element (Deque).  A call is the list of the  *)
(* operations on T that it performs; one step performs one of them.        *)
(***************************************************************************)
EXTENDS Integers, Sequences, SequencesExt

CONSTANTS Values,   \* the values an element may have: numbers
          MaxSize,  \* elements a deque may grow to
          MaxN      \* elements one call inserts

DequeShiftAssumption == Values \subseteq Nat /\ MaxSize \in Nat /\ MaxN \in Nat

VARIABLES cells,  \* the cells: a value, or raw
          size,   \* the number of elements
          call    \* the call that runs: what is left to do, and ghosts

vars == <<cells, size, call>>

Raw == -1
Index == -MaxN..(MaxSize + MaxN)
Idle == [pc |-> "idle"]
Contents == [i \in 1..size |-> cells[i - 1]]

-----------------------------------------------------------------------------
(* Lists of operations.  A source is a cell or a value. *)

FromCell(i) == [cell |-> TRUE, of |-> i]
FromValue(v) == [cell |-> FALSE, of |-> v]
Cells(from, n) == [i \in 1..n |-> FromCell(from + i - 1)]
Do(what, to, src) == [i \in 1..Len(src) |-> [do |-> what, at |-> to + i - 1, src |-> src[i]]]
Make(to, src) == Do("make", to, src)
Set(to, src) == Do("set", to, src)
Destroy(to, n) == Do("destroy", to, Cells(to, n))

(* std::copy() and std::copy_backward() of n cells. *)
Copy(from, to, n) == Set(to, Cells(from, n))
CopyBackward(from, to, n) == Reverse(Copy(from, to, n))

Shorter(off) == size - off <= off

(* _C_insert_fill() and _C_insert_range() of the values src: the shorter    *)
(* side shifts.  Where the new values outrun that side, some of them are    *)
(* constructed in raw cells, else only moved elements are.                  *)
InsertProg(off, src) ==
  LET n == Len(src)
      rem == size - off
      First(m) == SubSeq(src, 1, m)
      Past(m) == SubSeq(src, m + 1, n)
  IN
  IF Shorter(off) /\ rem < n
  THEN Make(size, Past(rem)) \o Make(size + n - rem, Cells(off, rem)) \o Set(off, First(rem))
  ELSE IF Shorter(off)
  THEN Make(size, Cells(size - n, n)) \o CopyBackward(off, off + n, rem - n) \o Set(off, src)
  ELSE IF off < n
  THEN Make(-n, Cells(0, off)) \o Make(off - n, First(n - off)) \o Set(0, Past(n - off))
  ELSE Make(-n, Cells(0, n)) \o Copy(n, 0, off - n) \o Set(off - n, src)

(* erase (first, last): the shorter side moves over the range and is popped *)
(* off its end.                                                            *)
EraseProg(off, n) ==
  LET rem == size - off - n IN
  IF off < rem THEN CopyBackward(0, n, off) \o Destroy(0, n)
  ELSE Copy(off + n, off, rem) \o Reverse(Destroy(size - n, n))

(* The value argument x of a call: a value of the caller's (a = -1) or a    *)
(* reference to element a.                                                 *)
Ref(x, a) == IF a = -1 THEN FromValue(x) ELSE FromCell(a)
Val(x, a) == IF a = -1 THEN x ELSE cells[a]

(* _C_insert_n() copies the value first when it inserts in the middle, and  *)
(* SourceAlias does not.                                                   *)
SourceAlias(off, x, a) == Ref(x, a)
Source(off, x, a) == IF off # 0 /\ off # size THEN FromValue(Val(x, a)) ELSE Ref(x, a)

-----------------------------------------------------------------------------
(* The calls.  `grow' is how many elements the call adds, `front' whether   *)
(* at the front, `ends' whether it inserts at an end, `want' what the deque *)
(* should hold.                                                            *)

Begin(prog, grow, front, ends, want) ==
  /\ call = Idle
  /\ call' = [pc |-> "run", todo |-> prog, made |-> {}, grow |-> grow, front |-> front,
              was |-> Contents, want |-> want, ends |-> ends]
  /\ UNCHANGED <<cells, size>>

Spliced(off, new) == SubSeq(Contents, 1, off) \o new \o SubSeq(Contents, off + 1, size)

InsertN(off, n, x, a) ==
  LET src == Source(off, x, a)
  IN  Begin(InsertProg(off, [i \in 1..n |-> src]), n, ~Shorter(off), off \in {0, size},
            Spliced(off, [i \in 1..n |-> Val(x, a)]))

InsertRange(off, range) ==
  Begin(InsertProg(off, [i \in 1..Len(range) |-> FromValue(range[i])]), Len(range),
        ~Shorter(off), off \in {0, size}, Spliced(off, range))

Erase(off, n) ==
  Begin(EraseProg(off, n), -n, off < size - off - n, FALSE,
        SubSeq(Contents, 1, off) \o SubSeq(Contents, off + n + 1, size))

(* _C_assign_n (n, x): over the elements that are there, then erase() or    *)
(* insert() at the end, where x is read again.                             *)
AssignN(n, x, a) ==
  LET over == IF n < size THEN n ELSE size
      set == Set(0, [i \in 1..over |-> Ref(x, a)])
      rest == IF n < size THEN EraseProg(n, size - n)
              ELSE Make(size, [i \in 1..(n - size) |-> Ref(x, a)])
  IN  Begin(set \o rest, n - size, FALSE, FALSE, [i \in 1..n |-> Val(x, a)])

Apply(s) ==
  LET v == IF s.src.cell THEN cells[s.src.of] ELSE s.src.of
  IN  cells' = [cells EXCEPT ![s.at] = IF s.do = "destroy" THEN Raw ELSE v]

Step ==
  /\ call.pc = "run"
  /\ call.todo # <<>>
  /\ Apply(Head(call.todo))
  /\ LET s == Head(call.todo)
     IN  call' = [call EXCEPT !.todo = Tail(@),
                              !.made = IF s.do = "make" THEN @ \cup {s.at} ELSE @]
  /\ UNCHANGED size

(* The end of a call; the cells are counted from the new begin().           *)
Renumber(c, by, n) == [i \in Index |-> IF i \in 0..(n - 1) THEN c[i + by] ELSE Raw]

Finish ==
  /\ call.pc = "run"
  /\ call.todo = <<>>
  /\ size' = size + call.grow
  /\ cells' = Renumber(cells, IF call.front THEN -call.grow ELSE 0, size')
  /\ call' = Idle

(* A construction or an assignment throws.  The reservation destroys what    *)
(* was made.                                                               *)
Cleared(made) == [i \in Index |-> IF i \in made THEN Raw ELSE cells[i]]
Throw ==
  /\ call.pc = "run"
  /\ call.todo # <<>>
  /\ Head(call.todo).do # "destroy"
  /\ cells' = Cleared(call.made)
  /\ call' = [call EXCEPT !.pc = "thrown"]
  /\ UNCHANGED size

Caught == call.pc = "thrown" /\ call' = Idle /\ UNCHANGED <<cells, size>>

Init ==
  /\ cells = [i \in Index |-> Raw]
  /\ size = 0
  /\ call = Idle

Next ==
  \/ \E off \in 0..size, n \in 1..MaxN, x \in Values, a \in -1..(size - 1) :
        size + n <= MaxSize /\ InsertN(off, n, x, a)
  \/ \E off \in 0..size, n \in 1..MaxN : \E range \in [1..n -> Values] :
        size + n <= MaxSize /\ InsertRange(off, range)
  \/ \E off \in 0..(size - 1) : \E n \in 1..(size - off) : Erase(off, n)
  \/ \E n \in 0..MaxSize, x \in Values, a \in -1..(size - 1) :
        n <= size + MaxN /\ AssignN(n, x, a)
  \/ Step \/ Finish \/ Throw \/ Caught

Spec == Init /\ [][Next]_vars

-----------------------------------------------------------------------------
TypeOK ==
  /\ cells \in [Index -> Values \cup {Raw}]
  /\ size \in 0..MaxSize
  /\ call.pc \in {"idle", "run", "thrown"}

(* A construction goes into a raw cell; an assignment, a destruction and    *)
(* every read to an object that exists (_C_insert_fill, _C_insert_range,    *)
(* erase, _C_assign_n).                                                    *)
CellsRight ==
  call.pc = "run" /\ call.todo # <<>> =>
    LET s == Head(call.todo)
    IN  /\ (cells[s.at] = Raw) = (s.do = "make")
        /\ s.src.cell => cells[s.src.of] # Raw

(* A call that ends has made the deque what the call says, whatever element *)
(* its argument referred to (section 1.1 of analysis-deque-redesign.md).    *)
ResultRight ==
  call.pc = "run" /\ call.todo = <<>> =>
    LET by == IF call.front THEN -call.grow ELSE 0
    IN  [i \in 1..(size + call.grow) |-> cells[i - 1 + by]] = call.want

(* Every operation of a call is on a cell in the right state, and together   *)
(* they make what was asked for.                                           *)
CallRight == TypeOK /\ CellsRight /\ ResultRight

(* Between calls, and when a call has thrown, the elements are the objects   *)
(* that exist, and no others: nothing constructed for the call is left; and  *)
(* an insertion at either end that throws has changed no element (section 5 *)
(* of the same note: the operations with the no-effects guarantee).         *)
ThrowKeeps ==
  call.pc \in {"idle", "thrown"} =>
    /\ \A i \in Index : cells[i] # Raw <=> i \in 0..(size - 1)
    /\ call.pc = "thrown" /\ call.ends => Contents = call.was
=============================================================================
