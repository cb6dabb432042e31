------------------------------- MODULE MCDeque -------------------------------
(***************************************************************************)
(* std::deque on a small instance: its storage (Deque) and what its members *)
(* do to the elements (DequeShift), side by side.  A behaviour is of one or *)
(* of the other: nothing that either does depends on where the other is.   *)
(***************************************************************************)
EXTENDS Deque, TLC

CONSTANTS b1, b2, b3, b4, b5,
          Values, MaxElements, MaxN     \* of the elements

VARIABLES cells, size, call

Elements == INSTANCE DequeShift WITH MaxSize <- MaxElements

ASSUME ElementsAssumption == Elements!DequeShiftAssumption

Five == {b1, b2, b3, b4, b5}
SymFive == Permutations(Five)

allVars == <<vars, cells, size, call>>

StorageStep ==
  /\ size = 0 /\ call = Elements!Idle
  /\ Next
  /\ UNCHANGED <<cells, size, call>>

ElementStep ==
  /\ d = Fresh /\ r = Idle
  /\ Elements!Next
  /\ UNCHANGED vars

MCInit == Init /\ Elements!Init

MCSpec == MCInit /\ [][StorageStep \/ ElementStep]_allVars

(* Every construction, assignment and destruction is of a cell in the right *)
(* state, and a call that ends has made the deque what it says, whatever    *)
(* element its argument referred to (section 1.1 of                         *)
(* analysis-deque-redesign.md); a call that throws leaves the objects that  *)
(* are elements and no others, and at either end it changes no element      *)
(* (section 5 of the same note).                                            *)
CallRight == Elements!CallRight /\ Elements!ThrowKeeps
=============================================================================
