------------------------------ MODULE MCRbTree ------------------------------
(***************************************************************************)
(* RbTree on a small instance: two trees, one of which may grow to seven   *)
(* nodes while the other is empty.                                         *)
(***************************************************************************)
EXTENDS RbTree, TLC

Symmetry == Permutations(Trees)
=============================================================================
