----------------------------- MODULE MCStringRep ----------------------------
(***************************************************************************)
(* StringRep on small instances.                                           *)
(***************************************************************************)
EXTENDS StringRep, TLC

Symmetry == {p @@ q @@ r @@ s : p \in Permutations(Handles), q \in Permutations(Bodies),
                                r \in Permutations(Threads), s \in Permutations(Vals \ {Empty})}
=============================================================================
