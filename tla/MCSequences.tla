----------------------------- MODULE MCSequences ----------------------------
(***************************************************************************)
(* What is kept in a row, on small instances: the characters of a file      *)
(* behind its buffer (FileBuf; files of up to three bytes behind buffers of *)
(* none to three), of a stringbuf (StringBuf; up to three), of a string     *)
(* (StringOps; up to five, growing by one or by half), the elements of a    *)
(* vector (Vector) and of two lists (List), and the short ranges given to   *)
(* the algorithms (Algorithms).  A behaviour is of one of them.             *)
(***************************************************************************)
EXTENDS FileBuf

CONSTANTS Chars, Nul, MaxSize, MinGrow, Num, Den, Terminator,   \* StringOps
          Values, MaxElements, MaxNew, OwnValue,                \* Vector
          Nodes, ListValues, RemoveOwn,                         \* List
          Threshold, Chunk, Small, Keys, MaxRange,              \* Algorithms
          MaxChars, MinCapacity, GrowRead, OwnSource, StrThrows \* StringBuf

VARIABLES part,
          buf, size, res, want_, wantRes,
          cells, vsize, thrown, wanted,
          L, alike, lists,
          in, call, out,
          sb, model, ret, retDue

MCTexts == {<<10>>, <<10, 11>>}
ETexts == {<<>>, <<"a">>, <<"b">>, <<"a", "b">>, <<"a", "a", "b">>, <<"a", "b", "a">>,
           <<"a", "b", "a", "b", "a", "b", "a">>}

Edits == INSTANCE StringOps WITH Junk <- "?", Texts <- ETexts, want <- want_
Vectors == INSTANCE Vector WITH size <- vsize
TwoLists == INSTANCE List WITH Values <- ListValues, want <- lists
Calls == INSTANCE Algorithms
Buffer == INSTANCE StringBuf WITH
             Characters <- Bytes, Unset <- Junk,
             Strings <- {<<10>>, <<10, 11>>, <<11, 10, 10>>},
             BufModes <- {{"in"}, {"out"}, {"in", "out"}, {"in", "out", "ate"},
                          {"out", "app"}, {"in", "out", "app"}}

ASSUME Edits!StringOpsAssumption

eVars == <<buf, size, res, want_, wantRes>>
vecVars == <<cells, vsize, thrown, wanted>>
listVars == <<L, alike, lists>>
algVars == <<in, call, out>>
bufVars == <<sb, model, ret, retDue>>
allVars == <<part, vars, eVars, vecVars, listVars, algVars, bufVars>>

MCInit == /\ part \in {"file", "string", "vector", "list", "algorithms", "stringbuf"}
          /\ Init /\ Edits!Init /\ Vectors!Init
          /\ TwoLists!Init /\ (part # "list" => alike)
          /\ Calls!Init /\ (part # "algorithms" => in = <<>>)
          /\ Buffer!Init /\ (part # "stringbuf" => sb = Buffer!Fresh({"in"}))

FileStep == part = "file" /\ Next /\ UNCHANGED <<part, eVars, vecVars, listVars, algVars, bufVars>>
StringStep == part = "string" /\ Edits!Next /\ UNCHANGED <<part, vars, vecVars, listVars, algVars, bufVars>>
VectorStep == part = "vector" /\ Vectors!Next /\ UNCHANGED <<part, vars, eVars, listVars, algVars, bufVars>>
ListStep == part = "list" /\ TwoLists!Next /\ UNCHANGED <<part, vars, eVars, vecVars, algVars, bufVars>>
AlgorithmStep == /\ part = "algorithms" /\ Calls!Next
                 /\ UNCHANGED <<part, vars, eVars, vecVars, listVars, bufVars>>
BufferStep == /\ part = "stringbuf" /\ Buffer!Next
              /\ UNCHANGED <<part, vars, eVars, vecVars, listVars, algVars>>

MCSpec == MCInit /\ [][\/ FileStep \/ StringStep \/ VectorStep \/ ListStep
                       \/ AlgorithmStep \/ BufferStep]_allVars
-----------------------------------------------------------------------------
(* After every edit the string is the one that the call stands for, also      *)
(* when its source lies in the string's own buffer, or the call throws and    *)
(* changes nothing (StringOps, string.cc:258).                                *)
EditsRight == part = "string" => Edits!EditsRight

(* The searches find what their definitions say (StringOps, string.cc:648).   *)
SearchesRight == part = "string" => Edits!SearchesRight

(* A vector's elements are what the calls so far say, and what a throw       *)
(* leaves is whole (Vector, vector.cc:286).                                  *)
VectorRight == part = "vector" => Vectors!VectorRight

(* The links of two lists are whole and hold what the calls so far say       *)
(* (List, list.cc:126).                                                      *)
ListsRight == part = "list" => TwoLists!ListsRight

(* The algorithms do to every short range what their definitions say         *)
(* (Algorithms, algorithm.cc:1078).                                          *)
AlgorithmsRight == part = "algorithms" => Calls!AlgorithmsRight

(* A stringbuf holds what the calls so far make it and both its pointers are *)
(* where they are to be (StringBuf, sstream:201).                            *)
StringBufRight == part = "stringbuf" => Buffer!StringBufRight
=============================================================================
