---------------------------- MODULE MCIosStore ------------------------------
(***************************************************************************)
(* Streams on small instances: the user data of two streams, one of which   *)
(* is locked, with a word and up to two callbacks each (IosStore); numbers  *)
(* that are read and written (Numbers), in words of eight bits and texts of *)
(* up to five characters; and what a stream's members read of up to four    *)
(* characters (Istream).  A behaviour is of one of them.                    *)
(***************************************************************************)
EXTENDS IosStore, TLC

CONSTANTS Width, Narrow, Plain, MaxText, LongShift, AutoOdd, OctalBase,  \* Numbers
          MaxInput, MaxThrowing, MaxString, ReadThrows, StringArea       \* Istream

VARIABLES part, basefield, text, st, sent, input, was, call

MCIndices == -1 .. 0

\* 33 is x and X, 43 and 45 are the signs, 44 is the separator
Alphabet == (0 :> {0, 1, 7, 15, 33, 44, 45}) @@ (8 :> {0, 3, 7, 8, 44, 45})
            @@ (10 :> {0, 1, 2, 5, 8, 44, 45}) @@ (16 :> {0, 1, 15, 33, 44, 45})
Groupings == {<<>>, <<1>>, <<2>>, <<2, 1>>, <<1, 0>>, <<2, 0>>}

N == INSTANCE Numbers
I == INSTANCE Istream WITH s <- input

ASSUME N!NumbersAssumption

nVars == <<basefield, text, st, sent>>
iVars == <<input, was, call>>
allVars == <<part, vars, nVars, iVars>>

MCInit == /\ part \in {"data", "numbers", "input"}
          /\ Init
          /\ N!Init /\ (part # "numbers" => basefield = 10)
          /\ I!Init /\ (part # "input" => input = I!Stream(<<>>, <<>>, {}, 0))

DataStep == part = "data" /\ Next /\ UNCHANGED <<part, nVars, iVars>>
NumberStep == part = "numbers" /\ N!Next /\ UNCHANGED <<part, vars, iVars>>
InputStep == part = "input" /\ I!Next /\ UNCHANGED <<part, vars, nVars>>

MCSpec == MCInit /\ [][DataStep \/ NumberStep \/ InputStep]_allVars

Symmetry == Permutations(Callbacks)
-----------------------------------------------------------------------------
(* A text is read as the number that it stands for, and what is written is   *)
(* read back (Numbers, strtol.cpp:367).                                      *)
NumbersRight == part = "numbers" => N!NumbersRight

(* A stream's members read what they are to, however the buffer cuts what    *)
(* comes into chunks (Istream, istream.cc:644).                              *)
InputRight == part = "input" => I!InputRight
=============================================================================
