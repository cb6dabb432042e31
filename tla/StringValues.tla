---------------------------- MODULE StringValues ----------------------------
(***************************************************************************)
(* What basic_string promises (21.3): a string object is a value of its    *)
(* own.  A call changes the objects it is called on, at one point between  *)
(* its begin and its end, and if it throws it changes nothing.  Nothing    *)
(* here knows of bodies that strings share.                                *)
(***************************************************************************)
EXTENDS Naturals

CONSTANTS Handles, Threads, Vals, Empty,
          None      \* the value of an object not constructed

VARIABLES value,    \* of each object
          call      \* of each thread: {} or {[op, h, g, v, done]}

Ops == {"new", "copy", "assign", "set", "begin", "reserve", "swap", "dtor", "write"}

Init ==
    /\ value = [h \in Handles |-> None]
    /\ call = [t \in Threads |-> {}]

\* the objects that a call changes, and that it only reads: the program does
\* not call one that changes an object while another uses it
Changed(c) == IF c.op = "swap" THEN {c.h, c.g} ELSE {c.h}
ReadOnly(c) == IF c.op \in {"copy", "assign"} THEN {c.g} ELSE {}

Begin(t) ==
    /\ call[t] = {}
    /\ \E op \in Ops, h, g \in Handles, v \in Vals :
          LET c == [op |-> op, h |-> h, g |-> g, v |-> v, done |-> FALSE]
          IN  /\ op \in {"new", "copy"} <=> value[h] = None
              /\ op \in {"copy", "assign", "swap"} => value[g] # None
              /\ \A u \in Threads : \A d \in call[u] :
                    /\ Changed(c) \cap (Changed(d) \cup ReadOnly(d)) = {}
                    /\ Changed(d) \cap ReadOnly(c) = {}
              /\ call' = [call EXCEPT ![t] = {c}]
    /\ UNCHANGED value

Do(t) ==
    /\ \E c \in call[t] :
          /\ ~c.done
          /\ value' = CASE c.op \in {"new", "set", "write"} -> [value EXCEPT ![c.h] = c.v]
                        [] c.op \in {"copy", "assign"} -> [value EXCEPT ![c.h] = value[c.g]]
                        [] c.op = "swap" -> [value EXCEPT ![c.h] = value[c.g],
                                                          ![c.g] = value[c.h]]
                        [] c.op = "dtor" -> [value EXCEPT ![c.h] = None]
                        [] OTHER -> value
          /\ call' = [call EXCEPT ![t] = {[c EXCEPT !.done = TRUE]}]

\* bad_alloc, of a call that may allocate
Throw(t) ==
    /\ \E c \in call[t] :
          /\ ~c.done /\ c.op \notin {"swap", "dtor", "write"}
          /\ call' = [call EXCEPT ![t] = {[c EXCEPT !.done = TRUE]}]
    /\ UNCHANGED value

End(t) ==
    /\ \E c \in call[t] : c.done
    /\ call' = [call EXCEPT ![t] = {}]
    /\ UNCHANGED value

Next == \E t \in Threads : Begin(t) \/ Do(t) \/ Throw(t) \/ End(t)

Spec == Init /\ [][Next]_<<value, call>>
=============================================================================
