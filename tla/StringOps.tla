------------------------------ MODULE StringOps -----------------------------
(***************************************************************************)
(* What basic_string's members do with the characters of a string that     *)
(* shares its body with no other (include/string, include/string.cc): the  *)
(* edits, in place or in a new buffer, from a text elsewhere or from the   *)
(* string's own buffer, and the searches.  A buffer has cap + 1 elements,  *)
(* of which the first size are the string's and the next is the NUL.       *)
(***************************************************************************)
EXTENDS Naturals, Sequences, FiniteSets, FiniteSetsExt

CONSTANTS Chars, Nul, Junk,     \* characters, the terminator, uninitialized
          MaxSize,              \* max_size()
          MinGrow, Num, Den,    \* _RWSTD_MINIMUM_STRING_CAPACITY and the ratio
          Texts,                \* the texts that calls pass and searches seek
          Terminator            \* whether they pass the string's own terminator

\* what the constants are; the module that gives them values assumes it
StringOpsAssumption ==
    /\ Nul \notin Chars /\ Junk \notin Chars \cup {Nul}
    /\ Terminator \in BOOLEAN
    /\ MaxSize \in Nat \ {0} /\ MinGrow \in Nat \ {0} /\ Num \in Nat /\ Den \in Nat \ {0}

VARIABLES
    buf,        \* the buffer
    size,       \* _C_size
    res,        \* how the last call ended: "ok", or the exception's name
    want,       \* the value the string is to have
    wantRes     \* and how the call is to end

vars == <<buf, size, res, want, wantRes>>

Capacity == Cardinality(DOMAIN buf) - 1
Value == [i \in 1 .. size |-> buf[i - 1]]
Least(a, b) == IF a < b THEN a ELSE b
Npos == MaxSize + 3     \* any number no string is as long as

\* a source of n characters: a text, or the string's own buffer from off on
External(text) == [own |-> FALSE, off |-> 0, text |-> text, n |-> Len(text)]
Own(off, n) == [own |-> TRUE, off |-> off, text |-> <<>>, n |-> n]
Sources ==
    LET last == IF Terminator THEN size + 1 ELSE size
    IN  {External(x) : x \in Texts}
        \cup UNION {{Own(off, n) : n \in 0 .. last - off} : off \in 0 .. last}
From(b, src, i) == IF src.own THEN b[src.off + i] ELSE src.text[i + 1]

\* _C_grow() and _C_get_rep()
NewCapacity(from) == LET n == (from * Num) \div Den
                     IN  IF from + MinGrow > n THEN from + MinGrow ELSE n
Grow(from, to) == IF NewCapacity(from) < to THEN to ELSE NewCapacity(from)
GetRep(cap, len) == IF cap > MaxSize THEN len ELSE cap

Terminate(b, n) == [b EXCEPT ![n] = Nul]

\* traits_type::move() and copy() of n characters; the latter in any order
Move(b, to, from, n) == [i \in DOMAIN b |-> IF i \in to .. to + n - 1
                                            THEN b[from + (i - to)] ELSE b[i]]
Copy(b, to, src) == [i \in DOMAIN b |-> IF i \in to .. to + src.n - 1
                                        THEN From(b, src, i - to) ELSE b[i]]

Init ==
    /\ buf = [i \in {0} |-> Nul] /\ size = 0
    /\ res = "ok" /\ want = <<>> /\ wantRes = "ok"
-----------------------------------------------------------------------------
\* what a replacement of n1 characters at pos by a text is to do
Expect(pos, n1, text) ==
    LET rest == SubSeq(want, pos + Least(n1, Len(want) - pos) + 1, Len(want))
        v == SubSeq(want, 1, pos) \o text \o rest
    IN  IF pos > Len(want) THEN wantRes' = "out_of_range" /\ UNCHANGED want
        ELSE IF Len(v) > MaxSize THEN wantRes' = "length_error" /\ UNCHANGED want
        ELSE wantRes' = "ok" /\ want' = v

Text(src) == [i \in 1 .. src.n |-> IF src.own THEN (want \o <<Nul>>)[src.off + i]
                                   ELSE src.text[i]]

Clear == buf' = Terminate(buf, 0) /\ size' = 0 /\ res' = "ok"

Reject(e) == res' = e /\ UNCHANGED <<buf, size>>

\* the new buffer of a replacement
Rebuilt(pos, n1, src, rem, n) ==
    [i \in 0 .. GetRep(Grow(size, n), n) |->
        IF i < pos THEN buf[i]
        ELSE IF i < pos + src.n THEN From(buf, src, i - pos)
        ELSE IF i < pos + src.n + rem THEN buf[i - src.n + n1]
        ELSE IF i = n THEN Nul ELSE Junk]

\* a mutant: a source within the string is not looked for
AliasedNever(src) == FALSE
Aliased(src) == src.own /\ src.off < size

Fits(len, n) == n <= MaxSize /\ len <= MaxSize - n

\* replace (pos1, n1, s, n2), of a string that is not shared
Replace(pos, n1, src) ==
    LET xlen == Least(n1, size - pos)
        n == size - xlen + src.n
        rem == size - xlen - pos
    IN  IF pos > size THEN Reject("out_of_range")
        ELSE IF ~Fits(size - xlen, src.n) THEN Reject("length_error")
        ELSE IF n = 0 THEN Clear
        ELSE /\ IF Capacity < n \/ Aliased(src)
                THEN buf' = Rebuilt(pos, n1, src, rem, n)
                ELSE buf' = Terminate(Copy(Move(buf, pos + src.n, pos + n1, rem),
                                           pos, src), n)
             /\ size' = n /\ res' = "ok"

\* append (s, n): in place if there is room
AppendText(src) ==
    IF Capacity - size < src.n THEN Replace(size, 0, src)
    ELSE /\ buf' = Terminate(Copy(buf, size, src), size + src.n)
         /\ size' = size + src.n
         /\ res' = "ok"

\* push_back (c)
PushBack(c) ==
    IF Capacity < size + 1 THEN Replace(size, 0, External(<<c>>))
    ELSE /\ buf' = Terminate([buf EXCEPT ![size] = c], size + 1)
         /\ size' = size + 1
         /\ res' = "ok"

\* reserve (n): _C_clone()
Reserve(n) ==
    IF n > MaxSize THEN Reject("length_error")
    ELSE /\ IF n > Capacity
            THEN buf' = [i \in 0 .. n |-> IF i < size THEN buf[i]
                                      ELSE IF i = size THEN Nul ELSE Junk]
            ELSE UNCHANGED buf
         /\ res' = "ok" /\ UNCHANGED size

\* resize (n, c)
Resize(n, c) ==
    IF n > MaxSize THEN Reject("length_error")
    ELSE IF n < size THEN Replace(n, size - n, External(<<>>))
    ELSE Replace(size, 0, External([i \in 1 .. n - size |-> c]))
-----------------------------------------------------------------------------
Next ==
    \/ \E pos \in 0 .. MaxSize + 1, n1 \in 0 .. MaxSize \cup {Npos}, src \in Sources :
          Replace(pos, n1, src) /\ Expect(pos, n1, Text(src))
    \/ \E src \in Sources : AppendText(src) /\ Expect(Len(want), 0, Text(src))
    \/ \E c \in Chars : PushBack(c) /\ Expect(Len(want), 0, <<c>>)
    \/ \E n \in 0 .. MaxSize + 1 :
          /\ Reserve(n)
          /\ wantRes' = IF n > MaxSize THEN "length_error" ELSE "ok"
          /\ UNCHANGED want
    \/ \E n \in 0 .. MaxSize + 1, c \in Chars :
          /\ Resize(n, c)
          /\ IF n > MaxSize THEN wantRes' = "length_error" /\ UNCHANGED want
             ELSE Expect(Least(n, Len(want)), Len(want),
                         [i \in 1 .. n - Least(n, Len(want)) |-> c])

Spec == Init /\ [][Next]_vars
-----------------------------------------------------------------------------
\* the searches, in the string as it is

Matches(s, at) == \A i \in 1 .. Len(s) : buf[at + i - 1] = s[i]
Prefix(s, at) == CHOOSE m \in 0 .. Len(s) :
                    /\ \A i \in 1 .. m : buf[at + i - 1] = s[i]
                    /\ m < Len(s) => buf[at + m] # s[m + 1]
Earliest(S) == IF S = {} THEN Npos ELSE Min(S)
Latest(S) == IF S = {} THEN Npos ELSE Max(S)

\* a mutant: the search goes on after the mismatch
FindAfter(s, off) ==
    IF size < off THEN Npos
    ELSE LET find[next \in 0 .. MaxSize + 1] ==
               IF next > size \/ size - next < Len(s) THEN Npos
               ELSE LET m == Prefix(s, next)
                        first == Earliest({i \in next + m + 1 .. size - 1 : buf[i] = s[1]})
                    IN  IF m = Len(s) THEN next
                        ELSE IF first = Npos THEN Npos ELSE find[first]
         IN  find[off]

\* find (s, off, n): after a mismatch the search goes on at the first element
\* seen that starts the text, or the next there is
Find(s, off) ==
    IF size < off THEN Npos
    ELSE LET find[next \in 0 .. MaxSize + 1] ==
               IF next > size \/ size - next < Len(s) THEN Npos
               ELSE LET m == Prefix(s, next)
                        seen == Earliest({i \in next + 1 .. next + m - 1 : buf[i] = s[1]})
                        first == IF seen # Npos THEN seen
                                 ELSE Earliest({i \in next + m .. size - 1 : buf[i] = s[1]})
                    IN  IF m = Len(s) THEN next
                        ELSE IF first = Npos THEN Npos ELSE find[first]
         IN  find[off]

\* rfind (s, pos, n): from one more than the last place down to zero
Rfind(s, pos) ==
    IF size < Len(s) THEN Npos
    ELSE Latest({x \in 0 .. Least(size - Len(s), pos) : Matches(s, x)})

\* find_last_not_of (s, pos, n)
FindLastNotOf(S, pos) ==
    IF size = 0 THEN Npos
    ELSE Latest({x \in 0 .. Least(pos, size - 1) : buf[x] \notin S})
FindFirstNotOf(S, pos) == Earliest({x \in pos .. size - 1 : buf[x] \notin S})

\* find_first_of (s, pos, n), and the loop of find_last_of
FindFirstOf(S, pos) == Earliest({x \in pos .. size - 1 : buf[x] \in S})
FindLastOf(S, pos) ==
    IF size = 0 THEN Npos
    ELSE Latest({x \in 0 .. Least(pos, size - 1) : buf[x] \in S})
-----------------------------------------------------------------------------
TypeOK ==
    /\ buf \in [0 .. Capacity -> Chars \cup {Nul, Junk}]
    /\ size \in 0 .. MaxSize
    /\ {res, wantRes} \subseteq {"ok", "out_of_range", "length_error"}

\* The string is what the sequence of calls says, wherever the source of an
\* edit was and whether the edit was made in place or in a new buffer.
ValueRight == Value = want

\* A call throws when its position is not in the string or its result is
\* longer than a string may be, and then changes nothing.
ThrowsRight == res = wantRes

\* The buffer holds the string and its terminator, and is not longer than a
\* buffer may be.
Terminated == size <= Capacity /\ buf[size] = Nul /\ Capacity <= MaxSize

\* Every edit, at any length and of any source, leaves the string that the
\* calls ask for or throws and leaves it alone (string.cc:258-417).
EditsRight == TypeOK /\ ValueRight /\ ThrowsRight /\ Terminated

\* The search is the same as trying each place in turn.
FindRight ==
    \A s \in Texts, off \in 0 .. MaxSize + 1 :
        Find(s, off) = Earliest({x \in off .. size :
                                    x + Len(s) <= size /\ SubSeq(Value, x + 1, x + Len(s)) = s})

\* Searching backwards from where a search forwards ended finds the same
\* place, and none is between the last two that rfind finds.
SearchesAgree ==
    \A s \in Texts, off \in 0 .. size :
        /\ Find(s, off) # Npos => Rfind(s, Find(s, off)) = Find(s, off)
        /\ Rfind(s, off) # Npos =>
              Find(s, Rfind(s, off)) = Rfind(s, off)
              /\ (Rfind(s, off) < off => Find(s, Rfind(s, off) + 1) > off)
        /\ Len(s) = 1 =>
              /\ Find(s, off) = FindFirstOf({s[1]}, off)
              /\ Rfind(s, Npos) = FindLastOf({s[1]}, Npos)
              /\ FindFirstNotOf({s[1]}, off) = Earliest(
                    {FindFirstOf({c}, off) : c \in (Chars \cup {Nul}) \ {s[1]}})
              /\ FindLastNotOf({s[1]}, off) \in {Npos} \cup
                    {FindLastOf({c}, off) : c \in (Chars \cup {Nul}) \ {s[1]}}

\* The searches agree with the definition and with each other, for texts that
\* overlap themselves and places at and past the end (string.cc:648-814).
SearchesRight == FindRight /\ SearchesAgree
=============================================================================
