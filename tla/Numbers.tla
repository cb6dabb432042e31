------------------------------ MODULE Numbers ------------------------------
(***************************************************************************)
(* Integers in text: num_get reads them character by character and groups   *)
(* their digits (loc/_num_get.cc), strtol.cpp turns the digits into a word  *)
(* of Width bits, num_get.cpp narrows it and checks the groups, num_put.cpp *)
(* writes them with groups.  A character is its digit's value, or one of    *)
(* those below.                                                             *)
(***************************************************************************)
EXTENDS Integers, Sequences, SequencesExt, TLC

CONSTANTS Width,        \* bits of a long
          Narrow,       \* bits of a short
          Plain,        \* decimal digits that are added without a test
          Groupings,    \* what numpunct::grouping() may be; 0 is unlimited
          MaxText,      \* bound: characters read
          Alphabet,     \* bound: those of each basefield
          LongShift,    \* too large a number may be octal or hexadecimal
          AutoOdd,      \* texts may be read that scanf reads otherwise
          OctalBase     \* octal numbers may be written with their base

Plus == 43              \* __rw_digit_map
Minus == 45
X == 33
Sep == 44

NumbersAssumption ==
    /\ Width \in Nat /\ Narrow \in 1 .. Width - 1 /\ 10 ^ Plain <= 2 ^ Width
    /\ \A g \in Groupings : \A i \in DOMAIN g : g[i] \in Nat

VARIABLES basefield,    \* 0, 8, 10 or 16
          text,         \* what was read so far
          st,           \* the variables of _C_get
          sent          \* ghost: what was written, if the text was

numVars == <<basefield, text, st, sent>>
-----------------------------------------------------------------------------
\* 1. stage 2: the digits and the lengths of their groups

\* the sign, the digits, the base, whether 'x' and a sign may come, where the
\* last group began, the groups before it; more: it reads on; bad: failbit
Start(base) == [neg |-> FALSE, buf |-> <<>>, base |-> base, x |-> TRUE, sign |-> TRUE,
                beg |-> 0, groups |-> <<>>, more |-> TRUE, bad |-> FALSE]
Stop(s) == [s EXCEPT !.more = FALSE]

\* of the digits since the last separator; the 0 of a prefix is not counted
Length(s) == IF s.beg > 0 THEN Len(s.buf) + 1 - s.beg
             ELSE Len(s.buf) - (IF s.x THEN 0 ELSE 1)

Separator(s) ==
    IF Length(s) = 0 THEN [s EXCEPT !.more = FALSE, !.bad = TRUE]
    ELSE [s EXCEPT !.groups = Append(@, Length(s)), !.beg = Len(s.buf) + 1]

\* a 0 has been read and nothing else
Zero(s) == Len(s.buf) = 1 /\ s.buf[1] = 0

Autodetect(s, c) ==
    IF c < 10 THEN [s EXCEPT !.buf = Append(@, c),
                             !.base = IF c \in 1 .. 7 /\ Zero(s) THEN 8 ELSE @]
    ELSE IF c = X /\ s.x /\ Zero(s)
         THEN [s EXCEPT !.x = FALSE, !.base = 16, !.buf = <<>>]
    ELSE Stop(s)

Read(s, c, grouped) ==
    IF c = Sep /\ s.buf # <<>> /\ grouped THEN Separator(s)
    ELSE IF s.buf = <<>> /\ c \in {Plus, Minus} /\ s.sign
         THEN [s EXCEPT !.neg = (c = Minus), !.sign = FALSE]
    ELSE IF s.base = 0 THEN Autodetect(s, c)
    ELSE IF c < s.base THEN [s EXCEPT !.buf = Append(@, c)]
    ELSE IF s.base = 16 /\ c = X /\ s.x /\ Zero(s) THEN [s EXCEPT !.x = FALSE]
    ELSE Stop(s)

\* the end of stage 2: the last group
Ended(s) == IF s.beg > 0 /\ Length(s) = 0 THEN [s EXCEPT !.bad = TRUE]
            ELSE [s EXCEPT !.groups = Append(@, Length(s)),
                           !.base = IF @ \in {8, 16} THEN @ ELSE 10]
-----------------------------------------------------------------------------
\* 2. strtol.cpp: a word and an error

ULongMax == 2 ^ Width - 1
LongMax == 2 ^ (Width - 1) - 1
LongMin == -(2 ^ (Width - 1))
Word(n) == n % (2 ^ Width)

Shifts(base) == base \in {8, 16}
Unchecked(base) == IF Shifts(base) THEN Width \div 4 ELSE Plain

\* a mutant: the digit itself is added without a test
OverflowsLess(res, d, base) ==
    IF Shifts(base) THEN Word(res * base) < res ELSE ULongMax \div base < res
\* a digit more would not fit, as the code tests it
Overflows(res, d, base) ==
    IF Shifts(base) THEN Word(res * base) < res
    ELSE ULongMax \div base < res \/ ULongMax - Word(res * base) < d

RECURSIVE Digits(_, _, _, _)
Digits(res, ds, i, base) ==
    IF i > Len(ds) THEN [val |-> res, over |-> FALSE]
    ELSE IF i > Unchecked(base) /\ Overflows(res, ds[i], base)
         THEN [val |-> ULongMax, over |-> TRUE]
    ELSE Digits(Word(res * base + ds[i]), ds, i + 1, base)

StrToUL(s) == LET r == Digits(0, s.buf, 1, s.base)
              IN  IF r.over THEN r ELSE [r EXCEPT !.val = IF s.neg THEN Word(-@) ELSE @]

StrToL(s) ==
    LET r == Digits(0, s.buf, 1, s.base)
        limit == IF s.neg THEN LongMin ELSE LongMax
    IN  IF r.over \/ r.val > (IF s.neg THEN -limit ELSE limit)
        THEN [val |-> limit, over |-> TRUE]
        ELSE [r EXCEPT !.val = IF s.neg THEN -@ ELSE @]
-----------------------------------------------------------------------------
\* 3. stage 3: __rw_get_num

Types == {"short", "ushort", "long", "ulong"}
Unsigned(type) == type \in {"ushort", "ulong"}
Bits(type) == IF type \in {"short", "ushort"} THEN Narrow ELSE Width
Highest(type) == IF Unsigned(type) THEN 2 ^ Bits(type) - 1 ELSE 2 ^ (Bits(type) - 1) - 1
Lowest(type) == IF Unsigned(type) THEN 0 ELSE -(2 ^ (Bits(type) - 1))

\* the length that a group is to have, the k-th from the right
Due(g, k) == g[IF k < Len(g) THEN k ELSE Len(g)]

\* __rw_check_grouping
RECURSIVE GroupsMatch(_, _, _)
GroupsMatch(groups, g, k) ==
    LET len == groups[Len(groups) + 1 - k]
    IN  \/ Due(g, k) = 0
        \/ k = Len(groups) /\ len \in 1 .. Due(g, k)
        \/ k < Len(groups) /\ len = Due(g, k) /\ GroupsMatch(groups, g, k + 1)

BadGroups(groups, g) == Len(groups) > 1 /\ (g = <<>> \/ ~GroupsMatch(groups, g, 1))

\* what is stored, and whether failbit is set; nothing is stored for no digits
GetNum(s, type, g) ==
    LET e == Ended(s)
        r == IF Unsigned(type) THEN StrToUL(e) ELSE StrToL(e)
        clipped == IF r.val > Highest(type) THEN Highest(type)
                   ELSE IF r.val < Lowest(type) THEN Lowest(type) ELSE r.val
    IN  IF s.bad \/ e.bad \/ e.buf = <<>> THEN [stored |-> FALSE, val |-> 0, fail |-> TRUE]
        ELSE [stored |-> TRUE, val |-> clipped,
              fail |-> r.over \/ clipped # r.val \/ BadGroups(e.groups, g)]
-----------------------------------------------------------------------------
\* 4. num_put.cpp

RECURSIVE Dtoa(_, _)
Dtoa(n, base) == IF n < base THEN <<n>> ELSE Append(Dtoa(n \div base, base), n % base)

\* __rw_itoa of a long
Itoa(v, base, showbase) ==
    IF base = 10 THEN (IF v < 0 THEN <<Minus>> ELSE <<>>) \o Dtoa(IF v < 0 THEN -v ELSE v, 10)
    ELSE (CASE v = 0 \/ ~showbase -> <<>> [] base = 8 -> <<0>> [] OTHER -> <<0, X>>)
         \o Dtoa(Word(v), base)

Prefix(s) == CASE s[1] = Minus -> 1
               [] s[1] = 0 /\ Len(s) > 1 /\ s[2] = X -> 2
               [] s[1] = 0 -> 1
               [] OTHER -> 0

\* the complete groups of n digits
RECURSIVE Separators(_, _, _, _)
Separators(g, n, k, len) ==
    IF Due(g, k) = 0 \/ len + Due(g, k) >= n THEN k - 1
    ELSE Separators(g, n, k + 1, len + Due(g, k))

\* the digits are moved right, from the last on, and separators put in
RECURSIVE Shift(_, _, _, _, _, _)
Shift(b, pd, ngrps, len, g, k) ==
    IF pd = 1 \/ ngrps = 0 THEN b
    ELSE IF Len(b) + 1 - pd = len + 1
         THEN Shift([b EXCEPT ![pd] = Sep], pd - 1, ngrps - 1, len + Due(g, k + 1) + 1, g, k + 1)
    ELSE Shift([b EXCEPT ![pd] = b[pd - ngrps]], pd - 1, ngrps, len, g, k)

PutGroups(s, g) ==
    LET n == Separators(g, Len(s) - Prefix(s), 1, 0)
        b == s \o [i \in 1 .. n |-> 0]
    IN  Shift(b, Len(b), n, Due(g, 1), g, 1)

PutNum(v, base, showbase, g) ==
    LET s == Itoa(v, base, showbase)
    IN  IF Len(s) = 1 \/ g = <<>> \/ g[1] = 0 THEN s ELSE PutGroups(s, g)
-----------------------------------------------------------------------------
NotSent == [v |-> 0, g |-> <<>>, by |-> FALSE]

Init == /\ basefield \in {0, 8, 10, 16}
        /\ text = <<>> /\ st = Start(basefield) /\ sent = NotSent

\* what these characters mean, whatever the code does: the sign, the base,
\* the digits and separators that follow
Signed(t) == t # <<>> /\ t[1] \in {Plus, Minus}
AfterSign(t) == IF Signed(t) THEN Tail(t) ELSE t
Prefixed(t) == Len(t) > 1 /\ t[1] = 0 /\ t[2] = X
RefBase(b, t) == IF b # 0 THEN b ELSE IF Prefixed(t) THEN 16
                 ELSE IF t # <<>> /\ t[1] = 0 THEN 8 ELSE 10
AfterPrefix(b, t) == IF b \in {0, 16} /\ Prefixed(t) THEN SubSeq(t, 3, Len(t)) ELSE t
Value(ds, base) == FoldLeft(LAMBDA a, d : a * base + d, 0, SelectSeq(ds, LAMBDA d : d # Sep))

\* texts that are read otherwise than scanf reads them
Odd(b, t) == LET u == AfterSign(t)
             IN  \/ /\ b = 0 /\ Len(u) > 1
                    /\ \/ u[1] = 0 /\ u[2] \in {0, 8, 9, Sep}
                       \/ Prefixed(u) /\ \E i \in DOMAIN u : u[i] \in {Plus, Minus, Sep}
                 \/ b = 16 /\ Len(u) > 2 /\ SubSeq(u, 1, 3) = <<0, Sep, X>>
TooLong(b, t) == LET u == AfterSign(t)
                     base == RefBase(b, u)
                 IN  /\ Shifts(base)
                     /\ Value(SelectSeq(AfterPrefix(b, u), LAMBDA c : c < base), base) > ULongMax

Get == \E c \in Alphabet[basefield] :
    LET t == Append(text, c)
    IN  /\ st.more /\ Len(text) < MaxText /\ ~sent.by
        /\ AutoOdd \/ ~Odd(basefield, t)
        /\ LongShift \/ ~TooLong(basefield, t)
        /\ text' = t /\ st' = Read(st, c, TRUE)
        /\ UNCHANGED <<basefield, sent>>

\* a long is written and read back
PutAndGet == \E v \in LongMin .. LongMax, g \in Groupings, showbase \in BOOLEAN :
    LET t == PutNum(v, basefield, showbase, g)
    IN  /\ text = <<>> /\ basefield # 0
        /\ basefield = 8 /\ showbase => OctalBase
        /\ sent' = [v |-> v, g |-> g, by |-> TRUE]
        /\ text' = t
        /\ st' = FoldLeft(LAMBDA s, c : Read(s, c, g # <<>>), st, t)
        /\ UNCHANGED basefield

Again == /\ text # <<>> /\ text' = <<>> /\ st' = Start(basefield) /\ sent' = NotSent
         /\ UNCHANGED basefield

Next == Get \/ PutAndGet \/ Again
Spec == Init /\ [][Next]_numVars
-----------------------------------------------------------------------------
\* the longest run of digits and separators, after a digit or the prefix
RefBody(u, base, first) ==
    LET ok == {n \in 0 .. Len(u) : \A i \in 1 .. n : u[i] < base \/ (u[i] = Sep /\ i >= first)}
    IN  SubSeq(u, 1, CHOOSE n \in ok : \A m \in ok : m <= n)
Places(u) == {0, Len(u) + 1} \cup {i \in DOMAIN u : u[i] = Sep}
RefGroups(u) == LET at == SetToSortSeq(Places(u), <)
                IN  [i \in 1 .. Len(at) - 1 |-> at[i + 1] - at[i] - 1]
\* groups are as due from the right, and the leftmost may be shorter
RefMatch(gs, g) ==
    \A i \in DOMAIN gs :
       LET k == Len(gs) + 1 - i
       IN  \/ \E j \in 1 .. k : Due(g, j) = 0
           \/ gs[i] = Due(g, k) \/ (i = 1 /\ gs[i] <= Due(g, k))

ReadsAsDue(type, g) ==
    LET t == AfterSign(text)
        neg == Signed(text) /\ text[1] = Minus
        base == RefBase(basefield, t)
        body == RefBody(AfterPrefix(basefield, t), base, IF Prefixed(t) THEN 1 ELSE 2)
        gs == RefGroups(body)
        n == Value(body, base)
        v == IF ~neg THEN n ELSE IF Unsigned(type) THEN 2 ^ Width - n ELSE -n
        out == GetNum(st, type, g)
        gap == Len(gs) > 1 /\ \E i \in DOMAIN gs : gs[i] = 0
    IN  /\ out.stored = (~gap /\ (body # <<>> \/ (basefield = 16 /\ Prefixed(t))))
        /\ out.stored =>
              /\ out.fail = (\/ n > ULongMax \/ (n # 0 /\ v \notin Lowest(type) .. Highest(type))
                             \/ Len(gs) > 1 /\ ~RefMatch(gs, g))
              /\ n = 0 => out.val = 0
              /\ n # 0 => out.val = IF n > ULongMax
                                    THEN (IF neg /\ ~Unsigned(type) THEN Lowest(type) ELSE Highest(type))
                                    ELSE IF v > Highest(type) THEN Highest(type)
                                    ELSE IF v < Lowest(type) THEN Lowest(type) ELSE v

(* A text is read as the value that it stands for, clipped to its type, and  *)
(* failbit tells exactly what is out of range or badly grouped               *)
(* (strtol.cpp:263); and what was written is read back, groups and all.      *)
NumbersRight ==
    IF sent.by
    THEN LET type == IF basefield = 10 THEN "long" ELSE "ulong"
         IN  GetNum(st, type, sent.g) =
                [stored |-> TRUE, fail |-> FALSE,
                 val |-> IF basefield = 10 THEN sent.v ELSE Word(sent.v)]
    ELSE \A type \in Types, g \in Groupings \ {<<>>} : ReadsAsDue(type, g)
=============================================================================
