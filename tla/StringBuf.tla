----------------------------- MODULE StringBuf -----------------------------
(***************************************************************************)
(* basic_stringbuf (include/sstream, sstream.cc; its base in streambuf):    *)
(* one buffer for reading and writing whose get area ends where characters  *)
(* were known to end when it was last looked at, and is caught up with the  *)
(* put pointer by the members that need it.  In out mode alone the end of   *)
(* the get area is the high mark (lwg issue 432).                           *)
(***************************************************************************)
EXTENDS Integers, Sequences, FiniteSetsExt

CONSTANTS Characters, Unset,
          BufModes,    \* sets of "in", "out", "app", "ate"
          MaxChars,    \* bound: characters held
          MinCapacity, \* _RWSTD_MINIMUM_STRINGBUF_CAPACITY
          Strings,     \* what str() and sputn() are passed
          GrowRead,    \* may the buffer grow after characters were read?
          OwnSource,   \* may sputn() be passed characters of the put area?
          StrThrows    \* may str() have no memory?

VARIABLES sb,          \* the stringbuf: the buffer, the pointers as offsets
          model,       \* ghost: the characters and the two positions
          ret, retDue  \* ghost: what the last call returned, and was to

sbVars == <<sb, model, ret, retDue>>

End == -1              \* eof (), pos_type (off_type (-1))
In(b) == "in" \in b.mode
Out(b) == "out" \in b.mode
ToEnd(b) == b.mode \cap {"app", "ate"} # {}
Greater(m, n) == IF m < n THEN n ELSE m
Content(buf, n) == SubSeq(buf, 1, n)
\* n cells of which the first hold t
Cells(t, n) == [i \in 1 .. n |-> IF i <= Len(t) THEN t[i] ELSE Unset]
Write(buf, at, t) == [i \in DOMAIN buf |-> IF i - at \in DOMAIN t THEN t[i - at] ELSE buf[i]]
-----------------------------------------------------------------------------
\* 1. the pointers: eback () is the buffer's beginning in in mode; when not in
\* in mode the get pointers are all the high mark e

SetG(b, g, e) == [b EXCEPT !.g = IF In(b) THEN g ELSE e, !.e = e]

\* _C_catchup(); all callers pass the beginning
Catchup(b) == IF b.e < b.p THEN SetG(b, b.g, b.p) ELSE b

Grown(b, n) == LET cap == IF b.buf = <<>> THEN MinCapacity ELSE (Len(b.buf) * 1618) \div 1000
               IN  Greater(cap, n)

\* _C_str() of another sequence
Str(b, t) ==
    LET buf == IF Len(b.buf) < Len(t) THEN Cells(t, Grown(b, Len(t)))
               ELSE IF t = <<>> THEN <<>>
               ELSE Write(b.buf, 0, t)
        r == SetG([b EXCEPT !.buf = buf, !.own = @ \/ t = <<>> \/ Len(buf) # Len(b.buf)], 0, Len(t))
    IN  IF Out(b) THEN [r EXCEPT !.p = IF ToEnd(b) THEN Len(t) ELSE 0] ELSE r

\* _C_str() of the buffer itself, to make it larger
Grow(b, n) == LET c == Catchup(b)
              IN  SetG([c EXCEPT !.buf = Cells(Content(@, c.e), Grown(c, n)), !.own = TRUE], 0, c.e)
-----------------------------------------------------------------------------
\* 2. the members: what they leave and return

Was(b, r) == [b |-> b, r |-> r]

Put(b, c) == [b EXCEPT !.buf[b.p + 1] = c, !.p = @ + 1]
Sputc(b, c) ==
    IF ~Out(b) THEN Was(b, End)
    ELSE IF b.p < Len(b.buf) THEN Was(Put(b, c), c)
    ELSE Was(Catchup(Put(Grow(b, Len(b.buf) + 1), c)), c)

\* own is where in the put area the characters are, or End
Sputn(b, t, own) ==
    LET n == Len(t)
        fits == n <= Len(b.buf) - b.p
        q == IF fits THEN b ELSE Grow(b, n + b.p)
        read == IF fits \/ own <= 0 THEN t ELSE [i \in 1 .. n |-> Unset]
    IN  IF ~Out(b) \/ n = 0 THEN Was(b, 0)
        ELSE Was(Catchup([q EXCEPT !.buf = Write(@, q.p, read), !.p = @ + n]), n)

\* a mutant: what was put is not looked for
UnderflowNot(b) == b
\* what underflow() leaves
Underflow(b) == IF b.g < b.e THEN b ELSE IF b.g < b.p THEN Catchup(b) ELSE b

Sgetc(b) == LET q == Underflow(b) IN Was(q, IF q.g < q.e THEN q.buf[q.g + 1] ELSE End)
Sbumpc(b) == LET s == Sgetc(b)
             IN  IF s.r = End THEN s ELSE Was([s.b EXCEPT !.g = @ + 1], s.r)

Sungetc(b) == IF In(b) /\ b.g > 0 THEN Was([b EXCEPT !.g = @ - 1], 0) ELSE Was(b, End)

Sputbackc(b, c) ==
    IF ~In(b) \/ b.g = 0 THEN Was(b, End)
    ELSE IF b.buf[b.g] = c THEN Was([b EXCEPT !.g = @ - 1], c)
    ELSE IF Out(b) THEN Was([b EXCEPT !.g = @ - 1, !.buf[b.g] = c], c)
    ELSE Was(b, End)

InAvail(b) == IF b.g < b.e THEN Was(b, b.e - b.g)
              ELSE LET q == Catchup(b) IN Was(q, q.e - q.g)

\* null: setbuf() is to allocate the buffer
Setbuf(b, n, null) ==
    LET len == Greater(b.e, b.p)
    IN  IF (n = 0 /\ null) \/ n < len \/ ~Out(b) THEN b
        ELSE SetG([b EXCEPT !.buf = Cells(Content(@, len), n), !.own = null], b.g, len)

SeekFrom(b, way, at) == CASE way = "beg" -> 0 [] way = "cur" -> at [] OTHER -> b.e

Seekoff(b, off, way, which) ==
    LET c == Catchup(b)
        both == {"in", "out"} \subseteq which
        g == SeekFrom(c, way, c.g) + off
        i == IF "in" \in which THEN SetG(c, g, c.e) ELSE c
        p == SeekFrom(i, way, i.p) + off
    IN  IF \/ which = {}
           \/ "in" \in which /\ (~In(b) \/ g \notin 0 .. c.e)
           \/ both /\ (way = "cur" \/ ~Out(b))
        THEN Was(c, End)
        ELSE IF "out" \notin which THEN Was(i, g)
        ELSE IF ~Out(b) \/ p \notin 0 .. i.e THEN Was(i, End)
        ELSE IF "app" \in b.mode THEN Was(i, i.p)
        ELSE Was([i EXCEPT !.p = p], p)

\* str()
Contents(b) == IF Out(b) THEN Content(b.buf, Greater(b.e, b.p)) ELSE Content(b.buf, b.e)
-----------------------------------------------------------------------------
\* what the calls are to do: characters t, positions r and w

Fresh(mode) == [mode |-> mode, buf |-> <<>>, g |-> 0, e |-> 0, p |-> 0, own |-> TRUE, freed |-> FALSE]

Init == \E mode \in BufModes, t \in Strings \cup {<<>>} :
           /\ sb = Str(Fresh(mode), t)
           /\ model = [t |-> t, r |-> 0,
                       w |-> IF "out" \in mode /\ mode \cap {"app", "ate"} # {} THEN Len(t) ELSE 0]
           /\ ret = 0 /\ retDue = 0

PutAt(m, t) == LET n == Greater(Len(m.t), m.w + Len(t))
               IN  [m EXCEPT !.t = Write(Cells(@, n), m.w, t), !.w = @ + Len(t)]

Does(was, m, due) == sb' = was.b /\ ret' = was.r /\ model' = m /\ retDue' = due

\* a buffer that would grow
Grows(n) == sb.p + n > Len(sb.buf)
MayGrow(n) == Grows(n) => GrowRead \/ ~In(sb) \/ sb.g = 0

\* the old buffer is given back before there is a new one
StrFails(b, t) == [b EXCEPT !.freed = b.own /\ b.buf # <<>> /\ Len(t) > Len(b.buf)]
CallStr == \E t \in Strings \cup {<<>>}, fails \in BOOLEAN :
    /\ fails => StrThrows
    /\ IF fails THEN Does(Was(StrFails(sb, t), 0), model, 0)
       ELSE Does(Was(Str(sb, t), 0),
                 [t |-> t, r |-> 0,
                  w |-> IF ~Out(sb) THEN model.w ELSE IF ToEnd(sb) THEN Len(t) ELSE 0], 0)

CallSputc == \E c \in Characters :
    /\ model.w < MaxChars /\ MayGrow(1)
    /\ Does(Sputc(sb, c), IF Out(sb) THEN PutAt(model, <<c>>) ELSE model, IF Out(sb) THEN c ELSE End)
CallSputn == \E t \in Strings :
    /\ model.w + Len(t) <= MaxChars /\ MayGrow(Len(t))
    /\ Does(Sputn(sb, t, End), IF Out(sb) THEN PutAt(model, t) ELSE model,
            IF Out(sb) THEN Len(t) ELSE 0)
CallSputnOwn == \E i \in 0 .. MaxChars, n \in 1 .. MaxChars :
    LET t == SubSeq(sb.buf, i + 1, i + n)
    IN  /\ Out(sb) /\ i + n <= sb.p /\ (OwnSource \/ i = 0)
        /\ model.w + n <= MaxChars /\ MayGrow(n)
        /\ Does(Sputn(sb, t, i), PutAt(model, SubSeq(model.t, i + 1, i + n)), n)
\* growing throws: the get area has been caught up and nothing else done
CallThrows == /\ Out(sb) /\ Grows(1) /\ Does(Was(Catchup(sb), 0), model, 0)

Next1(m) == IF In(sb) /\ m.r < Len(m.t) THEN m.t[m.r + 1] ELSE End
CallSgetc == Does(Sgetc(sb), model, Next1(model))
CallSbumpc == Does(Sbumpc(sb), [model EXCEPT !.r = IF Next1(model) = End THEN @ ELSE @ + 1], Next1(model))
CallSungetc == LET ok == In(sb) /\ model.r > 0
               IN  Does(Sungetc(sb), IF ok THEN [model EXCEPT !.r = @ - 1] ELSE model,
                        IF ok THEN 0 ELSE End)
CallSputbackc == \E c \in Characters :
    LET ok == In(sb) /\ model.r > 0 /\ (Out(sb) \/ model.t[model.r] = c)
    IN  Does(Sputbackc(sb, c), IF ok THEN [model EXCEPT !.r = @ - 1, !.t[model.r] = c] ELSE model,
             IF ok THEN c ELSE End)
\* an estimate: what was written last may not count
CallInAvail == LET n == IF In(sb) THEN Len(model.t) - model.r ELSE 0
                   r == InAvail(sb).r
               IN  Does(InAvail(sb), model, IF r \in 1 .. n THEN r ELSE n)
CallSetbuf == \E n \in 0 .. MaxChars + 1, null \in BOOLEAN : Does(Was(Setbuf(sb, n, null), 0), model, 0)

CallSeekoff == \E off \in {-1, 0, 1, 2}, way \in {"beg", "cur", "end"}, which \in SUBSET {"in", "out"} :
    LET both == which = {"in", "out"}
        from(at) == CASE way = "beg" -> 0 [] way = "cur" -> at [] OTHER -> Len(model.t)
        to == from(IF "in" \in which THEN model.r ELSE model.w) + off
        ok == /\ which # {} /\ which \subseteq sb.mode /\ (both => way # "cur")
              /\ to \in 0 .. Len(model.t)
        stays == "out" \in which /\ "app" \in sb.mode
    IN  Does(Seekoff(sb, off, way, which),
             IF ~ok THEN model
             ELSE [model EXCEPT !.r = IF "in" \in which THEN to ELSE @,
                                !.w = IF "out" \in which /\ ~stays THEN to ELSE @],
             IF ~ok THEN End ELSE IF stays THEN model.w ELSE to)

Next == \/ CallStr \/ CallSputc \/ CallSputn \/ CallSputnOwn \/ CallThrows
        \/ CallSgetc \/ CallSbumpc \/ CallSungetc \/ CallSputbackc \/ CallInAvail
        \/ CallSetbuf \/ CallSeekoff
Spec == Init /\ [][Next]_sbVars
-----------------------------------------------------------------------------
(* Whatever was read, written, sought or put back, and however often the     *)
(* buffer was replaced, str() is what the calls so far make it, both         *)
(* pointers are where they are to be, within a buffer that is there, and the *)
(* last call returned what it was to (sstream.cc:59, sstream:201).           *)
StringBufRight ==
    /\ ~sb.freed
    /\ sb.g <= sb.e /\ sb.e <= Len(sb.buf) /\ sb.p <= Len(sb.buf)
    /\ Contents(sb) = model.t
    /\ In(sb) => sb.g = model.r
    /\ Out(sb) => sb.p = model.w
    /\ ret = retDue
=============================================================================
