------------------------------ MODULE Istream ------------------------------
(***************************************************************************)
(* What basic_istream reads from its buffer (include/istream, istream.cc,   *)
(* rw/_stringio.cc): characters come to the get area in chunks of any       *)
(* lengths, so that an extractor that looks for a delimiter, or counts      *)
(* what its caller has room for, may find the get area's end anywhere.  The *)
(* buffer may throw instead of giving the next chunk.                       *)
(***************************************************************************)
EXTENDS Integers, Sequences, FiniteSetsExt

CONSTANTS MaxInput,     \* bound: characters yet to be read
          MaxThrowing,  \* bound: the same, of a buffer that throws
          MaxString,    \* string::max_size()
          ReadThrows,   \* may the buffer throw into read()?
          StringArea    \* may >> find the end of a string in the get area?

Nul == 0                \* the others are letters, 10 and more, all different
Newline == 2            \* the delimiter
Space == 3
Eof == -1
Throw == -2             \* instead of a character: sgetc() throws
IsSpace(c) == c \in {Newline, Space}

VARIABLES s,            \* the stream: [area, chunks, bits, gcount, width, out]
          was,          \* ghost: the stream before the call
          call          \* ghost: which call

inVars == <<s, was, call>>
-----------------------------------------------------------------------------
\* 1. the buffer; an empty chunk is one that underflow() throws for

Drop(t, n) == SubSeq(t, n + 1, Len(t))

Sgetc(r) ==
    IF r.area # <<>> THEN Head(r.area)
    ELSE IF r.chunks = <<>> THEN Eof
    ELSE IF Head(r.chunks) = <<>> THEN Throw
    ELSE Head(Head(r.chunks))

\* what sgetc() leaves when it returns a character
Filled(r) == IF r.area # <<>> THEN r
             ELSE [r EXCEPT !.area = Head(r.chunks), !.chunks = Tail(r.chunks)]
\* sbumpc() after it, and gbump()
Bump(r, n) == [Filled(r) EXCEPT !.area = Drop(@, n)]
\* counted, and all but the delimiter stored
Extract(r, n, stored) ==
    [Bump(r, n) EXCEPT !.gcount = @ + n, !.out = @ \o SubSeq(Filled(r).area, 1, stored)]
SetState(r, bits) == [r EXCEPT !.bits = @ \cup bits]
\* sgetc() has returned eof or thrown
Ended(r) == SetState(r, IF Sgetc(r) = Eof THEN {"eof"} ELSE {"bad"})
AtEnd(r) == Sgetc(r) \in {Eof, Throw}
NoneFails(r) == IF r.gcount = 0 THEN SetState(r, {"fail"}) ELSE r
Lesser(m, n) == IF m < n THEN m ELSE n
\* the first of n characters for which P holds, or 0
First(t, n, P(_)) == IF \E i \in 1 .. n : P(t[i])
                     THEN CHOOSE i \in 1 .. n : P(t[i]) /\ \A j \in 1 .. i - 1 : ~P(t[j])
                     ELSE 0
-----------------------------------------------------------------------------
\* 2. the sentry

RECURSIVE SkipSpace(_, _)
SkipSpace(r, errbits) ==
    LET n == First(r.area, Len(r.area), LAMBDA c : ~IsSpace(c))
    IN  IF n > 0 THEN Bump(r, n - 1)
        ELSE IF r.area # <<>> THEN SkipSpace(Bump(r, Len(r.area)), errbits)
        ELSE IF Sgetc(r) = Throw THEN SetState(r, {"bad"})
        ELSE IF Sgetc(r) = Eof THEN SetState(r, errbits)
        ELSE IF IsSpace(Sgetc(r)) THEN SkipSpace(Bump(r, 1), errbits)
        ELSE Filled(r)

Ipfx(r, noskipws) ==
    IF r.bits # {} THEN SetState(r, {"fail"})
    ELSE IF noskipws THEN r ELSE SkipSpace(r, {"eof", "fail"})
\* a member that has gone through the sentry: body or nothing
Entered(r, body(_)) == IF r.bits = {} THEN body([r EXCEPT !.gcount = 0]) ELSE r
-----------------------------------------------------------------------------
\* 3. unformatted input

\* a mutant: the line is too long although the get area was read to its end
LineFullAtEnd(room, left) == room < 2
\* characters are left that there is no room for
LineFull(room, left) == room < 2 /\ left > 0

\* the loop of both getline()s
RECURSIVE LineFrom(_, _)
LineFrom(r, size) ==
    LET avail == Lesser(Len(r.area), size)
        del == First(r.area, avail, LAMBDA c : c = Newline)
        n == IF del > 0 THEN del ELSE IF size = avail THEN avail - 1 ELSE avail
    IN  IF avail > 0 /\ del > 0 THEN Extract(r, n, n - 1)
        ELSE IF avail > 0
             THEN IF LineFull(size - n, Len(r.area) - n)
                  THEN SetState(Extract(r, n, n), {"fail"})
                  ELSE LineFrom(Extract(r, n, n), size - n)
        ELSE IF AtEnd(r) THEN Ended(r)
        ELSE IF Sgetc(r) = Newline THEN Extract(r, 1, 0)
        ELSE IF size < 2 THEN SetState(Filled(r), {"fail"})
        ELSE LineFrom(Extract(r, 1, 1), size - 1)

Getline(r, size) == NoneFails(Entered(Ipfx(r, TRUE), LAMBDA q : LineFrom(q, size)))

\* getline() into a string does not touch gcount()
GetlineString(r) ==
    LET q == NoneFails(Entered(Ipfx(r, TRUE), LAMBDA x : LineFrom(x, MaxString + 1)))
    IN  [q EXCEPT !.gcount = r.gcount]

RECURSIVE GetFrom(_, _)
GetFrom(r, n) ==
    LET avail == Lesser(Len(r.area), n - 1)
        del == First(r.area, avail, LAMBDA c : c = Newline)
        k == IF del > 0 THEN del - 1 ELSE avail
    IN  IF n <= 1 THEN NoneFails(r)
        ELSE IF del = 1 THEN NoneFails(r)
        ELSE IF avail > 0 THEN GetFrom(Extract(r, k, k), n - k)
        ELSE IF Sgetc(r) = Throw THEN SetState(r, {"bad"})
        ELSE IF Sgetc(r) = Eof THEN NoneFails(SetState(r, {"eof"}))
        ELSE IF Sgetc(r) = Newline THEN NoneFails(Filled(r))
        ELSE GetFrom(Extract(r, 1, 1), n - 1)

Get(r, n) == Entered(Ipfx(r, TRUE), LAMBDA q : GetFrom(q, n))

\* _C_get(): room is how many characters the other buffer takes before it
\* refuses or throws
RECURSIVE CopyFrom(_, _)
CopyFrom(r, room) ==
    IF Sgetc(r) = Throw THEN SetState(r, {"bad"})
    ELSE IF Sgetc(r) = Eof THEN SetState(r, {"eof"})
    ELSE IF Sgetc(r) = Newline THEN Filled(r)
    ELSE IF room = 0 THEN SetState(Filled(r), {"fail"})
    ELSE CopyFrom(Extract(r, 1, 1), room - 1)
GetBuf(r, room) == NoneFails(Entered(Ipfx(r, TRUE), LAMBDA q : CopyFrom(q, room)))

\* xsgetn() of the buffer, then read()
RECURSIVE Sgetn(_, _)
Sgetn(r, n) ==
    IF n = 0 \/ AtEnd(r) THEN r
    ELSE LET k == Lesser(Len(Filled(r).area), n) IN Sgetn(Extract(r, k, k), n - k)

ReadBlock(r, n) ==
    Entered(Ipfx(r, TRUE), LAMBDA q :
        LET t == Sgetn(q, n)
        IN  IF t.gcount = n THEN t
            ELSE IF Sgetc(t) = Eof THEN SetState(t, {"eof", "fail"})
            ELSE [SetState(t, {"bad", "eof", "fail"}) EXCEPT !.gcount = 0])

\* showmanyc() is what in_avail() returns of an empty get area
Readsome(r, n, showmanyc) ==
    LET avail == IF r.area # <<>> THEN Len(r.area) ELSE showmanyc
    IN  Entered(Ipfx(r, TRUE), LAMBDA q :
            IF avail = 0 THEN q
            ELSE IF avail < 0 THEN SetState(q, {"eof"})
            ELSE Sgetn(q, Lesser(n, avail)))

\* peek() and ws
Peek(r) == LET q == Ipfx(r, TRUE)
           IN  IF q.bits # {} THEN SetState(q, {"eof"})
               ELSE IF Sgetc(q) = Throw THEN SetState(q, {"bad", "eof"})
               ELSE IF Sgetc(q) = Eof THEN SetState(q, {"eof"})
               ELSE Filled(q)
Ws(r) == LET q == Ipfx(r, TRUE) IN IF q.bits # {} THEN q ELSE SkipSpace(q, {"eof"})

\* _C_unsafe_get(): the character is extracted unless it ends the input
UnsafeGet(r, delim, flags) ==
    LET c == Sgetc(r)
    IN  IF c = Throw THEN SetState(r, {"bad"})
        ELSE IF c = Eof
             THEN SetState(r, IF "faileof" \in flags THEN {"eof", "fail"} ELSE {"eof"})
        ELSE IF /\ "eatdelim" \in flags \/ c # delim
                /\ "eatnull" \in flags \/ c # Nul
                /\ "wsterm" \notin flags \/ ~IsSpace(c)
             THEN [Bump(r, 1) EXCEPT !.gcount = @ + 1]
        ELSE Filled(r)

GetChar(r) == Entered(Ipfx(r, TRUE), LAMBDA q :
    LET t == UnsafeGet(q, Eof, {"faileof", "eatnull"})
    IN  IF AtEnd(q) THEN t ELSE [t EXCEPT !.out = <<Sgetc(q)>>])
-----------------------------------------------------------------------------
\* 4. _C_read(), of ignore() and the extractors of characters

RECURSIVE ReadFrom(_, _, _, _)
ReadFrom(r, n, delim, flags) ==
    LET c == Sgetc(r)
        t == UnsafeGet(r, delim, flags)
        stored == IF "store" \in flags THEN [t EXCEPT !.out = Append(@, c)] ELSE t
    IN  IF n = 0 \/ (n = 1 /\ "nullterm" \in flags) THEN r
        ELSE IF \/ AtEnd(r) \/ c = delim
                \/ c = Nul /\ "eatnull" \notin flags
                \/ IsSpace(c) /\ "wsterm" \in flags
             THEN t
        ELSE ReadFrom(stored, n - 1, delim, flags)

ReadChars(r, n, delim, flags) ==
    LET q == Entered(Ipfx(r, "skipws" \notin flags), LAMBDA x : ReadFrom(x, n, delim, flags))
    IN  IF "failnoi" \in flags THEN NoneFails(q) ELSE q

Ignore(r, n, delim) == ReadChars(r, n, delim, {"eatdelim", "eatnull"})
ExtractChar(r) == ReadChars(r, 1, Eof, {"skipws", "failnoi", "eatnull", "store"})
ExtractArray(r) ==
    LET max == IF r.width # 0 THEN r.width ELSE MaxInput + 2
    IN  [ReadChars(r, max, Newline, {"nullterm", "wsterm", "skipws", "failnoi", "store"})
           EXCEPT !.width = 0]
-----------------------------------------------------------------------------
\* 5. the extractor of strings

RECURSIVE StringFrom(_, _)
StringFrom(r, n) ==
    LET avail == Lesser(Len(r.area), n)
        del == First(r.area, Len(r.area), IsSpace)
        k == IF del > 0 THEN del ELSE IF n = avail THEN avail - 1 ELSE avail
    IN  IF n = 0 THEN r
        ELSE IF avail > 0 /\ del > 0 THEN Extract(r, k, k - 1)
        ELSE IF avail > 0
             THEN IF n - k < 2 /\ Len(r.area) # k
                  THEN SetState(Extract(r, k, k), {"fail"})
                  ELSE StringFrom(Extract(r, k, k), n - k)
        ELSE IF AtEnd(r) THEN Ended(r)
        ELSE IF IsSpace(Sgetc(r)) THEN Filled(r)
        ELSE StringFrom(Extract(r, 1, 1), n - 1)

ExtractString(r) ==
    LET q == Ipfx(r, FALSE)
        t == StringFrom([q EXCEPT !.gcount = 0], IF r.width # 0 THEN r.width ELSE MaxString)
        done == IF "bad" \in t.bits THEN t ELSE [t EXCEPT !.width = 0]
    IN  IF q.bits # {} THEN SetState(q, {"fail"})
        ELSE [NoneFails(done) EXCEPT !.gcount = r.gcount]
-----------------------------------------------------------------------------
\* texts, cut into chunks in every way, the first of which may be in the area

Texts == UNION {{[i \in 1 .. n |-> IF t[i] = 1 THEN 10 + i ELSE t[i]] :
                    t \in [1 .. n -> {Nul, 1, Newline, Space}]} : n \in 0 .. MaxInput}
RECURSIVE Cuts(_)
Cuts(t) == IF t = <<>> THEN {<<>>}
           ELSE UNION {{<<SubSeq(t, 1, n)>> \o c : c \in Cuts(Drop(t, n))} : n \in 1 .. Len(t)}
Throwing(t, c) == IF Len(t) > MaxThrowing THEN {c}
                  ELSE {c} \cup {SubSeq(c, 1, n) \o << <<>> >> : n \in 0 .. Len(c)}

Stream(area, chunks, bits, width) ==
    [area |-> area, chunks |-> chunks, bits |-> bits, gcount |-> 1, width |-> width, out |-> <<>>]

NoCall == <<"none">>

Init == \E t \in Texts : \E c \in Cuts(t) : \E d \in Throwing(t, c) :
    \E first \in BOOLEAN, bits \in {{}, {"eof"}} :
        /\ first => d # <<>> /\ d[1] # <<>>
        /\ bits # {} => Len(t) < 2
        /\ s = IF first THEN Stream(d[1], Tail(d), bits, 0) ELSE Stream(<<>>, d, bits, 0)
        /\ was = s /\ call = NoCall

Returns(name, r) == call = NoCall /\ call' = name /\ s' = r /\ was' = s

Rooms == 0 .. MaxInput + 1
CallGetline == \E n \in Rooms : Returns(<<"line", n>>, Getline(s, n))
CallGetlineString == Returns(<<"strline", MaxString + 1>>, GetlineString(s))
\* get() writes a terminator even if there is no room for one
CallGet == \E n \in Rooms \ {0} : Returns(<<"get", n>>, Get(s, n))
CallGetBuf == \E n \in Rooms : Returns(<<"buf", n>>, GetBuf(s, n))
CallRead == \E n \in Rooms :
               /\ ReadThrows \/ Sgetc(Sgetn(s, n)) # Throw
               /\ Returns(<<"read", n>>, ReadBlock(s, n))
CallReadsome == \E n \in Rooms, m \in {-1, 0} : Returns(<<"some", n, m>>, Readsome(s, n, m))
CallPeek == Returns(<<"peek">>, Peek(s))
CallWs == Returns(<<"ws">>, Ws(s))
CallGetChar == Returns(<<"char">>, GetChar(s))
CallIgnore == \E n \in Rooms, d \in {Eof, Newline} : Returns(<<"ignore", n, d>>, Ignore(s, n, d))
CallExtractChar == Returns(<<">>char">>, ExtractChar(s))
CallExtractArray == \E w \in Rooms :
                       Returns(<<">>array", w>>, ExtractArray([s EXCEPT !.width = w]))

\* nothing arrives before it is asked for, one character at a time
Unbuffered == s.area = <<>> /\ \A i \in DOMAIN s.chunks : Len(s.chunks[i]) < 2
CallExtractString == \E w \in Rooms :
    /\ StringArea \/ (Unbuffered /\ w # 1)
    /\ Returns(<<">>string", w>>, ExtractString([s EXCEPT !.width = w]))

\* the same buffer once more
Again == call # NoCall /\ call' = NoCall /\ s' = was /\ was' = was

Next == \/ CallGetline \/ CallGetlineString \/ CallGet \/ CallGetBuf \/ CallRead \/ CallReadsome
        \/ CallPeek \/ CallWs \/ CallGetChar \/ CallIgnore
        \/ CallExtractChar \/ CallExtractArray \/ CallExtractString \/ Again
Spec == Init /\ [][Next]_inVars
-----------------------------------------------------------------------------
\* the characters to come and what comes after them, however they are cut
RECURSIVE Ahead(_, _)
Ahead(t, chunks) == IF chunks = <<>> THEN Append(t, Eof)
                    ELSE IF Head(chunks) = <<>> THEN Append(t, Throw)
                    ELSE Ahead(t \o Head(chunks), Tail(chunks))

\* how many come before the first of these
Before(t, stops) == Min({i \in DOMAIN t : t[i] \in stops \cup {Eof, Throw}}) - 1
EndBits(c) == CASE c = Eof -> {"eof"} [] c = Throw -> {"bad"} [] OTHER -> {}
FailIf(b) == IF b THEN {"fail"} ELSE {}

\* gone: the characters extracted; kept: those of them that are stored
Due(gone, kept, bits) == [gone |-> gone, kept |-> kept, bits |-> bits]

\* at most n are taken, up to one of stops, which is not
UpTo(t, skip, n, stops) ==
    LET u == Drop(t, skip)
        p == Before(u, stops)
        k == Lesser(p, n)
    IN  Due(skip + k, SubSeq(u, 1, k), (IF p < n THEN EndBits(u[p + 1]) ELSE {}) \cup FailIf(k = 0))

Without(d, bits) == [d EXCEPT !.bits = @ \ bits]
NotKept(d) == [d EXCEPT !.kept = <<>>]

DueOf(t, area, c) ==
    LET p == Before(t, {Newline})
        j == Before(t, {Nul} \cup {x \in {t[i] : i \in DOMAIN t} : x >= 10})  \* skipped
        limit == IF Len(c) > 1 THEN c[2] ELSE 0
        room == IF limit = 0 THEN 0 ELSE limit - 1      \* beside the terminator
    IN  CASE c[1] \in {"line", "strline"} ->
               IF p > room THEN [UpTo(t, 0, room, {}) EXCEPT !.bits = {"fail"}]
               ELSE IF t[p + 1] = Newline THEN Due(p + 1, SubSeq(t, 1, p), {})
               ELSE UpTo(t, 0, p + 1, {})
          [] c[1] = "get" -> UpTo(t, 0, room, {Newline})
          [] c[1] = "buf" -> LET d == UpTo(t, 0, limit, {Newline})
                             IN  IF p > limit THEN [d EXCEPT !.bits = {"fail"}]
                                 ELSE [d EXCEPT !.bits = EndBits(t[p + 1]) \cup FailIf(p = 0)]
          [] c[1] = "read" -> LET d == UpTo(t, 0, limit, {})
                              IN  [d EXCEPT !.bits = IF d.gone < limit THEN @ \cup {"fail"} ELSE {}]
          [] c[1] = "some" -> [UpTo(t, 0, Lesser(limit, Len(area)), {})
                                 EXCEPT !.bits = IF area = <<>> /\ c[3] < 0 THEN {"eof"} ELSE {}]
          [] c[1] = "peek" -> Due(0, <<>>, EndBits(t[1]))
          [] c[1] = "ws" -> Due(j, <<>>, EndBits(t[j + 1]))
          [] c[1] = "char" -> UpTo(t, 0, 1, {})
          [] c[1] = "ignore" ->
               IF c[3] = Newline /\ p < limit /\ t[p + 1] = Newline THEN Due(p + 1, <<>>, {})
               ELSE NotKept(Without(UpTo(t, 0, limit, {}), {"fail"}))
          [] c[1] = ">>char" -> UpTo(t, j, 1, {})
          [] c[1] = ">>array" -> LET most == IF limit = 0 THEN MaxInput + 1 ELSE room
                                 IN  UpTo(t, j, IF j + 1 = Len(t) THEN 1 ELSE most,
                                          {Nul, Newline, Space})
          [] c[1] = ">>string" -> UpTo(t, j, IF limit = 0 THEN MaxString ELSE limit, {Newline, Space})

(* However the buffer cuts the characters into chunks, a call extracts and  *)
(* stores those that it is to, leaves the rest, counts what it extracted,   *)
(* and sets the bits that say why it stopped (istream.cc:644,               *)
(* _stringio.cc:33).                                                        *)
InputRight ==
    LET before == Ahead(was.area, was.chunks)
        d == DueOf(before, was.area, call)
    IN  call # NoCall =>
        IF was.bits # {}
        THEN /\ Ahead(s.area, s.chunks) = before /\ s.out = <<>> /\ s.gcount = was.gcount
             /\ s.bits = was.bits \cup {"fail"}
        ELSE /\ Ahead(s.area, s.chunks) = Drop(before, d.gone)
             /\ s.out = d.kept
             /\ "bad" \in s.bits <=> "bad" \in d.bits
             /\ "bad" \notin d.bits => s.bits = d.bits
             /\ d.kept # <<>> /\ "bad" \notin d.bits => s.width = 0
             /\ call[1] \in {"line", "get", "buf", "read", "some", "char", "ignore"} =>
                   s.gcount = d.gone
             /\ call[1] \in {"strline", ">>string", "peek", "ws"} => s.gcount = was.gcount
=============================================================================
