------------------------------- MODULE FileBuf -------------------------------
(***************************************************************************)
(* basic_filebuf over a file descriptor (include/fstream.cc, src/file.cpp) *)
(* with a codecvt that converts nothing: the get and put areas of one      *)
(* buffer, the positions it remembers of the file, and the members that    *)
(* move between them.  The program keeps the rule of C's streams: between  *)
(* output and input it calls a member that positions the file.             *)
(***************************************************************************)
EXTENDS Integers, Sequences, FiniteSets, FiniteSetsExt

CONSTANTS Bytes, Junk, MaxFile,
          Modes,             \* openmodes, of "in", "out", "inout", "app", "inapp"
          Sizes,             \* what setbuf() is called with
          PBack,             \* _RWSTD_PBACK_SIZE
          Texts,             \* what sputn() is called with
          UngetAfterSeek,    \* sungetc() is called right after a seek
          UngetAcross,       \* and back over the beginning of the last fill
          ShrinkRead,        \* setbuf() shrinks the buffer of a stream that read
          SputnUnread        \* sputn() is called unbuffered, after reading

ASSUME FileBufAssumption ==
    /\ Junk \notin Bytes /\ MaxFile \in Nat /\ PBack \in Nat /\ Sizes \subseteq Nat
    /\ Modes \subseteq {"in", "out", "inout", "app", "inapp"}
    /\ {UngetAfterSeek, UngetAcross, ShrinkRead, SputnUnread} \subseteq BOOLEAN

VARIABLES
    fb,        \* the filebuf and its file
    want,      \* what the file is to hold once everything is written
    pos,       \* the position of the stream
    dir,       \* "in" or "out" since the file was positioned, or "none"
    got, due   \* what the last call returned, and what it was to return

vars == <<fb, want, pos, dir, got, due>>

None == -1      \* a null pointer; pos_type (off_type (-1)); eof ()
Default == 3    \* _RWSTD_DEFAULT_BUFSIZE
Least(a, b) == IF a < b THEN a ELSE b

In(m) == m \in {"in", "inout", "inapp"}
Out(m) == m # "in"
App(m) == m \in {"app", "inapp"}

Init ==
    /\ fb = [mode |-> "closed", file |-> <<>>, off |-> 0, cur |-> None, beg |-> None,
             buf |-> [i \in 0 .. Default + MaxFile |-> Junk], size |-> Default,
             unbuf |-> FALSE, g |-> None, n |-> None, p |-> None, pb |-> 0]
    /\ want = <<>> /\ pos = 0 /\ dir = "none" /\ got = 0 /\ due = 0
-----------------------------------------------------------------------------
(* The file: write(), read() and lseek().                                  *)

Written(file, at, s) == SubSeq(file, 1, at) \o s \o SubSeq(file, at + Len(s) + 1, Len(file))
Place(f) == IF App(f.mode) THEN Len(f.file) ELSE f.off
Wr(f, s) == [f EXCEPT !.file = Written(@, Place(f), s), !.off = Place(f) + Len(s)]
Rd(f, k) == SubSeq(f.file, f.off + 1,
                   IF k < 0 THEN Len(f.file) ELSE Least(f.off + k, Len(f.file)))
-----------------------------------------------------------------------------
(* The virtual members, as functions of the filebuf.  The buffer is also   *)
(* the beginning of both areas: eback () = pbase () = 0.                   *)

NoGet(f) == [f EXCEPT !.g = None, !.n = None]
NoPut(f) == [f EXCEPT !.p = None]
Area(f, from, to) == [i \in 1 .. to - from |-> f.buf[from + i - 1]]
Store(f, at, s) == [f EXCEPT !.buf = [i \in DOMAIN @ |->
                       IF i \in at .. at + Len(s) - 1 THEN s[i - at + 1] ELSE @[i]]]

\* characters s go to the file
Emit(f, s) == [Wr(f, s) EXCEPT !.beg = f.cur, !.cur = f.cur + Len(s),
                               !.p = IF f.unbuf THEN @ ELSE 0]

\* xsputn() of the put area
Flush(f) == IF f.p \in {None, 0} THEN f ELSE Emit(f, Area(f, 0, f.p))

\* xsputn() of characters s: into the put area, or past it
Xsputn(f, s) ==
    LET q == IF f.p = None /\ ~f.unbuf THEN [f EXCEPT !.p = 0] ELSE f
    IN  IF q.p # None /\ Len(s) <= q.size - q.p
        THEN [Store(q, q.p, s) EXCEPT !.p = @ + Len(s)]
        ELSE Emit(Flush(q), s)

\* overflow (eof ()) and overflow (c)
OverflowEof(f) ==
    LET q == NoGet(f)
    IN  IF q.unbuf THEN q ELSE IF q.p = None THEN [q EXCEPT !.p = 0] ELSE Flush(q)
Overflow(f, c) ==
    LET q == NoGet(f)
        r == IF q.p = None THEN [q EXCEPT !.p = 0] ELSE IF q.p = q.size THEN Flush(q) ELSE q
    IN  IF q.unbuf THEN Xsputn(q, <<c>>) ELSE [Store(r, r.p, <<c>>) EXCEPT !.p = @ + 1]

PutbackAvail(f) == IF f.g = None \/ ~In(f.mode) THEN 0 ELSE f.g
PutbackSize(f, k) == IF k = f.size THEN f.size - 1 ELSE k

\* [f, ok]: what underflow() leaves, and whether there is a character
Underflow(f) ==
    LET q == NoPut(f)
        pb == PutbackSize(q, Least(PutbackAvail(q), PBack))
        kept == [i \in 1 .. pb |-> q.buf[q.g - pb + i - 1]]
        data == Rd(q, q.size - pb)
    IN  IF ~In(f.mode) THEN [f |-> q, ok |-> FALSE]
        ELSE IF q.g # q.n THEN [f |-> q, ok |-> TRUE]
        ELSE [f |-> [Store(Store(q, 0, kept), pb, data) EXCEPT
                        !.pb = pb, !.g = pb, !.n = pb + Len(data), !.beg = q.cur,
                        !.cur = @ + Len(data), !.off = @ + Len(data)],
              ok |-> data # <<>>]

\* the part of sync() that gives back what was read ahead
\* a mutant: the file is left at the end of what was read
UnreadNot(f) ==
    LET pb == PutbackSize(f, Least(f.pb, PutbackAvail(f)))
        kept == [i \in 1 .. pb |-> f.buf[f.g - pb + i - 1]]
    IN  [Store(f, 0, kept) EXCEPT !.pb = pb, !.g = pb, !.n = pb, !.cur = f.beg + f.g - pb]
Unread(f) ==
    LET pb == PutbackSize(f, Least(f.pb, PutbackAvail(f)))
        kept == [i \in 1 .. pb |-> f.buf[f.g - pb + i - 1]]
        at == f.beg + f.g - pb
    IN  [Store(f, 0, kept) EXCEPT !.pb = pb, !.g = pb, !.n = pb, !.cur = at, !.off = at]

Sync(f) ==
    LET q == IF f.p # None THEN OverflowEof(f) ELSE f
        r == IF q.g # None THEN Unread(q) ELSE q
    IN  [NoPut(r) EXCEPT !.beg = r.cur]

Moved(f, at) == [f EXCEPT !.off = at, !.cur = at, !.beg = at]

\* [f, at]: what seekoff() leaves, and what it returns
Seekoff(f, k, way) ==
    LET q == Sync(f)
        at == k + IF way = "beg" THEN 0 ELSE IF way = "cur" THEN q.off ELSE Len(q.file)
    IN  IF at < 0 THEN [f |-> q, at |-> None] ELSE [f |-> Moved(q, at), at |-> at]

Seekpos(f, at) == Moved(NoPut(NoGet(IF f.p # None THEN OverflowEof(f) ELSE f)), at)

\* pbackfail (eof ()): nothing left to put back, a character earlier is read
Pbackfail(f) ==
    LET s == Seekoff(f, -1, "cur")
        u == Underflow(s.f)
    IN  IF PutbackAvail(f) > 0 THEN [f |-> [f EXCEPT !.g = @ - 1], ok |-> TRUE]
        ELSE IF s.at = None THEN [f |-> s.f, ok |-> FALSE]
        ELSE u

Setbuf(f, size) ==
    LET q == IF f.g # None \/ f.p # None THEN Sync(f) ELSE f
    IN  IF size = 0 THEN NoGet(NoPut([q EXCEPT !.unbuf = TRUE]))
        ELSE IF size <= q.size THEN [q EXCEPT !.size = size, !.unbuf = FALSE]
        ELSE NoGet(NoPut([q EXCEPT !.size = size, !.unbuf = FALSE,
                                   !.buf = [i \in DOMAIN @ |-> Junk]]))
-----------------------------------------------------------------------------
IsOpen == fb.mode # "closed"

\* open (name, mode)
Open(m) ==
    /\ ~IsOpen
    /\ fb' = [fb EXCEPT !.mode = m, !.file = IF m = "out" THEN <<>> ELSE @,
                        !.off = 0, !.cur = 0, !.beg = 0]
    /\ want' = IF m = "out" THEN <<>> ELSE want
    /\ pos' = 0 /\ dir' = "none" /\ got' = 0 /\ due' = 0

\* a mutant: what is pending is lost
CloseLose ==
    /\ IsOpen
    /\ fb' = [NoGet(NoPut(fb)) EXCEPT !.mode = "closed", !.cur = None, !.beg = None]
    /\ dir' = "none" /\ got' = 0 /\ due' = 0
    /\ UNCHANGED <<want, pos>>
Close ==
    /\ IsOpen
    /\ LET q == IF fb.p \notin {None, 0} THEN OverflowEof(fb) ELSE fb
       IN  fb' = [NoGet(NoPut(q)) EXCEPT !.mode = "closed", !.cur = None, !.beg = None]
    /\ dir' = "none" /\ got' = 0 /\ due' = 0
    /\ UNCHANGED <<want, pos>>

At(i) == IF i < Len(want) THEN want[i + 1] ELSE None

\* sbumpc()
Sbumpc ==
    /\ IsOpen /\ In(fb.mode) /\ dir # "out"
    /\ LET u == IF fb.g # fb.n THEN [f |-> fb, ok |-> TRUE] ELSE Underflow(fb)
       IN  IF u.ok THEN /\ fb' = [u.f EXCEPT !.g = @ + 1]
                        /\ got' = u.f.buf[u.f.g]
           ELSE fb' = u.f /\ got' = None
    /\ due' = At(pos) /\ pos' = IF pos < Len(want) THEN pos + 1 ELSE pos
    /\ dir' = "in"
    /\ UNCHANGED want

\* sungetc()
MayUnget ==
    \/ fb.g = None \/ fb.g > fb.pb
    \/ fb.g = 0 /\ fb.pb = 0
    \/ dir = "none" /\ UngetAfterSeek
    \/ dir = "in" /\ UngetAcross
Sungetc ==
    /\ IsOpen /\ In(fb.mode) /\ dir # "out" /\ MayUnget
    /\ LET u == Pbackfail(fb)
       IN  fb' = u.f /\ got' = IF u.ok THEN u.f.buf[u.f.g] ELSE None
    /\ due' = IF pos = 0 THEN None ELSE At(pos - 1)
    /\ pos' = IF pos = 0 THEN 0 ELSE pos - 1
    /\ dir' = "in"
    /\ UNCHANGED want

\* output follows input at the end of the file, or a seek
MayWrite(s) ==
    /\ IsOpen /\ Out(fb.mode) /\ (dir = "in" => got = None /\ pos = Len(want))
    /\ (IF App(fb.mode) THEN Len(want) ELSE pos) + Len(s) <= MaxFile

Wrote(s) ==
    LET at == IF App(fb.mode) THEN Len(want) ELSE pos
    IN  /\ want' = Written(want, at, s) /\ pos' = at + Len(s)
        /\ dir' = "out" /\ got' = 0 /\ due' = 0

\* sputc()
Sputc(c) ==
    /\ MayWrite(<<c>>)
    /\ fb' = IF fb.p # None /\ fb.p < fb.size
             THEN [Store(fb, fb.p, <<c>>) EXCEPT !.p = @ + 1] ELSE Overflow(fb, c)
    /\ Wrote(<<c>>)

Sputn(s) ==
    /\ MayWrite(s) /\ (fb.unbuf /\ fb.g # None => SputnUnread)
    /\ fb' = Xsputn(fb, s)
    /\ Wrote(s)

Positioned == dir' = "none" /\ UNCHANGED want

Pubsync == /\ IsOpen
           /\ fb' = Sync(fb) /\ got' = 0 /\ due' = 0
           /\ Positioned /\ UNCHANGED pos

\* pubseekoff(): a position within the file, or -1 before it
Pubseekoff(k, way) ==
    LET to == k + IF way = "beg" THEN 0 ELSE IF way = "cur" THEN pos ELSE Len(want)
    IN  /\ IsOpen /\ to <= Len(want)
        /\ LET s == Seekoff(fb, k, way) IN fb' = s.f /\ got' = s.at
        /\ due' = (IF to < 0 THEN None ELSE to) /\ pos' = IF to < 0 THEN pos ELSE to
        /\ Positioned

Pubseekpos(at) == /\ IsOpen /\ at <= Len(want)
                  /\ fb' = Seekpos(fb, at) /\ got' = at /\ due' = at /\ pos' = at
                  /\ Positioned

Pubsetbuf(size) ==
    /\ fb.g # None => size \notin 1 .. fb.pb \/ ShrinkRead
    /\ fb' = Setbuf(fb, size) /\ got' = 0 /\ due' = 0
    /\ Positioned /\ UNCHANGED pos

\* in_avail(): showmanyc() looks where the file ends, and comes back
InAvail ==
    /\ IsOpen /\ In(fb.mode) /\ dir # "out" /\ fb.g = fb.n
    /\ fb' = [fb EXCEPT !.off = fb.cur]
    /\ got' = (IF Len(fb.file) > fb.cur THEN Len(fb.file) - fb.cur ELSE 0)
    /\ due' = Len(want) - pos
    /\ UNCHANGED <<want, pos, dir>>

Next ==
    \/ \E m \in Modes : Open(m)
    \/ Close \/ Sbumpc \/ Sungetc \/ Pubsync \/ InAvail
    \/ \E c \in Bytes : Sputc(c)
    \/ \E s \in Texts : Sputn(s)
    \/ \E k \in {-1, 0, 1}, way \in {"beg", "cur", "end"} : Pubseekoff(k, way)
    \/ \E at \in 0 .. MaxFile : Pubseekpos(at)
    \/ \E size \in Sizes : Pubsetbuf(size)

Spec == Init /\ [][Next]_vars
-----------------------------------------------------------------------------
\* Positions are of the file, pointers of the buffer or null together.
TypeOK ==
    /\ fb.mode \in Modes \cup {"closed"} /\ fb.file \in Seq(Bytes)
    /\ fb.size \in Nat \ {0} /\ fb.unbuf \in BOOLEAN
    /\ {fb.off} \subseteq Nat /\ {fb.cur, fb.beg} \subseteq Nat \cup {None}
    /\ want \in Seq(Bytes) /\ pos \in 0 .. Len(want) /\ dir \in {"none", "in", "out"}

\* Both areas lie in the buffer, in the order _C_is_valid() asserts, and the
\* characters kept for putting back leave room for one (fstream.cc:192-206).
AreasFit ==
    /\ TypeOK
    /\ fb.p = None \/ fb.p \in 0 .. fb.size
    /\ \/ fb.g = None /\ fb.n = None
       \/ 0 <= fb.g /\ fb.g <= fb.n /\ fb.n <= fb.size
    /\ fb.unbuf => fb.p = None

\* The file's own position and the areas together are the stream's position:
\* nothing is read or written anywhere else.
PosRight ==
    /\ AreasFit
    /\ IsOpen => pos = IF fb.p # None THEN Place(fb) + fb.p
                       ELSE IF fb.g # None THEN fb.off - (fb.n - fb.g) ELSE fb.off

\* What was written is in the file or pending, once, in the place it was meant for.
WrittenOnce == want = IF fb.p = None THEN fb.file ELSE Written(fb.file, Place(fb), Area(fb, 0, fb.p))

\* A read, a seek and in_avail() return what the contents of the file and the
\* position say, whatever was buffered before them.
ReturnsRight == got = due

\* What is written arrives, once, in its place, and what is read is what the
\* file holds there, whatever the buffer was used for before.
ContentRight == WrittenOnce /\ ReturnsRight
=============================================================================
