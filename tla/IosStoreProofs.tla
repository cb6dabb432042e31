---------------------------- MODULE IosStoreProofs ----------------------------
(***************************************************************************)
(* Proofs about IosStore, for any streams, callbacks, words, ties and      *)
(* formats, and calls within calls to any depth.                           *)
(***************************************************************************)
EXTENDS IosStore, SequenceTheorems, TLAPS

-----------------------------------------------------------------------------
(* The stack of calls: a call begins, goes on, or ends.                    *)

LEMMA SeqAmong ==
  ASSUME NEW F, NEW G, NEW st \in Seq(F), \A i \in 1 .. Len(st) : st[i] \in G
  PROVE  st \in Seq(G)
<1>1. PICK n \in Nat : n = Len(st) /\ st \in [1 .. n -> F]
  OBVIOUS
<1>2. st \in [1 .. n -> G]
  BY <1>1
<1> QED
  BY ONLY <1>2, n \in Nat, SeqDef

LEMMA Pushed ==
  ASSUME NEW F, NEW st \in Seq(F), NEW f \in F
  PROVE  /\ Append(st, f) \in Seq(F) /\ Len(Append(st, f)) = Len(st) + 1
         /\ \A i \in 1 .. Len(st) : Append(st, f)[i] = st[i]
         /\ Append(st, f)[Len(st) + 1] = f
         /\ Append(st, f) # <<>> /\ Last(Append(st, f)) = f
BY DEF Last

LEMMA Popped ==
  ASSUME NEW F, NEW st \in Seq(F), st # <<>>
  PROVE  /\ Len(st) \in Nat \ {0} /\ Last(st) = st[Len(st)] /\ Last(st) \in F
         /\ Front(st) \in Seq(F) /\ Len(Front(st)) = Len(st) - 1
         /\ \A i \in 1 .. Len(st) - 1 : Front(st)[i] = st[i]
<1>1. Len(st) \in Nat \ {0} /\ \A i \in 1 .. Len(st) : st[i] \in F
  OBVIOUS
<1>2. /\ Front(st) \in Seq(F)
      /\ Len(Front(st)) = IF 1 <= Len(st) - 1 THEN Len(st) - 1 - 1 + 1 ELSE 0
      /\ \A i \in 1 .. Len(st) - 1 - 1 + 1 : Front(st)[i] = st[1 + i - 1]
  BY <1>1, SubSeqProperties DEF Front
<1>3. PICK n : n = Len(st)
  OBVIOUS
<1>4. PICK u : u = Front(st)
  OBVIOUS
<1>5. /\ n \in Nat \ {0} /\ u \in Seq(F) /\ Len(u) = n - 1
      /\ \A i \in 1 .. n - 1 : u[i] = st[i]
  BY ONLY <1>1, <1>2, <1>3, <1>4
<1>6. Last(st) = st[Len(st)] /\ Last(st) \in F
  BY <1>1 DEF Last
<1> QED
  BY <1>3, <1>4, <1>5, <1>6

LEMMA Replaced ==
  ASSUME NEW F, NEW st \in Seq(F), st # <<>>, NEW f \in F, NEW u, u = Front(st) \o <<f>>
  PROVE  /\ u \in Seq(F) /\ Len(u) = Len(st) /\ u # <<>>
         /\ \A i \in 1 .. Len(st) - 1 : u[i] = st[i]
         /\ u[Len(st)] = f /\ Last(u) = f
<1>1. /\ Len(st) \in Nat \ {0} /\ Front(st) \in Seq(F) /\ Len(Front(st)) = Len(st) - 1
      /\ \A i \in 1 .. Len(st) - 1 : Front(st)[i] = st[i]
  BY Popped
<1>2. <<f>> \in Seq(F) /\ Len(<<f>>) = 1 /\ <<f>>[1] = f
  OBVIOUS
<1>3. /\ u \in Seq(F) /\ Len(u) = Len(st)
      /\ \A i \in 1 .. Len(st) : u[i] = IF i <= Len(st) - 1 THEN Front(st)[i]
                                        ELSE <<f>>[i - (Len(st) - 1)]
  BY <1>1, <1>2, ConcatProperties
<1> QED
  BY <1>1, <1>2, <1>3 DEF Last

-----------------------------------------------------------------------------
(* Words: an array that grows is, word by word, what it was.               *)

WithWord(a, i, v) == [Grown(a, i + 1) EXCEPT ![i + 1] = v]

LEMMA Stored ==
  ASSUME NEW a \in Seq(Values), NEW i \in Nat, NEW v \in Values, NEW b, b = WithWord(a, i, v)
  PROVE  /\ b \in Seq(Values) /\ b # <<>>
         /\ Word(b, i) = v /\ \A j \in Nat : j # i => Word(b, j) = Word(a, j)
<1>1. PICK n \in Nat : n = IF i + 1 > Len(a) THEN i + 1 ELSE Len(a)
  OBVIOUS
<1>2. Grown(a, i + 1) = [j \in 1 .. n |-> IF j <= Len(a) THEN a[j] ELSE 0]
  BY <1>1 DEF Grown
<1>3. b = [j \in 1 .. n |-> IF j = i + 1 THEN v ELSE IF j <= Len(a) THEN a[j] ELSE 0]
  BY <1>1, <1>2 DEF WithWord
<1>4. \A j \in 1 .. n : (IF j = i + 1 THEN v ELSE IF j <= Len(a) THEN a[j] ELSE 0) \in Values
  BY DEF Values
<1>5. b \in [1 .. n -> Values]
  BY <1>3, <1>4
<1>6. b \in Seq(Values) /\ Len(b) = n
  BY ONLY <1>5, n \in Nat, SeqDef
<1> QED
  BY <1>1, <1>3, <1>6 DEF Word

-----------------------------------------------------------------------------
\* What a stream shows of its user data, its format and its exceptions.
Shape(u, f, e) ==
    [tie |-> IF u = Null THEN None ELSE u.tie, words |-> Words(u),
     cbs |-> IF u = Null THEN <<>> ELSE u.cbs, fmt |-> f, except |-> e]

LEMMA UsrDataIs ==
    /\ Null \notin UsrData /\ Usr0(TRUE) \in UsrData
    /\ \A p \in Ties : [Usr0(FALSE) EXCEPT !.tie = p] \in UsrData
    /\ Words(Usr0(TRUE)) = Words(Null)
    /\ \A p \in Ties : Words([Usr0(FALSE) EXCEPT !.tie = p]) = Words(Null)
    /\ Default \in Formats
<1>1. Null \notin UsrData /\ Default \in Formats
  BY IosStoreAssumption DEF Default
<1>2. /\ Usr0(TRUE) \in UsrData
      /\ \A p \in Ties : [Usr0(FALSE) EXCEPT !.tie = p] \in UsrData
  <2>1. PICK w : w = [k \in Kinds |-> <<>>]
    OBVIOUS
  <2>2. w \in [Kinds -> Seq(Values)] /\ <<>> \in Seq(Callbacks) /\ None \in Ties
    BY <2>1, EmptySeq, IosStoreAssumption
  <2>4. Usr0(TRUE) \in UsrData /\ Usr0(FALSE) \in UsrData
    <3>1. /\ [tie |-> None, words |-> w, cbs |-> <<>>, fire |-> TRUE] \in UsrData
          /\ [tie |-> None, words |-> w, cbs |-> <<>>, fire |-> FALSE] \in UsrData
      BY <2>2 DEF UsrData
    <3> QED
      BY <2>1, <3>1 DEF Usr0
  <2>5. PICK z \in UsrData : z = Usr0(FALSE)
    BY <2>4
  <2>6. \A p \in Ties : [z EXCEPT !.tie = p] \in UsrData
    BY DEF UsrData
  <2> QED
    BY <2>4, <2>5, <2>6
<1>3. ASSUME NEW u \in UsrData, u.words = [k \in Kinds |-> <<>>]
      PROVE  Words(u) = Words(Null)
  BY <1>1, <1>3 DEF Words, Word, Natural
<1>4. /\ Usr0(TRUE).words = [k \in Kinds |-> <<>>]
      /\ \A p \in Ties : [Usr0(FALSE) EXCEPT !.tie = p].words = [k \in Kinds |-> <<>>]
  BY DEF Usr0
<1> QED
  BY <1>1, <1>2, <1>3, <1>4

\* User data with no words and no callbacks shows what none does.
LEMMA BareShows ==
  ASSUME NEW u \in UsrData, Bare(u)
  PROVE  u.cbs = <<>> /\ Words(u) = Words(Null)
<1>1. u # Null /\ u.cbs = <<>> /\ \A k \in Kinds : u.words[k] = <<>>
  BY UsrDataIs DEF Bare
<1> QED
  BY <1>1 DEF Words, Word, Natural

LEMMA WordStored ==
  ASSUME NEW u \in UsrData, NEW k \in Kinds, NEW i \in Natural, NEW v \in Values, NEW u1,
         u1 = [tie |-> u.tie, words |-> [u.words EXCEPT ![k] = WithWord(@, i, v)],
               cbs |-> u.cbs, fire |-> u.fire]
  PROVE  /\ u1 \in UsrData /\ u1.tie = u.tie /\ u1.cbs = u.cbs /\ u1.fire = u.fire
         /\ Words(u1) = [Words(u) EXCEPT ![k][i] = v]
<1>a. PICK a : a = u.words[k]
  OBVIOUS
<1>b. PICK b : b = WithWord(a, i, v)
  OBVIOUS
<1>1. /\ a \in Seq(Values) /\ i \in Nat
      /\ u.words \in [Kinds -> Seq(Values)] /\ u.tie \in Ties /\ u.cbs \in Seq(Callbacks)
      /\ u.fire \in BOOLEAN
      /\ u = [tie |-> u.tie, words |-> u.words, cbs |-> u.cbs, fire |-> u.fire]
  BY <1>a DEF UsrData, Natural
<1>2. /\ b \in Seq(Values)
      /\ Word(b, i) = v /\ \A j \in Nat : j # i => Word(b, j) = Word(a, j)
  BY <1>1, <1>b, Stored
<1>3. u1 = [tie |-> u.tie, words |-> [u.words EXCEPT ![k] = b], cbs |-> u.cbs,
            fire |-> u.fire]
  BY <1>1, <1>a, <1>b
<1>4. u1 \in UsrData /\ u1.words = [u.words EXCEPT ![k] = b]
  <2>1. PICK w : w = [u.words EXCEPT ![k] = b]
    OBVIOUS
  <2>2. w \in [Kinds -> Seq(Values)]
    BY <1>1, <1>2, <2>1
  <2>3. u1 = [tie |-> u.tie, words |-> w, cbs |-> u.cbs, fire |-> u.fire]
    BY <1>3, <2>1
  <2> QED
    BY <1>1, <2>1, <2>2, <2>3 DEF UsrData
<1>5. u # Null /\ u1 # Null
  BY <1>4, UsrDataIs
<1>6. \A h \in Kinds, j \in Natural :
          Word(u1.words[h], j) = IF h = k /\ j = i THEN v ELSE Word(u.words[h], j)
  BY <1>1, <1>2, <1>4, <1>a DEF Natural
<1>7. /\ Words(u1) = [h \in Kinds |-> [j \in Natural |-> Word(u1.words[h], j)]]
      /\ Words(u) = [h \in Kinds |-> [j \in Natural |-> Word(u.words[h], j)]]
  BY <1>5 DEF Words
<1>8. Words(u1) = [Words(u) EXCEPT ![k][i] = v]
  <2>1. PICK W : W = Words(u)
    OBVIOUS
  <2>2. W = [h \in Kinds |-> [j \in Natural |-> Word(u.words[h], j)]]
    BY <1>7, <2>1
  <2>3. [W EXCEPT ![k][i] = v] = [h \in Kinds |-> [j \in Natural |->
             IF h = k /\ j = i THEN v ELSE Word(u.words[h], j)]]
    BY <2>2
  <2> QED
    BY ONLY <1>6, <1>7, <2>1, <2>3
<1> QED
  BY <1>1, <1>3, <1>4, <1>8

LEMMA UsrIs ==
  ASSUME usr \in [Streams -> UsrData \cup {Null}], NEW s \in Streams
  PROVE  /\ Usr(s) \in UsrData /\ (usr[s] # Null => Usr(s) = usr[s])
         /\ (usr[s] = Null => Usr(s).fire)
         /\ \A f, e : Shape(Usr(s), f, e) = Shape(usr[s], f, e)
<1>1. CASE usr[s] = Null
  <2>1. Usr(s) = Usr0(TRUE) /\ Usr(s) \in UsrData
    BY <1>1, UsrDataIs DEF Usr
  <2>2. Usr(s).tie = None /\ Usr(s).cbs = <<>> /\ Usr(s).fire
    BY <2>1 DEF Usr0
  <2>3. Words(Usr(s)) = Words(Null) /\ Usr(s) # Null
    BY <2>1, UsrDataIs
  <2> QED
    BY <1>1, <2>1, <2>2, <2>3 DEF Shape
<1>2. CASE usr[s] # Null
  <2>1. Usr(s) = usr[s] /\ usr[s] \in UsrData
    BY <1>2 DEF Usr
  <2> QED
    BY <1>2, <2>1
<1> QED
  BY <1>1, <1>2

Wants == [tie : Ties, words : [Kinds -> [Natural -> Values]], cbs : Seq(Callbacks),
          fmt : Formats, except : BOOLEAN]

LEMMA ShapeType ==
  ASSUME NEW u \in UsrData \cup {Null}, NEW f \in Formats, NEW e \in BOOLEAN
  PROVE  Shape(u, f, e) \in Wants
<1>1. Words(u) \in [Kinds -> [Natural -> Values]]
  <2>1. ASSUME NEW a \in Seq(Values), NEW i \in Nat PROVE Word(a, i) \in Values
    BY DEF Word, Values
  <2>2. ASSUME NEW k \in Kinds, NEW i \in Natural, u # Null
        PROVE  Word(u.words[k], i) \in Values
    BY <2>1, <2>2 DEF UsrData, Natural
  <2> QED
    BY <2>2 DEF Words, Values
<1>2. (IF u = Null THEN None ELSE u.tie) \in Ties
  BY IosStoreAssumption DEF UsrData
<1>3. (IF u = Null THEN <<>> ELSE u.cbs) \in Seq(Callbacks)
  BY DEF UsrData
<1> QED
  BY <1>1, <1>2, <1>3 DEF Shape, Wants

\* What is wanted of a stream, with one part of it changed.
LEMMA Rewanted ==
  ASSUME NEW w \in Wants
  PROVE  /\ \A p : [w EXCEPT !.tie = p] = [tie |-> p, words |-> w.words, cbs |-> w.cbs,
                                           fmt |-> w.fmt, except |-> w.except]
         /\ \A p : [w EXCEPT !.words = p] = [tie |-> w.tie, words |-> p, cbs |-> w.cbs,
                                             fmt |-> w.fmt, except |-> w.except]
         /\ \A p : [w EXCEPT !.cbs = p] = [tie |-> w.tie, words |-> w.words, cbs |-> p,
                                           fmt |-> w.fmt, except |-> w.except]
         /\ \A p : [w EXCEPT !.fmt = p] = [tie |-> w.tie, words |-> w.words, cbs |-> w.cbs,
                                           fmt |-> p, except |-> w.except]
         /\ \A p \in BOOLEAN :
               [w EXCEPT !.except = p] = [tie |-> w.tie, words |-> w.words, cbs |-> w.cbs,
                                          fmt |-> w.fmt, except |-> p]
BY DEF Wants

-----------------------------------------------------------------------------
Copies == {[usr |-> u, fmt |-> f, except |-> e, want |-> Shape(u, f, e)] :
              u \in UsrData \cup {Null}, f \in Formats, e \in BOOLEAN}

Events == {"imbue", "erase", "copyfmt"}
Steps == {"fire", "calling", "inside", "fired", "install"}

Frames ==
    [op : {"imbue", "copyfmt", "dtor"}, s : Streams, pc : Steps, ev : Events,
     todo : Seq(Callbacks), made : Seq(Callbacks), due : Seq(Callbacks),
     lost : BOOLEAN, live : BOOLEAN, stale : BOOLEAN, copy : Copies \cup {Null}]

\* Every stream shows what it is to, at every step; a call that copies from
\* another stream has taken what that one showed.
DataInv ==
    /\ usr \in [Streams -> UsrData \cup {Null}]
    /\ fmt \in [Streams -> Formats] /\ except \in [Streams -> BOOLEAN]
    /\ want = [s \in Streams |-> Shape(usr[s], fmt[s], except[s])]
    /\ alive \subseteq Streams /\ held \subseteq Locked
    /\ stack \in Seq(Frames)
    /\ \A i \in 1 .. Len(stack) : stack[i].op = "copyfmt" => stack[i].copy \in Copies

LEMMA InitData == Init => DataInv
<1> SUFFICES ASSUME Init PROVE DataInv
  OBVIOUS
<1>1. Fresh = Shape(Null, Default, FALSE)
  BY DEF Fresh, Shape
<1>2. stack \in Seq(Frames) /\ Len(stack) = 0
  BY DEF Init
<1>3. want = [s \in Streams |-> Shape(usr[s], fmt[s], except[s])]
  BY <1>1 DEF Init
<1>4. /\ usr \in [Streams -> UsrData \cup {Null}]
      /\ fmt \in [Streams -> Formats] /\ except \in [Streams -> BOOLEAN]
  BY UsrDataIs DEF Init
<1>5. alive \subseteq Streams /\ held \subseteq Locked
  BY DEF Init
<1> QED
  BY <1>2, <1>3, <1>4, <1>5 DEF DataInv

\* The data of one stream changes, and what is wanted of it with it.
LEMMA DataUpdate ==
  ASSUME DataInv, NEW s \in Streams, NEW u \in UsrData \cup {Null}, NEW f \in Formats,
         NEW e \in BOOLEAN,
         usr' = [usr EXCEPT ![s] = u], fmt' = [fmt EXCEPT ![s] = f],
         except' = [except EXCEPT ![s] = e], want' = [want EXCEPT ![s] = Shape(u, f, e)],
         alive' \subseteq Streams, held' \subseteq Locked, stack' \in Seq(Frames),
         \A i \in 1 .. Len(stack') : stack'[i].op = "copyfmt" => stack'[i].copy \in Copies
  PROVE  DataInv'
<1>1. /\ usr' \in [Streams -> UsrData \cup {Null}]
      /\ fmt' \in [Streams -> Formats] /\ except' \in [Streams -> BOOLEAN]
  BY DEF DataInv
<1>2. want' = [x \in Streams |-> Shape(usr'[x], fmt'[x], except'[x])]
  BY DEF DataInv
<1> QED
  BY <1>1, <1>2 DEF DataInv

\* Nothing of the data changes, but a call goes on.
LEMMA DataSame ==
  ASSUME DataInv, UNCHANGED <<usr, fmt, except, want>>,
         alive' \subseteq Streams, held' \subseteq Locked, stack' \in Seq(Frames),
         \A i \in 1 .. Len(stack') : stack'[i].op = "copyfmt" => stack'[i].copy \in Copies
  PROVE  DataInv'
BY DEF DataInv

\* The calls in progress, when one begins, goes on or ends.
Going(st) ==
    /\ st \in Seq(Frames)
    /\ \A i \in 1 .. Len(st) : st[i].op = "copyfmt" => st[i].copy \in Copies

LEMMA GoingOn ==
  ASSUME NEW st, Going(st)
  PROVE  /\ st # <<>> => Going(Front(st)) /\ Last(st) \in Frames
                        /\ (Last(st).op = "copyfmt" => Last(st).copy \in Copies)
         /\ \A f \in Frames : (f.op = "copyfmt" => f.copy \in Copies) =>
               Going(Append(st, f)) /\ Going(st \o <<f>>)
<1>1. st \in Seq(Frames)
  BY DEF Going
<1>2. ASSUME st # <<>>
      PROVE  Going(Front(st)) /\ Last(st) \in Frames
             /\ (Last(st).op = "copyfmt" => Last(st).copy \in Copies)
  BY <1>1, <1>2, Popped DEF Going
<1>3. ASSUME NEW f \in Frames, f.op = "copyfmt" => f.copy \in Copies
      PROVE  Going(Append(st, f)) /\ Going(st \o <<f>>)
  <2>1. st \o <<f>> = Append(st, f)
    BY <1>1, AppendIsConcat
  <2>2. Going(Append(st, f))
    BY <1>1, <1>3, Pushed DEF Going
  <2> QED
    BY <2>1, <2>2
<1> QED
  BY <1>2, <1>3

LEMMA FreedIs ==
  ASSUME NEW st \in Seq(Frames), NEW s
  PROVE  /\ Freed(st, s) \in Seq(Frames) /\ Len(Freed(st, s)) = Len(st)
         /\ \A i \in 1 .. Len(st) :
               /\ Freed(st, s)[i].op = st[i].op /\ Freed(st, s)[i].copy = st[i].copy
               /\ Freed(st, s)[i].s = st[i].s /\ Freed(st, s)[i].pc = st[i].pc
               /\ Freed(st, s)[i].ev = st[i].ev /\ Freed(st, s)[i].todo = st[i].todo
               /\ Freed(st, s)[i].made = st[i].made /\ Freed(st, s)[i].due = st[i].due
               /\ Freed(st, s)[i].lost = st[i].lost
               /\ ~(st[i].live /\ st[i].s = s) => Freed(st, s)[i] = st[i]
<1>1. PICK n \in Nat : n = Len(st) /\ DOMAIN st = 1 .. n
  OBVIOUS
<1>2. PICK u : u = Freed(st, s)
  OBVIOUS
<1>3. u = [i \in 1 .. n |-> IF st[i].live /\ st[i].s = s
                            THEN [st[i] EXCEPT !.stale = TRUE] ELSE st[i]]
  BY <1>1, <1>2 DEF Freed
<1>4. ASSUME NEW i \in 1 .. n
      PROVE  /\ u[i] \in Frames /\ u[i].op = st[i].op /\ u[i].copy = st[i].copy
             /\ u[i].s = st[i].s /\ u[i].pc = st[i].pc /\ u[i].ev = st[i].ev
             /\ u[i].todo = st[i].todo /\ u[i].made = st[i].made
             /\ u[i].due = st[i].due /\ u[i].lost = st[i].lost
             /\ ~(st[i].live /\ st[i].s = s) => u[i] = st[i]
  <2>1. PICK f \in Frames : f = st[i]
    BY <1>1
  <2>2. u[i] = IF f.live /\ f.s = s THEN [f EXCEPT !.stale = TRUE] ELSE f
    BY <1>3, <2>1
  <2>3. PICK g : g = [f EXCEPT !.stale = TRUE]
    OBVIOUS
  <2>4. /\ g \in Frames /\ g.op = f.op /\ g.copy = f.copy /\ g.s = f.s /\ g.pc = f.pc
        /\ g.ev = f.ev /\ g.todo = f.todo /\ g.made = f.made /\ g.due = f.due
        /\ g.lost = f.lost
    BY <2>3 DEF Frames
  <2>5. u[i] = g \/ u[i] = f
    BY <2>2, <2>3
  <2> QED
    BY <2>1, <2>2, <2>4, <2>5
<1>5. u \in [1 .. n -> Frames]
  BY <1>3, <1>4
<1>6. u \in Seq(Frames) /\ Len(u) = n
  BY ONLY <1>5, n \in Nat, SeqDef
<1> QED
  BY <1>1, <1>2, <1>4, <1>6

LEMMA FrameIs ==
  ASSUME NEW op \in {"imbue", "copyfmt", "dtor"}, NEW s \in Streams, NEW pc \in Steps,
         NEW ev \in Events
  PROVE  /\ Frame(op, s, pc, ev) \in Frames /\ Frame(op, s, pc, ev).op = op
         /\ \A c \in Copies : /\ [Frame(op, s, pc, ev) EXCEPT !.copy = c] \in Frames
                              /\ [Frame(op, s, pc, ev) EXCEPT !.copy = c].copy = c
<1>1. <<>> \in Seq(Callbacks)
  OBVIOUS
<1>2. PICK f : f = Frame(op, s, pc, ev)
  OBVIOUS
<1>3. f \in Frames /\ f.op = op
  BY <1>1, <1>2 DEF Frame, Frames
<1>4. \A c \in Copies : [f EXCEPT !.copy = c] \in Frames /\ [f EXCEPT !.copy = c].copy = c
  BY <1>3 DEF Frames
<1> QED
  BY <1>2, <1>3, <1>4

-----------------------------------------------------------------------------
(* The members that change the data of a stream.                           *)

LEMMA FailData ==
  ASSUME DataInv, NEW s \in Streams, Fail(s)
  PROVE  DataInv'
<1>1. /\ usr \in [Streams -> UsrData \cup {Null}]
      /\ fmt \in [Streams -> Formats] /\ except \in [Streams -> BOOLEAN]
      /\ want = [x \in Streams |-> Shape(usr[x], fmt[x], except[x])]
      /\ alive' \subseteq Streams /\ held' \subseteq Locked /\ stack' \in Seq(Frames)
      /\ \A i \in 1 .. Len(stack') : stack'[i].op = "copyfmt" => stack'[i].copy \in Copies
      /\ UNCHANGED <<fmt, except, want>>
  BY DEF DataInv, Fail
<1>2. CASE usr' = usr
  BY <1>1, <1>2, DataSame
<1>3. CASE usr' = [usr EXCEPT ![s] = Usr(s)]
  <2>1. PICK u : u = Usr(s)
    OBVIOUS
  <2>2. u \in UsrData /\ Shape(u, fmt[s], except[s]) = Shape(usr[s], fmt[s], except[s])
    BY <1>1, <2>1, UsrIs
  <2>3. /\ fmt' = [fmt EXCEPT ![s] = fmt[s]] /\ except' = [except EXCEPT ![s] = except[s]]
        /\ want' = [want EXCEPT ![s] = Shape(u, fmt[s], except[s])]
        /\ usr' = [usr EXCEPT ![s] = u]
    BY <1>1, <1>3, <2>1, <2>2
  <2> QED
    BY <1>1, <2>2, <2>3, DataUpdate
<1> QED
  BY <1>2, <1>3 DEF Fail

LEMMA SetWordData ==
  ASSUME DataInv, NEW s \in Streams, NEW k \in Kinds, NEW i \in Indices,
         NEW v \in Values \ {0}, SetWord(s, k, i, v)
  PROVE  DataInv'
<1>1. CASE Fail(s)
  BY <1>1, FailData
<1>2. CASE /\ i >= 0
           /\ usr' = [usr EXCEPT ![s] = [Usr(s) EXCEPT
                         !.words[k] = [Grown(@, i + 1) EXCEPT ![i + 1] = v]]]
           /\ want' = [want EXCEPT ![s].words[k][i] = v]
           /\ UNCHANGED <<fmt, except, alive, held, stack>>
  <2>1. /\ usr \in [Streams -> UsrData \cup {Null}]
        /\ fmt \in [Streams -> Formats] /\ except \in [Streams -> BOOLEAN]
        /\ want = [x \in Streams |-> Shape(usr[x], fmt[x], except[x])]
        /\ alive' \subseteq Streams /\ held' \subseteq Locked /\ stack' \in Seq(Frames)
        /\ \A j \in 1 .. Len(stack') : stack'[j].op = "copyfmt" => stack'[j].copy \in Copies
    BY <1>2 DEF DataInv
  <2>2. PICK u : u = Usr(s)
    OBVIOUS
  <2>3. /\ u \in UsrData
        /\ Shape(u, fmt[s], except[s]) = Shape(usr[s], fmt[s], except[s])
    BY <2>1, <2>2, UsrIs
  <2>4. i \in Natural /\ v \in Values
    BY <1>2, IosStoreAssumption DEF Natural
  <2>5. PICK u1 : u1 = [tie |-> u.tie, words |-> [u.words EXCEPT ![k] = WithWord(@, i, v)],
                        cbs |-> u.cbs, fire |-> u.fire]
    OBVIOUS
  <2>6. /\ u1 \in UsrData /\ u1.tie = u.tie /\ u1.cbs = u.cbs
        /\ Words(u1) = [Words(u) EXCEPT ![k][i] = v]
    BY <2>3, <2>4, <2>5, WordStored
  <2>7. u1 = [u EXCEPT !.words[k] = WithWord(@, i, v)]
    <3>1. PICK W : W = [u.words EXCEPT ![k] = WithWord(@, i, v)]
      OBVIOUS
    <3>2. [u EXCEPT !.words[k] = WithWord(@, i, v)] = [u EXCEPT !.words = W]
      BY <2>3, <3>1 DEF UsrData
    <3>3. [u EXCEPT !.words = W] = [tie |-> u.tie, words |-> W, cbs |-> u.cbs,
                                    fire |-> u.fire]
      BY <2>3 DEF UsrData
    <3> QED
      BY <2>5, <3>1, <3>2, <3>3
  <2>8. usr' = [usr EXCEPT ![s] = u1]
    BY <1>2, <2>2, <2>7 DEF WithWord
  <2>9. PICK w : w = want[s]
    OBVIOUS
  <2>10. w = Shape(u, fmt[s], except[s]) /\ w \in Wants
    BY <2>1, <2>3, <2>9, ShapeType
  <2>11. [w EXCEPT !.words[k][i] = v] = Shape(u1, fmt[s], except[s])
    <3>1. u # Null /\ u1 # Null
      BY <2>3, <2>6, UsrDataIs
    <3>2. PICK W : W = [Words(u) EXCEPT ![k][i] = v]
      OBVIOUS
    <3>3. [w EXCEPT !.words[k][i] = v] = [w EXCEPT !.words = W]
      BY <2>10, <3>1, <3>2 DEF Shape
    <3>4. [w EXCEPT !.words = W] = [tie |-> w.tie, words |-> W, cbs |-> w.cbs,
                                    fmt |-> w.fmt, except |-> w.except]
      BY <2>10, Rewanted
    <3> QED
      BY <2>6, <2>10, <3>1, <3>2, <3>3, <3>4 DEF Shape
  <2>12. want' = [want EXCEPT ![s] = [w EXCEPT !.words[k][i] = v]]
    BY <1>2, <2>9
  <2>13. /\ fmt' = [fmt EXCEPT ![s] = fmt[s]] /\ except' = [except EXCEPT ![s] = except[s]]
         /\ want' = [want EXCEPT ![s] = Shape(u1, fmt[s], except[s])]
    BY <1>2, <2>1, <2>11, <2>12
  <2> QED
    BY <2>1, <2>6, <2>8, <2>13, DataUpdate
<1> QED
  BY <1>1, <1>2 DEF SetWord

LEMMA RegisterCallbackData ==
  ASSUME DataInv, NEW s \in Streams, NEW c \in Callbacks, RegisterCallback(s, c)
  PROVE  DataInv'
<1>1. CASE Fail(s)
  BY <1>1, FailData
<1>2. CASE /\ usr' = [usr EXCEPT ![s] = [Usr(s) EXCEPT !.cbs = Append(@, c)]]
           /\ stack' = Freed(stack, s)
           /\ want' = [want EXCEPT ![s].cbs = Append(@, c)]
           /\ UNCHANGED <<fmt, except, alive, held>>
  <2>1. /\ usr \in [Streams -> UsrData \cup {Null}]
        /\ fmt \in [Streams -> Formats] /\ except \in [Streams -> BOOLEAN]
        /\ want = [x \in Streams |-> Shape(usr[x], fmt[x], except[x])]
        /\ alive' \subseteq Streams /\ held' \subseteq Locked /\ stack \in Seq(Frames)
        /\ \A j \in 1 .. Len(stack) : stack[j].op = "copyfmt" => stack[j].copy \in Copies
    BY <1>2 DEF DataInv
  <2>2. /\ stack' \in Seq(Frames)
        /\ \A j \in 1 .. Len(stack') : stack'[j].op = "copyfmt" => stack'[j].copy \in Copies
    BY <1>2, <2>1, FreedIs
  <2>3. PICK u : u = Usr(s)
    OBVIOUS
  <2>4. /\ u \in UsrData
        /\ Shape(u, fmt[s], except[s]) = Shape(usr[s], fmt[s], except[s])
    BY <2>1, <2>3, UsrIs
  <2>5. PICK b : b = Append(u.cbs, c)
    OBVIOUS
  <2>6. b \in Seq(Callbacks)
    BY <2>4, <2>5 DEF UsrData
  <2>7. PICK u1 : u1 = [u EXCEPT !.cbs = b]
    OBVIOUS
  <2>8. u1 \in UsrData /\ u1.tie = u.tie /\ u1.words = u.words /\ u1.cbs = b
    BY <2>4, <2>6, <2>7 DEF UsrData
  <2>9. u # Null /\ u1 # Null
    BY <2>4, <2>8, UsrDataIs
  <2>10. PICK w : w = want[s]
    OBVIOUS
  <2>11. w = Shape(u, fmt[s], except[s]) /\ w \in Wants
    BY <2>1, <2>4, <2>10, ShapeType
  <2>12. [w EXCEPT !.cbs = b] = Shape(u1, fmt[s], except[s])
    <3>1. [w EXCEPT !.cbs = b] = [tie |-> w.tie, words |-> w.words, cbs |-> b,
                                  fmt |-> w.fmt, except |-> w.except]
      BY <2>11, Rewanted
    <3>2. Words(u1) = Words(u)
      BY <2>8, <2>9 DEF Words
    <3> QED
      BY <2>8, <2>9, <2>11, <3>1, <3>2 DEF Shape
  <2>13. w.cbs = u.cbs
    BY <2>9, <2>11 DEF Shape
  <2>14. usr' = [usr EXCEPT ![s] = u1] /\ want' = [want EXCEPT ![s] = [w EXCEPT !.cbs = b]]
    BY <1>2, <2>3, <2>5, <2>7, <2>10, <2>13
  <2>15. /\ fmt' = [fmt EXCEPT ![s] = fmt[s]] /\ except' = [except EXCEPT ![s] = except[s]]
         /\ want' = [want EXCEPT ![s] = Shape(u1, fmt[s], except[s])]
    BY <1>2, <2>1, <2>12, <2>14
  <2> QED
    BY <2>1, <2>2, <2>8, <2>14, <2>15, DataUpdate
<1> QED
  BY <1>1, <1>2 DEF RegisterCallback

LEMMA TieData ==
  ASSUME DataInv, NEW s \in Streams, NEW p \in Ties, Tie(s, p)
  PROVE  DataInv'
<1>1. /\ usr \in [Streams -> UsrData \cup {Null}]
      /\ fmt \in [Streams -> Formats] /\ except \in [Streams -> BOOLEAN]
      /\ want = [x \in Streams |-> Shape(usr[x], fmt[x], except[x])]
      /\ alive' \subseteq Streams /\ held' \subseteq Locked /\ stack' \in Seq(Frames)
      /\ \A j \in 1 .. Len(stack') : stack'[j].op = "copyfmt" => stack'[j].copy \in Copies
      /\ UNCHANGED <<fmt, except>>
  BY DEF DataInv, Tie
<1>2. PICK u : u = usr[s]
  OBVIOUS
<1>3. PICK u1 : u1 = IF u = Null
                     THEN IF p = None THEN Null ELSE [Usr0(FALSE) EXCEPT !.tie = p]
                     ELSE IF p = None /\ Bare(u) THEN Null
                     ELSE [u EXCEPT !.tie = p]
  OBVIOUS
<1>4. /\ usr' = [usr EXCEPT ![s] = u1]
      /\ want' = [want EXCEPT ![s].tie = p]
  BY <1>1, <1>2, <1>3 DEF Tie
<1>5. PICK w : w = want[s]
  OBVIOUS
<1>6. w = Shape(u, fmt[s], except[s]) /\ w \in Wants /\ u \in UsrData \cup {Null}
  BY <1>1, <1>2, <1>5, ShapeType
<1>7. [w EXCEPT !.tie = p] = [tie |-> p, words |-> w.words, cbs |-> w.cbs,
                              fmt |-> w.fmt, except |-> w.except]
  BY <1>6, Rewanted
<1>8. /\ u1 \in UsrData \cup {Null}
      /\ Shape(u1, fmt[s], except[s]) = [tie |-> p, words |-> w.words, cbs |-> w.cbs,
                                         fmt |-> w.fmt, except |-> w.except]
  <2>1. CASE u = Null /\ p = None
    BY <1>3, <1>6, <2>1 DEF Shape
  <2>2. CASE u = Null /\ p # None
    <3>1. PICK z : z = [Usr0(FALSE) EXCEPT !.tie = p]
      OBVIOUS
    <3>2. z \in UsrData /\ Words(z) = Words(Null) /\ z # Null
      BY <3>1, UsrDataIs
    <3>3. z.tie = p /\ z.cbs = <<>>
      BY <3>1 DEF Usr0
    <3> QED
      BY <1>3, <1>6, <2>2, <3>1, <3>2, <3>3 DEF Shape
  <2>3. CASE u # Null /\ p = None /\ Bare(u)
    <3>1. u \in UsrData /\ u.cbs = <<>> /\ Words(u) = Words(Null)
      BY <1>6, <2>3, BareShows
    <3> QED
      BY <1>3, <1>6, <2>3, <3>1 DEF Shape
  <2>4. CASE u # Null /\ ~(p = None /\ Bare(u))
    <3>1. PICK z : z = [u EXCEPT !.tie = p]
      OBVIOUS
    <3>2. z \in UsrData /\ z.tie = p /\ z.words = u.words /\ z.cbs = u.cbs
      BY <1>6, <2>4, <3>1 DEF UsrData
    <3>3. z # Null
      BY <3>2, UsrDataIs
    <3>4. Words(z) = Words(u)
      BY <2>4, <3>2, <3>3 DEF Words
    <3>5. u1 = z
      BY <1>3, <2>4, <3>1
    <3> QED
      BY <1>6, <2>4, <3>2, <3>3, <3>4, <3>5 DEF Shape
  <2> QED
    BY <2>1, <2>2, <2>3, <2>4
<1>9. /\ fmt' = [fmt EXCEPT ![s] = fmt[s]] /\ except' = [except EXCEPT ![s] = except[s]]
      /\ want' = [want EXCEPT ![s] = Shape(u1, fmt[s], except[s])]
  BY <1>1, <1>4, <1>5, <1>7, <1>8
<1>10. usr' = [usr EXCEPT ![s] = u1] /\ u1 \in UsrData \cup {Null}
  BY <1>4, <1>8
<1>11. fmt[s] \in Formats /\ except[s] \in BOOLEAN
  BY <1>1
<1> QED
  BY <1>1, <1>9, <1>10, <1>11, DataUpdate

LEMMA ExceptionsData ==
  ASSUME DataInv, NEW s \in Streams, NEW e \in BOOLEAN, Exceptions(s, e)
  PROVE  DataInv'
<1>1. /\ usr \in [Streams -> UsrData \cup {Null}]
      /\ fmt \in [Streams -> Formats] /\ except \in [Streams -> BOOLEAN]
      /\ want = [x \in Streams |-> Shape(usr[x], fmt[x], except[x])]
      /\ alive' \subseteq Streams /\ held' \subseteq Locked /\ stack' \in Seq(Frames)
      /\ \A j \in 1 .. Len(stack') : stack'[j].op = "copyfmt" => stack'[j].copy \in Copies
  BY DEF DataInv, Exceptions
<1>2. /\ usr' = [usr EXCEPT ![s] = usr[s]] /\ fmt' = [fmt EXCEPT ![s] = fmt[s]]
      /\ except' = [except EXCEPT ![s] = e]
  BY <1>1 DEF Exceptions
<1>3. PICK w : w = want[s]
  OBVIOUS
<1>4. w = Shape(usr[s], fmt[s], except[s]) /\ w \in Wants
  BY <1>1, <1>3, ShapeType
<1>5. [w EXCEPT !.except = e] = Shape(usr[s], fmt[s], e)
  BY <1>4, Rewanted DEF Shape
<1>6. want' = [want EXCEPT ![s] = [w EXCEPT !.except = e]]
  BY <1>3 DEF Exceptions
<1>7. usr[s] \in UsrData \cup {Null} /\ fmt[s] \in Formats
  BY <1>1
<1>8. want' = [want EXCEPT ![s] = Shape(usr[s], fmt[s], e)]
  BY <1>5, <1>6
<1> QED
  BY <1>1, <1>2, <1>7, <1>8, DataUpdate

LEMMA ImbueData ==
  ASSUME DataInv, NEW s \in Streams, NEW f \in Formats, Imbue(s, f)
  PROVE  DataInv'
<1>1. /\ usr \in [Streams -> UsrData \cup {Null}]
      /\ fmt \in [Streams -> Formats] /\ except \in [Streams -> BOOLEAN]
      /\ want = [x \in Streams |-> Shape(usr[x], fmt[x], except[x])]
      /\ alive' \subseteq Streams /\ held' \subseteq Locked
      /\ Going(stack)
  BY DEF DataInv, Imbue, Lock, Going
<1>2. Going(stack')
  <2>1. Frame("imbue", s, "fire", "imbue") \in Frames
        /\ Frame("imbue", s, "fire", "imbue").op = "imbue"
    BY FrameIs DEF Steps, Events
  <2>2. stack' = Append(stack, Frame("imbue", s, "fire", "imbue"))
    BY DEF Imbue
  <2> QED
    BY <1>1, <2>1, <2>2, GoingOn
<1>3. /\ usr' = [usr EXCEPT ![s] = usr[s]] /\ fmt' = [fmt EXCEPT ![s] = f]
      /\ except' = [except EXCEPT ![s] = except[s]]
  BY <1>1 DEF Imbue
<1>4. PICK w : w = want[s]
  OBVIOUS
<1>5. w = Shape(usr[s], fmt[s], except[s]) /\ w \in Wants
  BY <1>1, <1>4, ShapeType
<1>6. [w EXCEPT !.fmt = f] = Shape(usr[s], f, except[s])
  BY <1>5, Rewanted DEF Shape
<1>7. want' = [want EXCEPT ![s] = [w EXCEPT !.fmt = f]]
  BY <1>4 DEF Imbue
<1>8. usr[s] \in UsrData \cup {Null} /\ except[s] \in BOOLEAN
  BY <1>1
<1>9. want' = [want EXCEPT ![s] = Shape(usr[s], f, except[s])]
  BY <1>6, <1>7
<1> QED
  BY <1>1, <1>2, <1>3, <1>8, <1>9, DataUpdate DEF Going

LEMMA CopyfmtData ==
  ASSUME DataInv, NEW s \in Streams, NEW r \in Streams, Copyfmt(s, r)
  PROVE  DataInv'
<1>1. /\ usr \in [Streams -> UsrData \cup {Null}]
      /\ fmt \in [Streams -> Formats] /\ except \in [Streams -> BOOLEAN]
      /\ want = [x \in Streams |-> Shape(usr[x], fmt[x], except[x])]
      /\ alive' \subseteq Streams /\ held' \subseteq Locked
      /\ Going(stack)
  BY DEF DataInv, Copyfmt, Lock, Going, state
<1>2. Taken(r) \in Copies
  <2>1. usr[r] \in UsrData \cup {Null} /\ fmt[r] \in Formats /\ except[r] \in BOOLEAN
    BY <1>1
  <2>2. want[r] = Shape(usr[r], fmt[r], except[r])
    BY <1>1
  <2> QED
    BY <2>1, <2>2 DEF Taken, Copies
<1>3. PICK c \in Copies : c = Taken(r)
  BY <1>2
<1>4. PICK pc \in Steps : pc = IF usr[s] = Null THEN "install" ELSE "fire"
  BY DEF Steps
<1>5. PICK f : f = [Frame("copyfmt", s, pc, "erase") EXCEPT !.copy = c]
  OBVIOUS
<1>6. stack' = Append(stack, f)
  BY <1>3, <1>4, <1>5 DEF Copyfmt
<1>7. f \in Frames /\ f.copy \in Copies
  BY <1>5, FrameIs DEF Events
<1>8. Going(stack')
  BY <1>1, <1>6, <1>7, GoingOn
<1>9. UNCHANGED <<usr, fmt, except, want>>
  BY DEF Copyfmt, state
<1> QED
  BY <1>1, <1>8, <1>9, DataSame DEF Going

\* The other steps that change no data but the calls in progress: the top one
\* goes on, or ends, or there is one more.
LEMMA StackData ==
  ASSUME DataInv, UNCHANGED <<usr, fmt, except, want>>,
         alive' \subseteq Streams, held' \subseteq Locked,
         \/ stack' = stack
         \/ stack # <<>> /\ stack' = Front(stack)
         \/ \E f \in Frames : /\ f.op = "copyfmt" => f.copy \in Copies
                              /\ \/ stack' = Append(stack, f)
                                 \/ stack # <<>> /\ stack' = Front(stack) \o <<f>>
  PROVE  DataInv'
<1>1. Going(stack)
  BY DEF DataInv, Going
<1>2. Going(stack')
  BY <1>1, GoingOn
<1> QED
  BY <1>2, DataSame DEF Going

LEMMA DestroyData ==
  ASSUME DataInv, NEW s \in Streams, Destroy(s)
  PROVE  DataInv'
<1>1. PICK f : f = Frame("dtor", s, "fire", "erase")
  OBVIOUS
<1>2. f \in Frames /\ f.op = "dtor" /\ stack' = Append(stack, f)
  BY <1>1, FrameIs DEF Destroy, Steps, Events
<1>3. UNCHANGED <<usr, fmt, except, want>> /\ alive' \subseteq Streams /\ held' \subseteq Locked
  BY DEF Destroy, state, DataInv
<1> QED
  BY <1>2, <1>3, StackData

LEMMA ConstructData ==
  ASSUME DataInv, NEW s \in Streams, Construct(s)
  PROVE  DataInv'
BY StackData DEF Construct, DataInv

-----------------------------------------------------------------------------
(* The steps of the calls in progress.                                     *)

LEMMA ReverseIs ==
  ASSUME NEW S, NEW q \in Seq(S)
  PROVE  /\ Reverse(q) \in Seq(S) /\ Len(Reverse(q)) = Len(q)
         /\ \A i \in 1 .. Len(q) : Reverse(q)[i] = q[Len(q) - i + 1]
<1>1. PICK n \in Nat : n = Len(q)
  OBVIOUS
<1>2. PICK r : r = Reverse(q)
  OBVIOUS
<1>3. r = [i \in 1 .. n |-> q[n - i + 1]]
  BY <1>1, <1>2 DEF Reverse
<1>4. \A i \in 1 .. n : q[n - i + 1] \in S
  BY <1>1
<1>5. r \in [1 .. n -> S]
  BY <1>3, <1>4
<1>6. r \in Seq(S) /\ Len(r) = n
  BY ONLY <1>5, n \in Nat, SeqDef
<1> QED
  BY <1>1, <1>2, <1>3, <1>6

LEMMA CopyIs ==
  ASSUME NEW c \in Copies
  PROVE  /\ c.usr \in UsrData \cup {Null} /\ c.fmt \in Formats /\ c.except \in BOOLEAN
         /\ c.want = Shape(c.usr, c.fmt, c.except) /\ c.want.except = c.except
         /\ c.want \in Wants
<1>1. PICK u \in UsrData \cup {Null}, f \in Formats, e \in BOOLEAN :
          c = [usr |-> u, fmt |-> f, except |-> e, want |-> Shape(u, f, e)]
  BY DEF Copies
<1>2. PICK w : w = Shape(u, f, e)
  OBVIOUS
<1>3. w \in Wants /\ w.except = e
  BY <1>2, ShapeType DEF Shape
<1>4. c.usr = u /\ c.fmt = f /\ c.except = e /\ c.want = w
  BY <1>1, <1>2
<1> QED
  BY <1>2, <1>3, <1>4

LEMMA TopIs ==
  ASSUME DataInv, stack # <<>>
  PROVE  /\ Top \in Frames /\ Top.s \in Streams
         /\ Top.op = "copyfmt" => Top.copy \in Copies
<1>1. Going(stack)
  BY DEF DataInv, Going
<1>2. Top \in Frames /\ (Top.op = "copyfmt" => Top.copy \in Copies)
  BY <1>1, GoingOn DEF Top
<1> QED
  BY <1>2 DEF Frames

LEMMA AssignData ==
  ASSUME DataInv, NEW f \in Frames, f.op = "copyfmt" => f.copy \in Copies, Assign(f),
         UNCHANGED <<usr, fmt>>, alive' \subseteq Streams, held' \subseteq Locked,
         Going(stack')
  PROVE  DataInv'
<1>1. CASE f.op = "copyfmt" /\ f.ev = "copyfmt"
  <2>1. /\ usr \in [Streams -> UsrData \cup {Null}]
        /\ fmt \in [Streams -> Formats] /\ except \in [Streams -> BOOLEAN]
        /\ want = [x \in Streams |-> Shape(usr[x], fmt[x], except[x])]
    BY DEF DataInv
  <2>2. PICK s \in Streams : s = f.s
    BY DEF Frames
  <2>3. PICK e \in BOOLEAN : e = f.copy.except /\ e = f.copy.want.except
    BY <1>1, CopyIs
  <2>4. /\ except' = [except EXCEPT ![s] = e]
        /\ want' = [want EXCEPT ![s].except = e]
    BY <1>1, <2>2, <2>3 DEF Assign
  <2>5. PICK w : w = want[s]
    OBVIOUS
  <2>6. w = Shape(usr[s], fmt[s], except[s]) /\ w \in Wants
    BY <2>1, <2>5, ShapeType
  <2>7. [w EXCEPT !.except = e] = Shape(usr[s], fmt[s], e)
    BY <2>6, Rewanted DEF Shape
  <2>8. want' = [want EXCEPT ![s] = [w EXCEPT !.except = e]]
    BY <2>4, <2>5
  <2>9. want' = [want EXCEPT ![s] = Shape(usr[s], fmt[s], e)]
    BY <2>7, <2>8
  <2>10. usr' = [usr EXCEPT ![s] = usr[s]] /\ fmt' = [fmt EXCEPT ![s] = fmt[s]]
    BY <2>1
  <2>11. usr[s] \in UsrData \cup {Null} /\ fmt[s] \in Formats
    BY <2>1
  <2>12. /\ alive' \subseteq Streams /\ held' \subseteq Locked /\ stack' \in Seq(Frames)
         /\ \A i \in 1 .. Len(stack') : stack'[i].op = "copyfmt" => stack'[i].copy \in Copies
    BY DEF Going
  <2> QED
    BY ONLY DataInv, s \in Streams, e \in BOOLEAN, <2>4, <2>9, <2>10, <2>11, <2>12, DataUpdate
<1>2. CASE ~(f.op = "copyfmt" /\ f.ev = "copyfmt")
  BY <1>2, DataSame DEF Assign, Going
<1> QED
  BY <1>1, <1>2

LEMMA FireData ==
  ASSUME DataInv, Fire
  PROVE  DataInv'
<1>1. stack # <<>> /\ Top \in Frames /\ Top.s \in Streams
      /\ (Top.op = "copyfmt" => Top.copy \in Copies)
  BY TopIs DEF Fire, At
<1>2. PICK a : a = Listed(Top.s)
  OBVIOUS
<1>3. PICK b : b = Reverse(want[Top.s].cbs)
  OBVIOUS
<1>4. a \in Seq(Callbacks)
  <2>1. usr[Top.s] \in UsrData \cup {Null}
    BY <1>1 DEF DataInv
  <2> QED
    BY <1>2, <2>1, UsrDataIs DEF Listed, UsrData
<1>5. b \in Seq(Callbacks)
  <2>1. want[Top.s] \in Wants
    BY <1>1, ShapeType DEF DataInv
  <2>2. want[Top.s].cbs \in Seq(Callbacks)
    BY <2>1 DEF Wants
  <2> QED
    BY <1>3, <2>2, ReverseIs
<1>6. PICK l \in BOOLEAN : l = (Top.op = "dtor")
  OBVIOUS
<1>7. PICK p \in Steps : p = IF a = <<>> THEN "fired" ELSE "calling"
  BY DEF Steps
<1>a. PICK f \in Frames : f = Top
  BY <1>1
<1>8. PICK g : g = [f EXCEPT !.todo = a, !.due = b, !.live = l, !.pc = p]
  OBVIOUS
<1>9. g \in Frames /\ g.op = f.op /\ g.copy = f.copy
  BY <1>4, <1>5, <1>8, <1>a DEF Frames, Steps
<1>10. stack' = Front(stack) \o <<g>>
  BY <1>2, <1>3, <1>6, <1>7, <1>8, <1>a DEF Fire, Up, Start
<1>11. UNCHANGED <<usr, fmt, except, want>> /\ alive' \subseteq Streams
       /\ held' \subseteq Locked
  BY DEF Fire, state, DataInv
<1> QED
  BY <1>1, <1>a, <1>9, <1>10, <1>11, StackData

LEMMA FireFailData ==
  ASSUME DataInv, FireFail
  PROVE  DataInv'
<1>1. stack # <<>> /\ Top \in Frames /\ Top.s \in Streams
      /\ (Top.op = "copyfmt" => Top.copy \in Copies)
  BY TopIs DEF FireFail, At
<1>2. CASE except[Top.s]
  <2>1. Going(stack')
    <3>1. Going(stack)
      BY DEF DataInv, Going
    <3> QED
      BY <1>1, <1>2, <3>1, GoingOn DEF FireFail
  <2>2. alive' \subseteq Streams /\ held' \subseteq Locked
        /\ UNCHANGED <<usr, fmt>> /\ Assign(Top)
    BY <1>2 DEF FireFail, DataInv
  <2> QED
    BY <1>1, <2>1, <2>2, AssignData
<1>3. CASE ~except[Top.s]
  <2>a. PICK f \in Frames : f = Top
    BY <1>1
  <2>1. PICK g : g = [f EXCEPT !.lost = TRUE, !.pc = "fired"]
    OBVIOUS
  <2>2. g \in Frames /\ g.op = f.op /\ g.copy = f.copy
    BY <2>1, <2>a DEF Frames, Steps
  <2>3. stack' = Front(stack) \o <<g>>
    BY <1>3, <2>1, <2>a DEF FireFail, Up
  <2>4. UNCHANGED <<usr, fmt, except, want>> /\ alive' \subseteq Streams
        /\ held' \subseteq Locked
    BY <1>3 DEF FireFail, DataInv
  <2> QED
    BY <1>1, <2>a, <2>2, <2>3, <2>4, StackData
<1> QED
  BY <1>2, <1>3

LEMMA CallData ==
  ASSUME DataInv, Call
  PROVE  DataInv'
<1>1. stack # <<>> /\ Top \in Frames /\ Top.todo # <<>>
      /\ (Top.op = "copyfmt" => Top.copy \in Copies)
  BY TopIs DEF Call, At
<1>2. PICK a : a = Front(Top.todo)
  OBVIOUS
<1>3. PICK b : b = Append(Top.made, Last(Top.todo))
  OBVIOUS
<1>4. a \in Seq(Callbacks) /\ b \in Seq(Callbacks)
  <2>1. Top.todo \in Seq(Callbacks) /\ Top.made \in Seq(Callbacks)
    BY <1>1 DEF Frames
  <2>2. Last(Top.todo) \in Callbacks
    BY <1>1, <2>1, Popped
  <2> QED
    BY <1>1, <1>2, <1>3, <2>1, <2>2, Popped
<1>a. PICK f \in Frames : f = Top
  BY <1>1
<1>5. PICK g : g = [f EXCEPT !.todo = a, !.made = b, !.pc = "inside"]
  OBVIOUS
<1>6. g \in Frames /\ g.op = f.op /\ g.copy = f.copy
  BY <1>4, <1>5, <1>a DEF Frames, Steps
<1>7. stack' = Front(stack) \o <<g>>
  BY <1>2, <1>3, <1>5, <1>a DEF Call, Up
<1>8. UNCHANGED <<usr, fmt, except, want>> /\ alive' \subseteq Streams
      /\ held' \subseteq Locked
  BY DEF Call, state, DataInv
<1> QED
  BY <1>1, <1>a, <1>6, <1>7, <1>8, StackData

LEMMA CallbackReturnsData ==
  ASSUME DataInv, CallbackReturns
  PROVE  DataInv'
<1>1. stack # <<>> /\ Top \in Frames /\ (Top.op = "copyfmt" => Top.copy \in Copies)
  BY TopIs DEF CallbackReturns, At
<1>a. PICK f \in Frames : f = Top
  BY <1>1
<1>2. PICK g : g = [f EXCEPT !.pc = "calling"]
  OBVIOUS
<1>3. g \in Frames /\ g.op = f.op /\ g.copy = f.copy
  BY <1>2, <1>a DEF Frames, Steps
<1>4. stack' = Front(stack) \o <<g>>
  BY <1>2, <1>a DEF CallbackReturns, Up
<1>5. UNCHANGED <<usr, fmt, except, want>> /\ alive' \subseteq Streams
      /\ held' \subseteq Locked
  BY DEF CallbackReturns, state, DataInv
<1> QED
  BY <1>1, <1>a, <1>3, <1>4, <1>5, StackData

LEMMA CallbackThrowsData ==
  ASSUME DataInv, CallbackThrows
  PROVE  DataInv'
<1>1. stack # <<>> /\ Top \in Frames /\ (Top.op = "copyfmt" => Top.copy \in Copies)
  BY TopIs DEF CallbackThrows, At
<1>2. Going(stack)
  BY DEF DataInv, Going
<1>3. Going(stack')
  BY <1>1, <1>2, GoingOn DEF CallbackThrows
<1>4. alive' \subseteq Streams /\ held' \subseteq Locked /\ UNCHANGED <<usr, fmt>>
      /\ Assign(Top)
  BY DEF CallbackThrows, DataInv
<1> QED
  BY <1>1, <1>3, <1>4, AssignData

LEMMA AllCalledData ==
  ASSUME DataInv, AllCalled
  PROVE  DataInv'
<1>1. stack # <<>> /\ Top \in Frames /\ (Top.op = "copyfmt" => Top.copy \in Copies)
  BY TopIs DEF AllCalled, At
<1>a. PICK f \in Frames : f = Top
  BY <1>1
<1>2. PICK g : g = [f EXCEPT !.pc = "fired"]
  OBVIOUS
<1>3. g \in Frames /\ g.op = f.op /\ g.copy = f.copy
  BY <1>2, <1>a DEF Frames, Steps
<1>4. stack' = Front(stack) \o <<g>>
  BY <1>2, <1>a DEF AllCalled, Up
<1>5. UNCHANGED <<usr, fmt, except, want>> /\ alive' \subseteq Streams
      /\ held' \subseteq Locked
  BY DEF AllCalled, state, DataInv, Lock
<1> QED
  BY <1>1, <1>a, <1>3, <1>4, <1>5, StackData

LEMMA ReturnData ==
  ASSUME DataInv, Return
  PROVE  DataInv'
<1>1. stack # <<>> /\ Top \in Frames /\ (Top.op = "copyfmt" => Top.copy \in Copies)
  BY TopIs DEF Return, At
<1>2. Going(stack)
  BY DEF DataInv, Going
<1>3. Going(stack')
  BY <1>1, <1>2, GoingOn DEF Return
<1>4. alive' \subseteq Streams /\ held' \subseteq Locked /\ UNCHANGED <<usr, fmt>>
      /\ Assign(Top)
  BY DEF Return, DataInv
<1> QED
  BY <1>1, <1>3, <1>4, AssignData

LEMMA DestroyedData ==
  ASSUME DataInv, Destroyed
  PROVE  DataInv'
<1>1. stack # <<>> /\ Top.s \in Streams
  BY TopIs DEF Destroyed, At
<1>2. PICK s \in Streams : s = Top.s
  BY <1>1
<1>3. Going(stack) /\ alive' \subseteq Streams /\ held' \subseteq Locked
  BY DEF DataInv, Going, Destroyed
<1>4. Going(stack')
  BY <1>1, <1>3, GoingOn DEF Destroyed
<1>5. Fresh = Shape(Null, Default, FALSE) /\ Default \in Formats
  BY UsrDataIs DEF Fresh, Shape
<1>6. /\ usr' = [usr EXCEPT ![s] = Null] /\ fmt' = [fmt EXCEPT ![s] = Default]
      /\ except' = [except EXCEPT ![s] = FALSE]
      /\ want' = [want EXCEPT ![s] = Shape(Null, Default, FALSE)]
  BY <1>2, <1>5 DEF Destroyed
<1> QED
  BY <1>3, <1>4, <1>5, <1>6, DataUpdate DEF Going

LEMMA InstallData ==
  ASSUME DataInv, Install
  PROVE  DataInv'
<1>1. stack # <<>> /\ Top.op = "copyfmt"
  BY DEF Install
<1>2. Top \in Frames /\ Top.s \in Streams /\ Top.copy \in Copies
  BY <1>1, TopIs
<1>3. PICK s \in Streams, c \in Copies : s = Top.s /\ c = Top.copy
  BY <1>2
<1>4. PICK u : u = c.usr
  OBVIOUS
<1>5. PICK u1 : u1 = IF u # Null /\ (u.tie # None \/ ~Bare(u))
                     THEN [u EXCEPT !.fire = TRUE] ELSE Null
  OBVIOUS
<1>6. /\ usr' = [usr EXCEPT ![s] = u1] /\ fmt' = [fmt EXCEPT ![s] = c.fmt]
      /\ want' = [want EXCEPT ![s] = [c.want EXCEPT !.except = want[s].except]]
      /\ except' = except /\ alive' = alive /\ held' = held
      /\ stack' = Freed(Front(stack), s) \o
                    <<[Frame("copyfmt", s, "fire", "copyfmt") EXCEPT !.copy = c]>>
  BY <1>3, <1>4, <1>5 DEF Install
<1>7. /\ u \in UsrData \cup {Null} /\ c.fmt \in Formats /\ c.except \in BOOLEAN
      /\ c.want = Shape(u, c.fmt, c.except) /\ c.want \in Wants
  BY <1>4, CopyIs
<1>8. u1 \in UsrData \cup {Null} /\ \A f, e : Shape(u1, f, e) = Shape(u, f, e)
  <2>1. CASE u = Null
    BY <1>5, <2>1
  <2>2. CASE u # Null /\ ~(u.tie # None \/ ~Bare(u))
    <3>1. u1 = Null /\ u \in UsrData /\ u.tie = None /\ Bare(u)
      BY <1>5, <1>7, <2>2
    <3>2. u.cbs = <<>> /\ Words(u) = Words(Null)
      BY <3>1, BareShows
    <3> QED
      BY <2>2, <3>1, <3>2 DEF Shape
  <2>3. CASE u # Null /\ (u.tie # None \/ ~Bare(u))
    <3>1. u \in UsrData
      BY <1>7, <2>3
    <3>2. PICK b \in BOOLEAN : b = TRUE
      OBVIOUS
    <3>3. u1 = [u EXCEPT !.fire = b]
      BY <1>5, <2>3, <3>2
    <3>4. u1 \in UsrData /\ u1.tie = u.tie /\ u1.words = u.words /\ u1.cbs = u.cbs
      BY <3>1, <3>3 DEF UsrData
    <3>5. u1 # Null
      BY <3>4, UsrDataIs
    <3>6. Words(u1) = Words(u)
      BY <2>3, <3>4, <3>5 DEF Words
    <3> QED
      BY <2>3, <3>4, <3>5, <3>6 DEF Shape
  <2> QED
    BY <2>1, <2>2, <2>3
<1>9. except[s] \in BOOLEAN /\ want[s] = Shape(usr[s], fmt[s], except[s])
      /\ except' = [except EXCEPT ![s] = except[s]]
  BY <1>6 DEF DataInv
<1>10. want' = [want EXCEPT ![s] = Shape(u1, c.fmt, except[s])]
  <2>1. PICK w \in Wants : w = c.want
    BY <1>7
  <2>2. PICK e \in BOOLEAN : e = except[s]
    BY <1>9
  <2>3. want[s].except = e
    BY <1>9, <2>2 DEF Shape
  <2>4. [w EXCEPT !.except = e] = Shape(u, c.fmt, e)
    <3>1. [w EXCEPT !.except = e] = [tie |-> w.tie, words |-> w.words, cbs |-> w.cbs,
                                     fmt |-> w.fmt, except |-> e]
      BY Rewanted
    <3> QED
      BY <1>7, <2>1, <3>1 DEF Shape
  <2>5. Shape(u1, c.fmt, e) = Shape(u, c.fmt, e)
    BY <1>8
  <2>6. PICK z : z = [w EXCEPT !.except = e]
    OBVIOUS
  <2>7. z = Shape(u1, c.fmt, except[s])
    BY ONLY <2>2, <2>4, <2>5, <2>6
  <2>8. want' = [want EXCEPT ![s] = z]
    BY ONLY <1>6, <2>1, <2>2, <2>3, <2>6
  <2> QED
    BY ONLY <2>7, <2>8
<1>11. Going(stack')
  <2>1. Going(stack)
    BY DEF DataInv, Going
  <2>2. PICK st : st = Front(stack)
    OBVIOUS
  <2>3. Going(st)
    BY <1>1, <2>1, <2>2, GoingOn
  <2>4. Going(Freed(st, s))
    BY <2>3, FreedIs DEF Going
  <2>5. PICK g : g = [Frame("copyfmt", s, "fire", "copyfmt") EXCEPT !.copy = c]
    OBVIOUS
  <2>6. g \in Frames /\ g.copy \in Copies
    BY <2>5, FrameIs DEF Steps, Events
  <2> QED
    BY <1>6, <2>2, <2>4, <2>5, <2>6, GoingOn
<1>12. /\ alive' \subseteq Streams /\ held' \subseteq Locked /\ stack' \in Seq(Frames)
       /\ \A i \in 1 .. Len(stack') : stack'[i].op = "copyfmt" => stack'[i].copy \in Copies
  BY <1>6, <1>11 DEF Going, DataInv
<1>13. usr' = [usr EXCEPT ![s] = u1] /\ fmt' = [fmt EXCEPT ![s] = c.fmt]
  BY <1>6
<1>14. u1 \in UsrData \cup {Null} /\ c.fmt \in Formats
  BY <1>7, <1>8
<1> QED
  BY ONLY DataInv, s \in Streams, <1>9, <1>10, <1>12, <1>13, <1>14, DataUpdate

LEMMA StepData == DataInv /\ [Next]_vars => DataInv'
<1> SUFFICES ASSUME DataInv, [Next]_vars PROVE DataInv'
  OBVIOUS
<1>1. CASE UNCHANGED vars
  BY <1>1, DataSame DEF vars, state, DataInv
<1>2. CASE \E s \in Streams :
             \/ \E k \in Kinds, i \in Indices, v \in Values \ {0} : SetWord(s, k, i, v)
             \/ \E c \in Callbacks : RegisterCallback(s, c)
             \/ \E p \in Ties : Tie(s, p)
             \/ \E e \in BOOLEAN : Exceptions(s, e)
             \/ \E f \in Formats : Imbue(s, f)
             \/ \E r \in Streams : Copyfmt(s, r)
             \/ Destroy(s) \/ Construct(s)
  BY <1>2, SetWordData, RegisterCallbackData, TieData, ExceptionsData, ImbueData,
     CopyfmtData, DestroyData, ConstructData
<1>3. CASE Fire \/ FireFail \/ Call \/ CallbackReturns \/ CallbackThrows
           \/ AllCalled \/ Install \/ Return \/ Destroyed
  BY <1>3, FireData, FireFailData, CallData, CallbackReturnsData, CallbackThrowsData,
     AllCalledData, InstallData, ReturnData, DestroyedData
<1> QED
  BY <1>1, <1>2, <1>3 DEF Next

LEMMA DataInvAlways == Spec => []DataInv
BY InitData, StepData, PTL DEF Spec

\* A stream is as the calls on it left it: every word set, 0 for the others,
\* its tie, callbacks, format and exceptions, or another stream's after
\* copyfmt(), whatever failed or threw and whatever callbacks did (ios_base's
\* iword, pword, register_callback, tie, imbue and copyfmt, iostore.cpp, ios.cpp).
THEOREM AsWantedAlways == Spec => []AsWanted
<1>1. DataInv => AsWanted
  BY DEF DataInv, AsWanted, Shape, Array
<1> QED
  BY <1>1, DataInvAlways, PTL

-----------------------------------------------------------------------------
(* Events.  A call that fires one has called, in the opposite order, the   *)
(* callbacks that were registered then and are not to be called yet.       *)

Delivering ==
    {f \in Frames :
        /\ f.pc \in {"fire", "install"} => f.made = <<>>
        /\ f.pc \in {"calling", "inside"} => f.due = f.made \o Reverse(f.todo)
        /\ f.pc = "fired" => f.lost \/ f.made = f.due}

EventInv ==
    /\ \A s \in Streams : usr[s] # Null => usr[s].fire
    /\ stack \in Seq(Delivering)

LEMMA ReverseEnds ==
  ASSUME NEW S, NEW q \in Seq(S), NEW m \in Seq(S), q # <<>>
  PROVE  m \o Reverse(q) = Append(m, Last(q)) \o Reverse(Front(q))
<1>1. PICK n \in Nat \ {0} : n = Len(q)
  OBVIOUS
<1>2. PICK p : p = Front(q)
  OBVIOUS
<1>3. /\ p \in Seq(S) /\ Len(p) = n - 1 /\ \A i \in 1 .. n - 1 : p[i] = q[i]
      /\ Last(q) = q[n] /\ q[n] \in S
  BY <1>1, <1>2, Popped
<1>4. PICK r : r = Reverse(q)
  OBVIOUS
<1>5. PICK t : t = Reverse(p)
  OBVIOUS
<1>6. r \in Seq(S) /\ Len(r) = n /\ \A i \in 1 .. n : r[i] = q[n - i + 1]
  BY <1>1, <1>4, ReverseIs
<1>7. t \in Seq(S) /\ Len(t) = n - 1 /\ \A i \in 1 .. n - 1 : t[i] = p[n - 1 - i + 1]
  BY <1>3, <1>5, ReverseIs
<1>8. PICK k \in Nat : k = Len(m)
  OBVIOUS
<1>9. PICK a : a = Append(m, q[n])
  OBVIOUS
<1>10. a \in Seq(S) /\ Len(a) = k + 1 /\ (\A i \in 1 .. k : a[i] = m[i]) /\ a[k + 1] = q[n]
  BY <1>3, <1>8, <1>9, Pushed
<1>11. PICK x : x = m \o r
  OBVIOUS
<1>12. PICK y : y = a \o t
  OBVIOUS
<1>13. /\ x \in Seq(S) /\ Len(x) = k + n
       /\ \A i \in 1 .. k + n : x[i] = IF i <= k THEN m[i] ELSE r[i - k]
  <2>1. /\ x \in Seq(S) /\ Len(x) = Len(m) + Len(r)
        /\ \A i \in 1 .. Len(m) + Len(r) :
               x[i] = IF i <= Len(m) THEN m[i] ELSE r[i - Len(m)]
    BY ONLY m \in Seq(S), <1>6, <1>11, ConcatProperties
  <2> QED
    BY ONLY <1>6, <1>8, <2>1
<1>14. /\ y \in Seq(S) /\ Len(y) = k + n
       /\ \A i \in 1 .. k + n : y[i] = IF i <= k + 1 THEN a[i] ELSE t[i - (k + 1)]
  <2>1. Len(a) + Len(t) = k + n
    BY <1>7, <1>10
  <2>2. a \in Seq(S) /\ t \in Seq(S) /\ Len(a) = k + 1
    BY <1>7, <1>10
  <2>3. /\ y \in Seq(S) /\ Len(y) = Len(a) + Len(t)
        /\ \A i \in 1 .. Len(a) + Len(t) :
               y[i] = IF i <= Len(a) THEN a[i] ELSE t[i - Len(a)]
    BY ONLY <1>12, <2>2, ConcatProperties
  <2> QED
    BY ONLY <2>1, <2>2, <2>3
<1>15. ASSUME NEW i \in 1 .. k + n PROVE x[i] = y[i]
  <2>1. CASE i <= k
    <3>1. i \in 1 .. k /\ i <= k + 1
      BY <2>1
    <3> QED
      BY ONLY <1>10, <1>13, <1>14, <1>15, <2>1, <3>1
  <2>2. CASE i = k + 1
    <3>1. x[i] = r[1] /\ r[1] = q[n]
      BY <1>6, <1>13, <2>2
    <3>2. y[i] = a[k + 1]
      BY <1>14, <2>2
    <3> QED
      BY <1>10, <3>1, <3>2
  <2>3. CASE i > k + 1
    <3>1. PICK j \in 1 .. n - 1 : j = i - (k + 1)
      BY <2>3
    <3>2. x[i] = r[j + 1] /\ y[i] = t[j]
      BY <1>13, <1>14, <2>3, <3>1
    <3>3. r[j + 1] = q[n - j] /\ t[j] = p[n - j] /\ n - j \in 1 .. n - 1
      BY <1>6, <1>7
    <3> QED
      BY <1>3, <3>2, <3>3
  <2> QED
    BY <2>1, <2>2, <2>3
<1>16. x = y
  BY ONLY <1>13, <1>14, <1>15, SeqEqual
<1> QED
  BY <1>2, <1>3, <1>4, <1>5, <1>9, <1>11, <1>12, <1>16

LEMMA FreedDelivering ==
  ASSUME NEW st \in Seq(Delivering), NEW s
  PROVE  Freed(st, s) \in Seq(Delivering)
<1>1. st \in Seq(Frames)
  <2>1. \A i \in 1 .. Len(st) : st[i] \in Delivering
    OBVIOUS
  <2>2. \A i \in 1 .. Len(st) : st[i] \in Frames
    BY <2>1 DEF Delivering
  <2> QED
    BY <2>2, SeqAmong
<1>2. PICK u : u = Freed(st, s)
  OBVIOUS
<1>3. /\ u \in Seq(Frames) /\ Len(u) = Len(st)
      /\ \A i \in 1 .. Len(st) :
            /\ u[i].pc = st[i].pc /\ u[i].todo = st[i].todo /\ u[i].made = st[i].made
            /\ u[i].due = st[i].due /\ u[i].lost = st[i].lost
  BY <1>1, <1>2, FreedIs
<1>4. \A i \in 1 .. Len(st) : u[i] \in Delivering
  <2>1. \A i \in 1 .. Len(st) : st[i] \in Delivering /\ u[i] \in Frames
    BY <1>3
  <2> QED
    BY <1>3, <2>1 DEF Delivering
<1>5. u \in Seq(Delivering)
  BY <1>3, <1>4, SeqAmong
<1> QED
  BY <1>2, <1>5

LEMMA InitEvents == Init => EventInv
BY DEF Init, EventInv

\* The data of a stream changes: what fires its events does not.
LEMMA EventUpdate ==
  ASSUME DataInv, EventInv, NEW s \in Streams, NEW u \in UsrData \cup {Null},
         usr' = [usr EXCEPT ![s] = u], u # Null => u.fire, stack' \in Seq(Delivering)
  PROVE  EventInv'
BY DEF DataInv, EventInv

LEMMA FailEvents ==
  ASSUME DataInv, EventInv, NEW s \in Streams, Fail(s)
  PROVE  EventInv'
<1>1. CASE usr' = usr
  BY <1>1 DEF EventInv, Fail
<1>2. CASE usr' = [usr EXCEPT ![s] = Usr(s)]
  <2>1. usr \in [Streams -> UsrData \cup {Null}]
    BY DEF DataInv
  <2>2. PICK u : u = Usr(s)
    OBVIOUS
  <2>3. u \in UsrData /\ u.fire
    BY <2>1, <2>2, UsrIs DEF EventInv
  <2>4. usr' = [usr EXCEPT ![s] = u] /\ stack' \in Seq(Delivering)
    BY <1>2, <2>2 DEF EventInv, Fail
  <2> QED
    BY <2>3, <2>4, EventUpdate
<1> QED
  BY <1>1, <1>2 DEF Fail

LEMMA SetWordEvents ==
  ASSUME DataInv, EventInv, NEW s \in Streams, NEW k \in Kinds, NEW i \in Indices,
         NEW v \in Values \ {0}, SetWord(s, k, i, v)
  PROVE  EventInv'
<1>1. CASE Fail(s)
  BY <1>1, FailEvents
<1>2. CASE /\ usr' = [usr EXCEPT ![s] = [Usr(s) EXCEPT
                         !.words[k] = [Grown(@, i + 1) EXCEPT ![i + 1] = v]]]
           /\ UNCHANGED stack
  <2>1. usr \in [Streams -> UsrData \cup {Null}]
    BY DEF DataInv
  <2>2. PICK u : u = Usr(s)
    OBVIOUS
  <2>3. u \in UsrData /\ u.fire
    BY <2>1, <2>2, UsrIs DEF EventInv
  <2>4. PICK W : W = [u.words EXCEPT ![k] = [Grown(@, i + 1) EXCEPT ![i + 1] = v]]
    OBVIOUS
  <2>5. PICK u1 : u1 = [u EXCEPT !.words = W]
    OBVIOUS
  <2>6. u1.fire
    BY <2>3, <2>5 DEF UsrData
  <2>7. [u EXCEPT !.words[k] = [Grown(@, i + 1) EXCEPT ![i + 1] = v]] = u1
    BY <2>3, <2>4, <2>5 DEF UsrData
  <2>8. usr' = [usr EXCEPT ![s] = u1]
    BY <1>2, <2>2, <2>7
  <2>9. usr'[s] = u1 /\ \A x \in Streams : x # s => usr'[x] = usr[x]
    BY ONLY <2>1, <2>8
  <2> QED
    BY <1>2, <2>6, <2>9 DEF EventInv
<1> QED
  BY <1>1, <1>2 DEF SetWord

LEMMA RegisterCallbackEvents ==
  ASSUME DataInv, EventInv, NEW s \in Streams, NEW c \in Callbacks, RegisterCallback(s, c)
  PROVE  EventInv'
<1>1. CASE Fail(s)
  BY <1>1, FailEvents
<1>2. CASE /\ usr' = [usr EXCEPT ![s] = [Usr(s) EXCEPT !.cbs = Append(@, c)]]
           /\ stack' = Freed(stack, s)
  <2>1. usr \in [Streams -> UsrData \cup {Null}] /\ stack \in Seq(Delivering)
    BY DEF DataInv, EventInv
  <2>2. PICK u : u = Usr(s)
    OBVIOUS
  <2>3. u \in UsrData /\ u.fire
    BY <2>1, <2>2, UsrIs DEF EventInv
  <2>4. PICK b : b = Append(u.cbs, c)
    OBVIOUS
  <2>5. PICK u1 : u1 = [u EXCEPT !.cbs = b]
    OBVIOUS
  <2>6. u1.fire
    BY <2>3, <2>5 DEF UsrData
  <2>7. usr' = [usr EXCEPT ![s] = u1]
    BY <1>2, <2>2, <2>4, <2>5
  <2>8. usr'[s] = u1 /\ \A x \in Streams : x # s => usr'[x] = usr[x]
    BY ONLY <2>1, <2>7
  <2>9. stack' \in Seq(Delivering)
    BY <1>2, <2>1, FreedDelivering
  <2> QED
    BY <2>6, <2>8, <2>9 DEF EventInv
<1> QED
  BY <1>1, <1>2 DEF RegisterCallback

LEMMA TieEvents ==
  ASSUME ~TieFirst, DataInv, EventInv, NEW s \in Streams, NEW p \in Ties, Tie(s, p)
  PROVE  EventInv'
<1>1. usr \in [Streams -> UsrData \cup {Null}] /\ stack' \in Seq(Delivering)
  BY DEF DataInv, EventInv, Tie
<1>2. PICK u \in UsrData \cup {Null} : u = usr[s]
  BY <1>1
<1>3. PICK z : z = [u EXCEPT !.tie = p]
  OBVIOUS
<1>4. u = Null => p = None
  BY <1>2 DEF Tie
<1>5. PICK u1 : u1 = IF u = Null \/ (p = None /\ Bare(u)) THEN Null ELSE z
  OBVIOUS
<1>6. usr' = [usr EXCEPT ![s] = u1]
  BY <1>2, <1>3, <1>4, <1>5 DEF Tie
<1>7. u1 # Null => u1.fire
  <2>1. u # Null => u \in UsrData /\ u.fire
    BY <1>2 DEF EventInv
  <2>2. u # Null => z.fire
    BY <1>3, <2>1 DEF UsrData
  <2> QED
    BY <1>5, <2>2
<1>8. usr'[s] = u1 /\ \A x \in Streams : x # s => usr'[x] = usr[x]
  BY ONLY <1>1, <1>6
<1> QED
  BY <1>1, <1>7, <1>8 DEF EventInv

\* The data stays; the top call goes on, or ends, or there is one more.
LEMMA StackEvents ==
  ASSUME EventInv, UNCHANGED usr,
         \/ stack' = stack
         \/ stack # <<>> /\ stack' = Front(stack)
         \/ \E f \in Delivering : \/ stack' = Append(stack, f)
                                  \/ stack # <<>> /\ stack' = Front(stack) \o <<f>>
  PROVE  EventInv'
<1>1. stack \in Seq(Delivering)
  BY DEF EventInv
<1>2. stack' \in Seq(Delivering)
  <2>1. CASE stack' = stack
    BY <1>1, <2>1
  <2>2. CASE stack # <<>> /\ stack' = Front(stack)
    BY <1>1, <2>2, Popped
  <2>3. CASE \E f \in Delivering : stack' = Append(stack, f)
    BY <1>1, <2>3, Pushed
  <2>4. CASE stack # <<>> /\ \E f \in Delivering : stack' = Front(stack) \o <<f>>
    <3>1. PICK f \in Delivering : stack' = Front(stack) \o <<f>>
      BY <2>4
    <3> QED
      BY ONLY <1>1, <2>4, f \in Delivering, <3>1, Replaced
  <2> QED
    BY <2>1, <2>2, <2>3, <2>4
<1> QED
  BY <1>2 DEF EventInv

LEMMA ImbueEvents ==
  ASSUME EventInv, NEW s \in Streams, NEW f \in Formats, Imbue(s, f)
  PROVE  EventInv'
<1>1. PICK g : g = Frame("imbue", s, "fire", "imbue")
  OBVIOUS
<1>2. g \in Frames
  BY <1>1, FrameIs DEF Steps, Events
<1>3. g.pc = "fire" /\ g.made = <<>>
  BY <1>1 DEF Frame
<1>4. g \in Delivering
  BY <1>2, <1>3 DEF Delivering
<1>5. UNCHANGED usr /\ stack' = Append(stack, g)
  BY <1>1 DEF Imbue
<1> QED
  BY <1>4, <1>5, StackEvents

LEMMA CopyfmtEvents ==
  ASSUME DataInv, EventInv, NEW s \in Streams, NEW r \in Streams, Copyfmt(s, r)
  PROVE  EventInv'
<1>1. PICK c : c = Taken(r)
  OBVIOUS
<1>2. c \in Copies
  <2>1. usr[r] \in UsrData \cup {Null} /\ fmt[r] \in Formats /\ except[r] \in BOOLEAN
    BY DEF DataInv
  <2>2. want[r] = Shape(usr[r], fmt[r], except[r])
    BY DEF DataInv
  <2> QED
    BY <1>1, <2>1, <2>2 DEF Taken, Copies
<1>3. PICK p \in Steps : p = IF usr[s] = Null THEN "install" ELSE "fire"
  BY DEF Steps
<1>4. PICK h : h = Frame("copyfmt", s, p, "erase")
  OBVIOUS
<1>5. PICK g : g = [h EXCEPT !.copy = c]
  OBVIOUS
<1>6. g \in Frames
  BY <1>2, <1>4, <1>5, FrameIs DEF Events
<1>7. h \in Frames
  BY <1>4, FrameIs DEF Events
<1>8. h.pc = p /\ h.made = <<>>
  BY <1>4 DEF Frame
<1>9. g.pc = p /\ g.made = <<>>
  BY <1>5, <1>7, <1>8 DEF Frames
<1>10. g \in Delivering
  BY <1>3, <1>6, <1>9 DEF Delivering
<1>11. UNCHANGED usr /\ stack' = Append(stack, g)
  BY <1>1, <1>3, <1>4, <1>5 DEF Copyfmt, state
<1> QED
  BY <1>10, <1>11, StackEvents

LEMMA DestroyEvents ==
  ASSUME EventInv, NEW s \in Streams, Destroy(s)
  PROVE  EventInv'
<1>1. PICK g : g = Frame("dtor", s, "fire", "erase")
  OBVIOUS
<1>2. g \in Frames
  BY <1>1, FrameIs DEF Steps, Events
<1>3. g.pc = "fire" /\ g.made = <<>>
  BY <1>1 DEF Frame
<1>4. g \in Delivering
  BY <1>2, <1>3 DEF Delivering
<1>5. UNCHANGED usr /\ stack' = Append(stack, g)
  BY <1>1 DEF Destroy, state
<1> QED
  BY <1>4, <1>5, StackEvents

LEMMA TopDelivers ==
  ASSUME EventInv, stack # <<>>
  PROVE  /\ Top \in Delivering /\ Top \in Frames
         /\ Top.pc \in {"fire", "install"} => Top.made = <<>>
         /\ Top.pc \in {"calling", "inside"} => Top.due = Top.made \o Reverse(Top.todo)
         /\ Top.pc = "fired" => Top.lost \/ Top.made = Top.due
         /\ Top.made \in Seq(Callbacks) /\ Top.todo \in Seq(Callbacks)
<1>1. PICK f : f = Top
  OBVIOUS
<1>2. f \in Delivering
  BY <1>1, Popped DEF EventInv, Top
<1>3. /\ f \in Frames
      /\ f.pc \in {"fire", "install"} => f.made = <<>>
      /\ f.pc \in {"calling", "inside"} => f.due = f.made \o Reverse(f.todo)
      /\ f.pc = "fired" => f.lost \/ f.made = f.due
  BY <1>2 DEF Delivering
<1>4. f.made \in Seq(Callbacks) /\ f.todo \in Seq(Callbacks)
  BY <1>3 DEF Frames
<1> QED
  BY <1>1, <1>2, <1>3, <1>4

\* The callbacks that are due when an event is fired are those listed.
LEMMA FireEvents ==
  ASSUME DataInv, EventInv, Fire
  PROVE  EventInv'
<1>1. stack # <<>> /\ Top \in Frames /\ Top.s \in Streams /\ Top.pc = "fire"
  BY TopIs DEF Fire, At
<1>2. PICK f \in Frames : f = Top
  BY <1>1
<1>3. f.made = <<>>
  BY <1>1, <1>2, TopDelivers
<1>4. PICK a : a = Listed(f.s)
  OBVIOUS
<1>5. a \in Seq(Callbacks) /\ want[f.s].cbs = a
  <2>1. /\ usr[f.s] \in UsrData \cup {Null}
        /\ want[f.s] = Shape(usr[f.s], fmt[f.s], except[f.s])
        /\ usr[f.s] # Null => usr[f.s].fire
    BY <1>1, <1>2 DEF DataInv, EventInv
  <2>2. CASE usr[f.s] = Null
    BY <1>4, <2>1, <2>2 DEF Shape, Listed
  <2>3. CASE usr[f.s] # Null
    <3>1. a = usr[f.s].cbs /\ usr[f.s] \in UsrData
      BY <1>4, <2>1, <2>3 DEF Listed
    <3> QED
      BY <2>1, <2>3, <3>1 DEF Shape, UsrData
  <2> QED
    BY <2>2, <2>3
<1>6. PICK b : b = Reverse(a)
  OBVIOUS
<1>7. b \in Seq(Callbacks) /\ (a = <<>> => b = <<>>)
  BY <1>5, <1>6, ReverseIs
<1>8. PICK l \in BOOLEAN : l = (f.op = "dtor")
  OBVIOUS
<1>9. PICK p \in Steps : p = IF a = <<>> THEN "fired" ELSE "calling"
  BY DEF Steps
<1>10. PICK g : g = [f EXCEPT !.todo = a, !.due = b, !.live = l, !.pc = p]
  OBVIOUS
<1>11. g \in Frames /\ g.pc = p /\ g.made = <<>> /\ g.due = b /\ g.todo = a
  BY <1>3, <1>5, <1>7, <1>10 DEF Frames
<1>12. g \in Delivering
  <2>1. b = <<>> \o Reverse(a)
    BY <1>6, <1>7
  <2>2. p # "fire" /\ p # "install" /\ (p = "fired" => b = <<>>)
    BY <1>7, <1>9
  <2> QED
    BY <1>11, <2>1, <2>2 DEF Delivering
<1>13. stack' = Front(stack) \o <<g>> /\ UNCHANGED usr
  BY <1>2, <1>4, <1>5, <1>6, <1>8, <1>9, <1>10 DEF Fire, Up, Start, state
<1> QED
  BY <1>1, <1>12, <1>13, StackEvents

LEMMA FireFailEvents ==
  ASSUME DataInv, EventInv, FireFail
  PROVE  EventInv'
<1>1. stack # <<>> /\ Top \in Frames
  BY TopIs DEF FireFail, At
<1>2. CASE stack' = Front(stack)
  BY <1>1, <1>2, StackEvents DEF FireFail
<1>3. CASE Up([Top EXCEPT !.lost = TRUE, !.pc = "fired"])
  <2>1. PICK f \in Frames : f = Top
    BY <1>1
  <2>2. PICK b \in BOOLEAN : b = TRUE
    OBVIOUS
  <2>3. PICK g : g = [f EXCEPT !.lost = b, !.pc = "fired"]
    OBVIOUS
  <2>4. g \in Frames /\ g.pc = "fired" /\ g.lost = b
    BY <2>3 DEF Frames, Steps
  <2>5. g \in Delivering
    BY <2>2, <2>4 DEF Delivering
  <2>6. stack' = Front(stack) \o <<g>> /\ UNCHANGED usr
    BY <1>3, <2>1, <2>2, <2>3 DEF FireFail, Up
  <2> QED
    BY <1>1, <2>5, <2>6, StackEvents
<1> QED
  BY <1>2, <1>3 DEF FireFail

LEMMA CallEvents ==
  ASSUME EventInv, Call
  PROVE  EventInv'
<1>1. stack # <<>> /\ Top \in Frames /\ Top.pc = "calling" /\ Top.todo # <<>>
  BY TopDelivers DEF Call, At
<1>2. PICK f \in Frames : f = Top
  BY <1>1
<1>3. /\ f.todo \in Seq(Callbacks) /\ f.made \in Seq(Callbacks) /\ f.todo # <<>>
      /\ f.due = f.made \o Reverse(f.todo)
  BY <1>1, <1>2, TopDelivers
<1>4. PICK a : a = Front(f.todo)
  OBVIOUS
<1>5. PICK b : b = Append(f.made, Last(f.todo))
  OBVIOUS
<1>6. a \in Seq(Callbacks) /\ b \in Seq(Callbacks)
  BY <1>3, <1>4, <1>5, Popped
<1>7. f.due = b \o Reverse(a)
  BY <1>3, <1>4, <1>5, ReverseEnds
<1>8. PICK g : g = [f EXCEPT !.todo = a, !.made = b, !.pc = "inside"]
  OBVIOUS
<1>9. /\ g \in Frames /\ g.pc = "inside" /\ g.made = b /\ g.todo = a /\ g.due = f.due
  BY <1>6, <1>8 DEF Frames, Steps
<1>10. g \in Delivering
  BY <1>7, <1>9 DEF Delivering
<1>11. stack' = Front(stack) \o <<g>> /\ UNCHANGED usr
  BY <1>2, <1>4, <1>5, <1>8 DEF Call, Up, state
<1> QED
  BY <1>1, <1>10, <1>11, StackEvents

LEMMA CallbackReturnsEvents ==
  ASSUME EventInv, CallbackReturns
  PROVE  EventInv'
<1>1. stack # <<>> /\ Top \in Frames /\ Top.pc = "inside"
  BY TopDelivers DEF CallbackReturns, At
<1>2. PICK f \in Frames : f = Top
  BY <1>1
<1>3. f.due = f.made \o Reverse(f.todo)
  BY <1>1, <1>2, TopDelivers
<1>4. PICK g : g = [f EXCEPT !.pc = "calling"]
  OBVIOUS
<1>5. /\ g \in Frames /\ g.pc = "calling" /\ g.made = f.made /\ g.todo = f.todo
      /\ g.due = f.due
  BY <1>4 DEF Frames, Steps
<1>6. g \in Delivering
  BY <1>3, <1>5 DEF Delivering
<1>7. stack' = Front(stack) \o <<g>> /\ UNCHANGED usr
  BY <1>2, <1>4 DEF CallbackReturns, Up, state
<1> QED
  BY <1>1, <1>6, <1>7, StackEvents

LEMMA AllCalledEvents ==
  ASSUME EventInv, AllCalled
  PROVE  EventInv'
<1>1. stack # <<>> /\ Top \in Frames /\ Top.pc = "calling" /\ Top.todo = <<>>
  BY TopDelivers DEF AllCalled, At
<1>2. PICK f \in Frames : f = Top
  BY <1>1
<1>3. f.due = f.made
  <2>1. f.due = f.made \o Reverse(f.todo) /\ f.todo = <<>> /\ f.made \in Seq(Callbacks)
        /\ f.todo \in Seq(Callbacks) /\ Len(f.todo) = 0
    BY <1>1, <1>2, TopDelivers
  <2>2. PICK r : r = Reverse(f.todo)
    OBVIOUS
  <2>3. r \in Seq(Callbacks) /\ Len(r) = 0
    BY <2>1, <2>2, ReverseIs
  <2> QED
    BY <2>1, <2>2, <2>3
<1>4. PICK g : g = [f EXCEPT !.pc = "fired"]
  OBVIOUS
<1>5. g \in Frames /\ g.pc = "fired" /\ g.made = f.made /\ g.due = f.due
  BY <1>4 DEF Frames, Steps
<1>6. g \in Delivering
  BY <1>3, <1>5 DEF Delivering
<1>7. stack' = Front(stack) \o <<g>> /\ UNCHANGED usr
  BY <1>2, <1>4 DEF AllCalled, Up, state
<1> QED
  BY <1>1, <1>6, <1>7, StackEvents

LEMMA InstallEvents ==
  ASSUME DataInv, EventInv, Install
  PROVE  EventInv'
<1>1. stack # <<>> /\ Top.op = "copyfmt"
  BY DEF Install
<1>2. Top \in Frames /\ Top.s \in Streams /\ Top.copy \in Copies
  BY <1>1, TopIs
<1>3. PICK s \in Streams, c \in Copies : s = Top.s /\ c = Top.copy
  BY <1>2
<1>4. PICK u : u = c.usr
  OBVIOUS
<1>5. PICK b \in BOOLEAN : b = TRUE
  OBVIOUS
<1>6. PICK u1 : u1 = IF u # Null /\ (u.tie # None \/ ~Bare(u))
                     THEN [u EXCEPT !.fire = b] ELSE Null
  OBVIOUS
<1>7. PICK h : h = Frame("copyfmt", s, "fire", "copyfmt")
  OBVIOUS
<1>8. PICK g : g = [h EXCEPT !.copy = c]
  OBVIOUS
<1>9. PICK st : st = Front(stack)
  OBVIOUS
<1>10. /\ usr' = [usr EXCEPT ![s] = u1]
       /\ stack' = Freed(st, s) \o <<g>>
  BY <1>3, <1>4, <1>5, <1>6, <1>7, <1>8, <1>9 DEF Install
<1>11. u \in UsrData \cup {Null}
  BY <1>4, CopyIs
<1>12. u1 # Null => u1.fire
  <2>1. ASSUME u1 # Null PROVE u1.fire = b
    <3>1. u \in UsrData /\ u1 = [u EXCEPT !.fire = b]
      BY <1>6, <1>11, <2>1
    <3> QED
      BY <3>1 DEF UsrData
  <2> QED
    BY <1>5, <2>1
<1>13. usr'[s] = u1 /\ \A x \in Streams : x # s => usr'[x] = usr[x]
  BY <1>10 DEF DataInv
<1>14. g \in Delivering
  <2>1. h \in Frames /\ g \in Frames
    BY <1>7, <1>8, FrameIs DEF Steps, Events
  <2>2. h.pc = "fire" /\ h.made = <<>>
    BY <1>7 DEF Frame
  <2>3. g.pc = "fire" /\ g.made = <<>>
    BY <1>8, <2>1, <2>2 DEF Frames
  <2> QED
    BY <2>1, <2>3 DEF Delivering
<1>15. stack' \in Seq(Delivering)
  <2>1. stack \in Seq(Delivering)
    BY DEF EventInv
  <2>2. st \in Seq(Delivering)
    BY <1>1, <1>9, <2>1, Popped
  <2>3. Freed(st, s) \in Seq(Delivering) /\ <<g>> \in Seq(Delivering)
    BY <1>14, <2>2, FreedDelivering
  <2> QED
    BY <1>10, <2>3, ConcatProperties
<1> QED
  BY <1>12, <1>13, <1>15 DEF EventInv

LEMMA DestroyedEvents ==
  ASSUME DataInv, EventInv, Destroyed
  PROVE  EventInv'
<1>1. stack # <<>> /\ stack \in Seq(Delivering)
  BY DEF Destroyed, At, EventInv
<1>2. PICK s \in Streams : s = Top.s
  BY <1>1, TopIs
<1>3. stack' \in Seq(Delivering)
  BY <1>1, Popped DEF Destroyed
<1>4. usr' = [usr EXCEPT ![s] = Null]
  BY <1>2 DEF Destroyed
<1>5. usr'[s] = Null /\ \A x \in Streams : x # s => usr'[x] = usr[x]
  BY <1>4 DEF DataInv
<1> QED
  BY <1>3, <1>5 DEF EventInv

LEMMA StepEvents ==
  ASSUME ~TieFirst, DataInv, EventInv, [Next]_vars
  PROVE  EventInv'
<1>1. CASE UNCHANGED vars
  BY <1>1, StackEvents DEF vars, state
<1>2. CASE \E s \in Streams :
             \/ \E k \in Kinds, i \in Indices, v \in Values \ {0} : SetWord(s, k, i, v)
             \/ \E c \in Callbacks : RegisterCallback(s, c)
             \/ \E p \in Ties : Tie(s, p)
             \/ \E f \in Formats : Imbue(s, f)
             \/ \E r \in Streams : Copyfmt(s, r)
             \/ Destroy(s)
  BY <1>2, SetWordEvents, RegisterCallbackEvents, TieEvents, ImbueEvents, CopyfmtEvents,
     DestroyEvents
<1>3. CASE \E s \in Streams : Construct(s) \/ \E e \in BOOLEAN : Exceptions(s, e)
  BY <1>3, StackEvents DEF Construct, Exceptions
<1>4. CASE CallbackThrows \/ Return
  BY <1>4, StackEvents DEF CallbackThrows, Return, At
<1>5. CASE Fire \/ FireFail \/ Call \/ CallbackReturns \/ AllCalled \/ Install \/ Destroyed
  BY <1>5, FireEvents, FireFailEvents, CallEvents, CallbackReturnsEvents,
     AllCalledEvents, InstallEvents, DestroyedEvents
<1> QED
  BY <1>1, <1>2, <1>3, <1>4, <1>5 DEF Next

\* If no stream is tied before it has user data, an event of imbue(), copyfmt()
\* or the destructor calls every callback registered when it is fired, in the
\* opposite order, or is lost for want of memory, however the callbacks change
\* what is registered (ios_base::_C_fire_event, iostore.cpp:147-206).
THEOREM EventsDeliveredAlways ==
  ASSUME ~TieFirst
  PROVE  Spec => []EventsDelivered
<1>1. DataInv /\ EventInv /\ [Next]_vars => EventInv'
  BY StepEvents
<1>2. EventInv => EventsDelivered
  BY TopDelivers DEF EventsDelivered, At
<1> QED
  BY <1>1, <1>2, InitEvents, DataInvAlways, PTL DEF Spec

-----------------------------------------------------------------------------
(* What a call read before its callbacks ran.  While none of them copies   *)
(* to a stream being copied to, nor registers one in a destructor, the     *)
(* array that a destructor calls them out of is not freed, and copyfmt()   *)
(* finds the data it left; and calls within calls wait inside callbacks,   *)
(* so that only the top one has a stream locked.                           *)

Calm == {f \in Frames : ~f.stale /\ (f.live => f.op = "dtor")}

\* a call of copyfmt() has data whose erase event it fires, with callbacks if
\* it has called some
Keeps(f, u) ==
    f.op = "copyfmt" /\ f.ev = "erase" /\ f.pc # "install" =>
        u # Null /\ (f.pc \in {"calling", "inside"} => u.cbs # <<>>)

LockOf(f) == IF f.pc \in {"calling", "inside"} \/ f.op = "dtor" THEN {}
             ELSE {f.s} \cap Locked

Running(st, u, h) ==
    /\ st \in Seq(Calm)
    /\ \A i \in 1 .. Len(st) - 1 : st[i].pc = "inside"
    /\ \A i, j \in 1 .. Len(st) :
          i < j /\ st[i].s = st[j].s /\ st[j].op # "imbue" => st[i].op = "imbue"
    /\ \A i \in 1 .. Len(st) : Keeps(st[i], u[st[i].s])
    /\ h = IF st = <<>> THEN {} ELSE LockOf(Last(st))

RunInv == Running(stack, usr, held)

LEMMA InitRun == Init => RunInv
BY DEF Init, RunInv, Running

\* A call begins.
LEMMA RunPush ==
  ASSUME NEW st, NEW u, NEW h, Running(st, u, h), st # <<>> => Last(st).pc = "inside",
         NEW g \in Calm, Keeps(g, u[g.s]),
         g.op # "imbue" => \A i \in 1 .. Len(st) : st[i].s = g.s => st[i].op = "imbue"
  PROVE  Running(Append(st, g), u, LockOf(g))
<1>1. PICK n \in Nat : n = Len(st) /\ st \in Seq(Calm)
  BY DEF Running
<1>2. PICK t : t = Append(st, g)
  OBVIOUS
<1>3. /\ t \in Seq(Calm) /\ Len(t) = n + 1 /\ t # <<>> /\ Last(t) = g
      /\ \A i \in 1 .. n : t[i] = st[i]
      /\ t[n + 1] = g
  BY <1>1, <1>2, Pushed
<1>4. ASSUME NEW i \in 1 .. Len(t) - 1 PROVE t[i].pc = "inside"
  <2>1. i \in 1 .. n /\ t[i] = st[i] /\ st # <<>>
    BY <1>1, <1>3
  <2>2. CASE i < n
    BY <1>1, <2>1, <2>2 DEF Running
  <2>3. CASE i = n
    BY <1>1, <2>1, <2>3 DEF Last
  <2> QED
    BY <2>1, <2>2, <2>3
<1>5. ASSUME NEW i \in 1 .. Len(t), NEW j \in 1 .. Len(t), i < j, t[i].s = t[j].s,
             t[j].op # "imbue"
      PROVE  t[i].op = "imbue"
  <2>1. i \in 1 .. n /\ t[i] = st[i]
    BY <1>3, <1>5
  <2>2. CASE j = n + 1
    BY <1>1, <1>3, <1>5, <2>1, <2>2
  <2>3. CASE j \in 1 .. n
    <3>1. t[j] = st[j]
      BY <1>3, <2>3
    <3> QED
      BY <1>1, <1>5, <2>1, <2>3, <3>1 DEF Running
  <2> QED
    BY <1>3, <2>2, <2>3
<1>6. ASSUME NEW i \in 1 .. Len(t) PROVE Keeps(t[i], u[t[i].s])
  <2>1. CASE i = n + 1
    BY <1>3, <2>1
  <2>2. CASE i \in 1 .. n
    <3>1. Keeps(st[i], u[st[i].s]) /\ t[i] = st[i]
      BY <1>1, <1>3, <2>2 DEF Running
    <3> QED
      BY <3>1
  <2> QED
    BY <1>3, <2>1, <2>2
<1> QED
  BY <1>2, <1>3, <1>4, <1>5, <1>6 DEF Running

\* The top call ends, whatever it did to the data of its stream.
LEMMA RunPop ==
  ASSUME NEW st, NEW u, NEW h, Running(st, u, h), st # <<>>, NEW v,
         \A i \in 1 .. Len(st) - 1 : st[i].op = "imbue" \/ v[st[i].s] = u[st[i].s]
  PROVE  Running(Front(st), v, {})
<1>1. PICK n \in Nat \ {0} : n = Len(st) /\ st \in Seq(Calm)
  BY DEF Running
<1>2. PICK t : t = Front(st)
  OBVIOUS
<1>3. t \in Seq(Calm) /\ Len(t) = n - 1 /\ \A i \in 1 .. n - 1 : t[i] = st[i]
  BY <1>1, <1>2, Popped
<1>4. \A i \in 1 .. Len(t) : t[i].pc = "inside"
  BY <1>1, <1>3 DEF Running
<1>5. \A i, j \in 1 .. Len(t) :
          i < j /\ t[i].s = t[j].s /\ t[j].op # "imbue" => t[i].op = "imbue"
  BY <1>1, <1>3 DEF Running
<1>6. ASSUME NEW i \in 1 .. Len(t) PROVE Keeps(t[i], v[t[i].s])
  <2>1. t[i] = st[i] /\ Keeps(st[i], u[st[i].s])
        /\ (st[i].op = "imbue" \/ v[st[i].s] = u[st[i].s])
    BY <1>1, <1>3 DEF Running
  <2>2. CASE st[i].op = "imbue"
    BY <2>1, <2>2 DEF Keeps
  <2>3. CASE v[st[i].s] = u[st[i].s]
    BY <2>1, <2>3
  <2> QED
    BY <2>1, <2>2, <2>3
<1>7. t # <<>> => LockOf(Last(t)) = {}
  <2>1. ASSUME t # <<>> PROVE Last(t).pc = "inside"
    BY <1>3, <1>4, <2>1 DEF Last
  <2> QED
    BY <2>1 DEF LockOf
<1>8. \A i \in 1 .. Len(t) - 1 : t[i].pc = "inside"
  BY <1>3, <1>4
<1> QED
  BY <1>2, <1>3, <1>5, <1>6, <1>7, <1>8 DEF Running

\* The top call goes on.
LEMMA RunOn ==
  ASSUME NEW st, NEW u, NEW h, Running(st, u, h), st # <<>>, NEW v,
         \A i \in 1 .. Len(st) - 1 : st[i].op = "imbue" \/ v[st[i].s] = u[st[i].s],
         NEW g \in Calm, g.op = Last(st).op, g.s = Last(st).s, Keeps(g, v[g.s])
  PROVE  Running(Front(st) \o <<g>>, v, LockOf(g))
<1>1. PICK n \in Nat \ {0} : n = Len(st) /\ st \in Seq(Calm)
  BY DEF Running
<1>2. PICK t : t = Front(st)
  OBVIOUS
<1>3. t \in Seq(Calm) /\ Len(t) = n - 1 /\ \A i \in 1 .. n - 1 : t[i] = st[i]
  BY <1>1, <1>2, Popped
<1>4. Running(t, v, {})
  BY <1>2, RunPop
<1>5. t # <<>> => Last(t).pc = "inside"
  BY <1>1, <1>3 DEF Running, Last
<1>6. ASSUME g.op # "imbue", NEW i \in 1 .. Len(t), t[i].s = g.s
      PROVE  t[i].op = "imbue"
  <2>1. Last(st) = st[n] /\ n \in 1 .. n /\ i \in 1 .. n /\ i < n /\ t[i] = st[i]
    BY <1>1, <1>3 DEF Last
  <2> QED
    BY <1>1, <1>6, <2>1 DEF Running
<1>7. Running(Append(t, g), v, LockOf(g))
  BY <1>4, <1>5, <1>6, RunPush
<1>8. t \o <<g>> = Append(t, g)
  BY <1>3, AppendIsConcat
<1> QED
  BY <1>2, <1>7, <1>8

\* The data of a stream changes, and the calls in progress stay.
LEMMA RunData ==
  ASSUME NEW st, NEW u, NEW h, Running(st, u, h), NEW v,
         \A i \in 1 .. Len(st) : Keeps(st[i], u[st[i].s]) => Keeps(st[i], v[st[i].s])
  PROVE  Running(st, v, h)
BY DEF Running

\* Nothing reads the array of a stream but its destructor.
LEMMA NotFreed ==
  ASSUME NEW st \in Seq(Calm), NEW s,
         \A i \in 1 .. Len(st) : st[i].s = s => st[i].op # "dtor"
  PROVE  Freed(st, s) = st
<1>1. \A i \in 1 .. Len(st) : st[i] \in Calm
  OBVIOUS
<1>2. \A i \in 1 .. Len(st) : st[i] \in Frames /\ ~(st[i].live /\ st[i].s = s)
  BY <1>1 DEF Calm
<1>3. st \in Seq(Frames)
  BY <1>2, SeqAmong
<1>4. PICK t : t = Freed(st, s)
  OBVIOUS
<1>5. t \in Seq(Frames) /\ Len(t) = Len(st) /\ \A i \in 1 .. Len(st) : t[i] = st[i]
  BY <1>2, <1>3, <1>4, FreedIs
<1>6. t = st
  BY ONLY <1>3, <1>5, SeqEqual
<1> QED
  BY <1>4, <1>6

LEMMA AllInside ==
  ASSUME RunInv, stack # <<>> => Top.pc = "inside"
  PROVE  held = {} /\ \A i \in 1 .. Len(stack) : stack[i].pc = "inside"
<1>1. stack \in Seq(Calm) /\ \A i \in 1 .. Len(stack) - 1 : stack[i].pc = "inside"
  BY DEF RunInv, Running
<1>2. held = {}
  BY DEF RunInv, Running, LockOf, Top
<1>3. ASSUME NEW i \in 1 .. Len(stack) PROVE stack[i].pc = "inside"
  <2>1. CASE i = Len(stack)
    <3>1. stack # <<>> /\ Top = stack[i]
      BY <1>1, <2>1 DEF Top, Last
    <3> QED
      BY <3>1
  <2>2. CASE i # Len(stack)
    BY <1>1, <2>2
  <2> QED
    BY <2>1, <2>2
<1> QED
  BY <1>2, <1>3

LEMMA MemberRun ==
  ASSUME DataInv, RunInv, NEW s \in Streams, MayCall(s), NEW u1,
         usr' = [usr EXCEPT ![s] = u1], UNCHANGED <<stack, held>>,
         usr[s] # Null /\ usr[s].cbs # <<>> => u1 # Null /\ u1.cbs # <<>>
  PROVE  RunInv'
<1>1. \A i \in 1 .. Len(stack) : stack[i].pc = "inside"
  BY AllInside DEF MayCall
<1>2. usr'[s] = u1 /\ \A x \in Streams : x # s => usr'[x] = usr[x]
  BY DEF DataInv
<1>3. ASSUME NEW i \in 1 .. Len(stack), Keeps(stack[i], usr[stack[i].s])
      PROVE  Keeps(stack[i], usr'[stack[i].s])
  <2>1. stack[i].s \in Streams /\ stack[i].pc = "inside"
    <3>1. stack[i] \in Frames
      BY DEF DataInv
    <3> QED
      BY <1>1, <3>1 DEF Frames
  <2>2. CASE stack[i].s = s
    BY <1>2, <1>3, <2>1, <2>2 DEF Keeps
  <2>3. CASE stack[i].s # s
    BY <1>2, <1>3, <2>1, <2>3
  <2> QED
    BY <2>2, <2>3
<1>4. Running(stack, usr', held)
  BY <1>3, RunData DEF RunInv
<1> QED
  BY <1>4 DEF RunInv

LEMMA FailRun ==
  ASSUME DataInv, RunInv, NEW s \in Streams, MayCall(s), Fail(s)
  PROVE  RunInv'
<1>1. CASE usr' = usr
  BY <1>1 DEF RunInv, Fail
<1>2. CASE usr' = [usr EXCEPT ![s] = Usr(s)]
  <2>1. usr[s] # Null => Usr(s) = usr[s]
    BY DEF Usr
  <2> QED
    BY <1>2, <2>1, MemberRun DEF Fail
<1> QED
  BY <1>1, <1>2 DEF Fail

LEMMA SetWordRun ==
  ASSUME DataInv, RunInv, NEW s \in Streams, NEW k \in Kinds, NEW i \in Indices,
         NEW v \in Values \ {0}, SetWord(s, k, i, v)
  PROVE  RunInv'
<1>1. CASE Fail(s)
  BY <1>1, FailRun DEF SetWord
<1>2. CASE /\ i >= 0
           /\ usr' = [usr EXCEPT ![s] = [Usr(s) EXCEPT
                         !.words[k] = [Grown(@, i + 1) EXCEPT ![i + 1] = v]]]
           /\ UNCHANGED <<held, stack>>
  <2>1. usr \in [Streams -> UsrData \cup {Null}]
    BY DEF DataInv
  <2>2. PICK u : u = Usr(s)
    OBVIOUS
  <2>3. u \in UsrData /\ (usr[s] # Null => u = usr[s])
    BY <2>1, <2>2, UsrIs
  <2>4. PICK u1 : u1 = [tie |-> u.tie, words |-> [u.words EXCEPT ![k] = WithWord(@, i, v)],
                        cbs |-> u.cbs, fire |-> u.fire]
    OBVIOUS
  <2>5. u1 \in UsrData /\ u1.cbs = u.cbs
    <3>1. i \in Natural /\ v \in Values
      BY <1>2, IosStoreAssumption DEF Natural
    <3> QED
      BY <2>3, <2>4, <3>1, WordStored
  <2>6. u1 = [u EXCEPT !.words[k] = WithWord(@, i, v)]
    <3>1. PICK W : W = [u.words EXCEPT ![k] = WithWord(@, i, v)]
      OBVIOUS
    <3>2. [u EXCEPT !.words[k] = WithWord(@, i, v)] = [u EXCEPT !.words = W]
      BY <2>3, <3>1 DEF UsrData
    <3>3. [u EXCEPT !.words = W] = [tie |-> u.tie, words |-> W, cbs |-> u.cbs,
                                    fire |-> u.fire]
      BY <2>3 DEF UsrData
    <3> QED
      BY <2>4, <3>1, <3>2, <3>3
  <2>7. usr' = [usr EXCEPT ![s] = u1]
    BY <1>2, <2>2, <2>6 DEF WithWord
  <2>8. MayCall(s) /\ u1 # Null
    BY <2>5, UsrDataIs DEF SetWord
  <2>9. usr[s] # Null /\ usr[s].cbs # <<>> => u1 # Null /\ u1.cbs # <<>>
    BY <2>3, <2>5, <2>8
  <2> QED
    BY <1>2, <2>7, <2>8, <2>9, MemberRun
<1> QED
  BY <1>1, <1>2 DEF SetWord

LEMMA RegisterCallbackRun ==
  ASSUME ~RegisterInDtor, DataInv, RunInv, NEW s \in Streams, NEW c \in Callbacks,
         RegisterCallback(s, c)
  PROVE  RunInv'
<1>1. CASE Fail(s)
  BY <1>1, FailRun DEF RegisterCallback
<1>2. CASE /\ usr' = [usr EXCEPT ![s] = [Usr(s) EXCEPT !.cbs = Append(@, c)]]
           /\ stack' = Freed(stack, s)
           /\ UNCHANGED held
  <2>1. usr \in [Streams -> UsrData \cup {Null}]
    BY DEF DataInv
  <2>2. stack' = stack
    <3>1. stack \in Seq(Calm)
      BY DEF RunInv, Running
    <3>2. \A i \in 1 .. Len(stack) : stack[i].s = s => stack[i].op # "dtor"
      BY <3>1 DEF RegisterCallback, Within
    <3> QED
      BY <1>2, <3>1, <3>2, NotFreed
  <2>3. PICK u : u = Usr(s)
    OBVIOUS
  <2>4. u \in UsrData
    BY <2>1, <2>3, UsrIs
  <2>5. PICK b : b = Append(u.cbs, c)
    OBVIOUS
  <2>6. b \in Seq(Callbacks) /\ b # <<>>
    BY <2>4, <2>5, Pushed DEF UsrData
  <2>7. PICK u1 : u1 = [u EXCEPT !.cbs = b]
    OBVIOUS
  <2>8. u1 \in UsrData /\ u1.cbs = b
    BY <2>4, <2>6, <2>7 DEF UsrData
  <2>9. u1 # Null /\ u1.cbs # <<>>
    BY <2>6, <2>8, UsrDataIs
  <2>10. usr' = [usr EXCEPT ![s] = u1]
    BY <1>2, <2>3, <2>5, <2>7
  <2>11. MayCall(s) /\ UNCHANGED <<stack, held>>
    BY <1>2, <2>2 DEF RegisterCallback
  <2> QED
    BY <2>9, <2>10, <2>11, MemberRun
<1> QED
  BY <1>1, <1>2 DEF RegisterCallback

LEMMA TieRun ==
  ASSUME DataInv, RunInv, NEW s \in Streams, NEW p \in Ties, Tie(s, p)
  PROVE  RunInv'
<1>1. usr \in [Streams -> UsrData \cup {Null}]
  BY DEF DataInv
<1>2. PICK u \in UsrData \cup {Null} : u = usr[s]
  BY <1>1
<1>3. PICK u1 : u1 = IF u = Null
                     THEN IF p = None THEN Null ELSE [Usr0(FALSE) EXCEPT !.tie = p]
                     ELSE IF p = None /\ Bare(u) THEN Null
                     ELSE [u EXCEPT !.tie = p]
  OBVIOUS
<1>4. usr' = [usr EXCEPT ![s] = u1]
  BY <1>2, <1>3 DEF Tie
<1>5. u # Null /\ u.cbs # <<>> => u1 # Null /\ u1.cbs # <<>>
  <2>1. ASSUME u # Null, u.cbs # <<>> PROVE u1 # Null /\ u1.cbs # <<>>
    <3>1. u \in UsrData /\ ~Bare(u)
      BY <2>1 DEF Bare
    <3>2. u1 = [u EXCEPT !.tie = p]
      BY <1>3, <2>1, <3>1
    <3>3. u1 \in UsrData /\ u1.cbs = u.cbs
      BY <3>1, <3>2 DEF UsrData
    <3> QED
      BY <2>1, <3>3, UsrDataIs
  <2> QED
    BY <2>1
<1>6. MayCall(s) /\ UNCHANGED <<stack, held>>
  BY DEF Tie
<1> QED
  BY <1>2, <1>4, <1>5, <1>6, MemberRun

\* A call that fires events begins.
LEMMA BeginRun ==
  ASSUME DataInv, RunInv, NEW s \in Streams, MayCall(s), NEW g \in Calm, g.s = s,
         g.op # "imbue" => \A i \in 1 .. Len(stack) : stack[i].s = s => stack[i].op = "imbue",
         Keeps(g, usr[s]), UNCHANGED usr, stack' = Append(stack, g), held' = LockOf(g)
  PROVE  RunInv'
<1>1. Running(stack, usr, held) /\ (stack # <<>> => Last(stack).pc = "inside")
  BY DEF RunInv, MayCall, Top
<1>2. Running(Append(stack, g), usr, LockOf(g))
  BY <1>1, RunPush
<1> QED
  BY <1>2 DEF RunInv

LEMMA ImbueRun ==
  ASSUME DataInv, RunInv, NEW s \in Streams, NEW f \in Formats, Imbue(s, f)
  PROVE  RunInv'
<1>1. PICK g : g = Frame("imbue", s, "fire", "imbue")
  OBVIOUS
<1>2. g \in Frames
  BY <1>1, FrameIs DEF Steps, Events
<1>3. g.pc = "fire" /\ g.op = "imbue" /\ g.s = s /\ ~g.stale /\ ~g.live
  BY <1>1 DEF Frame
<1>4. g \in Calm /\ Keeps(g, usr[s]) /\ LockOf(g) = {s} \cap Locked
  BY <1>2, <1>3 DEF Calm, Keeps, LockOf
<1>5. MayCall(s) /\ UNCHANGED usr /\ stack' = Append(stack, g)
      /\ held' = held \cup ({s} \cap Locked)
  BY <1>1 DEF Imbue, MayRun, Lock
<1>6. held = {}
  BY <1>5, AllInside DEF MayCall
<1> QED
  BY <1>3, <1>4, <1>5, <1>6, BeginRun

LEMMA CopyfmtRun ==
  ASSUME ~CopyWithin, DataInv, RunInv, NEW s \in Streams, NEW r \in Streams, Copyfmt(s, r)
  PROVE  RunInv'
<1>1. PICK c : c = Taken(r)
  OBVIOUS
<1>2. c \in Copies
  <2>1. usr[r] \in UsrData \cup {Null} /\ fmt[r] \in Formats /\ except[r] \in BOOLEAN
    BY DEF DataInv
  <2>2. want[r] = Shape(usr[r], fmt[r], except[r])
    BY DEF DataInv
  <2> QED
    BY <1>1, <2>1, <2>2 DEF Taken, Copies
<1>3. PICK p \in Steps : p = IF usr[s] = Null THEN "install" ELSE "fire"
  BY DEF Steps
<1>4. PICK h : h = Frame("copyfmt", s, p, "erase")
  OBVIOUS
<1>5. PICK g : g = [h EXCEPT !.copy = c]
  OBVIOUS
<1>6. h \in Frames /\ g \in Frames
  BY <1>2, <1>4, <1>5, FrameIs DEF Events
<1>7. h.pc = p /\ h.op = "copyfmt" /\ h.s = s /\ ~h.stale /\ ~h.live /\ h.ev = "erase"
  BY <1>4 DEF Frame
<1>8. g.pc = p /\ g.op = "copyfmt" /\ g.s = s /\ ~g.stale /\ ~g.live /\ g.ev = "erase"
  BY <1>5, <1>6, <1>7 DEF Frames
<1>9. g \in Calm /\ Keeps(g, usr[s]) /\ LockOf(g) = {s} \cap Locked
  BY <1>3, <1>6, <1>8 DEF Calm, Keeps, LockOf
<1>10. MayCall(s) /\ UNCHANGED usr /\ stack' = Append(stack, g)
      /\ held' = held \cup ({s} \cap Locked)
  BY <1>1, <1>3, <1>4, <1>5 DEF Copyfmt, MayRun, Lock, state
<1>11. held = {}
  BY <1>10, AllInside DEF MayCall
<1>12. ASSUME NEW i \in 1 .. Len(stack), stack[i].s = s PROVE stack[i].op = "imbue"
  <2>1. stack \in Seq(Frames) /\ stack[i] \in Frames
    BY DEF DataInv
  <2>2. ~Within("copyfmt", s) /\ ~Within("dtor", s)
    BY DEF Copyfmt
  <2>3. stack[i].op # "copyfmt" /\ stack[i].op # "dtor"
    BY <1>12, <2>1, <2>2 DEF Within
  <2> QED
    BY <2>1, <2>3 DEF Frames
<1> QED
  BY <1>8, <1>9, <1>10, <1>11, <1>12, BeginRun

LEMMA DestroyRun ==
  ASSUME DataInv, RunInv, NEW s \in Streams, Destroy(s)
  PROVE  RunInv'
<1>1. PICK g : g = Frame("dtor", s, "fire", "erase")
  OBVIOUS
<1>2. g \in Frames
  BY <1>1, FrameIs DEF Steps, Events
<1>3. g.pc = "fire" /\ g.op = "dtor" /\ g.s = s /\ ~g.stale /\ ~g.live
  BY <1>1 DEF Frame
<1>4. g \in Calm /\ Keeps(g, usr[s]) /\ LockOf(g) = {}
  BY <1>2, <1>3 DEF Calm, Keeps, LockOf
<1>5. MayCall(s) /\ UNCHANGED usr /\ stack' = Append(stack, g) /\ held' = held
  BY <1>1 DEF Destroy, MayRun, state
<1>6. held = {}
  BY <1>5, AllInside DEF MayCall
<1>7. stack \in Seq(Frames) /\ \A i \in 1 .. Len(stack) : stack[i].s # s
  BY DEF DataInv, Destroy
<1> QED
  BY <1>3, <1>4, <1>5, <1>6, <1>7, BeginRun

LEMMA TopRuns ==
  ASSUME DataInv, RunInv, stack # <<>>
  PROVE  /\ Top \in Frames /\ Top.s \in Streams /\ ~Top.stale
         /\ (Top.live => Top.op = "dtor")
         /\ Keeps(Top, usr[Top.s]) /\ held = LockOf(Top)
         /\ \A i \in 1 .. Len(stack) - 1 :
               stack[i].s = Top.s /\ Top.op # "imbue" => stack[i].op = "imbue"
<1>1. PICK n \in Nat \ {0} : n = Len(stack) /\ stack \in Seq(Calm) /\ Top = stack[n]
  BY DEF RunInv, Running, Top, Last
<1>2. Top \in Calm
  BY <1>1
<1>3. Top \in Frames /\ ~Top.stale /\ (Top.live => Top.op = "dtor")
  BY <1>2 DEF Calm
<1>4. Top.s \in Streams
  BY <1>3 DEF Frames
<1>5. Keeps(Top, usr[Top.s]) /\ held = LockOf(Top)
  BY <1>1 DEF RunInv, Running, Top
<1>6. ASSUME NEW i \in 1 .. n - 1, stack[i].s = Top.s, Top.op # "imbue"
      PROVE  stack[i].op = "imbue"
  <2>1. i \in 1 .. n /\ n \in 1 .. n /\ i < n
    OBVIOUS
  <2> QED
    BY <1>1, <1>6, <2>1 DEF RunInv, Running
<1> QED
  BY <1>1, <1>3, <1>4, <1>5, <1>6

LEMMA GoesOnRun ==
  ASSUME RunInv, stack # <<>>, NEW g \in Frames, ~g.stale, g.live => g.op = "dtor",
         g.op = Top.op, g.s = Top.s, Keeps(g, usr[g.s]), UNCHANGED usr,
         stack' = Front(stack) \o <<g>>, held' = LockOf(g)
  PROVE  RunInv'
<1>1. g \in Calm
  BY DEF Calm
<1>2. Running(stack, usr, held) /\ g.op = Last(stack).op /\ g.s = Last(stack).s
  BY DEF RunInv, Top
<1>3. Running(Front(stack) \o <<g>>, usr, LockOf(g))
  BY <1>1, <1>2, RunOn
<1> QED
  BY <1>3 DEF RunInv

LEMMA EndsRun ==
  ASSUME RunInv, stack # <<>>, UNCHANGED usr, stack' = Front(stack), held' = {}
  PROVE  RunInv'
<1>1. Running(Front(stack), usr, {})
  BY RunPop DEF RunInv
<1> QED
  BY <1>1 DEF RunInv

LEMMA FireRun ==
  ASSUME DataInv, RunInv, Fire
  PROVE  RunInv'
<1>1. stack # <<>> /\ Top \in Frames /\ Top.s \in Streams /\ Top.pc = "fire"
      /\ ~Top.stale /\ Keeps(Top, usr[Top.s]) /\ held = LockOf(Top)
  BY TopRuns DEF Fire, At
<1>2. PICK f \in Frames : f = Top
  BY <1>1
<1>3. PICK a : a = Listed(f.s)
  OBVIOUS
<1>4. usr[f.s] \in UsrData \cup {Null} /\ want[f.s] \in Wants
  BY <1>1, <1>2, ShapeType DEF DataInv
<1>5. a \in Seq(Callbacks) /\ (a # <<>> => usr[f.s] # Null /\ usr[f.s].cbs # <<>>)
  BY <1>3, <1>4 DEF Listed, UsrData
<1>6. PICK b : b = Reverse(want[f.s].cbs)
  OBVIOUS
<1>7. b \in Seq(Callbacks)
  BY <1>4, <1>6, ReverseIs DEF Wants
<1>8. PICK l \in BOOLEAN : l = (f.op = "dtor")
  OBVIOUS
<1>9. PICK p \in Steps : p = IF a = <<>> THEN "fired" ELSE "calling"
  BY DEF Steps
<1>10. PICK g : g = [f EXCEPT !.todo = a, !.due = b, !.live = l, !.pc = p]
  OBVIOUS
<1>11. /\ g \in Frames /\ g.pc = p /\ g.live = l /\ g.op = f.op /\ g.s = f.s
       /\ g.ev = f.ev /\ g.stale = f.stale
  BY <1>5, <1>7, <1>10 DEF Frames
<1>12. stack' = Front(stack) \o <<g>> /\ UNCHANGED usr
  BY <1>2, <1>3, <1>6, <1>8, <1>9, <1>10 DEF Fire, Up, Start, state
<1>13. Keeps(g, usr[g.s])
  BY <1>1, <1>2, <1>5, <1>9, <1>11 DEF Keeps
<1>14. held' = LockOf(g)
  <2>1. held' = IF a = <<>> THEN held ELSE held \ {f.s}
    BY <1>2, <1>3 DEF Fire
  <2>2. held = IF f.op = "dtor" THEN {} ELSE {f.s} \cap Locked
    BY <1>1, <1>2 DEF LockOf
  <2> QED
    BY <1>9, <1>11, <2>1, <2>2 DEF LockOf
<1>15. ~g.stale /\ (g.live => g.op = "dtor") /\ g.op = Top.op /\ g.s = Top.s
  BY <1>1, <1>2, <1>8, <1>11
<1> QED
  BY <1>1, <1>11, <1>12, <1>13, <1>14, <1>15, GoesOnRun

LEMMA FireFailRun ==
  ASSUME DataInv, RunInv, FireFail
  PROVE  RunInv'
<1>1. stack # <<>> /\ Top \in Frames /\ Top.pc = "fire" /\ Top.op # "dtor"
      /\ ~Top.stale /\ ~Top.live /\ Keeps(Top, usr[Top.s])
      /\ held = LockOf(Top) /\ UNCHANGED usr
  BY TopRuns DEF FireFail, At
<1>2. CASE stack' = Front(stack) /\ held' = held \ {Top.s}
  <2>1. held' = {}
    BY <1>1, <1>2 DEF LockOf
  <2> QED
    BY <1>1, <1>2, <2>1, EndsRun
<1>3. CASE Up([Top EXCEPT !.lost = TRUE, !.pc = "fired"]) /\ held' = held
  <2>1. PICK f \in Frames : f = Top
    BY <1>1
  <2>2. PICK b \in BOOLEAN : b = TRUE
    OBVIOUS
  <2>3. PICK g : g = [f EXCEPT !.lost = b, !.pc = "fired"]
    OBVIOUS
  <2>4. g \in Frames /\ g.pc = "fired" /\ g.op = f.op /\ g.s = f.s /\ g.ev = f.ev
        /\ g.stale = f.stale /\ g.live = f.live
    BY <2>3 DEF Frames, Steps
  <2>5. Keeps(g, usr[g.s]) /\ held' = LockOf(g)
    BY <1>1, <1>3, <2>1, <2>4 DEF Keeps, LockOf
  <2>6. stack' = Front(stack) \o <<g>>
    BY <1>3, <2>1, <2>2, <2>3 DEF Up
  <2>7. ~g.stale /\ ~g.live /\ g.op = Top.op /\ g.s = Top.s
    BY <1>1, <2>1, <2>4
  <2> QED
    BY <1>1, <2>4, <2>5, <2>6, <2>7, GoesOnRun
<1> QED
  BY <1>2, <1>3 DEF FireFail

LEMMA CallRun ==
  ASSUME DataInv, RunInv, Call
  PROVE  RunInv'
<1>1. stack # <<>> /\ Top \in Frames /\ Top.pc = "calling" /\ Top.todo # <<>>
      /\ ~Top.stale /\ (Top.live => Top.op = "dtor") /\ Keeps(Top, usr[Top.s])
      /\ held = LockOf(Top)
  BY TopRuns DEF Call, At
<1>2. PICK f \in Frames : f = Top
  BY <1>1
<1>3. f.todo \in Seq(Callbacks) /\ f.made \in Seq(Callbacks) /\ f.todo # <<>>
  BY <1>1, <1>2 DEF Frames
<1>4. PICK a : a = Front(f.todo)
  OBVIOUS
<1>5. PICK b : b = Append(f.made, Last(f.todo))
  OBVIOUS
<1>6. a \in Seq(Callbacks) /\ b \in Seq(Callbacks)
  BY <1>3, <1>4, <1>5, Popped
<1>7. PICK g : g = [f EXCEPT !.todo = a, !.made = b, !.pc = "inside"]
  OBVIOUS
<1>8. g \in Frames /\ g.pc = "inside" /\ g.op = f.op /\ g.s = f.s /\ g.ev = f.ev
      /\ g.stale = f.stale /\ g.live = f.live
  BY <1>6, <1>7 DEF Frames, Steps
<1>9. stack' = Front(stack) \o <<g>> /\ UNCHANGED <<usr, held>>
  BY <1>2, <1>4, <1>5, <1>7 DEF Call, Up, state
<1>10. Keeps(g, usr[g.s]) /\ held' = LockOf(g)
  BY <1>1, <1>2, <1>8, <1>9 DEF Keeps, LockOf
<1>11. ~g.stale /\ (g.live => g.op = "dtor") /\ g.op = Top.op /\ g.s = Top.s
  BY <1>1, <1>2, <1>8
<1> QED
  BY <1>1, <1>8, <1>9, <1>10, <1>11, GoesOnRun

LEMMA CallbackReturnsRun ==
  ASSUME DataInv, RunInv, CallbackReturns
  PROVE  RunInv'
<1>1. stack # <<>> /\ Top \in Frames /\ Top.pc = "inside"
      /\ ~Top.stale /\ (Top.live => Top.op = "dtor") /\ Keeps(Top, usr[Top.s])
      /\ held = LockOf(Top)
  BY TopRuns DEF CallbackReturns, At
<1>2. PICK f \in Frames : f = Top
  BY <1>1
<1>3. PICK g : g = [f EXCEPT !.pc = "calling"]
  OBVIOUS
<1>4. g \in Frames /\ g.pc = "calling" /\ g.op = f.op /\ g.s = f.s /\ g.ev = f.ev
      /\ g.stale = f.stale /\ g.live = f.live
  BY <1>3 DEF Frames, Steps
<1>5. stack' = Front(stack) \o <<g>> /\ UNCHANGED <<usr, held>>
  BY <1>2, <1>3 DEF CallbackReturns, Up, state
<1>6. Keeps(g, usr[g.s]) /\ held' = LockOf(g)
  BY <1>1, <1>2, <1>4, <1>5 DEF Keeps, LockOf
<1>7. ~g.stale /\ (g.live => g.op = "dtor") /\ g.op = Top.op /\ g.s = Top.s
  BY <1>1, <1>2, <1>4
<1> QED
  BY <1>1, <1>4, <1>5, <1>6, <1>7, GoesOnRun

LEMMA AllCalledRun ==
  ASSUME DataInv, RunInv, AllCalled
  PROVE  RunInv'
<1>1. stack # <<>> /\ Top \in Frames /\ Top.pc = "calling"
      /\ ~Top.stale /\ (Top.live => Top.op = "dtor") /\ Keeps(Top, usr[Top.s])
      /\ held = LockOf(Top)
  BY TopRuns DEF AllCalled, At
<1>2. PICK f \in Frames : f = Top
  BY <1>1
<1>3. PICK g : g = [f EXCEPT !.pc = "fired"]
  OBVIOUS
<1>4. g \in Frames /\ g.pc = "fired" /\ g.op = f.op /\ g.s = f.s /\ g.ev = f.ev
      /\ g.stale = f.stale /\ g.live = f.live
  BY <1>3 DEF Frames, Steps
<1>5. stack' = Front(stack) \o <<g>> /\ UNCHANGED usr
      /\ held' = IF f.op = "dtor" THEN held ELSE held \cup ({f.s} \cap Locked)
  BY <1>2, <1>3 DEF AllCalled, Up, state, Lock
<1>6. held = {}
  BY <1>1 DEF LockOf
<1>7. Keeps(g, usr[g.s]) /\ held' = LockOf(g)
  BY <1>1, <1>2, <1>4, <1>5, <1>6 DEF Keeps, LockOf
<1>8. ~g.stale /\ (g.live => g.op = "dtor") /\ g.op = Top.op /\ g.s = Top.s
  BY <1>1, <1>2, <1>4
<1> QED
  BY <1>1, <1>4, <1>5, <1>7, <1>8, GoesOnRun

LEMMA InstallRun ==
  ASSUME DataInv, RunInv, Install
  PROVE  RunInv'
<1>1. stack # <<>> /\ Top.op = "copyfmt" /\ (Top.pc = "fired" \/ Top.pc = "install")
  BY DEF Install
<1>2. /\ Top \in Frames /\ Top.s \in Streams /\ held = LockOf(Top) /\ Top.copy \in Copies
      /\ \A i \in 1 .. Len(stack) - 1 : stack[i].s = Top.s => stack[i].op = "imbue"
  BY <1>1, TopIs, TopRuns
<1>3. PICK s \in Streams, c \in Copies : s = Top.s /\ c = Top.copy
  BY <1>2
<1>4. PICK u1 : u1 = IF c.usr # Null /\ (c.usr.tie # None \/ ~Bare(c.usr))
                     THEN [c.usr EXCEPT !.fire = TRUE] ELSE Null
  OBVIOUS
<1>5. PICK h : h = Frame("copyfmt", s, "fire", "copyfmt")
  OBVIOUS
<1>6. PICK g : g = [h EXCEPT !.copy = c]
  OBVIOUS
<1>7. /\ usr' = [usr EXCEPT ![s] = u1] /\ held' = held
      /\ stack' = Freed(Front(stack), s) \o <<g>>
  BY <1>3, <1>4, <1>5, <1>6 DEF Install
<1>8. \A x \in Streams : x # s => usr'[x] = usr[x]
  BY <1>7 DEF DataInv
<1>9. h \in Frames /\ g \in Frames
  BY <1>5, <1>6, FrameIs DEF Steps, Events
<1>10. h.pc = "fire" /\ h.op = "copyfmt" /\ h.s = s /\ h.ev = "copyfmt" /\ ~h.stale
       /\ ~h.live
  BY <1>5 DEF Frame
<1>11. g.pc = "fire" /\ g.op = "copyfmt" /\ g.s = s /\ g.ev = "copyfmt" /\ ~g.stale
       /\ ~g.live
  BY <1>6, <1>9, <1>10 DEF Frames
<1>12. g \in Calm /\ Keeps(g, usr'[g.s]) /\ LockOf(g) = {s} \cap Locked
  BY <1>9, <1>11 DEF Calm, Keeps, LockOf
<1>13. held = {s} \cap Locked
  BY <1>1, <1>2, <1>3 DEF LockOf
<1>14. Freed(Front(stack), s) = Front(stack)
  <2>1. PICK st : st = Front(stack)
    OBVIOUS
  <2>2. stack \in Seq(Calm)
    BY DEF RunInv, Running
  <2>3. st \in Seq(Calm) /\ Len(st) = Len(stack) - 1
        /\ \A i \in 1 .. Len(stack) - 1 : st[i] = stack[i]
    BY <1>1, <2>1, <2>2, Popped
  <2>4. \A i \in 1 .. Len(st) : st[i].s = s => st[i].op # "dtor"
    BY <1>2, <1>3, <2>3
  <2> QED
    BY <2>1, <2>3, <2>4, NotFreed
<1>15. ASSUME NEW i \in 1 .. Len(stack) - 1
       PROVE  stack[i].op = "imbue" \/ usr'[stack[i].s] = usr[stack[i].s]
  <2>1. stack[i].s \in Streams
    <3>1. stack \in Seq(Frames) /\ i \in 1 .. Len(stack)
      BY DEF DataInv
    <3>2. stack[i] \in Frames
      BY <3>1
    <3> QED
      BY <3>2 DEF Frames
  <2> QED
    BY <1>2, <1>3, <1>8, <2>1
<1>16. Running(stack, usr, held) /\ g.op = Last(stack).op /\ g.s = Last(stack).s
  BY <1>1, <1>3, <1>11 DEF RunInv, Top
<1>17. Running(Front(stack) \o <<g>>, usr', LockOf(g))
  BY <1>1, <1>12, <1>15, <1>16, RunOn
<1>18. stack' = Front(stack) \o <<g>> /\ held' = LockOf(g)
  BY <1>7, <1>12, <1>13, <1>14
<1> QED
  BY <1>17, <1>18 DEF RunInv

LEMMA DestroyedRun ==
  ASSUME DataInv, RunInv, Destroyed
  PROVE  RunInv'
<1>1. stack # <<>> /\ Top.op = "dtor"
  BY DEF Destroyed, At
<1>2. /\ Top.s \in Streams /\ held = {}
      /\ \A i \in 1 .. Len(stack) - 1 : stack[i].s = Top.s => stack[i].op = "imbue"
  BY <1>1, TopRuns DEF LockOf
<1>3. \A x \in Streams : x # Top.s => usr'[x] = usr[x]
  BY <1>2 DEF DataInv, Destroyed
<1>4. ASSUME NEW i \in 1 .. Len(stack) - 1
      PROVE  stack[i].op = "imbue" \/ usr'[stack[i].s] = usr[stack[i].s]
  <2>1. stack[i].s \in Streams
    <3>1. stack \in Seq(Frames) /\ i \in 1 .. Len(stack)
      BY DEF DataInv
    <3>2. stack[i] \in Frames
      BY <3>1
    <3> QED
      BY <3>2 DEF Frames
  <2> QED
    BY <1>2, <1>3, <2>1
<1>5. Running(stack, usr, held)
  BY DEF RunInv
<1>6. Running(Front(stack), usr', {})
  BY <1>1, <1>4, <1>5, RunPop
<1>7. stack' = Front(stack) /\ held' = {}
  BY <1>2 DEF Destroyed
<1> QED
  BY <1>6, <1>7 DEF RunInv

\* Calls that end and change no data.
LEMMA EndRun ==
  ASSUME DataInv, RunInv, CallbackThrows \/ Return
  PROVE  RunInv'
<1>1. stack # <<>> /\ stack' = Front(stack) /\ UNCHANGED usr
  BY DEF CallbackThrows, Return, At
<1>2. held = LockOf(Top)
  BY <1>1, TopRuns
<1>3. held' = {}
  BY <1>2 DEF CallbackThrows, Return, At, LockOf
<1> QED
  BY <1>1, <1>3, EndsRun

LEMMA StepRun ==
  ASSUME ~CopyWithin, ~RegisterInDtor, DataInv, RunInv, [Next]_vars
  PROVE  RunInv'
<1>1. CASE UNCHANGED vars
  BY <1>1 DEF RunInv, vars, state
<1>2. CASE \E s \in Streams :
             \/ \E k \in Kinds, i \in Indices, v \in Values \ {0} : SetWord(s, k, i, v)
             \/ \E c \in Callbacks : RegisterCallback(s, c)
             \/ \E p \in Ties : Tie(s, p)
             \/ \E f \in Formats : Imbue(s, f)
             \/ \E r \in Streams : Copyfmt(s, r)
             \/ Destroy(s)
  BY <1>2, SetWordRun, RegisterCallbackRun, TieRun, ImbueRun, CopyfmtRun, DestroyRun
<1>3. CASE \E s \in Streams : Construct(s) \/ \E e \in BOOLEAN : Exceptions(s, e)
  BY <1>3 DEF Construct, Exceptions, RunInv
<1>4. CASE Fire \/ FireFail \/ Call \/ CallbackReturns \/ CallbackThrows
           \/ AllCalled \/ Install \/ Return \/ Destroyed
  BY <1>4, FireRun, FireFailRun, CallRun, CallbackReturnsRun, EndRun, AllCalledRun,
     InstallRun, DestroyedRun
<1> QED
  BY <1>1, <1>2, <1>3, <1>4 DEF Next

\* If no callback copies to a stream that is copied to, or registers another in
\* a destructor, what a call read before its callbacks ran is there when it goes
\* on with it, and a stream is locked while one of its members runs and never
\* while a callback does (iostore.cpp:162-206, 324).
THEOREM NothingStaleAlways ==
  ASSUME ~CopyWithin, ~RegisterInDtor
  PROVE  Spec => []NothingStale
<1>1. DataInv /\ RunInv /\ [Next]_vars => RunInv'
  BY StepRun
<1>2. DataInv /\ RunInv => NothingStale
  <2> SUFFICES ASSUME DataInv, RunInv PROVE NothingStale
    OBVIOUS
  <2>1. TypeOK
    <3>1. DOMAIN stack = 1 .. Len(stack) /\ \A i \in 1 .. Len(stack) : stack[i] \in Frames
      BY DEF DataInv
    <3>2. ASSUME NEW i \in DOMAIN stack
          PROVE  /\ stack[i].op \in {"imbue", "copyfmt", "dtor"} /\ stack[i].s \in Streams
                 /\ stack[i].pc \in {"fire", "calling", "inside", "fired", "install"}
      BY <3>1 DEF Frames, Steps
    <3>3. ASSUME NEW i \in DOMAIN stack, i < Len(stack) PROVE stack[i].pc = "inside"
      BY <3>1, <3>3 DEF DataInv, RunInv, Running
    <3> QED
      BY <3>2, <3>3 DEF TypeOK, DataInv
  <2>2. NoStaleArray
    BY TopRuns DEF NoStaleArray, At
  <2>3. DataKept
    BY TopRuns DEF DataKept, At, Keeps
  <2>4. LocksRight
    <3>1. CASE stack = <<>>
      BY <3>1 DEF LocksRight, RunInv, Running
    <3>2. CASE stack # <<>>
      BY <3>2, TopRuns DEF LocksRight, At, LockOf
    <3> QED
      BY <3>1, <3>2
  <2> QED
    BY <2>1, <2>2, <2>3, <2>4 DEF NothingStale
<1> QED
  BY <1>1, <1>2, InitRun, DataInvAlways, PTL DEF Spec
=============================================================================
