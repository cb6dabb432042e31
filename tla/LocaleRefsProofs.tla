-------------------------- MODULE LocaleRefsProofs --------------------------
(***************************************************************************)
(* Proofs about LocaleRefs, for any threads, handles, bodies and facets:   *)
(* the count of a body is exact, no reference dangles, and storage that is *)
(* half built or half destroyed is one thread's to finish; the same of     *)
(* facets; names tell the facets; and objects behave as values.            *)
(*                                                                         *)
(* CountExact alone is not inductive: a step that gives a reference to an  *)
(* owner preserves it only if the owner had none, and the step that frees  *)
(* a body only if nobody has it.  Place says where a thread's references   *)
(* are at each of its steps, and NoDangling that a body that somebody has  *)
(* is not being freed; the three and Custody are inductive together.       *)
(*                                                                         *)
(* On top of them, FacetInv: the count of a facet is that of the slots     *)
(* that have it, and what a body under construction has in its slots is    *)
(* what it has counted of the bodies it is copied from (Combination), or   *)
(* made for its name (Naming).  The bodies copied from are not counted:    *)
(* what keeps them is that the handles are the thread's own, so a step of  *)
(* another thread must leave alone all that Aside lists.                   *)
(*                                                                         *)
(* With both, a step of the counts is a step of LocaleValues: the value of *)
(* an object is that of BodyOf, and no body changes while it is live.      *)
(***************************************************************************)
EXTENDS LocaleRefs, FiniteSetTheorems, TLAPS

Refs(bd, b) == {x \in Owners : bd[x] = b}

Counts(rf, bd) == \A b \in Bodies : rf[b] = Cardinality(Refs(bd, b))

Bodied == [Owners -> Bodies \cup {NoBody}]

\* The owners are finitely many, so what a count counts is finite.
LEMMA OwnersFinite == IsFiniteSet(Owners)
<1>1. IsFiniteSet(Handles) /\ IsFiniteSet(Threads)
  BY LocaleAssumption
<1>2. IsFiniteSet({ClassicObj}) /\ IsFiniteSet({Global}) /\ IsFiniteSet({Self})
  BY FS_Singleton
<1>3. IsFiniteSet({ClassicObj} \cup {Global})
  BY <1>2, FS_Union
<1>4. IsFiniteSet(({ClassicObj} \cup {Global}) \cup {Self})
  BY <1>2, <1>3, FS_Union
<1>5. IsFiniteSet(Handles \cup (({ClassicObj} \cup {Global}) \cup {Self}))
  BY <1>1, <1>4, FS_Union
<1>6. IsFiniteSet((Handles \cup (({ClassicObj} \cup {Global}) \cup {Self})) \cup Threads)
  BY <1>1, <1>5, FS_Union
<1>7. Owners = (Handles \cup (({ClassicObj} \cup {Global}) \cup {Self})) \cup Threads
  BY DEF Owners
<1> QED
  BY <1>6, <1>7

LEMMA RefsFinite ==
  ASSUME NEW bd, NEW b
  PROVE  IsFiniteSet(Refs(bd, b)) /\ Cardinality(Refs(bd, b)) \in Nat
<1>1. Refs(bd, b) \in SUBSET Owners
  BY DEF Refs
<1> QED
  BY <1>1, OwnersFinite, FS_Subset, FS_CardinalityType

\* An owner with no reference takes one to b, and b's count goes up by one.
LEMMA Gain ==
  ASSUME NEW bd \in Bodied, NEW rf \in [Bodies -> Nat], Counts(rf, bd),
         NEW x \in Owners, bd[x] = NoBody, NEW b \in Bodies
  PROVE  Counts([rf EXCEPT ![b] = @ + 1], [bd EXCEPT ![x] = b])
<1> DEFINE bd1 == [bd EXCEPT ![x] = b]
<1>1. Refs(bd1, b) = Refs(bd, b) \cup {x} /\ x \notin Refs(bd, b)
  BY LocaleAssumption DEF Refs, Bodied
<1>2. Cardinality(Refs(bd1, b)) = Cardinality(Refs(bd, b)) + 1
  BY <1>1, RefsFinite, FS_AddElement
<1>3. \A c \in Bodies : c # b => Refs(bd1, c) = Refs(bd, c)
  BY LocaleAssumption DEF Refs, Bodied
<1> QED
  BY <1>2, <1>3 DEF Counts

\* An owner gives up its reference: if the count was one it was the only one.
LEMMA Lose ==
  ASSUME NEW bd \in Bodied, NEW rf \in [Bodies -> Nat], Counts(rf, bd),
         NEW x \in Owners, bd[x] \in Bodies
  PROVE  /\ rf[bd[x]] > 0
         /\ Counts([rf EXCEPT ![bd[x]] = @ - 1], [bd EXCEPT ![x] = NoBody])
         /\ rf[bd[x]] = 1 <=> \A y \in Owners : bd[y] = bd[x] => y = x
<1> DEFINE b == bd[x]
           bd1 == [bd EXCEPT ![x] = NoBody]
<1> HIDE DEF b
<1>0. b \in Bodies /\ bd[x] = b
  BY DEF b
<1>a. NoBody \notin Bodies
  BY LocaleAssumption
<1>b. \A y \in Owners : bd1[y] = IF y = x THEN NoBody ELSE bd[y]
  BY DEF Bodied
<1> HIDE DEF bd1
<1>1. Refs(bd1, b) = Refs(bd, b) \ {x} /\ x \in Refs(bd, b)
  BY <1>0, <1>a, <1>b DEF Refs
<1>2. /\ Cardinality(Refs(bd1, b)) = Cardinality(Refs(bd, b)) - 1
      /\ Cardinality(Refs(bd1, b)) \in Nat
  <2>1. IsFiniteSet(Refs(bd, b)) /\ Cardinality(Refs(bd1, b)) \in Nat
    BY RefsFinite
  <2>2. Cardinality(Refs(bd, b) \ {x}) = Cardinality(Refs(bd, b)) - 1
    BY <2>1, <1>1, FS_RemoveElement
  <2> QED
    BY <1>1, <2>1, <2>2
<1>3. \A c \in Bodies : c # b => Refs(bd1, c) = Refs(bd, c)
  BY <1>0, <1>a, <1>b DEF Refs
<1>4. rf[b] = Cardinality(Refs(bd, b))
  BY <1>0 DEF Counts
<1>5. rf[b] > 0
  BY <1>2, <1>4, RefsFinite
<1>6. Cardinality(Refs(bd1, b)) = 0 <=> Refs(bd, b) \ {x} = {}
  BY <1>1, RefsFinite, FS_EmptySet
<1>7. rf[b] = 1 <=> Refs(bd, b) \ {x} = {}
  BY <1>2, <1>4, <1>6, RefsFinite
<1>8. Counts([rf EXCEPT ![b] = @ - 1], bd1)
  BY <1>0, <1>2, <1>3, <1>4 DEF Counts
<1> QED
  BY <1>0, <1>5, <1>7, <1>8 DEF Refs, bd1

\* A reference passes from t to an owner that had none.
LEMMA Move ==
  ASSUME NEW bd \in Bodied, NEW rf, Counts(rf, bd),
         NEW t \in Owners, NEW x \in Owners, x # t, bd[x] = NoBody
  PROVE  Counts(rf, [bd EXCEPT ![x] = bd[t], ![t] = NoBody])
<1> DEFINE bd1 == [bd EXCEPT ![x] = bd[t], ![t] = NoBody]
<1> SUFFICES ASSUME NEW b \in Bodies
             PROVE  Cardinality(Refs(bd1, b)) = Cardinality(Refs(bd, b))
  BY DEF Counts
<1>1. CASE bd[t] = b
  <2>1. /\ Refs(bd1, b) = (Refs(bd, b) \ {t}) \cup {x}
        /\ t \in Refs(bd, b) /\ x \notin Refs(bd, b) \ {t}
    BY <1>1, LocaleAssumption DEF Refs, Bodied
  <2>2. /\ IsFiniteSet(Refs(bd, b) \ {t})
        /\ Cardinality(Refs(bd, b) \ {t}) = Cardinality(Refs(bd, b)) - 1
    BY <2>1, RefsFinite, FS_RemoveElement
  <2>3. Cardinality(Refs(bd1, b)) = Cardinality(Refs(bd, b) \ {t}) + 1
    BY <2>1, <2>2, FS_AddElement
  <2> QED
    BY <2>2, <2>3, RefsFinite
<1>2. CASE bd[t] # b
  <2>1. Refs(bd1, b) = Refs(bd, b)
    BY <1>2, LocaleAssumption DEF Refs, Bodied
  <2> QED
    BY <2>1
<1> QED
  BY <1>1, <1>2

\* Nobody has a reference to a body exactly when its count is zero.
LEMMA NoneHas ==
  ASSUME NEW bd, NEW rf, Counts(rf, bd), NEW b \in Bodies
  PROVE  rf[b] = 0 <=> \A x \in Owners : bd[x] # b
<1>1. Cardinality(Refs(bd, b)) = 0 <=> Refs(bd, b) = {}
  BY RefsFinite, FS_EmptySet
<1> QED
  BY <1>1 DEF Counts, Refs
-----------------------------------------------------------------------------
BodyTypeOK ==
    /\ status \in [Bodies -> {"free", "building", "live", "dying"}]
    /\ ref \in [Bodies -> Nat]
    /\ body \in Bodied
    /\ guard \in Threads \cup {NoThread}
    /\ pc \in [Threads -> Labels]
    /\ tgt \in [Threads -> Handles \cup {ClassicObj}]
    /\ reg \in [Threads -> Bodies \cup {NoBody}]

\* the roots: the classic body's own reference and the global's
Rooted == body[Self] = Classic /\ body[Global] # NoBody

\* t's operation is for a handle of its own, which has no body yet
Aims(t) == tgt[t] \in Mine[t] /\ body[tgt[t]] = NoBody

\* where the references of t are at each of its steps
Place(t) ==
    /\ pc[t] \in {"idle", "global_read", "global_count"} => body[t] = NoBody
    /\ pc[t] \notin {"idle", "global_read", "global_count", "delete"} =>
          body[t] # NoBody
    /\ pc[t] \notin {"idle", "assign_drop", "delete"} => Aims(t)
    /\ pc[t] \in {"global_read", "global_count"} => guard = t
    /\ pc[t] = "global_count" => reg[t] = body[Global]
    /\ pc[t] \notin {"global_count", "delete"} => reg[t] = NoBody
    /\ pc[t] = "assign_drop" => tgt[t] \in Mine[t] /\ body[tgt[t]] # NoBody
    /\ pc[t] = "delete" =>
          /\ reg[t] \in Bodies /\ status[reg[t]] = "dying"
          /\ body[t] # NoBody => Aims(t)
    /\ pc[t] \in Building => \A x \in Owners : body[x] = body[t] => x = t

BodyInv ==
    /\ BodyTypeOK
    /\ Rooted
    /\ \A t \in Threads : Place(t)
    /\ CountExact
    /\ NoDangling
    /\ Custody

\* What the assumptions say of owners.
LEMMA OwnerFacts ==
    /\ Threads \subseteq Owners /\ Handles \subseteq Owners
    /\ {ClassicObj, Global, Self} \subseteq Owners
    /\ \A h \in Handles : h \notin Threads /\ h \notin {ClassicObj, Global, Self}
    /\ \A t \in Threads : t \notin {ClassicObj, Global, Self}
    /\ ClassicObj # Global /\ ClassicObj # Self /\ Global # Self
    /\ \A t \in Threads : Mine[t] \subseteq Handles
    /\ \A t, u \in Threads : \A h \in Mine[t] : t # u => h \notin Mine[u]
    /\ Classic \in Bodies /\ NoBody \notin Bodies /\ NoThread \notin Threads
BY LocaleAssumption DEF Owners

LEMMA CountsIs == CountExact <=> Counts(ref, body)
BY DEF CountExact, Counts, Refs

LEMMA InitBody == Init => BodyInv
<1> SUFFICES ASSUME Init PROVE BodyInv
  OBVIOUS
<1> USE OwnerFacts
<1>1. BodyTypeOK
  BY LocaleAssumption DEF Init, BodyTypeOK, Bodied, Labels, Owners
<1>2. Rooted /\ \A t \in Threads : Place(t)
  BY DEF Init, Rooted, Place, Building
<1>3. CountExact
  <2>1. ASSUME NEW b \in Bodies, b # Classic
        PROVE  ref[b] = Cardinality({x \in Owners : body[x] = b})
    <3>1. {x \in Owners : body[x] = b} = {}
      BY <2>1 DEF Init
    <3> QED
      BY <2>1, <3>1, FS_EmptySet DEF Init
  <2>2. ref[Classic] = Cardinality({x \in Owners : body[x] = Classic})
    <3>1. {x \in Owners : body[x] = Classic} = ({ClassicObj} \cup {Global}) \cup {Self}
      BY DEF Init
    <3>2. IsFiniteSet({ClassicObj}) /\ Cardinality({ClassicObj}) = 1
      BY FS_Singleton
    <3>3. /\ IsFiniteSet({ClassicObj} \cup {Global})
          /\ Cardinality({ClassicObj} \cup {Global}) = 2
      <4>1. Global \notin {ClassicObj}
        OBVIOUS
      <4> QED
        BY ONLY <3>2, <4>1, FS_AddElement
    <3>4. Cardinality(({ClassicObj} \cup {Global}) \cup {Self}) = 3
      <4>1. Self \notin {ClassicObj} \cup {Global}
        OBVIOUS
      <4> QED
        BY ONLY <3>3, <4>1, FS_AddElement
    <3> QED
      BY <3>1, <3>4 DEF Init
  <2> QED
    BY <2>1, <2>2 DEF CountExact
<1>4. NoDangling
  BY DEF Init, NoDangling, At, Building
<1>5. Custody
  BY DEF Init, Custody, At
<1> QED
  BY <1>1, <1>2, <1>3, <1>4, <1>5 DEF BodyInv
-----------------------------------------------------------------------------
\* The steps that leave bodies and their references alone, and t where it is
\* or within the construction it is in.
Quiet(t) ==
    /\ UNCHANGED <<status, ref, body, guard, tgt, reg>>
    /\ \/ pc' = pc
       \/ /\ pc[t] \in Building
          /\ \E l \in Building : pc' = [pc EXCEPT ![t] = l]

LEMMA QuietStep ==
  ASSUME BodyInv, NEW t \in Threads, Quiet(t)
  PROVE  BodyInv'
<1> USE DEF BodyInv
<1>0. /\ pc' \in [Threads -> Labels]
      /\ \A u \in Threads : pc'[u] # pc[u] => pc[u] \in Building /\ pc'[u] \in Building
  BY DEF Quiet, BodyTypeOK, Building, Labels
<1>1. BodyTypeOK'
  BY <1>0 DEF Quiet, BodyTypeOK
<1>2. Rooted' /\ CountExact'
  BY DEF Quiet, Rooted, CountExact
<1>3. ASSUME NEW u \in Threads PROVE Place(u)'
  BY <1>0 DEF Quiet, Place, Aims, Building
<1>4. NoDangling'
  BY <1>0 DEF Quiet, NoDangling, At, Building
<1>5. Custody'
  BY <1>0 DEF Quiet, Custody, At, Building
<1> QED
  BY <1>1, <1>2, <1>3, <1>4, <1>5

LEMMA DefaultCtorStep ==
  ASSUME BodyInv, NEW t \in Threads, NEW h \in Mine[t], DefaultCtor(t, h)
  PROVE  BodyInv'
<1> USE OwnerFacts DEF BodyInv, DefaultCtor, At, Goto, Fresh, bodyVars
<1>1. BodyTypeOK'
  BY DEF BodyTypeOK, Labels
<1>2. Rooted' /\ CountExact'
  BY DEF Rooted, CountExact
<1>3. ASSUME NEW u \in Threads PROVE Place(u)'
  BY DEF BodyTypeOK, Place, Aims, Building
<1>4. NoDangling'
  BY DEF BodyTypeOK, NoDangling, Place, Building
<1>5. Custody'
  BY DEF BodyTypeOK, Custody, Place
<1> QED
  BY <1>1, <1>2, <1>3, <1>4, <1>5

LEMMA GlobalReadStep ==
  ASSUME BodyInv, NEW t \in Threads, GlobalRead(t)
  PROVE  BodyInv'
<1> USE OwnerFacts DEF BodyInv, GlobalRead, At, Goto, bodyVars
<1>1. BodyTypeOK'
  BY DEF BodyTypeOK, Labels, Bodied
<1>2. Rooted' /\ CountExact'
  BY DEF Rooted, CountExact
<1>3. ASSUME NEW u \in Threads PROVE Place(u)'
  BY DEF BodyTypeOK, Place, Aims, Building
<1>4. NoDangling'
  BY DEF BodyTypeOK, NoDangling, Place, Rooted, Building
<1>5. Custody'
  BY DEF BodyTypeOK, Custody, Place
<1> QED
  BY <1>1, <1>2, <1>3, <1>4, <1>5

LEMMA GlobalCountStep ==
  ASSUME BodyInv, NEW t \in Threads, GlobalCount(t)
  PROVE  BodyInv'
<1> USE OwnerFacts DEF BodyInv, GlobalCount, Retain, At, Goto
<1>1. BodyTypeOK'
  BY DEF BodyTypeOK, Labels, Bodied, Place, Rooted
<1>2. Rooted'
  BY DEF Rooted, Place, Aims, BodyTypeOK, Bodied
<1>3. CountExact'
  <2>1. /\ tgt[t] \in Owners /\ body[tgt[t]] = NoBody /\ reg[t] \in Bodies
        /\ ref \in [Bodies -> Nat] /\ body \in Bodied
    BY DEF BodyTypeOK, Bodied, Place, Aims, Rooted
  <2>2. Counts([ref EXCEPT ![reg[t]] = @ + 1], [body EXCEPT ![tgt[t]] = reg[t]])
    BY <2>1, CountsIs, Gain
  <2> QED
    BY <2>2 DEF CountExact, Counts, Refs
<1>4. ASSUME NEW u \in Threads PROVE Place(u)'
  BY DEF BodyTypeOK, Bodied, Place, Aims, Building, NoDangling, Rooted
<1>5. NoDangling'
  BY DEF BodyTypeOK, Bodied, NoDangling, Place, Aims, Rooted, Building
<1>6. Custody'
  BY DEF BodyTypeOK, Bodied, Custody, Place, Aims, NoDangling, Rooted, Building
<1> QED
  BY <1>1, <1>2, <1>3, <1>4, <1>5, <1>6

LEMMA CopyCtorStep ==
  ASSUME BodyInv, NEW t \in Threads, NEW h, NEW g, h \in Mine[t], CopyCtor(t, h, g)
  PROVE  BodyInv'
<1> USE OwnerFacts DEF BodyInv, CopyCtor, Retain, Fresh, Readable, At, Goto
<1>1. BodyTypeOK'
  BY DEF BodyTypeOK, Labels, Bodied, Place, Aims
<1>2. Rooted'
  BY DEF Rooted, Place, Aims, BodyTypeOK, Bodied
<1>3. CountExact'
  <2>1. /\ h \in Owners /\ body[h] = NoBody /\ body[g] \in Bodies
        /\ ref \in [Bodies -> Nat] /\ body \in Bodied
    BY DEF BodyTypeOK, Bodied
  <2>2. Counts([ref EXCEPT ![body[g]] = @ + 1], [body EXCEPT ![h] = body[g]])
    BY <2>1, CountsIs, Gain
  <2> QED
    BY <2>2 DEF CountExact, Counts, Refs
<1>4. ASSUME NEW u \in Threads PROVE Place(u)'
  BY DEF BodyTypeOK, Bodied, Place, Aims, Building, NoDangling
<1>5. NoDangling'
  BY DEF BodyTypeOK, Bodied, NoDangling, Place, Aims, Rooted, Building
<1>6. Custody'
  BY DEF BodyTypeOK, Bodied, Custody, Place, Aims, NoDangling, Building
<1> QED
  BY <1>1, <1>2, <1>3, <1>4, <1>5, <1>6

LEMMA AssignCountStep ==
  ASSUME BodyInv, NEW t \in Threads, NEW h, NEW g, AssignCount(t, h, g)
  PROVE  BodyInv'
<1> USE OwnerFacts DEF BodyInv, AssignCount, Retain, Readable, At, Goto
<1>1. BodyTypeOK'
  BY DEF BodyTypeOK, Labels, Bodied, Place, Aims
<1>2. Rooted'
  BY DEF Rooted, Place, Aims, BodyTypeOK, Bodied
<1>3. CountExact'
  <2>1. /\ t \in Owners /\ body[t] = NoBody /\ body[g] \in Bodies
        /\ ref \in [Bodies -> Nat] /\ body \in Bodied
    BY DEF BodyTypeOK, Bodied, Place
  <2>2. Counts([ref EXCEPT ![body[g]] = @ + 1], [body EXCEPT ![t] = body[g]])
    BY <2>1, CountsIs, Gain
  <2> QED
    BY <2>2 DEF CountExact, Counts, Refs
<1>4. ASSUME NEW u \in Threads PROVE Place(u)'
  BY DEF BodyTypeOK, Bodied, Place, Aims, Building, NoDangling
<1>5. NoDangling'
  BY DEF BodyTypeOK, Bodied, NoDangling, Place, Aims, Rooted, Building
<1>6. Custody'
  BY DEF BodyTypeOK, Bodied, Custody, Place, Aims, NoDangling, Building
<1> QED
  BY <1>1, <1>2, <1>3, <1>4, <1>5, <1>6

LEMMA SetGlobalCountStep ==
  ASSUME BodyInv, NEW t \in Threads, NEW g, NEW h, SetGlobalCount(t, g, h)
  PROVE  BodyInv'
<1> USE OwnerFacts DEF BodyInv, SetGlobalCount, Retain, Readable, Fresh, At, Goto
<1>1. BodyTypeOK'
  BY DEF BodyTypeOK, Labels, Bodied, Place, Aims
<1>2. Rooted'
  BY DEF Rooted, Place, Aims, BodyTypeOK, Bodied
<1>3. CountExact'
  <2>1. /\ t \in Owners /\ body[t] = NoBody /\ body[g] \in Bodies
        /\ ref \in [Bodies -> Nat] /\ body \in Bodied
    BY DEF BodyTypeOK, Bodied, Place
  <2>2. Counts([ref EXCEPT ![body[g]] = @ + 1], [body EXCEPT ![t] = body[g]])
    BY <2>1, CountsIs, Gain
  <2> QED
    BY <2>2 DEF CountExact, Counts, Refs
<1>4. ASSUME NEW u \in Threads PROVE Place(u)'
  BY DEF BodyTypeOK, Bodied, Place, Aims, Building, NoDangling
<1>5. NoDangling'
  BY DEF BodyTypeOK, Bodied, NoDangling, Place, Aims, Rooted, Building
<1>6. Custody'
  BY DEF BodyTypeOK, Bodied, Custody, Place, Aims, NoDangling, Building
<1> QED
  BY <1>1, <1>2, <1>3, <1>4, <1>5, <1>6

\* A thread at idle, or assigning, drops the reference of a handle of its own.
LEMMA DropStep ==
  ASSUME BodyInv, NEW t \in Threads, NEW x \in Mine[t], body[x] # NoBody,
         NEW l, Drop(t, x, l), UNCHANGED <<guard, tgt>>,
         \/ pc[t] = "idle" /\ l = "idle"
         \/ pc[t] = "assign_drop" /\ l = "assign_store" /\ x = tgt[t]
  PROVE  BodyInv'
<1> USE OwnerFacts DEF BodyInv, Drop, Goto
<1>0. x \in Owners /\ body[x] \in Bodies /\ status[body[x]] = "live"
  BY DEF BodyTypeOK, Bodied, NoDangling
<1>1. /\ ref[body[x]] > 0
      /\ Counts(ref', body')
      /\ ref[body[x]] = 1 <=> \A y \in Owners : body[y] = body[x] => y = x
  <2>1. ref \in [Bodies -> Nat] /\ body \in Bodied /\ Counts(ref, body)
    BY CountsIs DEF BodyTypeOK
  <2>2. /\ ref' = [ref EXCEPT ![body[x]] = @ - 1]
        /\ body' = [body EXCEPT ![x] = NoBody]
    OBVIOUS
  <2>3. Counts([ref EXCEPT ![body[x]] = @ - 1], [body EXCEPT ![x] = NoBody])
    BY ONLY <1>0, <2>1, Lose
  <2>4. ref[body[x]] > 0
    BY ONLY <1>0, <2>1, Lose
  <2>5. ref[body[x]] = 1 <=> \A y \in Owners : body[y] = body[x] => y = x
    BY ONLY <1>0, <2>1, Lose
  <2> QED
    BY <2>2, <2>3, <2>4, <2>5
<1>2. BodyTypeOK'
  BY <1>0, <1>1 DEF BodyTypeOK, Bodied, Labels
<1>3. Rooted'
  BY <1>0 DEF Rooted, BodyTypeOK, Bodied
<1>4. CountExact'
  BY <1>1 DEF CountExact, Counts, Refs
<1>5. CASE ref[body[x]] = 1
  <2>1. /\ status' = [status EXCEPT ![body[x]] = "dying"]
        /\ reg' = [reg EXCEPT ![t] = body[x]]
        /\ pc' = [pc EXCEPT ![t] = "delete"]
        /\ body' = [body EXCEPT ![x] = NoBody]
    BY <1>5
  <2>2. \A y \in Owners : body[y] = body[x] => y = x
    BY <1>1, <1>5
  <2> USE <1>0, <2>1, <2>2
  <2>3. ASSUME NEW u \in Threads PROVE Place(u)'
    BY DEF BodyTypeOK, Bodied, Place, Aims, Building, NoDangling
  <2>4. NoDangling'
    BY DEF BodyTypeOK, Bodied, NoDangling, At, Place, Aims, Rooted, Building
  <2>5. Custody'
    BY DEF BodyTypeOK, Bodied, Custody, At, Place, Aims, NoDangling, Building
  <2> QED
    BY <1>2, <1>3, <1>4, <2>3, <2>4, <2>5
<1>6. CASE ref[body[x]] # 1
  <2>1. /\ status' = status /\ reg' = reg
        /\ pc' = [pc EXCEPT ![t] = l]
        /\ body' = [body EXCEPT ![x] = NoBody]
    BY <1>6
  <2>2. \E y \in Owners : body[y] = body[x] /\ y # x
    BY <1>1, <1>6
  <2> USE <1>0, <2>1, <2>2
  <2>3. ASSUME NEW u \in Threads PROVE Place(u)'
    BY DEF BodyTypeOK, Bodied, Place, Aims, Building, NoDangling
  <2>4. NoDangling'
    BY DEF BodyTypeOK, Bodied, NoDangling, At, Place, Aims, Rooted, Building
  <2>5. Custody'
    BY DEF BodyTypeOK, Bodied, Custody, At, Place, Aims, NoDangling, Building
  <2> QED
    BY <1>2, <1>3, <1>4, <2>3, <2>4, <2>5
<1> QED
  BY <1>5, <1>6

LEMMA AssignStoreStep ==
  ASSUME BodyInv, NEW t \in Threads, AssignStore(t)
  PROVE  BodyInv'
<1> USE OwnerFacts DEF BodyInv, AssignStore, Store, At, Goto, bodyVars
<1>1. BodyTypeOK'
  BY DEF BodyTypeOK, Labels, Bodied, Place, Aims
<1>2. Rooted'
  BY DEF Rooted, Place, Aims, BodyTypeOK, Bodied
<1>3. CountExact'
  <2>1. /\ tgt[t] \in Owners /\ t \in Owners /\ tgt[t] # t
        /\ body[tgt[t]] = NoBody /\ body \in Bodied
    BY DEF BodyTypeOK, Place, Aims
  <2>2. Counts(ref, [body EXCEPT ![tgt[t]] = body[t], ![t] = NoBody])
    BY <2>1, CountsIs, Move
  <2> QED
    BY <2>2 DEF CountExact, Counts, Refs
<1>4. ASSUME NEW u \in Threads PROVE Place(u)'
  BY DEF BodyTypeOK, Bodied, Place, Aims, Building, NoDangling, Labels
<1>5. NoDangling'
  BY DEF BodyTypeOK, Bodied, NoDangling, Place, Aims, Rooted, Building
<1>6. Custody'
  BY DEF BodyTypeOK, Bodied, Custody, Place, Aims, NoDangling, Building
<1> QED
  BY <1>1, <1>2, <1>3, <1>4, <1>5, <1>6

LEMMA SetGlobalSwapStep ==
  ASSUME BodyInv, NEW t \in Threads, SetGlobalSwap(t)
  PROVE  BodyInv'
<1> USE OwnerFacts DEF BodyInv, SetGlobalSwap, At, Goto, bodyVars
<1>1. BodyTypeOK'
  BY DEF BodyTypeOK, Labels, Bodied, Place, Aims
<1>2. Rooted'
  BY DEF Rooted, Place, Aims, BodyTypeOK, Bodied
<1>3. CountExact'
  <2> DEFINE mid == [body EXCEPT ![tgt[t]] = body[Global], ![Global] = NoBody]
  <2>1. /\ tgt[t] \in Owners /\ t \in Owners /\ tgt[t] # t /\ Global \in Owners
        /\ tgt[t] # Global /\ Global # t
        /\ body[tgt[t]] = NoBody /\ body \in Bodied
    BY DEF BodyTypeOK, Place, Aims
  <2>2. Counts(ref, mid)
    BY <2>1, CountsIs, Move
  <2>3. mid \in Bodied /\ mid[Global] = NoBody /\ mid[t] = body[t]
    BY <2>1 DEF Bodied
  <2>4. Counts(ref, [mid EXCEPT ![Global] = mid[t], ![t] = NoBody])
    <3> HIDE DEF mid
    <3> QED
      BY <2>1, <2>2, <2>3, Move
  <2>5. body' = [mid EXCEPT ![Global] = mid[t], ![t] = NoBody]
    BY <2>1, <2>3 DEF Bodied
  <2>6. Counts(ref', body')
    <3> HIDE DEF mid
    <3> QED
      BY <2>4, <2>5
  <2> QED
    BY ONLY <2>6 DEF CountExact, Counts, Refs
<1>4. ASSUME NEW u \in Threads PROVE Place(u)'
  BY DEF BodyTypeOK, Bodied, Place, Aims, Building, NoDangling, Labels
<1>5. NoDangling'
  BY DEF BodyTypeOK, Bodied, NoDangling, Place, Aims, Rooted, Building
<1>6. Custody'
  BY DEF BodyTypeOK, Bodied, Custody, Place, Aims, NoDangling, Building
<1> QED
  BY <1>1, <1>2, <1>3, <1>4, <1>5, <1>6

\* A new body, built by t for its handle h.
LEMMA AllocateStep ==
  ASSUME BodyInv, NEW t \in Threads, NEW h \in Mine[t], NEW b \in Bodies, NEW n,
         Allocate(t, h, b, n), UNCHANGED <<guard, reg>>,
         NEW l \in Building, Goto(t, l)
  PROVE  BodyInv'
<1> USE OwnerFacts DEF BodyInv, Allocate, Fresh, At, Goto
<1>0. /\ t \in Owners /\ body[t] = NoBody /\ reg[t] = NoBody
      /\ \A x \in Owners : body[x] # b
  BY DEF BodyTypeOK, Bodied, Place, NoDangling
<1> USE <1>0
<1>1. BodyTypeOK'
  BY DEF BodyTypeOK, Labels, Bodied, Building
<1>2. Rooted'
  BY DEF Rooted, BodyTypeOK, Bodied
<1>3. CountExact'
  <2>1. ref[b] = 0
    BY CountsIs, NoneHas
  <2>2. Counts([ref EXCEPT ![b] = @ + 1], [body EXCEPT ![t] = b])
    BY CountsIs, Gain DEF BodyTypeOK
  <2>3. [ref EXCEPT ![b] = @ + 1] = ref' /\ [body EXCEPT ![t] = b] = body'
    BY <2>1 DEF BodyTypeOK
  <2> QED
    BY ONLY <2>2, <2>3 DEF CountExact, Counts, Refs
<1>4. ASSUME NEW u \in Threads PROVE Place(u)'
  BY DEF BodyTypeOK, Bodied, Place, Aims, Building, NoDangling, Labels
<1>5. NoDangling'
  BY DEF BodyTypeOK, Bodied, NoDangling, Place, Aims, Rooted, Building
<1>6. Custody'
  BY DEF BodyTypeOK, Bodied, Custody, Place, Aims, NoDangling, Building
<1> QED
  BY <1>1, <1>2, <1>3, <1>4, <1>5, <1>6

\* A constructor that does not complete gives its storage back.
LEMMA FreeUnbuiltStep ==
  ASSUME BodyInv, NEW t \in Threads, pc[t] \in Building, FreeUnbuilt(t),
         UNCHANGED <<guard, tgt, reg>>
  PROVE  BodyInv'
<1> USE OwnerFacts DEF BodyInv, FreeUnbuilt, At, Goto
<1>0. /\ t \in Owners /\ body[t] \in Bodies /\ reg[t] = NoBody
      /\ \A x \in Owners : body[x] = body[t] => x = t
  BY DEF BodyTypeOK, Bodied, Place, Building
<1> USE <1>0
<1>1. BodyTypeOK'
  BY DEF BodyTypeOK, Labels, Bodied, Building
<1>2. Rooted'
  BY DEF Rooted, BodyTypeOK, Bodied
<1>3. CountExact'
  <2>1. ref \in [Bodies -> Nat] /\ body \in Bodied /\ Counts(ref, body)
    BY CountsIs DEF BodyTypeOK
  <2>2. ref[body[t]] = 1
    BY ONLY <1>0, <2>1, Lose
  <2>3. Counts([ref EXCEPT ![body[t]] = @ - 1], [body EXCEPT ![t] = NoBody])
    BY ONLY <1>0, <2>1, Lose
  <2>4. [ref EXCEPT ![body[t]] = @ - 1] = ref'
    BY <2>1, <2>2
  <2> QED
    BY <2>3, <2>4 DEF CountExact, Counts, Refs
<1>4. ASSUME NEW u \in Threads PROVE Place(u)'
  BY DEF BodyTypeOK, Bodied, Place, Aims, Building, NoDangling, Labels
<1>5. NoDangling'
  BY DEF BodyTypeOK, Bodied, NoDangling, Place, Aims, Rooted, Building
<1>6. Custody'
  BY DEF BodyTypeOK, Bodied, Custody, Place, Aims, NoDangling, Building
<1> QED
  BY <1>1, <1>2, <1>3, <1>4, <1>5, <1>6

LEMMA PublishStep ==
  ASSUME BodyInv, NEW t \in Threads, Publish(t)
  PROVE  BodyInv'
<1> USE OwnerFacts DEF BodyInv, Publish, Store, At, Goto
<1>0. /\ t \in Owners /\ body[t] \in Bodies /\ reg[t] = NoBody
      /\ \A x \in Owners : body[x] = body[t] => x = t
      /\ tgt[t] \in Owners /\ tgt[t] # t /\ body[tgt[t]] = NoBody
      /\ tgt[t] \in Mine[t]
  BY DEF BodyTypeOK, Bodied, Place, Aims, Building
<1> USE <1>0
<1>1. BodyTypeOK'
  BY DEF BodyTypeOK, Labels, Bodied
<1>2. Rooted'
  BY DEF Rooted, BodyTypeOK, Bodied
<1>3. CountExact'
  <2>1. Counts(ref, [body EXCEPT ![tgt[t]] = body[t], ![t] = NoBody])
    BY CountsIs, Move DEF BodyTypeOK
  <2>2. Counts(ref', body')
    BY <2>1
  <2> QED
    BY ONLY <2>2 DEF CountExact, Counts, Refs
<1>4. ASSUME NEW u \in Threads PROVE Place(u)'
  BY DEF BodyTypeOK, Bodied, Place, Aims, Building, NoDangling, Labels
<1>5. NoDangling'
  BY DEF BodyTypeOK, Bodied, NoDangling, Place, Aims, Rooted, Building
<1>6. Custody'
  BY DEF BodyTypeOK, Bodied, Custody, Place, Aims, NoDangling, Building
<1> QED
  BY <1>1, <1>2, <1>3, <1>4, <1>5, <1>6

LEMMA DeleteBodyStep ==
  ASSUME BodyInv, NEW t \in Threads, DeleteBody(t)
  PROVE  BodyInv'
<1> USE OwnerFacts DEF BodyInv, DeleteBody, At, Goto
<1>1. BodyTypeOK'
  BY DEF BodyTypeOK, Labels, Bodied
<1>2. Rooted'
  BY DEF Rooted
<1>3. CountExact'
  BY DEF CountExact
<1>4. ASSUME NEW u \in Threads PROVE Place(u)'
  BY DEF BodyTypeOK, Bodied, Place, Aims, Building, NoDangling, Labels, Custody, At
<1>5. NoDangling'
  BY DEF BodyTypeOK, Bodied, NoDangling, Place, Aims, Rooted, Building
<1>6. Custody'
  BY DEF BodyTypeOK, Bodied, Custody, Place, Aims, NoDangling, Building
<1> QED
  BY <1>1, <1>2, <1>3, <1>4, <1>5, <1>6

THEOREM BodyInvAlways == Spec => []BodyInv
<1>1. BodyInv /\ UNCHANGED vars => BodyInv'
  <2> SUFFICES ASSUME BodyInv, UNCHANGED vars PROVE BodyInv'
    OBVIOUS
  <2> USE DEF vars, bodyVars, facetVars, buildVars, BodyInv
  <2>1. BodyTypeOK' /\ Rooted' /\ CountExact'
    BY DEF BodyTypeOK, Rooted, CountExact
  <2>2. ASSUME NEW u \in Threads PROVE Place(u)'
    BY DEF Place, Aims
  <2>3. NoDangling' /\ Custody'
    BY DEF NoDangling, Custody, At
  <2> QED
    BY <2>1, <2>2, <2>3
<1>2. ASSUME BodyInv, NEW t \in Threads, Start(t)
      PROVE  BodyInv'
  <2>1. ASSUME NEW h \in Mine[t], DefaultCtor(t, h) PROVE BodyInv'
    BY <1>2, <2>1, DefaultCtorStep
  <2>2. ASSUME NEW h \in Mine[t], Dtor(t, h) PROVE BodyInv'
    BY <1>2, <2>2, DropStep DEF Dtor, At
  <2>3. ASSUME NEW h \in Mine[t], NEW g, CopyCtor(t, h, g) PROVE BodyInv'
    BY <1>2, <2>3, CopyCtorStep
  <2>4. ASSUME NEW h, NEW g, AssignCount(t, h, g) PROVE BodyInv'
    BY <1>2, <2>4, AssignCountStep
  <2>5. ASSUME NEW g, NEW h, SetGlobalCount(t, g, h) PROVE BodyInv'
    BY <1>2, <2>5, SetGlobalCountStep
  <2>6. ASSUME NEW h \in Mine[t], NEW b \in Bodies, NEW n, NamedAlloc(t, h, b, n)
        PROVE  BodyInv'
    BY <1>2, <2>6, AllocateStep DEF NamedAlloc, Building, facetVars
  <2>7. ASSUME NEW h \in Mine[t], NEW b \in Bodies, NEW g, NEW f, NEW i, NEW r,
               CombineFacetAlloc(t, h, g, b, f, i, r)
        PROVE  BodyInv'
    BY <1>2, <2>7, AllocateStep DEF CombineFacetAlloc, Building
  <2>8. ASSUME NEW h \in Mine[t], NEW b \in Bodies, NEW g, NEW k, NEW cat,
               CombineCatAlloc(t, h, g, k, b, cat)
        PROVE  BodyInv'
    BY <1>2, <2>8, AllocateStep DEF CombineCatAlloc, Building, facetVars
  <2> QED
    BY <1>2, <2>1, <2>2, <2>3, <2>4, <2>5, <2>6, <2>7, <2>8 DEF Start
<1>3. ASSUME BodyInv, NEW t \in Threads, Continue(t)
      PROVE  BodyInv'
  <2>1. CASE GlobalRead(t)
    BY <1>3, <2>1, GlobalReadStep
  <2>2. CASE GlobalCount(t)
    BY <1>3, <2>2, GlobalCountStep
  <2>3. CASE AssignDrop(t)
    BY <1>3, <2>3, DropStep DEF AssignDrop, At, BodyInv, Place
  <2>4. CASE AssignStore(t)
    BY <1>3, <2>4, AssignStoreStep
  <2>5. CASE SetGlobalSwap(t)
    BY <1>3, <2>5, SetGlobalSwapStep
  <2>6. CASE ArrayNew(t) \/ Counted(t) \/ NameNew(t) \/ Obtained(t)
    <3>1. Quiet(t)
      BY <2>6 DEF Quiet, ArrayNew, Counted, NameNew, Obtained, At, Goto, Building, bodyVars
    <3> QED
      BY <1>3, <3>1, QuietStep
  <2>7. CASE Publish(t)
    BY <1>3, <2>7, PublishStep
  <2>8. CASE DeleteBody(t)
    BY <1>3, <2>8, DeleteBodyStep
  <2>9. CASE UnwindBody(t)
    BY <1>3, <2>9, FreeUnbuiltStep DEF UnwindBody, At, Building, facetVars
  <2>10. ASSUME NEW i, NEW f,
                \/ CountSlot(t, i) \/ DeleteSlot(t, i) \/ UnwindSlot(t, i)
                \/ ObtainByname(t, i, f) \/ ObtainOrdinary(t, i)
         PROVE  BodyInv'
    <3>1. Quiet(t)
      BY <2>10 DEF Quiet, CountSlot, DeleteSlot, UnwindSlot, ObtainByname,
                   ObtainOrdinary, bodyVars
    <3> QED
      BY <1>3, <3>1, QuietStep
  <2> QED
    BY <1>3, <2>1, <2>2, <2>3, <2>4, <2>5, <2>6, <2>7, <2>8, <2>9, <2>10 DEF Continue
<1>4. ASSUME BodyInv, NEW t \in Threads, Fail(t)
      PROVE  BodyInv'
  <2>1. CASE ArrayThrow(t)
    BY <1>4, <2>1, FreeUnbuiltStep DEF ArrayThrow, At, Building
  <2>2. CASE NameThrow(t)
    BY <1>4, <2>2, FreeUnbuiltStep DEF NameThrow, At, Building
  <2>3. CASE ObtainThrow(t)
    <3>1. Quiet(t)
      BY <2>3 DEF Quiet, ObtainThrow, At, Goto, Building, bodyVars
    <3> QED
      BY <1>4, <3>1, QuietStep
  <2> QED
    BY <1>4, <2>1, <2>2, <2>3 DEF Fail
<1>5. BodyInv /\ [Next]_vars => BodyInv'
  BY <1>1, <1>2, <1>3, <1>4 DEF Next
<1> QED
  BY <1>5, InitBody, PTL DEF Spec

\* The count of a body (__rw_locale::_C_ref) is the number of references to it.
THEOREM CountExactAlways == Spec => []CountExact
<1>1. BodyInv => CountExact
  BY DEF BodyInv
<1> QED
  BY <1>1, BodyInvAlways, PTL

\* No handle, nor the global locale, nor an operation in flight, ever refers to
\* a body that was deleted or that another thread is building.
THEOREM NoDanglingAlways == Spec => []NoDangling
<1>1. BodyInv => NoDangling
  BY DEF BodyInv
<1> QED
  BY <1>1, BodyInvAlways, PTL

\* A body is deleted by one thread, once, and none is left half built.
THEOREM CustodyAlways == Spec => []Custody
<1>1. BodyInv => Custody
  BY DEF BodyInv
<1> QED
  BY <1>1, BodyInvAlways, PTL

\* The three together: the counts of bodies and the life of bodies agree at
\* every step of every thread.
THEOREM ReferencesRightAlways == Spec => []ReferencesRight
<1>1. BodyInv => ReferencesRight
  BY DEF BodyInv, ReferencesRight
<1> QED
  BY <1>1, BodyInvAlways, PTL
-----------------------------------------------------------------------------
\* The places that have a reference to facet f.
Holders(s, f) == {p \in Bodies \X Slots : s[p[1]][p[2]] = f}

Slotted == [Bodies -> [Slots -> Facets \cup {NoFacet}]]

LEMMA FacetFacts ==
    /\ NoFacet \notin Facets /\ Heap \subseteq Facets
    /\ \A i \in StdSlots : Ordinary[i] \in Facets /\ Ordinary[i] \notin Heap
    /\ StdSlots \subseteq Slots /\ Plain \subseteq StdSlots
    /\ Slots \subseteq Nat
BY LocaleAssumption DEF Facets, StdSlots, Slots

LEMMA HoldersFinite ==
  ASSUME NEW s, NEW f
  PROVE  IsFiniteSet(Holders(s, f)) /\ Cardinality(Holders(s, f)) \in Nat
<1>1. IsFiniteSet(Slots) /\ IsFiniteSet(Bodies)
  BY LocaleAssumption, FS_Interval DEF Slots
<1>2. IsFiniteSet(Bodies \X Slots)
  BY <1>1, FS_Product
<1>3. Holders(s, f) \in SUBSET (Bodies \X Slots)
  BY DEF Holders
<1> QED
  BY <1>2, <1>3, FS_Subset, FS_CardinalityType

LEMMA HolderIs ==
  ASSUME NEW s, NEW f
  PROVE  /\ Holders(s, f) \subseteq Bodies \X Slots
         /\ \A b \in Bodies, i \in Slots : <<b, i>> \in Holders(s, f) <=> s[b][i] = f
         /\ Holders(s, f) = {} <=> \A b \in Bodies, i \in Slots : s[b][i] # f
<1>1. Holders(s, f) \subseteq Bodies \X Slots
  BY DEF Holders
<1>2. ASSUME NEW b \in Bodies, NEW i \in Slots
      PROVE  <<b, i>> \in Holders(s, f) <=> s[b][i] = f
  BY DEF Holders
<1>3. ASSUME NEW p \in Holders(s, f)
      PROVE  \E b \in Bodies, i \in Slots : s[b][i] = f
  BY DEF Holders
<1> HIDE DEF Holders
<1> QED
  BY <1>1, <1>2, <1>3

\* Sets of places are the same when they have the same pairs.
LEMMA SamePlaces ==
  ASSUME NEW S, NEW T, S \subseteq Bodies \X Slots, T \subseteq Bodies \X Slots,
         \A b \in Bodies, i \in Slots : <<b, i>> \in S <=> <<b, i>> \in T
  PROVE  S = T
<1>1. \A p \in Bodies \X Slots : \E b \in Bodies, i \in Slots : p = <<b, i>>
  OBVIOUS
<1> QED
  BY <1>1

LEMMA SameHolders ==
  ASSUME NEW r, NEW s, NEW f,
         \A b \in Bodies, i \in Slots : r[b][i] = f <=> s[b][i] = f
  PROVE  Holders(r, f) = Holders(s, f)
<1>1. ASSUME NEW b \in Bodies, NEW i \in Slots
      PROVE  <<b, i>> \in Holders(r, f) <=> <<b, i>> \in Holders(s, f)
  BY HolderIs
<1> QED
  BY <1>1, HolderIs, SamePlaces

\* A body takes a reference to f in an empty slot.
LEMMA HolderGained ==
  ASSUME NEW s \in Slotted, NEW b \in Bodies, NEW i \in Slots, s[b][i] = NoFacet,
         NEW f \in Facets, NEW s1,
         \A c \in Bodies, j \in Slots :
             s1[c][j] = IF c = b /\ j = i THEN f ELSE s[c][j]
  PROVE  \A g \in Facets : Cardinality(Holders(s1, g)) =
                 Cardinality(Holders(s, g)) + (IF g = f THEN 1 ELSE 0)
<1>1. \A c \in Bodies, j \in Slots :
         s1[c][j] = IF c = b /\ j = i THEN f ELSE s[c][j]
  OBVIOUS
<1>2. Holders(s1, f) = Holders(s, f) \cup {<<b, i>>} /\ <<b, i>> \notin Holders(s, f)
  <2>1. <<b, i>> \notin Holders(s, f)
    BY FacetFacts, HolderIs
  <2>2. /\ Holders(s1, f) \subseteq Bodies \X Slots
        /\ Holders(s, f) \cup {<<b, i>>} \subseteq Bodies \X Slots
    BY HolderIs
  <2>3. \A c \in Bodies, j \in Slots :
           <<c, j>> \in Holders(s1, f) <=> <<c, j>> \in Holders(s, f) \cup {<<b, i>>}
    <3> TAKE c \in Bodies, j \in Slots
    <3>1. <<c, j>> \in Holders(s1, f) <=> s1[c][j] = f
      BY HolderIs
    <3>2. <<c, j>> \in Holders(s, f) <=> s[c][j] = f
      BY HolderIs
    <3>3. <<c, j>> = <<b, i>> <=> c = b /\ j = i
      OBVIOUS
    <3> QED
      BY <1>1, <3>1, <3>2, <3>3
  <2> QED
    BY <2>1, <2>2, <2>3, SamePlaces
<1>3. ASSUME NEW g \in Facets, g # f PROVE Holders(s1, g) = Holders(s, g)
  <2>1. \A c \in Bodies, j \in Slots : s1[c][j] = g <=> s[c][j] = g
    BY <1>1, <1>3, FacetFacts
  <2> QED
    BY <2>1, SameHolders
<1>4. Cardinality(Holders(s1, f)) = Cardinality(Holders(s, f)) + 1
  BY <1>2, HoldersFinite, FS_AddElement
<1>5. \A g \in Facets : Cardinality(Holders(s1, g)) =
                 Cardinality(Holders(s, g)) + (IF g = f THEN 1 ELSE 0)
  BY <1>3, <1>4, HoldersFinite
<1> QED
  BY <1>5

\* A body gives up its reference in slot i: the count was at least one, and
\* was one exactly if that slot alone had the facet.
LEMMA HolderLost ==
  ASSUME NEW s \in Slotted, NEW b \in Bodies, NEW i \in Slots, s[b][i] # NoFacet,
         NEW s1,
         \A c \in Bodies, j \in Slots :
             s1[c][j] = IF c = b /\ j = i THEN NoFacet ELSE s[c][j]
  PROVE  /\ \A g \in Facets : Cardinality(Holders(s, g)) =
                    Cardinality(Holders(s1, g)) + (IF g = s[b][i] THEN 1 ELSE 0)
         /\ \A g \in Facets : Cardinality(Holders(s1, g)) = 0 <=>
                    \A c \in Bodies, j \in Slots : s[c][j] = g => c = b /\ j = i
<1> DEFINE f == s[b][i]
<1>1. \A c \in Bodies, j \in Slots :
         s1[c][j] = IF c = b /\ j = i THEN NoFacet ELSE s[c][j]
  OBVIOUS
<1>2. f \in Facets /\ f = s[b][i]
  BY DEF Slotted
<1> HIDE DEF f
<1>3. Holders(s1, f) = Holders(s, f) \ {<<b, i>>} /\ <<b, i>> \in Holders(s, f)
  <2>1. <<b, i>> \in Holders(s, f)
    BY <1>2, HolderIs
  <2>2. /\ Holders(s1, f) \subseteq Bodies \X Slots
        /\ Holders(s, f) \ {<<b, i>>} \subseteq Bodies \X Slots
    BY HolderIs
  <2>3. \A c \in Bodies, j \in Slots :
           <<c, j>> \in Holders(s1, f) <=> <<c, j>> \in Holders(s, f) \ {<<b, i>>}
    <3> TAKE c \in Bodies, j \in Slots
    <3>1. <<c, j>> \in Holders(s1, f) <=> s1[c][j] = f
      BY HolderIs
    <3>2. <<c, j>> \in Holders(s, f) <=> s[c][j] = f
      BY HolderIs
    <3>3. <<c, j>> = <<b, i>> <=> c = b /\ j = i
      OBVIOUS
    <3> QED
      BY <1>1, <1>2, <3>1, <3>2, <3>3, FacetFacts
  <2> QED
    BY <2>1, <2>2, <2>3, SamePlaces
<1>4. ASSUME NEW g \in Facets, g # f PROVE Holders(s1, g) = Holders(s, g)
  <2>1. \A c \in Bodies, j \in Slots : s1[c][j] = g <=> s[c][j] = g
    BY <1>1, <1>2, <1>4, FacetFacts
  <2> QED
    BY <2>1, SameHolders
<1>5. Cardinality(Holders(s, f)) = Cardinality(Holders(s1, f)) + 1
  <2>1. Cardinality(Holders(s1, f)) = Cardinality(Holders(s, f)) - 1
    BY <1>3, HoldersFinite, FS_RemoveElement
  <2> QED
    BY <2>1, HoldersFinite
<1>6. \A g \in Facets : Cardinality(Holders(s, g)) =
                    Cardinality(Holders(s1, g)) + (IF g = f THEN 1 ELSE 0)
  BY <1>4, <1>5, HoldersFinite
<1>7. \A g \in Facets : Cardinality(Holders(s1, g)) = 0 <=> Holders(s1, g) = {}
  BY HoldersFinite, FS_EmptySet
<1>8. \A g \in Facets : Holders(s1, g) = {} <=>
                    \A c \in Bodies, j \in Slots : s[c][j] = g => c = b /\ j = i
  <2> SUFFICES ASSUME NEW g \in Facets
               PROVE  Holders(s1, g) = {} <=>
                    \A c \in Bodies, j \in Slots : s[c][j] = g => c = b /\ j = i
    OBVIOUS
  <2>1. Holders(s1, g) = {} <=> \A c \in Bodies, j \in Slots : s1[c][j] # g
    BY HolderIs
  <2> QED
    BY <2>1, <1>1, FacetFacts
<1> QED
  BY <1>6, <1>7, <1>8 DEF f

\* The references of one body are forgotten.
LEMMA HoldersForgotten ==
  ASSUME NEW s, NEW b, NEW s1, NEW f \in Facets,
         \A c \in Bodies, j \in Slots : s1[c][j] = IF c = b THEN NoFacet ELSE s[c][j]
  PROVE  Cardinality(Holders(s1, f)) <= Cardinality(Holders(s, f))
<1>1. \A c \in Bodies, j \in Slots : s1[c][j] = f => s[c][j] = f
  BY FacetFacts
<1>2. Holders(s1, f) \in SUBSET Holders(s, f)
  BY <1>1 DEF Holders
<1> QED
  BY <1>2, HoldersFinite, FS_Subset

\* A count of no places, and of one.
LEMMA Unheld ==
  ASSUME NEW s, NEW f
  PROVE  Cardinality(Holders(s, f)) = 0 <=> \A b \in Bodies, i \in Slots : s[b][i] # f
<1>1. Cardinality(Holders(s, f)) = 0 <=> Holders(s, f) = {}
  BY HoldersFinite, FS_EmptySet
<1> QED
  BY <1>1, HolderIs
-----------------------------------------------------------------------------
Bare(b) == \A i \in Slots : slot[b][i] = NoFacet

Sole(b, f) == \A c \in Bodies, i \in Slots : slot[c][i] = f => c = b

FacetTypeOK ==
    /\ slot \in [Bodies -> [Slots -> Facets \cup {NoFacet}]]
    /\ name \in [Bodies -> FullNames \cup {NoName}]
    /\ fref \in [Facets -> Nat]
    /\ falive \in SUBSET Facets
    /\ floc \in [Facets -> Names \cup {NoName}]
    /\ extra \in [Facets -> Nat]
    /\ want \in [Threads -> [Slots -> Facets \cup {NoFacet}]]
    /\ todo \in [Threads -> SUBSET Slots]
    /\ src \in [Threads -> SUBSET (Handles \cup {ClassicObj})]
    /\ gift \in [Threads -> Facets \cup {NoFacet}]
    /\ throws \in 0 .. MaxThrows

HeldLive == \A b \in Bodies, i \in Slots : slot[b][i] # NoFacet => slot[b][i] \in falive

\* A facet has the references that are held, and those that were lost with a
\* combination that got no name.
Enough(n, f) == fref[f] >= n /\ (~LongNames => fref[f] = n)
RefsCounted == \A f \in Facets : Enough(extra[f] + Cardinality(Holders(slot, f)), f)

HeapKept == ~LongNames =>
    \A f \in Heap \cap falive :
        \/ \E b \in Bodies, i \in Slots : slot[b][i] = f
        \/ extra[f] > 0
        \/ \E t \in Threads : gift[t] = f

FreeBare == \A b \in Bodies : status[b] = "free" => Bare(b)

Statics == \A i \in StdSlots : Ordinary[i] \in falive /\ floc[Ordinary[i]] = CName

LocOf(n, i) == IF i \in Plain THEN CName ELSE n[i]

Tells(n, fs) ==
    /\ \A i \in Slots \ StdSlots : fs[i] = NoFacet
    /\ \A i \in StdSlots : fs[i] # NoFacet /\ floc[fs[i]] = LocOf(n, i)

NamesTell == \A b \in Bodies : status[b] = "live" /\ name[b] # NoName => Tells(name[b], slot[b])

Gift(t) == gift[t] # NoFacet =>
   /\ gift[t] \in Heap /\ gift[t] \in falive
   /\ pc[t] \in {"copied", "count"}
   /\ \A b \in Bodies, i \in Slots : slot[b][i] # gift[t]
   /\ \A u \in Threads : gift[u] = gift[t] => u = t
   /\ \E i \in todo[t] : want[t][i] = gift[t]

Combining == {"copied", "count", "name", "publish"}

\* want
Facetted(t, g, i, f) ==
    /\ want[t] = [slot[body[g]] EXCEPT ![i] = f]
    /\ name[body[t]] = NoName
    /\ \/ f \in Heap /\ (gift[t] = f \/ slot[body[t]][i] = f) /\ Sole(body[t], f)
       \/ \E k \in src[t] : slot[body[k]][i] = f

Categorized(t, g, k, cat) ==
    /\ want[t] = [i \in Slots |-> IF i \in cat THEN slot[body[k]][i] ELSE slot[body[g]][i]]
    /\ name[body[t]] = CombinedName(body[g], body[k], cat)
    /\ gift[t] = NoFacet

Combination(t) ==
    /\ pc[t] \in Combining
    /\ \A g \in src[t] : g \in Mine[t] \cup {ClassicObj} /\ body[g] # NoBody
    /\ \/ \E g \in src[t], i \in Slots, f \in Facets : Facetted(t, g, i, f)
       \/ \E g, k \in src[t], cat \in SUBSET StdSlots : Categorized(t, g, k, cat)
    /\ \A i \in todo[t] : want[t][i] # NoFacet
    /\ \A i \in Slots : slot[body[t]][i] = IF i \in todo[t] THEN NoFacet ELSE want[t][i]
    /\ pc[t] = "copied" => \A i \in Slots : i \notin todo[t] => want[t][i] = NoFacet
    /\ pc[t] \in {"name", "publish"} => todo[t] = {}

FacetOfName(b, i) ==
    IF name[b][i] = CName \/ i \in Plain
    THEN slot[b][i] = Ordinary[i]
    ELSE slot[b][i] \in Heap /\ floc[slot[b][i]] = name[b][i] /\ Sole(b, slot[b][i])

Naming(t) ==
    /\ pc[t] \in {"obtain", "publish", "unwind"}
    /\ name[body[t]] \in FullNames
    /\ todo[t] \subseteq StdSlots
    /\ gift[t] = NoFacet
    /\ pc[t] # "unwind" =>
         /\ \A i \in todo[t] : slot[body[t]][i] = NoFacet
         /\ \A i \in Slots \ StdSlots : slot[body[t]][i] = NoFacet
         /\ \A i \in StdSlots \ todo[t] : FacetOfName(body[t], i)
    /\ pc[t] = "publish" => todo[t] = {}

Stage(t) ==
    /\ pc[t] \notin Building => todo[t] = {} /\ src[t] = {} /\ gift[t] = NoFacet
    /\ src[t] # {} => Combination(t)
    /\ pc[t] \in Building /\ src[t] = {} => Naming(t)
    /\ src[t] = {} => want[t] = [i \in Slots |-> NoFacet]
    /\ pc[t] = "set_global" => \E g \in Mine[t] \cup {ClassicObj} : body[g] = body[t]

FacetInv ==
   /\ FacetTypeOK
   /\ HeldLive /\ RefsCounted /\ HeapKept
   /\ FreeBare /\ Statics /\ NamesTell
   /\ \A t \in Threads : Gift(t) /\ Stage(t)


\* What t may give a reference to that it, or a body, did not have.
Reference(t, f) ==
    \/ f \notin Heap \/ f \notin falive \/ f = gift[t]
    \/ \E c \in Bodies, i \in Slots : status[c] = "live" /\ slot[c][i] = f

\* A step of t leaves alone what the other threads are building, and what
\* they are building it from.
Aside(t) ==
    /\ \A u \in Threads : u # t =>
          /\ pc'[u] = pc[u] /\ want'[u] = want[u] /\ todo'[u] = todo[u]
          /\ src'[u] = src[u] /\ gift'[u] = gift[u] /\ body'[u] = body[u]
          /\ \A x \in Mine[u] \cup {ClassicObj} : body'[x] = body[x]
    /\ \A b \in Bodies :
          (status[b] = "live" \/ \E u \in Threads : u # t /\ pc[u] \in Building /\ body[u] = b)
             => slot'[b] = slot[b] /\ name'[b] = name[b]
    /\ \A f \in falive : floc'[f] = floc[f]
    /\ \A b \in Bodies, i \in Slots :
          slot'[b][i] \in {slot[b][i], NoFacet} \/ Reference(t, slot'[b][i])
    /\ \A u \in Threads : u # t /\ gift[u] # NoFacet => gift[u] \in falive'
    /\ gift'[t] \in {gift[t], NoFacet} \/ gift'[t] \notin falive

LEMMA OthersGift ==
  ASSUME BodyInv, FacetInv, NEW t \in Threads, Aside(t), NEW u \in Threads, u # t
  PROVE  Gift(u)'
<1> SUFFICES ASSUME gift[u] # NoFacet PROVE Gift(u)'
  BY DEF Aside, Gift
<1>1. Gift(u) /\ Gift(t)
  BY DEF FacetInv
<1>2. /\ gift[u] \in Heap /\ gift[u] \in falive /\ gift[u] # NoFacet
      /\ \A b \in Bodies, i \in Slots : slot[b][i] # gift[u]
      /\ gift[t] # gift[u]
  BY <1>1 DEF Gift
<1>3. ASSUME NEW b \in Bodies, NEW i \in Slots PROVE slot'[b][i] # gift[u]
  BY <1>2 DEF Aside, Reference
<1>4. \A v \in Threads : gift'[v] = gift[u] => v = u
  BY <1>1, <1>2 DEF Aside, Gift
<1> QED
  BY <1>1, <1>2, <1>3, <1>4 DEF Aside, Gift

LEMMA OthersSole ==
  ASSUME BodyInv, FacetInv, NEW t \in Threads, Aside(t), NEW u \in Threads, u # t,
         pc[u] \in Building, NEW f \in Heap, Sole(body[u], f),
         gift[u] = f \/ \E i \in Slots : slot[body[u]][i] = f
  PROVE  Sole(body[u], f)'
<1>1. body[u] \in Bodies /\ status[body[u]] = "building" /\ body'[u] = body[u]
  BY OwnerFacts DEF BodyInv, BodyTypeOK, Bodied, Place, NoDangling, Aside, Building
<1>2. f \in falive /\ f # gift[t] /\ f # NoFacet
  <2>1. Gift(u) /\ Gift(t) /\ HeldLive /\ f # NoFacet
    BY FacetFacts DEF FacetInv
  <2>2. CASE gift[u] = f
    BY <2>1, <2>2 DEF Gift
  <2>3. CASE \E i \in Slots : slot[body[u]][i] = f
    BY <1>1, <2>1, <2>3 DEF Gift, HeldLive
  <2> QED
    BY <2>1, <2>2, <2>3
<1>3. ASSUME NEW c \in Bodies, NEW i \in Slots, slot'[c][i] = f PROVE c = body[u]
  <2>1. CASE slot[c][i] = f
    BY <2>1 DEF Sole
  <2>2. CASE Reference(t, f)
    BY <2>2, <1>1, <1>2 DEF Reference, Sole
  <2> QED
    BY <1>2, <1>3, <2>1, <2>2 DEF Aside
<1> QED
  BY <1>1, <1>3 DEF Sole

LEMMA OthersStage ==
  ASSUME BodyInv, FacetInv, NEW t \in Threads, Aside(t), NEW u \in Threads, u # t
  PROVE  Stage(u)'
<1>0. /\ Stage(u) /\ pc'[u] = pc[u] /\ want'[u] = want[u] /\ todo'[u] = todo[u]
      /\ src'[u] = src[u] /\ gift'[u] = gift[u] /\ body'[u] = body[u]
      /\ \A x \in Mine[u] \cup {ClassicObj} : body'[x] = body[x]
  BY DEF Aside, FacetInv
<1>1. ASSUME pc[u] \in Building
      PROVE  /\ body[u] \in Bodies /\ status[body[u]] = "building"
             /\ slot'[body[u]] = slot[body[u]] /\ name'[body[u]] = name[body[u]]
  BY <1>1, OwnerFacts DEF BodyInv, BodyTypeOK, Bodied, Place, NoDangling, Aside, Building
<1>2. ASSUME Combination(u) PROVE Combination(u)'
  <2>0. pc[u] \in Combining /\ pc[u] \in Building
    BY <1>2 DEF Combination, Combining, Building
  <2>1. ASSUME NEW g \in src[u]
        PROVE  /\ g \in Mine[u] \cup {ClassicObj} /\ body[g] \in Bodies
               /\ body'[g] = body[g] /\ body[g] # NoBody
               /\ slot'[body[g]] = slot[body[g]] /\ name'[body[g]] = name[body[g]]
    <3>1. g \in Mine[u] \cup {ClassicObj} /\ body[g] # NoBody
      BY <1>2 DEF Combination
    <3>2. g \in Owners /\ g \notin Threads
      BY <3>1, OwnerFacts
    <3>3. body[g] \in Bodies /\ status[body[g]] = "live"
      BY <3>1, <3>2 DEF BodyInv, BodyTypeOK, Bodied, NoDangling
    <3> QED
      BY <1>0, <3>1, <3>3 DEF Aside
  <2>2. ASSUME NEW g \in src[u], NEW i \in Slots, NEW f \in Facets, Facetted(u, g, i, f)
        PROVE  Facetted(u, g, i, f)'
    <3>1. ASSUME f \in Heap, gift[u] = f \/ slot[body[u]][i] = f, Sole(body[u], f)
          PROVE  Sole(body[u], f)'
      BY <2>0, <3>1, OthersSole
    <3> QED
      BY <1>0, <1>1, <2>0, <2>1, <2>2, <3>1 DEF Facetted
  <2>3. ASSUME NEW g \in src[u], NEW k \in src[u], NEW cat \in SUBSET StdSlots,
               Categorized(u, g, k, cat)
        PROVE  Categorized(u, g, k, cat)'
    BY <1>0, <1>1, <2>0, <2>1, <2>3 DEF Categorized, CombinedName
  <2>4. \/ \E g \in src'[u], i \in Slots, f \in Facets : Facetted(u, g, i, f)'
        \/ \E g, k \in src'[u], cat \in SUBSET StdSlots : Categorized(u, g, k, cat)'
    <3>1. CASE \E g \in src[u], i \in Slots, f \in Facets : Facetted(u, g, i, f)
      BY <1>0, <2>2, <3>1
    <3>2. CASE \E g, k \in src[u], cat \in SUBSET StdSlots : Categorized(u, g, k, cat)
      BY <1>0, <2>3, <3>2
    <3> QED
      BY <1>2, <3>1, <3>2 DEF Combination
  <2>5. \A g \in src'[u] : g \in Mine[u] \cup {ClassicObj} /\ body'[g] # NoBody
    BY <1>0, <2>1
  <2>6. /\ pc'[u] \in Combining
        /\ \A i \in todo'[u] : want'[u][i] # NoFacet
        /\ \A i \in Slots : slot'[body'[u]][i] =
              IF i \in todo'[u] THEN NoFacet ELSE want'[u][i]
        /\ pc'[u] = "copied" => \A i \in Slots : i \notin todo'[u] => want'[u][i] = NoFacet
        /\ pc'[u] \in {"name", "publish"} => todo'[u] = {}
    BY <1>0, <1>1, <1>2, <2>0 DEF Combination
  <2> QED
    BY <2>4, <2>5, <2>6 DEF Combination
<1>3. ASSUME Naming(u) PROVE Naming(u)'
  <2>0. pc[u] \in Building
    BY <1>3 DEF Naming, Building
  <2>1. ASSUME NEW i \in StdSlots, FacetOfName(body[u], i)
        PROVE  FacetOfName(body[u], i)'
    <3>1. ASSUME slot[body[u]][i] \in Heap, Sole(body[u], slot[body[u]][i])
          PROVE  /\ Sole(body[u], slot[body[u]][i])'
                 /\ floc'[slot[body[u]][i]] = floc[slot[body[u]][i]]
      <4> DEFINE f == slot[body[u]][i]
      <4>1. f \in falive /\ i \in Slots
        BY <1>1, <2>0, <3>1, FacetFacts DEF FacetInv, HeldLive
      <4>2. PICK d : d = f /\ d = slot[body[u]][i]
        OBVIOUS
      <4>3. Sole(body[u], d)'
        BY <2>0, <3>1, <4>1, <4>2, OthersSole
      <4>4. slot'[body'[u]][i] = d
        BY <1>0, <1>1, <2>0, <4>2
      <4> QED
        BY <1>0, <4>1, <4>2, <4>3, <4>4 DEF Aside, Sole
    <3> QED
      BY <1>0, <1>1, <2>0, <2>1, <3>1 DEF FacetOfName
  <2> QED
    BY <1>0, <1>1, <1>3, <2>0, <2>1 DEF Naming
<1> QED
  BY <1>0, <1>2, <1>3 DEF Stage

FacetSound ==
    HeldLive /\ RefsCounted /\ HeapKept /\ FreeBare /\ Statics /\ NamesTell

LEMMA Assemble ==
  ASSUME BodyInv, FacetInv, NEW t \in Threads, Aside(t),
         FacetTypeOK', FacetSound', Gift(t)', Stage(t)'
  PROVE  FacetInv'
BY OthersGift, OthersStage DEF FacetInv, FacetSound

\* Facets are left alone: what a body's name says, and that free storage has
\* none, can only be disturbed by a change of status.
LEMMA SoundKept ==
  ASSUME FacetInv, UNCHANGED <<facetVars, gift>>,
         \A b \in Bodies : status'[b] = "free" => status[b] = "free" \/ Bare(b),
         \A b \in Bodies : status'[b] = "live" =>
             \/ status[b] = "live" /\ name'[b] = name[b]
             \/ name'[b] = NoName
             \/ Tells(name'[b], slot[b])
  PROVE  FacetSound'
<1> USE DEF FacetInv, facetVars
<1>1. HeldLive' /\ RefsCounted' /\ HeapKept' /\ Statics'
  BY DEF HeldLive, RefsCounted, Enough, Holders, HeapKept, Statics
<1>2. FreeBare'
  BY DEF FreeBare, Bare
<1>3. NamesTell'
  BY DEF NamesTell, Tells
<1> QED
  BY <1>1, <1>2, <1>3 DEF FacetSound

\* A step of t between, before or after the constructions.
BodyMoves(t) ==
    /\ UNCHANGED <<name, facetVars, buildVars, throws>>
    /\ pc[t] \notin Building /\ pc'[t] \notin Building
    /\ \A u \in Threads : u # t => pc'[u] = pc[u]
    /\ \A x \in Owners : x \notin Mine[t] \cup {Global, t} => body'[x] = body[x]
    /\ \A b \in Bodies : status'[b] \in {"free", "live"} => status'[b] = status[b]
    /\ pc'[t] = "set_global" => \E g \in Mine[t] \cup {ClassicObj} : body'[g] = body'[t]

LEMMA BodyMovesStep ==
  ASSUME BodyInv, FacetInv, NEW t \in Threads, BodyMoves(t)
  PROVE  FacetInv'
<1> USE DEF BodyMoves
<1>1. FacetTypeOK'
  BY DEF FacetInv, FacetTypeOK, facetVars, buildVars
<1>2. FacetSound'
  BY SoundKept DEF buildVars
<1>3. Aside(t)
  BY OwnerFacts DEF Aside, facetVars, buildVars, FacetInv, Gift
<1>4. Gift(t)' /\ Stage(t)'
  BY DEF FacetInv, Gift, Stage, buildVars
<1> QED
  BY <1>1, <1>2, <1>3, <1>4, Assemble

LEMMA DropFacets ==
  ASSUME BodyInv, FacetInv, NEW t \in Threads, NEW x \in Mine[t], body[x] # NoBody,
         NEW l, Drop(t, x, l), UNCHANGED <<name, facetVars, buildVars, throws>>,
         pc[t] \in {"idle", "assign_drop"}, l \in {"idle", "assign_store"}
  PROVE  FacetInv'
<1>1. x \in Owners /\ body[x] \in Bodies
  BY OwnerFacts DEF BodyInv, BodyTypeOK, Bodied
<1>2. BodyMoves(t)
  BY <1>1, OwnerFacts DEF Drop, BodyMoves, Goto, Building, BodyInv, BodyTypeOK, Bodied
<1> QED
  BY <1>2, BodyMovesStep

\* The steps outside a construction, but for the last of a destructor.
LEMMA HandleStep ==
  ASSUME BodyInv, FacetInv, NEW t \in Threads,
         \/ \E h \in Mine[t] : DefaultCtor(t, h)
         \/ \E h \in Mine[t], g \in Mine[t] \cup {ClassicObj} :
               CopyCtor(t, h, g) \/ AssignCount(t, h, g) \/ SetGlobalCount(t, g, h)
         \/ GlobalRead(t) \/ GlobalCount(t) \/ AssignStore(t) \/ SetGlobalSwap(t)
  PROVE  FacetInv'
<1> USE OwnerFacts DEF BodyInv, BodyTypeOK, Bodied, BodyMoves, Building, At, Goto, bodyVars
<1>1. ASSUME NEW h \in Mine[t], DefaultCtor(t, h) PROVE FacetInv'
  BY <1>1, BodyMovesStep DEF DefaultCtor
<1>2. ASSUME NEW h \in Mine[t], NEW g \in Mine[t] \cup {ClassicObj}, CopyCtor(t, h, g)
      PROVE  FacetInv'
  BY <1>2, BodyMovesStep DEF CopyCtor, Retain
<1>3. ASSUME NEW h \in Mine[t], NEW g \in Mine[t] \cup {ClassicObj}, AssignCount(t, h, g)
      PROVE  FacetInv'
  BY <1>3, BodyMovesStep DEF AssignCount, Retain
<1>4. ASSUME NEW h \in Mine[t], NEW g \in Mine[t] \cup {ClassicObj}, SetGlobalCount(t, g, h)
      PROVE  FacetInv'
  <2>1. body'[g] = body'[t]
    BY <1>4 DEF SetGlobalCount, Retain
  <2> QED
    BY <1>4, <2>1, BodyMovesStep DEF SetGlobalCount, Retain
<1>5. CASE GlobalRead(t)
  BY <1>5, BodyMovesStep DEF GlobalRead
<1>6. CASE GlobalCount(t)
  BY <1>6, BodyMovesStep DEF GlobalCount, Retain, Place, Aims
<1>7. CASE AssignStore(t)
  BY <1>7, BodyMovesStep DEF AssignStore, Store, Place, Aims
<1>8. CASE SetGlobalSwap(t)
  BY <1>8, BodyMovesStep DEF SetGlobalSwap, Place, Aims
<1> QED
  BY <1>1, <1>2, <1>3, <1>4, <1>5, <1>6, <1>7, <1>8

LEMMA DeleteBodyFacets ==
  ASSUME BodyInv, FacetInv, NEW t \in Threads, DeleteBody(t)
  PROVE  FacetInv'
<1> USE DEF DeleteBody, At, Goto
<1>0. /\ reg[t] \in Bodies /\ status[reg[t]] = "dying" /\ Bare(reg[t])
      /\ pc[t] \notin Building
  BY DEF BodyInv, Place, Held, Bare, Building
<1>1. FacetTypeOK'
  BY DEF FacetInv, FacetTypeOK, facetVars, buildVars
<1>2. FacetSound'
  BY <1>0, SoundKept DEF BodyInv, BodyTypeOK, buildVars
<1>3. Aside(t)
  <2>1. \A b \in Bodies :
          (status[b] = "live" \/ \E u \in Threads : u # t /\ pc[u] \in Building /\ body[u] = b)
             => name'[b] = name[b]
    BY <1>0, OwnerFacts DEF BodyInv, NoDangling, BodyTypeOK
  <2> QED
    BY <1>0, <2>1 DEF Aside, facetVars, buildVars, FacetInv, Gift, BodyInv, BodyTypeOK
<1>4. Gift(t)' /\ Stage(t)'
  BY <1>0 DEF FacetInv, Gift, Stage, buildVars, BodyInv, BodyTypeOK, Building
<1> QED
  BY <1>1, <1>2, <1>3, <1>4, Assemble

\* Within a construction, t goes on and leaves facets and bodies alone.
LEMMA OnwardStep ==
  ASSUME BodyInv, FacetInv, NEW t \in Threads,
         ArrayNew(t) \/ Counted(t) \/ NameNew(t) \/ Obtained(t) \/ ObtainThrow(t)
  PROVE  FacetInv'
<1>0. /\ UNCHANGED <<bodyVars, body, facetVars, tgt, reg, buildVars>>
      /\ \A u \in Threads : u # t => pc'[u] = pc[u]
      /\ \/ pc[t] = "copied" /\ pc'[t] = "count"
         \/ pc[t] = "count" /\ pc'[t] \in {"name", "publish"} /\ todo[t] = {}
         \/ pc[t] = "name" /\ pc'[t] = "publish"
         \/ pc[t] = "obtain" /\ pc'[t] = "publish" /\ todo[t] = {}
         \/ pc[t] = "obtain" /\ pc'[t] = "unwind"
      /\ throws' = throws \/ (throws' = throws + 1 /\ throws < MaxThrows)
  <2>1. pc \in [Threads -> Labels]
    BY DEF BodyInv, BodyTypeOK
  <2>2. CASE ArrayNew(t)
    BY <2>1, <2>2 DEF ArrayNew, At, Goto
  <2>3. CASE Counted(t)
    BY <2>1, <2>3 DEF Counted, At, Goto
  <2>4. CASE NameNew(t)
    BY <2>1, <2>4 DEF NameNew, At, Goto
  <2>5. CASE Obtained(t)
    BY <2>1, <2>5 DEF Obtained, At, Goto
  <2>6. CASE ObtainThrow(t)
    BY <2>1, <2>6 DEF ObtainThrow, At, Goto, Throw
  <2> QED
    BY <2>2, <2>3, <2>4, <2>5, <2>6
<1>1. FacetTypeOK'
  BY <1>0, LocaleAssumption DEF FacetInv, FacetTypeOK, facetVars, buildVars, bodyVars
<1>2. FacetSound'
  BY <1>0, SoundKept DEF bodyVars, buildVars
<1>3. Aside(t)
  BY <1>0 DEF Aside, facetVars, buildVars, bodyVars, FacetInv, Gift
<1>4. Gift(t)'
  BY <1>0 DEF FacetInv, Gift, facetVars, buildVars
<1>5. Stage(t)'
  <2>0. Stage(t)
    BY DEF FacetInv
  <2>1. ASSUME Combination(t) PROVE Combination(t)'
    <3>1. /\ \A g, i, f : Facetted(t, g, i, f) => Facetted(t, g, i, f)'
          /\ \A g, k, cat : Categorized(t, g, k, cat) => Categorized(t, g, k, cat)'
      BY <1>0 DEF Facetted, Categorized, CombinedName, Sole, facetVars, buildVars, bodyVars
    <3>2. src'[t] = src[t]
      BY <1>0 DEF buildVars
    <3>3. \/ \E g \in src'[t], i \in Slots, f \in Facets : Facetted(t, g, i, f)'
          \/ \E g, k \in src'[t], cat \in SUBSET StdSlots : Categorized(t, g, k, cat)'
      BY <2>1, <3>1, <3>2 DEF Combination
    <3> QED
      BY <1>0, <2>1, <3>3 DEF Combination, Combining, facetVars, buildVars, bodyVars
  <2>2. ASSUME Naming(t) PROVE Naming(t)'
    BY <1>0, <2>2 DEF Naming, FacetOfName, Sole, facetVars, buildVars, bodyVars
  <2> QED
    BY <1>0, <2>0, <2>1, <2>2 DEF Stage, Building, buildVars, Combination, Combining
<1> QED
  BY <1>1, <1>2, <1>3, <1>4, <1>5, Assemble

-----------------------------------------------------------------------------
\* What an allocation finds and leaves: b was nobody's and has no facet.
LEMMA Allocated ==
  ASSUME BodyInv, FacetInv, NEW t \in Threads, NEW h \in Mine[t], NEW b \in Bodies, NEW n,
         Allocate(t, h, b, n)
  PROVE  /\ pc[t] = "idle" /\ pc[t] \notin Building
         /\ status[b] = "free" /\ Bare(b) /\ body'[t] = b
         /\ todo[t] = {} /\ src[t] = {} /\ gift[t] = NoFacet
         /\ want[t] = [i \in Slots |-> NoFacet]
         /\ name' = [name EXCEPT ![b] = n]
         /\ \A x \in Owners : x # t => body'[x] = body[x]
         /\ \A c \in Bodies : (status[c] = "live" \/ \E u \in Threads : u # t /\
                 pc[u] \in Building /\ body[u] = c) => name'[c] = name[c] /\ c # b
         /\ \A c \in Bodies : status'[c] = IF c = b THEN "building" ELSE status[c]
         /\ \A g \in Mine[t] \cup {ClassicObj} : body[g] # NoBody =>
               body'[g] = body[g] /\ body[g] \in Bodies /\ body[g] # b
                  /\ status[body[g]] = "live"
<1>1. pc[t] = "idle" /\ pc[t] \notin Building /\ status[b] = "free" /\ Bare(b)
  BY DEF Allocate, At, Building, FacetInv, FreeBare
<1>2. todo[t] = {} /\ src[t] = {} /\ gift[t] = NoFacet /\ want[t] = [i \in Slots |-> NoFacet]
  BY <1>1 DEF FacetInv, Stage
<1>3. /\ body'[t] = b /\ name' = [name EXCEPT ![b] = n]
      /\ \A x \in Owners : x # t => body'[x] = body[x]
      /\ \A c \in Bodies : status'[c] = IF c = b THEN "building" ELSE status[c]
  BY OwnerFacts DEF Allocate, BodyInv, BodyTypeOK, Bodied
<1>4. \A c \in Bodies : (status[c] = "live" \/ \E u \in Threads : u # t /\
                 pc[u] \in Building /\ body[u] = c) => name'[c] = name[c] /\ c # b
  BY <1>1, <1>3, OwnerFacts DEF BodyInv, NoDangling, FacetInv, FacetTypeOK
<1>5. ASSUME NEW g \in Mine[t] \cup {ClassicObj}, body[g] # NoBody
      PROVE  /\ body'[g] = body[g] /\ body[g] \in Bodies /\ body[g] # b
             /\ status[body[g]] = "live"
  BY <1>1, <1>3, <1>5, OwnerFacts DEF BodyInv, NoDangling, BodyTypeOK, Bodied
<1> QED
  BY <1>1, <1>2, <1>3, <1>4, <1>5

LEMMA NamedAllocFacets ==
  ASSUME BodyInv, FacetInv, NEW t \in Threads, NEW h \in Mine[t], NEW b \in Bodies,
         NEW n \in FullNames, NamedAlloc(t, h, b, n)
  PROVE  FacetInv'
<1> USE DEF NamedAlloc, Goto
<1>0. /\ pc[t] = "idle" /\ pc[t] \notin Building
      /\ status[b] = "free" /\ Bare(b) /\ body'[t] = b
      /\ todo[t] = {} /\ src[t] = {} /\ gift[t] = NoFacet
      /\ want[t] = [i \in Slots |-> NoFacet]
      /\ name' = [name EXCEPT ![b] = n]
      /\ \A x \in Owners : x # t => body'[x] = body[x]
      /\ \A c \in Bodies : (status[c] = "live" \/ \E u \in Threads : u # t /\
              pc[u] \in Building /\ body[u] = c) => name'[c] = name[c] /\ c # b
      /\ \A c \in Bodies : status'[c] = IF c = b THEN "building" ELSE status[c]
  BY Allocated
<1>1. FacetTypeOK'
  BY <1>0, FacetFacts DEF FacetInv, FacetTypeOK, facetVars
<1>2. FacetSound'
  BY <1>0, SoundKept
<1>3. Aside(t)
  BY <1>0, OwnerFacts DEF Aside, facetVars, FacetInv, Gift, BodyInv, BodyTypeOK, FacetTypeOK
<1>4. Gift(t)' /\ Stage(t)'
  <2>1. /\ pc'[t] = "obtain" /\ todo'[t] = StdSlots /\ src'[t] = {} /\ gift'[t] = NoFacet
        /\ want'[t] = [i \in Slots |-> NoFacet] /\ name'[b] = n
        /\ \A i \in Slots : slot'[b][i] = NoFacet
    BY <1>0 DEF BodyInv, BodyTypeOK, FacetInv, FacetTypeOK, facetVars, Bare
  <2>2. Naming(t)'
    BY <1>0, <2>1, FacetFacts DEF Naming
  <2> QED
    BY <2>1, <2>2 DEF Gift, Stage, Building
<1> QED
  BY <1>1, <1>2, <1>3, <1>4, Assemble

LEMMA CombineCatFacets ==
  ASSUME BodyInv, FacetInv, NEW t \in Threads, NEW h \in Mine[t], NEW b \in Bodies,
         NEW g \in Mine[t] \cup {ClassicObj}, NEW k \in Mine[t] \cup {ClassicObj},
         NEW cat \in SUBSET StdSlots, CombineCatAlloc(t, h, g, k, b, cat)
  PROVE  FacetInv'
<1> DEFINE p == [i \in Slots |-> IF i \in cat THEN slot[body[k]][i] ELSE slot[body[g]][i]]
           n == CombinedName(body[g], body[k], cat)
<1>a. /\ Readable(t, g) /\ Readable(t, k)
      /\ Allocate(t, h, b, n) /\ Copy(t, p, {g, k}, NoFacet)
      /\ Goto(t, "copied") /\ UNCHANGED <<facetVars, guard, reg, throws>>
  BY DEF CombineCatAlloc
<1>p. p = [i \in Slots |-> IF i \in cat THEN slot[body[k]][i] ELSE slot[body[g]][i]]
  OBVIOUS
<1>n. n = CombinedName(body[g], body[k], cat)
  OBVIOUS
<1> HIDE DEF p, n
<1>0. /\ pc[t] = "idle" /\ pc[t] \notin Building
      /\ status[b] = "free" /\ Bare(b) /\ body'[t] = b
      /\ todo[t] = {} /\ src[t] = {} /\ gift[t] = NoFacet
      /\ name' = [name EXCEPT ![b] = n]
      /\ \A x \in Owners : x # t => body'[x] = body[x]
      /\ \A c \in Bodies : (status[c] = "live" \/ \E u \in Threads : u # t /\
              pc[u] \in Building /\ body[u] = c) => name'[c] = name[c] /\ c # b
      /\ \A c \in Bodies : status'[c] = IF c = b THEN "building" ELSE status[c]
      /\ \A x \in Mine[t] \cup {ClassicObj} : body[x] # NoBody =>
            /\ body'[x] = body[x] /\ body[x] \in Bodies /\ body[x] # b
            /\ status[body[x]] = "live"
  BY <1>a, Allocated
<1>b. /\ body[g] \in Bodies /\ body[k] \in Bodies /\ body[g] # NoBody /\ body[k] # NoBody
      /\ body'[g] = body[g] /\ body'[k] = body[k] /\ body[g] # b /\ body[k] # b
      /\ status[body[g]] = "live" /\ status[body[k]] = "live"
  BY <1>0, <1>a DEF Readable
<1>c. p \in [Slots -> Facets \cup {NoFacet}] /\ n \in FullNames \cup {NoName}
  <2>1. slot[body[g]] \in [Slots -> Facets \cup {NoFacet}]
        /\ slot[body[k]] \in [Slots -> Facets \cup {NoFacet}]
        /\ name[body[g]] \in FullNames \cup {NoName}
        /\ name[body[k]] \in FullNames \cup {NoName}
    BY <1>b DEF FacetInv, FacetTypeOK
  <2> QED
    BY <2>1, <1>p, <1>n DEF CombinedName, FullNames
<1>1. FacetTypeOK'
  BY <1>0, <1>a, <1>c, OwnerFacts DEF FacetInv, FacetTypeOK, facetVars, Copy
<1>2. FacetSound'
  <2>1. gift' = gift
    BY <1>0, <1>a DEF Copy, FacetInv, FacetTypeOK
  <2> QED
    BY <1>0, <1>a, <2>1, SoundKept
<1>3. Aside(t)
  BY <1>0, <1>a, OwnerFacts DEF Aside, facetVars, FacetInv, Gift, BodyInv, BodyTypeOK,
     FacetTypeOK, Copy, Goto
<1>4. /\ pc'[t] = "copied" /\ src'[t] = {g, k} /\ gift'[t] = NoFacet
      /\ want'[t] = p /\ name'[b] = n
      /\ todo'[t] = {i \in Slots : p[i] # NoFacet}
      /\ \A i \in Slots : slot'[b][i] = NoFacet
      /\ slot' = slot /\ name'[body[g]] = name[body[g]] /\ name'[body[k]] = name[body[k]]
  BY <1>0, <1>a, <1>b DEF BodyInv, BodyTypeOK, FacetInv, FacetTypeOK, facetVars, Bare, Copy, Goto
<1>5. Combination(t)'
  <2>1. Categorized(t, g, k, cat)'
    BY <1>0, <1>b, <1>4, <1>p, <1>n DEF Categorized, CombinedName
  <2> QED
    BY <1>0, <1>b, <1>4, <2>1 DEF Combination, Combining
<1>6. Gift(t)' /\ Stage(t)'
  BY <1>4, <1>5 DEF Gift, Stage, Building
<1> QED
  BY <1>1, <1>2, <1>3, <1>6, Assemble

LEMMA CombineFacetFacets ==
  ASSUME BodyInv, FacetInv, NEW t \in Threads, NEW h \in Mine[t], NEW b \in Bodies,
         NEW g \in Mine[t] \cup {ClassicObj}, NEW f \in Facets, NEW i \in Slots,
         NEW r \in 0 .. 1, CombineFacetAlloc(t, h, g, b, f, i, r)
  PROVE  FacetInv'
<1> DEFINE p == [slot[body[g]] EXCEPT ![i] = f]
<1>p. p = [slot[body[g]] EXCEPT ![i] = f]
  OBVIOUS
<1>a. /\ Readable(t, g) /\ Allocate(t, h, b, NoName)
      /\ Goto(t, "copied") /\ UNCHANGED <<slot, guard, reg, throws>>
      /\ \/ /\ f \in Heap \ falive
            /\ falive' = falive \cup {f}
            /\ fref' = [fref EXCEPT ![f] = r]
            /\ extra' = [extra EXCEPT ![f] = r]
            /\ floc' = [floc EXCEPT ![f] = NoName]
            /\ Copy(t, p, {g}, f)
         \/ \E k \in Handles :
            /\ Readable(t, k) /\ r = 0 /\ slot[body[k]][i] = f
            /\ Copy(t, p, {g, k}, NoFacet)
            /\ UNCHANGED <<falive, fref, extra, floc>>
  BY DEF CombineFacetAlloc
<1> HIDE DEF p
<1>0. /\ pc[t] = "idle" /\ pc[t] \notin Building
      /\ status[b] = "free" /\ Bare(b) /\ body'[t] = b
      /\ todo[t] = {} /\ src[t] = {} /\ gift[t] = NoFacet
      /\ name' = [name EXCEPT ![b] = NoName]
      /\ \A x \in Owners : x # t => body'[x] = body[x]
      /\ \A c \in Bodies : (status[c] = "live" \/ \E u \in Threads : u # t /\
              pc[u] \in Building /\ body[u] = c) => name'[c] = name[c] /\ c # b
      /\ \A c \in Bodies : status'[c] = IF c = b THEN "building" ELSE status[c]
      /\ \A x \in Mine[t] \cup {ClassicObj} : body[x] # NoBody =>
            /\ body'[x] = body[x] /\ body[x] \in Bodies /\ body[x] # b
            /\ status[body[x]] = "live"
  BY <1>a, Allocated
<1>b. /\ body[g] \in Bodies /\ body[g] # NoBody /\ body'[g] = body[g] /\ body[g] # b
      /\ status[body[g]] = "live"
  BY <1>0, <1>a DEF Readable
<1>c. p \in [Slots -> Facets \cup {NoFacet}] /\ p[i] = f
  BY <1>b, <1>p DEF FacetInv, FacetTypeOK
<1>d. /\ pc'[t] = "copied" /\ name'[b] = NoName /\ slot' = slot
      /\ \A j \in Slots : slot'[b][j] = NoFacet
      /\ name \in [Bodies -> FullNames \cup {NoName}]
      /\ \A u \in Threads : u # t => pc'[u] = pc[u]
  BY <1>0, <1>a DEF BodyInv, BodyTypeOK, FacetInv, FacetTypeOK, Bare, Goto
<1>1. CASE /\ f \in Heap \ falive
           /\ falive' = falive \cup {f}
           /\ fref' = [fref EXCEPT ![f] = r]
           /\ extra' = [extra EXCEPT ![f] = r]
           /\ floc' = [floc EXCEPT ![f] = NoName]
           /\ Copy(t, p, {g}, f)
  <2> USE <1>1 DEF Copy
  <2>0. /\ \A c \in Bodies, j \in Slots : slot[c][j] # f
        /\ \A u \in Threads : gift[u] # f
        /\ f # NoFacet
    BY FacetFacts DEF FacetInv, HeldLive, Gift
  <2>1. FacetTypeOK'
    BY <1>a, <1>c, <1>d, <1>0, OwnerFacts DEF FacetInv, FacetTypeOK
  <2>2. HeldLive' /\ Statics'
    BY <1>d, FacetFacts DEF FacetInv, FacetTypeOK, HeldLive, Statics
  <2>3. RefsCounted'
    <3>1. Cardinality(Holders(slot, f)) = 0
      BY <2>0, Unheld
    <3>2. ASSUME NEW d \in Facets
          PROVE  Enough(extra[d] + Cardinality(Holders(slot, d)), d)'
      <4>0. slot' = slot
        BY <1>d
      <4>1. CASE d = f
        BY <3>1, <4>0, <4>1 DEF FacetInv, FacetTypeOK, Enough
      <4>2. CASE d # f
        BY <4>0, <4>2 DEF FacetInv, FacetTypeOK, RefsCounted, Enough
      <4> QED
        BY <4>1, <4>2
    <3> QED
      BY <1>d, <3>2 DEF RefsCounted
  <2>4. HeapKept'
    BY <1>d, <1>0 DEF FacetInv, FacetTypeOK, HeapKept
  <2>5. FreeBare' /\ NamesTell'
    <3>1. FreeBare'
      BY <1>d, <1>0 DEF FacetInv, FreeBare, Bare
    <3>2. ASSUME NEW c \in Bodies, status'[c] = "live", name'[c] # NoName
          PROVE  Tells(name[c], slot[c])'
      <4>1. Tells(name[c], slot[c]) /\ name'[c] = name[c] /\ slot' = slot
        BY <1>0, <1>d, <3>2 DEF FacetInv, NamesTell
      <4>2. \A j \in StdSlots : slot[c][j] \in Facets /\ slot[c][j] # f
        BY <4>1, <2>0, FacetFacts DEF Tells, FacetInv, FacetTypeOK
      <4>3. \A j \in StdSlots : floc'[slot[c][j]] = floc[slot[c][j]]
        BY <4>2 DEF FacetInv, FacetTypeOK
      <4> QED
        BY <4>1, <4>3 DEF Tells, LocOf
    <3> QED
      BY <3>1, <3>2 DEF NamesTell
  <2>6. Aside(t)
    <3>1. \A d \in falive : floc'[d] = floc[d]
      BY DEF FacetInv, FacetTypeOK
    <3>2. /\ gift'[t] = f /\ \A u \in Threads : u # t =>
               /\ want'[u] = want[u] /\ todo'[u] = todo[u] /\ src'[u] = src[u]
               /\ gift'[u] = gift[u]
      BY DEF FacetInv, FacetTypeOK
    <3>3. \A u \in Threads : gift[u] # NoFacet => gift[u] \in falive'
      BY DEF FacetInv, Gift
    <3> QED
      BY <1>0, <1>d, <3>1, <3>2, <3>3, OwnerFacts DEF Aside
  <2>7. /\ src'[t] = {g} /\ gift'[t] = f /\ want'[t] = p
        /\ todo'[t] = {j \in Slots : p[j] # NoFacet}
        /\ \A u \in Threads : u # t => gift'[u] = gift[u]
    BY DEF FacetInv, FacetTypeOK
  <2>8. Gift(t)'
    BY <1>c, <1>d, <2>0, <2>7 DEF Gift
  <2>9. Stage(t)'
    <3>1. Facetted(t, g, i, f)'
      BY <1>0, <1>b, <1>d, <1>p, <2>0, <2>7 DEF Facetted, Sole
    <3>2. \E y \in src'[t], j \in Slots, d \in Facets : Facetted(t, y, j, d)'
      BY <2>7, <3>1
    <3>3. Combination(t)'
      <4>1. \A y \in src'[t] : y \in Mine[t] \cup {ClassicObj} /\ body'[y] # NoBody
        BY <1>b, <2>7
      <4>2. \A j \in todo'[t] : want'[t][j] # NoFacet
        BY <2>7
      <4>3. \A j \in Slots : slot'[body'[t]][j] =
               IF j \in todo'[t] THEN NoFacet ELSE want'[t][j]
        BY <1>0, <1>d, <2>7
      <4>4. \A j \in Slots : j \notin todo'[t] => want'[t][j] = NoFacet
        BY <2>7
      <4>5. pc'[t] = "copied"
        BY <1>d
      <4> QED
        BY ONLY <3>2, <4>1, <4>2, <4>3, <4>4, <4>5 DEF Combination, Combining
    <3> QED
      BY <1>d, <2>7, <3>3 DEF Stage, Building
  <2> QED
    BY <2>1, <2>2, <2>3, <2>4, <2>5, <2>6, <2>8, <2>9, Assemble DEF FacetSound
<1>2. ASSUME NEW k \in Handles,
             Readable(t, k), slot[body[k]][i] = f,
             Copy(t, p, {g, k}, NoFacet), UNCHANGED <<falive, fref, extra, floc>>
      PROVE  FacetInv'
  <2> USE <1>2 DEF Copy
  <2>0. /\ k \in Mine[t] \cup {ClassicObj} /\ body[k] # NoBody
        /\ body'[k] = body[k] /\ body[k] \in Bodies /\ body[k] # b
    BY <1>0 DEF Readable
  <2>1. FacetTypeOK'
    BY <1>a, <1>c, <1>d, <1>0, OwnerFacts DEF FacetInv, FacetTypeOK
  <2>2. FacetSound'
    <3>1. gift' = gift
      BY <1>0 DEF FacetInv, FacetTypeOK
    <3> QED
      BY <1>0, <1>d, <3>1, SoundKept DEF facetVars
  <2>3. /\ src'[t] = {g, k} /\ gift'[t] = NoFacet /\ want'[t] = p
        /\ todo'[t] = {j \in Slots : p[j] # NoFacet}
        /\ \A u \in Threads : u # t =>
               /\ want'[u] = want[u] /\ todo'[u] = todo[u] /\ src'[u] = src[u]
               /\ gift'[u] = gift[u]
    BY DEF FacetInv, FacetTypeOK
  <2>4. Aside(t)
    BY <1>0, <1>d, <2>3, OwnerFacts DEF Aside, FacetInv, Gift
  <2>5. Gift(t)'
    BY <2>3 DEF Gift
  <2>6. Stage(t)'
    <3>1. Facetted(t, g, i, f)'
      BY <1>0, <1>b, <1>d, <1>p, <2>0, <2>3 DEF Facetted
    <3>2. /\ \A x \in {g, k} : x \in Mine[t] \cup {ClassicObj} /\ body'[x] # NoBody
          /\ \E x \in {g, k}, j \in Slots, e \in Facets : Facetted(t, x, j, e)'
          /\ \A j \in Slots : slot'[b][j] = NoFacet
      BY <1>b, <1>d, <2>0, <3>1
    <3>3. Combination(t)'
      BY ONLY <1>0, <1>d, <2>3, <3>2 DEF Combination, Combining
    <3> QED
      BY <1>d, <2>3, <3>3 DEF Stage, Building
  <2> QED
    BY <2>1, <2>2, <2>4, <2>5, <2>6, Assemble
<1> QED
  BY <1>a, <1>1, <1>2

-----------------------------------------------------------------------------
\* The body t is building is its own.
LEMMA BuildingFacts ==
  ASSUME BodyInv, NEW t \in Threads, pc[t] \in Building
  PROVE  /\ body[t] \in Bodies /\ status[body[t]] = "building"
         /\ reg[t] = NoBody
         /\ \A u \in Threads : u # t => body[u] # body[t]
         /\ \A g \in Mine[t] \cup {ClassicObj} : body[g] # NoBody =>
               body[g] \in Bodies /\ body[g] # body[t] /\ status[body[g]] = "live"
BY OwnerFacts DEF BodyInv, BodyTypeOK, Bodied, Place, NoDangling, Building

\* What a combination is about to count exists: a body that the thread's own
\* handle has keeps it, or it is the facet the combination was given.
LEMMA Wanted ==
  ASSUME BodyInv, FacetInv, NEW t \in Threads, Combination(t), NEW i \in todo[t]
  PROVE  /\ want[t][i] \in Facets /\ want[t][i] \in falive
         /\ \/ want[t][i] = gift[t]
            \/ \E g \in src[t], j \in Slots :
                  /\ body[g] \in Bodies /\ status[body[g]] = "live"
                  /\ slot[body[g]][j] = want[t][i]
<1>0. /\ i \in Slots /\ want[t][i] \in Facets \cup {NoFacet} /\ want[t][i] # NoFacet
      /\ slot[body[t]][i] = NoFacet /\ pc[t] \in Building
      /\ want[t] \in [Slots -> Facets \cup {NoFacet}]
  <2>1. i \in Slots /\ want[t] \in [Slots -> Facets \cup {NoFacet}]
    BY DEF FacetInv, FacetTypeOK
  <2> QED
    BY <2>1 DEF Combination, Combining, Building
<1>1. ASSUME NEW g \in src[t]
      PROVE  /\ body[g] \in Bodies /\ status[body[g]] = "live"
             /\ slot[body[g]] \in [Slots -> Facets \cup {NoFacet}]
  BY <1>0, BuildingFacts DEF Combination, FacetInv, FacetTypeOK
<1>2. \/ want[t][i] = gift[t]
      \/ \E g \in src[t], j \in Slots : slot[body[g]][j] = want[t][i]
  <2>1. ASSUME NEW g \in src[t], NEW j \in Slots, NEW f \in Facets, Facetted(t, g, j, f)
        PROVE  \/ want[t][i] = gift[t]
               \/ \E x \in src[t], k \in Slots : slot[body[x]][k] = want[t][i]
    <3>1. want[t][i] = IF i = j THEN f ELSE slot[body[g]][i]
      BY <1>0, <1>1, <2>1 DEF Facetted
    <3>2. CASE i # j
      BY <1>0, <3>1, <3>2
    <3>3. CASE i = j
      BY <1>0, <2>1, <3>1, <3>3 DEF Facetted
    <3> QED
      BY <3>2, <3>3
  <2>2. ASSUME NEW g \in src[t], NEW k \in src[t], NEW cat \in SUBSET StdSlots,
               Categorized(t, g, k, cat)
        PROVE  \E x \in src[t], j \in Slots : slot[body[x]][j] = want[t][i]
    BY <1>0, <2>2 DEF Categorized
  <2> QED
    BY <2>1, <2>2 DEF Combination
<1>3. CASE want[t][i] = gift[t]
  BY <1>0, <1>3 DEF FacetInv, Gift
<1>4. CASE \E g \in src[t], j \in Slots : slot[body[g]][j] = want[t][i]
  <2>1. PICK g \in src[t], j \in Slots : slot[body[g]][j] = want[t][i]
    BY <1>4
  <2>2. want[t][i] \in falive
    BY <1>0, <1>1, <2>1 DEF FacetInv, HeldLive
  <2> QED
    BY <1>0, <1>1, <2>1, <2>2
<1> QED
  BY <1>2, <1>3, <1>4

\* t's body takes a reference to a facet in an empty slot.
LEMMA HoldSound ==
  ASSUME BodyInv, FacetInv, NEW t \in Threads, pc[t] \in Building,
         NEW i \in Slots, slot[body[t]][i] = NoFacet, NEW f \in Facets,
         slot' = [slot EXCEPT ![body[t]][i] = f],
         fref' = [fref EXCEPT ![f] = @ + 1],
         f \in falive', falive \subseteq falive', falive' \subseteq falive \cup {f},
         \A d \in falive : floc'[d] = floc[d],
         \A u \in Threads : gift'[u] = gift[u] \/ gift[u] = f,
         UNCHANGED <<status, name, extra>>
  PROVE  FacetSound'
<1>0. body[t] \in Bodies /\ status[body[t]] = "building"
  BY BuildingFacts
<1>1. /\ slot \in Slotted /\ fref \in [Facets -> Nat] /\ extra \in [Facets -> Nat]
      /\ falive \subseteq Facets
  BY DEF FacetInv, FacetTypeOK, Slotted
<1>2. \A c \in Bodies, j \in Slots :
         slot'[c][j] = IF c = body[t] /\ j = i THEN f ELSE slot[c][j]
  BY <1>0, <1>1 DEF Slotted
<1>3. HeldLive'
  BY <1>2 DEF FacetInv, HeldLive
<1>4. RefsCounted'
  <2>1. \A d \in Facets : Cardinality(Holders(slot', d)) =
                 Cardinality(Holders(slot, d)) + (IF d = f THEN 1 ELSE 0)
    <3>1. slot[body[t]][i] = NoFacet /\ i \in Slots /\ f \in Facets
      OBVIOUS
    <3> QED
      BY ONLY <1>0, <1>1, <1>2, <3>1, HolderGained
  <2>2. \A d \in Facets : LET n == extra[d] + Cardinality(Holders(slot, d))
                          IN  fref[d] >= n /\ (~LongNames => fref[d] = n)
    BY DEF FacetInv, RefsCounted, Enough
  <2>3. \A d \in Facets : fref'[d] = fref[d] + (IF d = f THEN 1 ELSE 0)
    BY <1>1
  <2>4. \A d \in Facets : Cardinality(Holders(slot, d)) \in Nat
    BY HoldersFinite
  <2>5. ASSUME NEW d \in Facets
        PROVE  LET n == extra'[d] + Cardinality(Holders(slot', d))
               IN  fref'[d] >= n /\ (~LongNames => fref'[d] = n)
    <3>1. extra'[d] = extra[d] /\ extra[d] \in Nat /\ fref[d] \in Nat /\ d \in Facets
      BY <1>1
    <3>2. CASE d = f
      BY ONLY <2>1, <2>2, <2>3, <2>4, <3>1, <3>2
    <3>3. CASE d # f
      BY ONLY <2>1, <2>2, <2>3, <2>4, <3>1, <3>3
    <3> QED
      BY <3>2, <3>3
  <2> QED
    BY <2>5 DEF RefsCounted, Enough, Holders
<1>5. HeapKept'
  <2> SUFFICES ASSUME ~LongNames, NEW d \in Heap, d \in falive'
               PROVE  \/ \E b \in Bodies, j \in Slots : slot'[b][j] = d
                      \/ extra[d] > 0
                      \/ \E u \in Threads : gift'[u] = d
    BY DEF HeapKept
  <2>1. CASE d = f
    BY <2>1, <1>0, <1>2
  <2>2. CASE d # f
    <3>1. d \in falive /\ d # NoFacet
      BY <2>2, FacetFacts
    <3> QED
      BY <2>2, <3>1, <1>2 DEF FacetInv, HeapKept
  <2> QED
    BY <2>1, <2>2
<1>6. FreeBare'
  BY <1>0, <1>2 DEF FacetInv, FreeBare, Bare
<1>7. Statics'
  BY DEF FacetInv, Statics
<1>8. NamesTell'
  <2> SUFFICES ASSUME NEW b \in Bodies, status[b] = "live", name[b] # NoName
               PROVE  Tells(name[b], slot[b])'
    BY DEF NamesTell
  <2>1. slot'[b] = slot[b] /\ Tells(name[b], slot[b])
    BY <1>0, <1>1 DEF Slotted, FacetInv, NamesTell
  <2>2. \A j \in StdSlots : floc'[slot[b][j]] = floc[slot[b][j]]
    BY <2>1, FacetFacts DEF Tells, FacetInv, HeldLive
  <2> QED
    BY <2>1, <2>2 DEF Tells, LocOf
<1> QED
  BY <1>3, <1>4, <1>5, <1>6, <1>7, <1>8 DEF FacetSound

LEMMA HoldAside ==
  ASSUME BodyInv, FacetInv, NEW t \in Threads, pc[t] \in Building,
         NEW i \in Slots, NEW f \in Facets, Reference(t, f),
         slot' = [slot EXCEPT ![body[t]][i] = f],
         falive \subseteq falive',
         \A d \in falive : floc'[d] = floc[d],
         \A u \in Threads : u # t => todo'[u] = todo[u] /\ gift'[u] = gift[u],
         gift'[t] \in {gift[t], NoFacet},
         UNCHANGED <<pc, body, name, want, src>>
  PROVE  Aside(t)
<1>0. /\ body[t] \in Bodies /\ status[body[t]] = "building"
      /\ \A u \in Threads : u # t => body[u] # body[t]
  BY BuildingFacts
<1>1. \A c \in Bodies : c # body[t] => slot'[c] = slot[c]
  BY <1>0 DEF FacetInv, FacetTypeOK
<1>2. \A c \in Bodies, j \in Slots : slot'[c][j] \in {slot[c][j], f}
  BY <1>0 DEF FacetInv, FacetTypeOK
<1> QED
  BY <1>0, <1>1, <1>2 DEF Aside, FacetInv, Gift

LEMMA CountSlotFacets ==
  ASSUME BodyInv, FacetInv, NEW t \in Threads, NEW i \in Slots, CountSlot(t, i)
  PROVE  FacetInv'
<1> DEFINE f == want[t][i]
<1>f. f = want[t][i]
  OBVIOUS
<1> HIDE DEF f
<1>a. /\ pc[t] = "count" /\ pc[t] \in Building /\ i \in todo[t]
      /\ slot' = [slot EXCEPT ![body[t]][i] = f]
      /\ fref' = [fref EXCEPT ![f] = @ + 1]
      /\ todo' = [todo EXCEPT ![t] = @ \ {i}]
      /\ gift' = [gift EXCEPT ![t] = IF @ = f THEN NoFacet ELSE @]
      /\ UNCHANGED <<bodyVars, body, falive, floc, extra, guard, pc, tgt, reg,
                     want, src, throws>>
  BY <1>f DEF CountSlot, Hold, First, At, Building
<1>b. Combination(t) /\ src[t] # {} /\ Gift(t)
  <2>1. Stage(t) /\ Gift(t)
    BY DEF FacetInv
  <2> QED
    BY <1>a, <2>1 DEF Stage, Naming
<1>c. /\ f \in Facets /\ f \in falive /\ Reference(t, f)
      /\ slot[body[t]][i] = NoFacet
  BY <1>a, <1>b, <1>f, Wanted DEF Reference, Combination
<1>d. /\ body[t] \in Bodies
      /\ \A c \in Bodies, j \in Slots :
            slot'[c][j] = IF c = body[t] /\ j = i THEN f ELSE slot[c][j]
      /\ \A c \in Bodies : c # body[t] => slot'[c] = slot[c]
  BY <1>a, BuildingFacts DEF FacetInv, FacetTypeOK
<1>e. /\ gift'[t] = IF gift[t] = f THEN NoFacet ELSE gift[t]
      /\ todo'[t] = todo[t] \ {i}
      /\ \A u \in Threads : u # t => gift'[u] = gift[u] /\ todo'[u] = todo[u]
  BY <1>a DEF FacetInv, FacetTypeOK
<1>1. FacetTypeOK'
  BY <1>a, <1>c, <1>d DEF FacetInv, FacetTypeOK, bodyVars
<1>2. FacetSound'
  <2>1. \A u \in Threads : gift'[u] = gift[u] \/ gift[u] = f
    BY <1>e
  <2> QED
    BY <1>a, <1>c, <2>1, HoldSound DEF bodyVars
<1>3. Aside(t)
  BY <1>a, <1>c, <1>e, HoldAside DEF bodyVars
<1>4. Gift(t)'
  <2> SUFFICES ASSUME gift'[t] # NoFacet PROVE Gift(t)'
    BY DEF Gift
  <2>1. gift'[t] = gift[t] /\ gift[t] # f /\ gift[t] # NoFacet
    BY <1>e
  <2>2. PICK j \in todo[t] : want[t][j] = gift[t]
    BY <1>b, <2>1 DEF Gift
  <2>3. j \in todo'[t] /\ want'[t][j] = gift'[t]
    BY <1>a, <1>e, <1>f, <2>1, <2>2
  <2>4. \A u \in Threads : gift'[u] = gift'[t] => u = t
    BY <1>b, <1>e, <2>1 DEF Gift
  <2>5. \A c \in Bodies, k \in Slots : slot'[c][k] # gift'[t]
    BY <1>b, <1>d, <2>1 DEF Gift
  <2> QED
    BY <1>a, <1>b, <2>1, <2>3, <2>4, <2>5 DEF Gift
<1>5. ASSUME NEW g \in src[t]
      PROVE  /\ body[g] \in Bodies /\ body[g] # body[t]
             /\ slot'[body[g]] = slot[body[g]]
             /\ slot[body[g]] \in [Slots -> Facets \cup {NoFacet}]
  BY <1>a, <1>b, <1>d, BuildingFacts DEF Combination, FacetInv, FacetTypeOK
<1>6. ASSUME NEW g \in src[t], NEW j \in Slots, NEW d \in Facets, Facetted(t, g, j, d)
      PROVE  Facetted(t, g, j, d)'
  <2>1. want[t][i] = IF i = j THEN d ELSE slot[body[g]][i]
    BY <1>5, <1>6 DEF Facetted
  <2>2. ASSUME d \in Heap, gift[t] = d \/ slot[body[t]][j] = d, Sole(body[t], d)
        PROVE  (gift'[t] = d \/ slot'[body[t]][j] = d) /\ Sole(body[t], d)'
    <3>1. Sole(body[t], d)'
      BY <1>a, <1>d, <2>2 DEF Sole
    <3>2. CASE i = j
      BY <1>d, <1>f, <2>1, <3>1, <3>2
    <3>3. CASE i # j
      <4>1. f # d
        BY <1>5, <1>f, <2>1, <2>2, <3>3 DEF Sole
      <4> QED
        BY <1>d, <1>e, <2>2, <3>1, <3>3, <4>1
    <3> QED
      BY <3>2, <3>3
  <2> QED
    BY <1>5, <1>6, <1>a, <2>2 DEF Facetted, bodyVars
<1>7. ASSUME NEW g \in src[t], NEW k \in src[t], NEW cat \in SUBSET StdSlots,
             Categorized(t, g, k, cat)
      PROVE  Categorized(t, g, k, cat)'
  BY <1>5, <1>7, <1>a, <1>e DEF Categorized, CombinedName, bodyVars
<1>8. Combination(t)'
  <2>1. \/ \E g \in src'[t], j \in Slots, d \in Facets : Facetted(t, g, j, d)'
        \/ \E g, k \in src'[t], cat \in SUBSET StdSlots : Categorized(t, g, k, cat)'
    <3>1. CASE \E g \in src[t], j \in Slots, d \in Facets : Facetted(t, g, j, d)
      BY <1>6, <1>a, <3>1
    <3>2. CASE \E g, k \in src[t], cat \in SUBSET StdSlots : Categorized(t, g, k, cat)
      BY <1>7, <1>a, <3>2
    <3> QED
      BY <1>b, <3>1, <3>2 DEF Combination
  <2>2. \A j \in Slots : slot'[body'[t]][j] = IF j \in todo'[t] THEN NoFacet ELSE want'[t][j]
    BY <1>a, <1>b, <1>d, <1>e, <1>f DEF Combination
  <2> QED
    BY <1>a, <1>b, <1>e, <2>1, <2>2 DEF Combination, Combining
<1>9. Stage(t)'
  BY <1>8, <1>a, <1>b DEF Stage
<1> QED
  BY <1>1, <1>2, <1>3, <1>4, <1>9, Assemble

\* t takes facet f, which no other body has, for slot i of the locale it is
\* building from a name.
LEMMA ObtainFacets ==
  ASSUME BodyInv, FacetInv, NEW t \in Threads, NEW i, NEW f,
         \/ i \in StdSlots /\ ObtainOrdinary(t, i) /\ f = Ordinary[i]
         \/ i \in Slots /\ f \in Heap /\ ObtainByname(t, i, f)
  PROVE  FacetInv'
<1>a. /\ pc[t] = "obtain" /\ pc[t] \in Building /\ i \in todo[t]
      /\ slot' = [slot EXCEPT ![body[t]][i] = f]
      /\ fref' = [fref EXCEPT ![f] = @ + 1]
      /\ todo' = [todo EXCEPT ![t] = @ \ {i}]
      /\ UNCHANGED <<bodyVars, body, extra, pc, want, src, gift, throws>>
  BY DEF ObtainOrdinary, ObtainByname, Hold, First, At, Building
<1>b. Naming(t) /\ src[t] = {} /\ i \in StdSlots /\ i \in Slots
      /\ want[t] = [j \in Slots |-> NoFacet]
  <2>1. Stage(t)
    BY DEF FacetInv
  <2>2. Naming(t) /\ src[t] = {} /\ want[t] = [j \in Slots |-> NoFacet]
    BY <1>a, <2>1 DEF Stage, Combination, Combining, Building
  <2> QED
    BY <1>a, <2>2, FacetFacts DEF Naming
<1>c. /\ slot[body[t]][i] = NoFacet /\ gift[t] = NoFacet
      /\ name[body[t]] \in FullNames /\ name[body[t]][i] \in Names
  BY <1>a, <1>b DEF Naming, FullNames
<1>d. /\ body[t] \in Bodies
      /\ \A c \in Bodies, j \in Slots :
            slot'[c][j] = IF c = body[t] /\ j = i THEN f ELSE slot[c][j]
      /\ todo'[t] = todo[t] \ {i}
      /\ \A u \in Threads : u # t => todo'[u] = todo[u]
  BY <1>a, <1>b, BuildingFacts DEF FacetInv, FacetTypeOK
<1>e. /\ f \in Facets /\ falive' = falive \cup {f} /\ Reference(t, f)
      /\ \A d \in falive : floc'[d] = floc[d]
      /\ floc' \in [Facets -> Names \cup {NoName}]
      /\ f \in Heap => f \notin falive /\ floc'[f] = name[body[t]][i]
      /\ IF name[body[t]][i] = CName \/ i \in Plain THEN f = Ordinary[i] ELSE f \in Heap
  <2>1. CASE i \in StdSlots /\ ObtainOrdinary(t, i) /\ f = Ordinary[i]
    BY <2>1, FacetFacts DEF ObtainOrdinary, FacetInv, FacetTypeOK, Statics, Reference
  <2>2. CASE f \in Heap /\ ObtainByname(t, i, f)
    BY <2>2, <1>c, FacetFacts DEF ObtainByname, FacetInv, FacetTypeOK, Reference
  <2> QED
    BY <2>1, <2>2
<1>1. FacetTypeOK'
  <2>1. FacetTypeOK
    BY DEF FacetInv
  <2>2. slot' \in [Bodies -> [Slots -> Facets \cup {NoFacet}]]
    BY <1>a, <1>b, <1>d, <1>e, <2>1 DEF FacetTypeOK
  <2>3. fref' \in [Facets -> Nat] /\ falive' \subseteq Facets
    BY <1>a, <1>e, <2>1 DEF FacetTypeOK
  <2>4. todo' \in [Threads -> SUBSET Slots]
    BY <1>a, <2>1 DEF FacetTypeOK
  <2> QED
    BY <1>a, <1>e, <2>1, <2>2, <2>3, <2>4 DEF FacetTypeOK, bodyVars
<1>2. FacetSound'
  BY <1>a, <1>b, <1>c, <1>e, HoldSound DEF bodyVars
<1>3. Aside(t)
  BY <1>a, <1>b, <1>d, <1>e, HoldAside DEF bodyVars
<1>4. Gift(t)'
  BY <1>a, <1>c DEF Gift
<1>5. ASSUME NEW j \in StdSlots, j \notin todo'[t] PROVE FacetOfName(body[t], j)'
  <2>0. j \in Slots
    BY FacetFacts
  <2>1. CASE j = i
    <3>1. f \in Heap => \A c \in Bodies, k \in Slots : slot[c][k] # f
      BY <1>e, FacetFacts DEF FacetInv, HeldLive
    <3>2. slot'[body[t]][i] = f
      BY <1>b, <1>d
    <3>3. f \in Heap => Sole(body[t], f)'
      BY <1>a, <1>d, <3>1 DEF Sole
    <3> QED
      BY <1>a, <1>e, <2>1, <3>2, <3>3 DEF FacetOfName, Sole, bodyVars
  <2>2. CASE j # i
    <3>1. PICK e : e = slot[body[t]][j]
      OBVIOUS
    <3>2. FacetOfName(body[t], j) /\ slot'[body[t]][j] = e
      <4>1. j \notin todo[t]
        BY <1>d, <1>5, <2>2
      <4>2. FacetOfName(body[t], j)
        BY <1>a, <1>b, <4>1 DEF Naming
      <4> QED
        BY <1>d, <2>0, <2>2, <3>1, <4>2
    <3>3. ASSUME e \in Heap, Sole(body[t], e) PROVE Sole(body[t], e)' /\ floc'[e] = floc[e]
      <4>1. e \in falive
        BY <1>d, <2>0, <3>1, <3>3, FacetFacts DEF FacetInv, HeldLive
      <4> QED
        BY <1>a, <1>d, <1>e, <3>3, <4>1 DEF Sole
    <3> QED
      BY <1>a, <3>1, <3>2, <3>3 DEF FacetOfName, Sole, bodyVars
  <2> QED
    BY <2>1, <2>2
<1>6. Naming(t)'
  BY <1>a, <1>b, <1>c, <1>d, <1>5, FacetFacts DEF Naming, bodyVars
<1>7. Stage(t)'
  BY <1>6, <1>a, <1>b DEF Stage
<1> QED
  BY <1>1, <1>2, <1>3, <1>4, <1>7, Assemble

-----------------------------------------------------------------------------
\* A body that is not live gives up the facet in slot i: if that was the last
\* reference to a facet on the heap, no body has it and nobody was given it.
LEMMA ReleaseSound ==
  ASSUME BodyInv, FacetInv, NEW b \in Bodies, status[b] \in {"building", "dying"},
         NEW i \in Slots, slot[b][i] # NoFacet, Release(b, i),
         UNCHANGED <<status, name, floc, extra, gift>>
  PROVE  /\ FacetSound'
         /\ slot' \in [Bodies -> [Slots -> Facets \cup {NoFacet}]]
         /\ fref' \in [Facets -> Nat] /\ falive' \in SUBSET Facets
         /\ \A c \in Bodies : c # b => slot'[c] = slot[c]
         /\ \A c \in Bodies, j \in Slots : slot'[c][j] \in {slot[c][j], NoFacet}
         /\ \A u \in Threads : gift[u] # NoFacet => gift[u] \in falive'
<1> DEFINE f == slot[b][i]
<1>f. f = slot[b][i]
  OBVIOUS
<1>a. /\ slot' = [slot EXCEPT ![b][i] = NoFacet]
      /\ fref' = [fref EXCEPT ![f] = @ - 1]
      /\ falive' = IF fref[f] = 1 /\ f \in Heap THEN falive \ {f} ELSE falive
  BY DEF Release
<1> HIDE DEF f
<1>0. /\ slot \in Slotted /\ fref \in [Facets -> Nat] /\ extra \in [Facets -> Nat]
      /\ falive \subseteq Facets /\ f \in Facets /\ f \in falive
      /\ HeldLive /\ RefsCounted /\ HeapKept /\ FreeBare /\ Statics /\ NamesTell
  BY <1>f DEF FacetInv, FacetTypeOK, Slotted, HeldLive
<1>1. \A c \in Bodies, j \in Slots :
         slot'[c][j] = IF c = b /\ j = i THEN NoFacet ELSE slot[c][j]
  BY <1>0, <1>a DEF Slotted
<1>2. /\ \A d \in Facets : Cardinality(Holders(slot, d)) =
             Cardinality(Holders(slot', d)) + (IF d = f THEN 1 ELSE 0)
      /\ \A d \in Facets : Cardinality(Holders(slot', d)) = 0 <=>
             \A c \in Bodies, j \in Slots : slot[c][j] = d => c = b /\ j = i
      /\ \A d \in Facets : Cardinality(Holders(slot', d)) \in Nat
  <2>1. i \in Slots /\ b \in Bodies /\ slot[b][i] # NoFacet
    OBVIOUS
  <2>2. /\ \A d \in Facets : Cardinality(Holders(slot, d)) =
             Cardinality(Holders(slot', d)) + (IF d = slot[b][i] THEN 1 ELSE 0)
        /\ \A d \in Facets : Cardinality(Holders(slot', d)) = 0 <=>
             \A c \in Bodies, j \in Slots : slot[c][j] = d => c = b /\ j = i
    BY ONLY <1>0, <1>1, <2>1, HolderLost
  <2> QED
    BY <1>f, <2>2, HoldersFinite
<1>3. \A d \in Facets : LET n == extra[d] + Cardinality(Holders(slot, d))
                        IN  fref[d] >= n /\ (~LongNames => fref[d] = n)
  BY <1>0 DEF RefsCounted, Enough
<1>4. ASSUME NEW d \in Facets
      PROVE  LET n == extra[d] + Cardinality(Holders(slot', d))
             IN  fref'[d] >= n /\ (~LongNames => fref'[d] = n)
  <2>1. extra[d] \in Nat /\ fref[d] \in Nat /\ fref'[d] = IF d = f THEN fref[d] - 1 ELSE fref[d]
    BY <1>0, <1>a
  <2>2. CASE d = f
    BY ONLY <1>2, <1>3, <2>1, <2>2, d \in Facets
  <2>3. CASE d # f
    BY ONLY <1>2, <1>3, <2>1, <2>3, d \in Facets
  <2> QED
    BY <2>2, <2>3
<1>5. /\ fref[f] = 1 => extra[f] = 0 /\ Cardinality(Holders(slot', f)) = 0
      /\ ~LongNames /\ fref[f] # 1 => extra[f] > 0 \/ Cardinality(Holders(slot', f)) # 0
      /\ fref[f] > 0
  <2>1. /\ extra[f] \in Nat /\ Cardinality(Holders(slot', f)) \in Nat /\ fref[f] \in Nat
        /\ fref[f] >= extra[f] + Cardinality(Holders(slot, f))
        /\ ~LongNames => fref[f] = extra[f] + Cardinality(Holders(slot, f))
        /\ Cardinality(Holders(slot, f)) = Cardinality(Holders(slot', f)) + 1
    BY <1>0, <1>2, <1>3
  <2> QED
    BY ONLY <2>1
<1>6. RefsCounted'
  BY <1>4 DEF RefsCounted, Enough, Holders
<1>7. HeldLive'
  <2> SUFFICES ASSUME NEW c \in Bodies, NEW j \in Slots, slot'[c][j] # NoFacet
               PROVE  slot'[c][j] \in falive'
    BY DEF HeldLive
  <2>1. slot'[c][j] = slot[c][j] /\ slot[c][j] \in falive /\ ~(c = b /\ j = i)
        /\ slot[c][j] \in Facets
    BY <1>0, <1>1 DEF HeldLive, Slotted
  <2>2. CASE slot[c][j] = f
    <3>1. Cardinality(Holders(slot', f)) # 0
      BY <1>0, <1>2, <2>1, <2>2
    <3> QED
      BY <1>a, <1>5, <2>1, <3>1
  <2>3. CASE slot[c][j] # f
    BY <1>a, <2>1, <2>3
  <2> QED
    BY <2>2, <2>3
<1>8. HeapKept'
  <2> SUFFICES ASSUME ~LongNames, NEW d \in Heap, d \in falive'
               PROVE  \/ \E c \in Bodies, j \in Slots : slot'[c][j] = d
                      \/ extra[d] > 0
                      \/ \E u \in Threads : gift[u] = d
    BY DEF HeapKept
  <2>1. d \in falive /\ d \in Facets /\ d # NoFacet
    BY <1>a, FacetFacts
  <2>2. CASE d = f
    <3>1. fref[f] # 1
      BY <1>a, <2>2
    <3>2. extra[f] > 0 \/ Cardinality(Holders(slot', f)) # 0
      BY <1>0, <1>5, <3>1
    <3>3. CASE Cardinality(Holders(slot', f)) # 0
      <4>1. \E c \in Bodies, j \in Slots : slot'[c][j] = f
        BY <3>3, Unheld
      <4> QED
        BY <2>2, <4>1
    <3> QED
      BY <2>2, <3>2, <3>3
  <2>3. CASE d # f
    <3>1. \A c \in Bodies, j \in Slots : slot[c][j] = d => slot'[c][j] = d
      BY <1>1, <1>f, <2>3
    <3> QED
      BY <1>0, <2>1, <3>1 DEF HeapKept
  <2> QED
    BY <2>2, <2>3
<1>9. FreeBare'
  BY <1>0, <1>1 DEF FreeBare, Bare
<1>10. Statics'
  BY <1>0, <1>a, FacetFacts DEF Statics
<1>11. \A c \in Bodies : c # b => slot'[c] = slot[c]
  BY <1>0, <1>a DEF Slotted
<1>12. NamesTell'
  BY <1>0, <1>11 DEF NamesTell, Tells
<1>13. \A u \in Threads : gift[u] # NoFacet => gift[u] \in falive'
  BY <1>a, <1>f DEF FacetInv, Gift
<1>14. /\ slot' \in [Bodies -> [Slots -> Facets \cup {NoFacet}]]
       /\ fref' \in [Facets -> Nat] /\ falive' \in SUBSET Facets
  <2>1. slot' \in [Bodies -> [Slots -> Facets \cup {NoFacet}]]
    BY <1>0, <1>a DEF Slotted
  <2>2. fref[f] - 1 \in Nat
    BY <1>0, <1>5
  <2> QED
    BY <1>0, <1>a, <2>1, <2>2
<1> QED
  BY <1>1, <1>6, <1>7, <1>8, <1>9, <1>10, <1>11, <1>12, <1>13, <1>14 DEF FacetSound

LEMMA ReleaseFacets ==
  ASSUME BodyInv, FacetInv, NEW t \in Threads, NEW i \in Slots,
         DeleteSlot(t, i) \/ UnwindSlot(t, i)
  PROVE  FacetInv'
<1> DEFINE b == IF pc[t] = "delete" THEN reg[t] ELSE body[t]
<1>1. /\ b \in Bodies /\ status[b] \in {"building", "dying"} /\ slot[b][i] # NoFacet
      /\ Release(b, i)
      /\ \A u \in Threads : u # t /\ pc[u] \in Building => body[u] # b
      /\ UNCHANGED <<bodyVars, body, floc, extra, guard, pc, tgt, reg, buildVars, throws>>
      /\ pc[t] \in {"delete", "unwind"}
  <2>1. CASE DeleteSlot(t, i)
    BY <2>1, OwnerFacts DEF DeleteSlot, At, First, Held, BodyInv, Place, NoDangling,
       BodyTypeOK
  <2>2. CASE UnwindSlot(t, i)
    <3>1. pc[t] = "unwind" /\ pc[t] \in Building /\ b = body[t]
      BY <2>2 DEF UnwindSlot, At, Building
    <3> QED
      BY <2>2, <3>1, BuildingFacts DEF UnwindSlot, Last, Held
  <2> QED
    BY <2>1, <2>2
<1> HIDE DEF b
<1>2. /\ FacetSound'
      /\ slot' \in [Bodies -> [Slots -> Facets \cup {NoFacet}]]
      /\ fref' \in [Facets -> Nat] /\ falive' \in SUBSET Facets
      /\ \A c \in Bodies : c # b => slot'[c] = slot[c]
      /\ \A c \in Bodies, j \in Slots : slot'[c][j] \in {slot[c][j], NoFacet}
      /\ \A u \in Threads : gift[u] # NoFacet => gift[u] \in falive'
  BY <1>1, ReleaseSound DEF bodyVars, buildVars
<1>3. FacetTypeOK'
  BY <1>1, <1>2 DEF FacetInv, FacetTypeOK, bodyVars, buildVars
<1>4. Aside(t)
  BY <1>1, <1>2 DEF Aside, bodyVars, buildVars
<1>5. Gift(t)' /\ Stage(t)'
  <2>1. Gift(t) /\ Stage(t)
    BY DEF FacetInv
  <2>2. gift'[t] = NoFacet
    BY <1>1, <2>1 DEF Gift, buildVars
  <2>3. Stage(t)'
    BY <1>1, <2>1 DEF Stage, Naming, Combination, Combining, Building, bodyVars, buildVars
  <2> QED
    BY <2>2, <2>3 DEF Gift
<1> QED
  BY <1>2, <1>3, <1>4, <1>5, Assemble

-----------------------------------------------------------------------------
\* What a constructor that does not complete leaves.
LEMMA Unbuilt ==
  ASSUME BodyInv, FacetInv, NEW t \in Threads, pc[t] \in Building, FreeUnbuilt(t)
  PROVE  /\ body[t] \in Bodies /\ status[body[t]] = "building"
         /\ Stage(t)'
         /\ want' \in [Threads -> [Slots -> Facets \cup {NoFacet}]]
         /\ todo' \in [Threads -> SUBSET Slots]
         /\ src' \in [Threads -> SUBSET (Handles \cup {ClassicObj})]
         /\ gift' \in [Threads -> Facets \cup {NoFacet}]
         /\ name' \in [Bodies -> FullNames \cup {NoName}]
         /\ gift'[t] = NoFacet
         /\ \A c \in Bodies : c # body[t] => status'[c] = status[c] /\ name'[c] = name[c]
         /\ status'[body[t]] = "free"
         /\ \A c \in Bodies : (status[c] = "live" \/ \E u \in Threads : u # t /\
                 pc[u] \in Building /\ body[u] = c) => c # body[t]
         /\ \A u \in Threads : u # t =>
               /\ pc'[u] = pc[u] /\ want'[u] = want[u] /\ todo'[u] = todo[u]
               /\ src'[u] = src[u] /\ gift'[u] = gift[u] /\ body'[u] = body[u]
               /\ \A x \in Mine[u] \cup {ClassicObj} : body'[x] = body[x]
<1>1. /\ body[t] \in Bodies /\ status[body[t]] = "building"
      /\ \A u \in Threads : u # t => body[u] # body[t]
  BY BuildingFacts
<1>2. /\ pc \in [Threads -> Labels] /\ body \in Bodied
      /\ status \in [Bodies -> {"free", "building", "live", "dying"}]
  BY DEF BodyInv, BodyTypeOK
<1>3. /\ want \in [Threads -> [Slots -> Facets \cup {NoFacet}]]
      /\ todo \in [Threads -> SUBSET Slots]
      /\ src \in [Threads -> SUBSET (Handles \cup {ClassicObj})]
      /\ gift \in [Threads -> Facets \cup {NoFacet}]
      /\ name \in [Bodies -> FullNames \cup {NoName}]
  BY DEF FacetInv, FacetTypeOK
<1>4. /\ pc'[t] = "idle" /\ src'[t] = {} /\ todo'[t] = {} /\ gift'[t] = NoFacet
      /\ want'[t] = [i \in Slots |-> NoFacet]
  BY <1>2, <1>3 DEF FreeUnbuilt, Goto
<1>5. Stage(t)'
  BY <1>4 DEF Stage, Building
<1>6. /\ want' \in [Threads -> [Slots -> Facets \cup {NoFacet}]]
      /\ todo' \in [Threads -> SUBSET Slots]
      /\ src' \in [Threads -> SUBSET (Handles \cup {ClassicObj})]
      /\ gift' \in [Threads -> Facets \cup {NoFacet}]
      /\ name' \in [Bodies -> FullNames \cup {NoName}]
  BY <1>3 DEF FreeUnbuilt
<1>7. /\ \A c \in Bodies : c # body[t] => status'[c] = status[c] /\ name'[c] = name[c]
      /\ status'[body[t]] = "free"
  BY <1>1, <1>2, <1>3 DEF FreeUnbuilt
<1>8. \A u \in Threads : u # t =>
         /\ pc'[u] = pc[u] /\ want'[u] = want[u] /\ todo'[u] = todo[u]
         /\ src'[u] = src[u] /\ gift'[u] = gift[u] /\ body'[u] = body[u]
         /\ \A x \in Mine[u] \cup {ClassicObj} : body'[x] = body[x]
  BY <1>2, <1>3, OwnerFacts DEF FreeUnbuilt, Goto, Bodied
<1> QED
  BY <1>1, <1>4, <1>5, <1>6, <1>7, <1>8

LEMMA UnwindBodyFacets ==
  ASSUME BodyInv, FacetInv, NEW t \in Threads, UnwindBody(t)
  PROVE  FacetInv'
<1>1. /\ pc[t] = "unwind" /\ pc[t] \in Building /\ Bare(body[t])
      /\ FreeUnbuilt(t) /\ UNCHANGED <<facetVars, guard, tgt, reg, throws>>
  BY DEF UnwindBody, At, Building, Held, Bare
<1>2. gift' = gift
  BY <1>1 DEF FacetInv, FacetTypeOK, Gift, FreeUnbuilt
<1>3. FacetTypeOK'
  BY <1>1, Unbuilt DEF FacetInv, FacetTypeOK, facetVars
<1>4. FacetSound'
  BY <1>1, <1>2, SoundKept, Unbuilt
<1>5. Aside(t)
  BY <1>1, <1>2, Unbuilt DEF Aside, facetVars, FacetInv, Gift
<1>6. Gift(t)' /\ Stage(t)'
  BY <1>1, Unbuilt DEF Gift
<1> QED
  BY <1>3, <1>4, <1>5, <1>6, Assemble

LEMMA ArrayThrowFacets ==
  ASSUME BodyInv, FacetInv, NEW t \in Threads, ArrayThrow(t)
  PROVE  FacetInv'
<1>1. /\ pc[t] = "copied" /\ pc[t] \in Building /\ FreeUnbuilt(t)
      /\ falive' = falive \ {gift[t]}
      /\ gift[t] = NoFacet => fref' = fref /\ extra' = extra
      /\ gift[t] # NoFacet => /\ fref' = [fref EXCEPT ![gift[t]] = 0]
                              /\ extra' = [extra EXCEPT ![gift[t]] = 0]
      /\ UNCHANGED <<slot, floc, guard, tgt, reg>>
      /\ throws < MaxThrows /\ throws' = throws + 1
  BY DEF ArrayThrow, At, Building, Throw
<1>2. Gift(t) /\ Stage(t) /\ FacetTypeOK /\ HeldLive /\ RefsCounted /\ HeapKept
      /\ FreeBare /\ Statics /\ NamesTell
  BY DEF FacetInv
<1>3. Bare(body[t])
  BY <1>1, <1>2 DEF Stage, Naming, Combination, Bare
<1>u. /\ body[t] \in Bodies /\ status[body[t]] = "building"
      /\ gift'[t] = NoFacet
      /\ \A c \in Bodies : c # body[t] => status'[c] = status[c] /\ name'[c] = name[c]
      /\ status'[body[t]] = "free"
      /\ \A c \in Bodies : (status[c] = "live" \/ \E u \in Threads : u # t /\
              pc[u] \in Building /\ body[u] = c) => c # body[t]
      /\ \A u \in Threads : u # t => gift'[u] = gift[u]
      /\ Stage(t)'
  BY <1>1, Unbuilt
<1>4. FacetTypeOK'
  <2>1. throws' \in 0 .. MaxThrows
    BY <1>1, <1>2, LocaleAssumption DEF FacetTypeOK
  <2>2. falive' \in SUBSET Facets /\ fref' \in [Facets -> Nat] /\ extra' \in [Facets -> Nat]
    <3>1. CASE gift[t] = NoFacet
      BY <1>1, <1>2, <3>1 DEF FacetTypeOK
    <3>2. CASE gift[t] # NoFacet
      <4>1. /\ fref' = [fref EXCEPT ![gift[t]] = 0]
            /\ extra' = [extra EXCEPT ![gift[t]] = 0]
            /\ falive' = falive \ {gift[t]}
        BY <1>1, <3>2
      <4>2. /\ fref \in [Facets -> Nat] /\ extra \in [Facets -> Nat]
            /\ falive \in SUBSET Facets
        BY <1>2 DEF FacetTypeOK
      <4> QED
        BY ONLY <4>1, <4>2
    <3> QED
      BY <3>1, <3>2
  <2> QED
    BY <1>1, <1>2, <2>1, <2>2, Unbuilt DEF FacetTypeOK
<1>5. HeldLive' /\ Statics'
  BY <1>1, <1>2, FacetFacts DEF HeldLive, Statics, Gift, FacetTypeOK
<1>6. RefsCounted'
  <2>1. CASE gift[t] = NoFacet
    BY <1>1, <1>2, <2>1 DEF RefsCounted, Enough, Holders
  <2>2. CASE gift[t] # NoFacet
    <3>1. Cardinality(Holders(slot, gift[t])) = 0
      <4>1. \A b \in Bodies, i \in Slots : slot[b][i] # gift[t]
        BY <1>2, <2>2 DEF Gift
      <4> QED
        BY <4>1, Unheld
    <3>2. ASSUME NEW d \in Facets
          PROVE  Enough(extra[d] + Cardinality(Holders(slot, d)), d)'
      <4>0. slot' = slot
        BY <1>1
      <4>1. CASE d = gift[t]
        BY <1>1, <1>2, <2>2, <3>1, <4>0, <4>1 DEF FacetTypeOK, Enough
      <4>2. CASE d # gift[t]
        BY <1>1, <1>2, <2>2, <4>0, <4>2 DEF FacetTypeOK, RefsCounted, Enough
      <4> QED
        BY <4>1, <4>2
    <3> QED
      BY <1>1, <3>2 DEF RefsCounted
  <2> QED
    BY <2>1, <2>2
<1>7. HeapKept'
  <2> SUFFICES ASSUME ~LongNames, NEW d \in Heap, d \in falive'
               PROVE  \/ \E c \in Bodies, j \in Slots : slot[c][j] = d
                      \/ extra'[d] > 0
                      \/ \E u \in Threads : gift'[u] = d
    BY <1>1 DEF HeapKept
  <2>1. d \in falive /\ d # gift[t] /\ d \in Facets
    BY <1>1, FacetFacts
  <2>2. extra'[d] = extra[d]
    BY <1>1, <1>2, <2>1 DEF FacetTypeOK
  <2>3. \A u \in Threads : gift[u] = d => gift'[u] = d
    BY <1>u, <2>1
  <2> QED
    BY <1>2, <2>1, <2>2, <2>3 DEF HeapKept
<1>8. FreeBare' /\ NamesTell'
  BY <1>1, <1>2, <1>3, <1>u DEF FreeBare, Bare, NamesTell, Tells
<1>9. Aside(t)
  <2>1. \A u \in Threads : u # t /\ gift[u] # NoFacet => gift[u] \in falive'
    BY <1>1, <1>2 DEF FacetInv, Gift
  <2> QED
    BY <1>1, <1>u, <2>1, Unbuilt DEF Aside
<1>10. Gift(t)'
  BY <1>u DEF Gift
<1> QED
  BY <1>u, <1>4, <1>5, <1>6, <1>7, <1>8, <1>9, <1>10, Assemble DEF FacetSound

LEMMA NameThrowFacets ==
  ASSUME BodyInv, FacetInv, NEW t \in Threads, NameThrow(t)
  PROVE  FacetInv'
<1>1. /\ pc[t] = "name" /\ pc[t] \in Building /\ FreeUnbuilt(t)
      /\ LongNames
      /\ slot' = [slot EXCEPT ![body[t]] = [i \in Slots |-> NoFacet]]
      /\ UNCHANGED <<fref, falive, floc, extra, guard, tgt, reg>>
      /\ throws < MaxThrows /\ throws' = throws + 1
  BY DEF NameThrow, At, Building, Throw
<1>2. Gift(t) /\ Stage(t) /\ FacetTypeOK /\ HeldLive /\ RefsCounted /\ HeapKept
      /\ FreeBare /\ Statics /\ NamesTell
  BY DEF FacetInv
<1>u. /\ body[t] \in Bodies /\ status[body[t]] = "building"
      /\ gift'[t] = NoFacet
      /\ \A c \in Bodies : c # body[t] => status'[c] = status[c] /\ name'[c] = name[c]
      /\ status'[body[t]] = "free"
      /\ \A c \in Bodies : (status[c] = "live" \/ \E u \in Threads : u # t /\
              pc[u] \in Building /\ body[u] = c) => c # body[t]
      /\ \A u \in Threads : u # t => gift'[u] = gift[u]
      /\ Stage(t)'
  BY <1>1, Unbuilt
<1>g. gift' = gift
  <2>1. gift[t] = NoFacet
    BY <1>1, <1>2 DEF Gift
  <2> QED
    BY <1>1, <1>2, <2>1 DEF FreeUnbuilt, FacetTypeOK
<1>3. \A c \in Bodies, j \in Slots :
         slot'[c][j] = IF c = body[t] THEN NoFacet ELSE slot[c][j]
  BY <1>1, <1>2, <1>u DEF FacetTypeOK
<1>4. ASSUME NEW f \in Facets
      PROVE  Cardinality(Holders(slot', f)) <= Cardinality(Holders(slot, f))
  <2>1. PICK s1 : s1 = slot'
    OBVIOUS
  <2>2. PICK b : b = body[t]
    OBVIOUS
  <2>3. \A c \in Bodies, j \in Slots : s1[c][j] = IF c = b THEN NoFacet ELSE slot[c][j]
    BY <1>3, <2>1, <2>2
  <2>4. Cardinality(Holders(s1, f)) <= Cardinality(Holders(slot, f))
    BY <2>3, HoldersForgotten
  <2> QED
    BY <2>1, <2>4
<1>5. FacetTypeOK'
  <2>1. throws' \in 0 .. MaxThrows
    BY <1>1, <1>2, LocaleAssumption DEF FacetTypeOK
  <2>2. slot' \in [Bodies -> [Slots -> Facets \cup {NoFacet}]]
    BY <1>1, <1>2 DEF FacetTypeOK
  <2> QED
    BY <1>1, <1>2, <2>1, <2>2, Unbuilt DEF FacetTypeOK
<1>6. HeldLive' /\ Statics'
  BY <1>1, <1>2, <1>3 DEF HeldLive, Statics
<1>7. RefsCounted'
  <2>1. ASSUME NEW f \in Facets
        PROVE  Enough(extra[f] + Cardinality(Holders(slot, f)), f)'
    <3>1. fref[f] >= extra[f] + Cardinality(Holders(slot, f))
      BY <1>2 DEF RefsCounted, Enough
    <3>2. /\ extra[f] \in Nat /\ fref[f] \in Nat
          /\ Cardinality(Holders(slot, f)) \in Nat /\ Cardinality(Holders(slot', f)) \in Nat
      BY <1>2, HoldersFinite DEF FacetTypeOK
    <3>3. fref[f] >= extra[f] + Cardinality(Holders(slot', f))
      BY <1>4, <3>1, <3>2
    <3> QED
      BY <1>1, <3>3 DEF Enough
  <2> QED
    BY <2>1 DEF RefsCounted
<1>8. HeapKept'
  BY <1>1 DEF HeapKept
<1>9. FreeBare'
  BY <1>2, <1>3, <1>u DEF FreeBare, Bare
<1>10. \A c \in Bodies : c # body[t] => slot'[c] = slot[c]
  BY <1>1, <1>2 DEF FacetTypeOK
<1>11. NamesTell'
  BY <1>1, <1>2, <1>10, <1>u DEF NamesTell, Tells
<1>12. Aside(t)
  BY <1>1, <1>3, <1>10, <1>g, <1>u, Unbuilt DEF Aside, FacetInv, Gift
<1>13. Gift(t)'
  BY <1>u DEF Gift
<1> QED
  BY <1>u, <1>5, <1>6, <1>7, <1>8, <1>9, <1>11, <1>12, <1>13, Assemble DEF FacetSound

-----------------------------------------------------------------------------
\* What a finished body is: the combination of live bodies it was copied
\* from, or what its name says.
LEMMA Finished ==
  ASSUME BodyInv, FacetInv, NEW t \in Threads, pc[t] = "publish"
  PROVE  /\ todo[t] = {} /\ gift[t] = NoFacet
         /\ src[t] # {} => Combination(t) /\ slot[body[t]] = want[t]
         /\ src[t] = {} =>
               /\ Naming(t)
               /\ \A i \in Slots \ StdSlots : slot[body[t]][i] = NoFacet
               /\ \A i \in StdSlots : FacetOfName(body[t], i)
<1>1. Stage(t) /\ Gift(t) /\ pc[t] \in Building /\ FacetTypeOK
  BY DEF FacetInv, Building
<1>2. gift[t] = NoFacet
  BY <1>1 DEF Gift
<1>3. CASE src[t] # {}
  <2>1. Combination(t) /\ todo[t] = {}
    BY <1>1, <1>3 DEF Stage, Combination
  <2>2. /\ \A i \in Slots : slot[body[t]][i] = want[t][i]
        /\ slot[body[t]] \in [Slots -> Facets \cup {NoFacet}]
        /\ want[t] \in [Slots -> Facets \cup {NoFacet}]
    BY <1>1, <2>1, BuildingFacts DEF Combination, FacetTypeOK
  <2>3. slot[body[t]] = want[t]
    BY <2>2
  <2> QED
    BY <1>2, <1>3, <2>1, <2>3
<1>4. CASE src[t] = {}
  BY <1>1, <1>2, <1>4 DEF Stage, Naming
<1> QED
  BY <1>3, <1>4

LEMMA PublishTells ==
  ASSUME BodyInv, FacetInv, NEW t \in Threads, pc[t] = "publish",
         name[body[t]] # NoName
  PROVE  Tells(name[body[t]], slot[body[t]])
<1>1. /\ pc[t] \in Building /\ body[t] \in Bodies
      /\ FacetTypeOK /\ NamesTell /\ Statics
  BY BuildingFacts DEF FacetInv, Building
<1>2. CASE src[t] = {}
  <2>1. /\ \A i \in Slots \ StdSlots : slot[body[t]][i] = NoFacet
        /\ \A i \in StdSlots : FacetOfName(body[t], i)
    BY <1>2, Finished
  <2>2. ASSUME NEW i \in StdSlots
        PROVE  /\ slot[body[t]][i] # NoFacet
               /\ floc[slot[body[t]][i]] = LocOf(name[body[t]], i)
    <3>1. CASE name[body[t]][i] = CName \/ i \in Plain
      BY <1>1, <2>1, <3>1, FacetFacts DEF FacetOfName, LocOf, Statics
    <3>2. CASE ~(name[body[t]][i] = CName \/ i \in Plain)
      BY <1>1, <2>1, <3>2, FacetFacts DEF FacetOfName, LocOf
    <3> QED
      BY <3>1, <3>2
  <2> QED
    BY <2>1, <2>2 DEF Tells
<1>3. CASE src[t] # {}
  <2>1. Combination(t) /\ slot[body[t]] = want[t]
    BY <1>3, Finished
  <2>2. PICK g \in src[t], k \in src[t], cat \in SUBSET StdSlots : Categorized(t, g, k, cat)
    BY <2>1 DEF Combination, Facetted
  <2>3. /\ body[g] \in Bodies /\ status[body[g]] = "live"
        /\ body[k] \in Bodies /\ status[body[k]] = "live"
    BY <1>1, <2>1, BuildingFacts DEF Combination
  <2>4. /\ name[body[g]] # NoName /\ name[body[k]] # NoName
        /\ \A i \in StdSlots : name[body[t]][i] =
               IF i \in cat THEN name[body[k]][i] ELSE name[body[g]][i]
    BY <2>2 DEF Categorized, CombinedName
  <2>5. Tells(name[body[g]], slot[body[g]]) /\ Tells(name[body[k]], slot[body[k]])
    BY <1>1, <2>3, <2>4 DEF NamesTell
  <2>6. \A i \in Slots : slot[body[t]][i] =
               IF i \in cat THEN slot[body[k]][i] ELSE slot[body[g]][i]
    BY <2>1, <2>2 DEF Categorized
  <2> QED
    BY <2>2, <2>4, <2>5, <2>6, FacetFacts DEF Tells, LocOf
<1> QED
  BY <1>2, <1>3

LEMMA PublishFacets ==
  ASSUME BodyInv, FacetInv, NEW t \in Threads, Publish(t)
  PROVE  FacetInv'
<1>1. /\ pc[t] = "publish" /\ pc[t] \in Building
      /\ status' = [status EXCEPT ![body[t]] = "live"]
      /\ body' = [body EXCEPT ![tgt[t]] = body[t], ![t] = NoBody]
      /\ want' = [want EXCEPT ![t] = [i \in Slots |-> NoFacet]]
      /\ src' = [src EXCEPT ![t] = {}]
      /\ pc' = [pc EXCEPT ![t] = "idle"]
      /\ UNCHANGED <<ref, name, facetVars, guard, tgt, reg, todo, gift, throws>>
  BY DEF Publish, Store, At, Goto, Building
<1>2. /\ todo[t] = {} /\ gift[t] = NoFacet /\ body[t] \in Bodies
      /\ status[body[t]] = "building" /\ tgt[t] \in Mine[t]
  BY <1>1, Finished, BuildingFacts DEF BodyInv, Place, Aims
<1>3. FacetTypeOK'
  BY <1>1 DEF FacetInv, FacetTypeOK, facetVars
<1>4. FacetSound'
  <2>1. \A b \in Bodies : status'[b] = IF b = body[t] THEN "live" ELSE status[b]
    BY <1>1 DEF BodyInv, BodyTypeOK
  <2>2. name[body[t]] = NoName \/ Tells(name[body[t]], slot[body[t]])
    BY <1>1, PublishTells
  <2> QED
    BY <1>1, <2>1, <2>2, SoundKept
<1>5. Aside(t)
  BY <1>1, <1>2, OwnerFacts DEF Aside, facetVars, FacetInv, Gift, FacetTypeOK, BodyInv,
     BodyTypeOK, Bodied
<1>6. Gift(t)' /\ Stage(t)'
  <2>1. /\ pc'[t] = "idle" /\ src'[t] = {} /\ want'[t] = [i \in Slots |-> NoFacet]
        /\ todo'[t] = {} /\ gift'[t] = NoFacet
    BY <1>1, <1>2 DEF FacetInv, FacetTypeOK, BodyInv, BodyTypeOK
  <2> QED
    BY <2>1 DEF Gift, Stage, Building
<1> QED
  BY <1>3, <1>4, <1>5, <1>6, Assemble
-----------------------------------------------------------------------------
LEMMA InitFacets == Init => FacetInv
<1> SUFFICES ASSUME Init PROVE FacetInv
  OBVIOUS
<1> USE FacetFacts DEF Init
<1>1. FacetTypeOK
  <2>1. slot \in [Bodies -> [Slots -> Facets \cup {NoFacet}]]
    OBVIOUS
  <2>2. name \in [Bodies -> FullNames \cup {NoName}]
    BY LocaleAssumption DEF FullNames, OrdinaryName
  <2>3. floc \in [Facets -> Names \cup {NoName}] /\ throws \in 0 .. MaxThrows
    BY LocaleAssumption
  <2>4. /\ fref \in [Facets -> Nat] /\ falive \in SUBSET Facets /\ extra \in [Facets -> Nat]
        /\ want \in [Threads -> [Slots -> Facets \cup {NoFacet}]]
        /\ todo \in [Threads -> SUBSET Slots]
        /\ src \in [Threads -> SUBSET (Handles \cup {ClassicObj})]
        /\ gift \in [Threads -> Facets \cup {NoFacet}]
    OBVIOUS
  <2> QED
    BY <2>1, <2>2, <2>3, <2>4 DEF FacetTypeOK
<1>2. HeldLive /\ HeapKept /\ FreeBare
  BY OwnerFacts DEF HeldLive, HeapKept, FreeBare, Bare
<1>3. RefsCounted
  <2> SUFFICES ASSUME NEW f \in Facets
               PROVE  fref[f] = extra[f] + Cardinality(Holders(slot, f))
    BY DEF RefsCounted, Enough
  <2>1. CASE f \in Heap
    <3>1. \A b \in Bodies, i \in Slots : slot[b][i] # f
      BY <2>1
    <3> QED
      BY <2>1, <3>1, Unheld
  <2>2. CASE f \notin Heap
    <3>1. PICK k \in StdSlots : f = Ordinary[k]
      BY <2>2 DEF Facets
    <3>2. ASSUME NEW b \in Bodies, NEW i \in Slots
          PROVE  slot[b][i] = f <=> b = Classic /\ i = k
      BY <3>1, LocaleAssumption
    <3>3. Holders(slot, f) = {<<Classic, k>>}
      <4>1. Classic \in Bodies /\ k \in Slots
        BY OwnerFacts
      <4>2. \A b \in Bodies, i \in Slots :
               <<b, i>> \in Holders(slot, f) <=> <<b, i>> \in {<<Classic, k>>}
        <5> TAKE b \in Bodies, i \in Slots
        <5>1. <<b, i>> \in Holders(slot, f) <=> slot[b][i] = f
          BY HolderIs
        <5>2. <<b, i>> = <<Classic, k>> <=> b = Classic /\ i = k
          OBVIOUS
        <5> QED
          BY <3>2, <5>1, <5>2
      <4>3. /\ Holders(slot, f) \subseteq Bodies \X Slots
            /\ {<<Classic, k>>} \subseteq Bodies \X Slots
        BY <4>1, HolderIs
      <4> QED
        BY ONLY <4>2, <4>3, SamePlaces
    <3>4. Cardinality(Holders(slot, f)) = 1
      BY <3>3, FS_Singleton
    <3> QED
      BY <2>2, <3>4
  <2> QED
    BY <2>1, <2>2
<1>4. Statics /\ NamesTell
  BY OwnerFacts, LocaleAssumption DEF Statics, NamesTell, Tells, LocOf, OrdinaryName
<1>5. \A t \in Threads : Gift(t) /\ Stage(t)
  BY DEF Gift, Stage, Building
<1> QED
  BY <1>1, <1>2, <1>3, <1>4, <1>5 DEF FacetInv

LEMMA FacetStep == BodyInv /\ FacetInv /\ [Next]_vars => FacetInv'
<1>1. ASSUME BodyInv, FacetInv, UNCHANGED vars PROVE FacetInv'
  <2> USE DEF vars, bodyVars, facetVars, buildVars
  <2>1. FacetTypeOK'
    BY <1>1 DEF FacetInv, FacetTypeOK
  <2>2. FacetSound'
    BY <1>1, SoundKept
  <2>3. ASSUME NEW t \in Threads PROVE Gift(t)' /\ Stage(t)'
    <3>1. Gift(t) /\ Stage(t)
      BY <1>1 DEF FacetInv
    <3>2. /\ \A g, i, f : Facetted(t, g, i, f)' <=> Facetted(t, g, i, f)
          /\ \A g, k, cat : Categorized(t, g, k, cat)' <=> Categorized(t, g, k, cat)
      BY <1>1 DEF Facetted, Categorized, CombinedName, Sole
    <3>3. Combination(t)' <=> Combination(t)
      BY <1>1, <3>2 DEF Combination
    <3>4. Naming(t)' <=> Naming(t)
      BY <1>1 DEF Naming, FacetOfName, Sole
    <3> QED
      BY <1>1, <3>1, <3>3, <3>4 DEF Gift, Stage
  <2> QED
    BY <2>1, <2>2, <2>3 DEF FacetInv, FacetSound
<1>2. ASSUME BodyInv, FacetInv, NEW t \in Threads, Start(t) PROVE FacetInv'
  <2>1. ASSUME NEW h \in Mine[t], Dtor(t, h) PROVE FacetInv'
    BY <1>2, <2>1, DropFacets DEF Dtor, At
  <2>2. ASSUME NEW h \in Mine[t], NEW b \in Bodies, NEW n \in FullNames, NamedAlloc(t, h, b, n)
        PROVE  FacetInv'
    BY <1>2, <2>2, NamedAllocFacets
  <2>3. ASSUME NEW h \in Mine[t], NEW b \in Bodies, NEW g \in Mine[t] \cup {ClassicObj},
               NEW f \in Facets, NEW i \in Slots, NEW r \in 0 .. 1,
               CombineFacetAlloc(t, h, g, b, f, i, r)
        PROVE  FacetInv'
    BY <1>2, <2>3, CombineFacetFacets
  <2>4. ASSUME NEW h \in Mine[t], NEW b \in Bodies, NEW g \in Mine[t] \cup {ClassicObj},
               NEW k \in Mine[t] \cup {ClassicObj}, NEW cat \in SUBSET StdSlots,
               CombineCatAlloc(t, h, g, k, b, cat)
        PROVE  FacetInv'
    BY <1>2, <2>4, CombineCatFacets
  <2>5. CASE \/ \E h \in Mine[t] : DefaultCtor(t, h)
             \/ \E h \in Mine[t], g \in Mine[t] \cup {ClassicObj} :
                   CopyCtor(t, h, g) \/ AssignCount(t, h, g) \/ SetGlobalCount(t, g, h)
    BY <1>2, <2>5, HandleStep
  <2> QED
    BY <1>2, <2>1, <2>2, <2>3, <2>4, <2>5 DEF Start
<1>3. ASSUME BodyInv, FacetInv, NEW t \in Threads, Continue(t) PROVE FacetInv'
  <2>1. CASE GlobalRead(t) \/ GlobalCount(t) \/ AssignStore(t) \/ SetGlobalSwap(t)
    BY <1>3, <2>1, HandleStep
  <2>2. CASE AssignDrop(t)
    BY <1>3, <2>2, DropFacets DEF AssignDrop, At, BodyInv, Place
  <2>3. CASE ArrayNew(t) \/ Counted(t) \/ NameNew(t) \/ Obtained(t)
    BY <1>3, <2>3, OnwardStep
  <2>4. CASE Publish(t)
    BY <1>3, <2>4, PublishFacets
  <2>5. CASE DeleteBody(t)
    BY <1>3, <2>5, DeleteBodyFacets
  <2>6. CASE UnwindBody(t)
    BY <1>3, <2>6, UnwindBodyFacets
  <2>7. ASSUME NEW i \in Slots, CountSlot(t, i) PROVE FacetInv'
    BY <1>3, <2>7, CountSlotFacets
  <2>8. ASSUME NEW i \in Slots, DeleteSlot(t, i) \/ UnwindSlot(t, i) PROVE FacetInv'
    BY <1>3, <2>8, ReleaseFacets
  <2>9. ASSUME NEW i \in Slots, NEW f \in Heap, ObtainByname(t, i, f) PROVE FacetInv'
    BY <1>3, <2>9, ObtainFacets
  <2>10. ASSUME NEW i \in StdSlots, ObtainOrdinary(t, i) PROVE FacetInv'
    BY <1>3, <2>10, ObtainFacets
  <2> QED
    BY <1>3, <2>1, <2>2, <2>3, <2>4, <2>5, <2>6, <2>7, <2>8, <2>9, <2>10 DEF Continue
<1>4. ASSUME BodyInv, FacetInv, NEW t \in Threads, Fail(t) PROVE FacetInv'
  BY <1>4, ArrayThrowFacets, NameThrowFacets, OnwardStep DEF Fail
<1> QED
  BY <1>1, <1>2, <1>3, <1>4 DEF Next

THEOREM FacetInvAlways == Spec => []FacetInv
<1>1. Init => FacetInv
  BY InitFacets
<1>2. BodyInv /\ FacetInv /\ [Next]_vars => FacetInv'
  BY FacetStep
<1> QED
  BY <1>1, <1>2, BodyInvAlways, PTL DEF Spec

\* Whatever races locale::global() or a combination of the same locales, a
\* facet that a body has, or that a thread has read out of a body and is about
\* to count, has not been deleted (locale_combine.cpp:232).
THEOREM FacetsLiveAlways == Spec => []FacetsLive
<1>1. BodyInv /\ FacetInv => FacetsLive
  <2> SUFFICES ASSUME BodyInv, FacetInv PROVE FacetsLive
    OBVIOUS
  <2>1. ASSUME NEW t \in Threads, NEW i \in todo[t], pc[t] \in {"copied", "count"}
        PROVE  want[t][i] \in falive
    <3>1. Combination(t)
      BY <2>1 DEF FacetInv, Stage, Naming, Building
    <3> QED
      BY <3>1, Wanted
  <2> QED
    BY <2>1 DEF FacetsLive, FacetInv, HeldLive
<1> QED
  BY <1>1, BodyInvAlways, FacetInvAlways, PTL

\* References that no body holds are to facets of the program, which has made
\* them; a dead facet has none.
Programs ==
    /\ \A f \in Heap : extra[f] > 0 => f \in falive /\ floc[f] = NoName
    /\ \A t \in Threads : gift[t] # NoFacet => floc[gift[t]] = NoName

LEMMA ProgramsKept ==
  ASSUME Programs, UNCHANGED <<floc, extra>>, falive \subseteq falive',
         \A t \in Threads : gift'[t] \in {gift[t], NoFacet}
  PROVE  Programs'
BY DEF Programs

\* A facet that dies with its last reference has none of the program's.
LEMMA ReleasePrograms ==
  ASSUME FacetInv, Programs, NEW b \in Bodies, NEW i \in Slots, slot[b][i] # NoFacet,
         Release(b, i), UNCHANGED <<floc, extra, gift>>
  PROVE  Programs'
<1>1. PICK f \in Facets : f = slot[b][i]
  BY DEF FacetInv, FacetTypeOK
<1>2. ASSUME fref[f] = 1 PROVE extra[f] = 0
  <2>1. Cardinality(Holders(slot, f)) # 0
    BY <1>1, Unheld
  <2>2. /\ fref[f] >= extra[f] + Cardinality(Holders(slot, f))
        /\ extra[f] \in Nat /\ Cardinality(Holders(slot, f)) \in Nat
    BY HoldersFinite DEF FacetInv, FacetTypeOK, RefsCounted, Enough
  <2> QED
    BY ONLY <1>2, <2>1, <2>2
<1>3. falive' = IF fref[f] = 1 /\ f \in Heap THEN falive \ {f} ELSE falive
  BY <1>1 DEF Release
<1> QED
  BY <1>2, <1>3 DEF Programs

LEMMA ProgramsStep == BodyInv /\ FacetInv /\ Programs /\ [Next]_vars => Programs'
<1> USE DEF bodyVars, facetVars, buildVars
<1>1. ASSUME Programs, UNCHANGED vars PROVE Programs'
  BY <1>1 DEF vars, Programs
<1>2. ASSUME FacetInv, Programs, NEW t \in Threads, Start(t) PROVE Programs'
  <2>1. ASSUME NEW h \in Mine[t], NEW b \in Bodies, NEW g \in Mine[t] \cup {ClassicObj},
               NEW f \in Facets, NEW i \in Slots, NEW r \in 0 .. 1,
               CombineFacetAlloc(t, h, g, b, f, i, r)
        PROVE  Programs'
    <3>1. CASE /\ f \in Heap \ falive
               /\ falive' = falive \cup {f}
               /\ extra' = [extra EXCEPT ![f] = r]
               /\ floc' = [floc EXCEPT ![f] = NoName]
               /\ gift' = [gift EXCEPT ![t] = f]
      BY <1>2, <3>1 DEF Programs, FacetInv, FacetTypeOK
    <3>2. CASE /\ UNCHANGED <<falive, extra, floc>>
               /\ gift' = [gift EXCEPT ![t] = NoFacet]
      BY <1>2, <3>2, ProgramsKept DEF FacetInv, FacetTypeOK
    <3> QED
      BY <2>1, <3>1, <3>2 DEF CombineFacetAlloc, Copy
  <2>2. ASSUME NEW h \in Mine[t], NEW b \in Bodies, NEW g \in Mine[t] \cup {ClassicObj},
               NEW k \in Mine[t] \cup {ClassicObj}, NEW cat \in SUBSET StdSlots,
               CombineCatAlloc(t, h, g, k, b, cat)
        PROVE  Programs'
    <3>1. UNCHANGED <<falive, extra, floc>> /\ gift' = [gift EXCEPT ![t] = NoFacet]
      BY <2>2 DEF CombineCatAlloc, Copy
    <3> QED
      BY <1>2, <3>1, ProgramsKept DEF FacetInv, FacetTypeOK
  <2>3. CASE \/ \E h \in Mine[t] : DefaultCtor(t, h) \/ Dtor(t, h)
             \/ \E h \in Mine[t], g \in Mine[t] \cup {ClassicObj} :
                   CopyCtor(t, h, g) \/ AssignCount(t, h, g) \/ SetGlobalCount(t, g, h)
             \/ \E h \in Mine[t], b \in Bodies, n \in FullNames : NamedAlloc(t, h, b, n)
    <3>1. UNCHANGED <<falive, extra, floc, gift>>
      BY <2>3 DEF DefaultCtor, Dtor, CopyCtor, AssignCount, SetGlobalCount, NamedAlloc
    <3> QED
      BY <1>2, <3>1, ProgramsKept
  <2> QED
    BY <1>2, <2>1, <2>2, <2>3 DEF Start
<1>3. ASSUME BodyInv, FacetInv, Programs, NEW t \in Threads, Continue(t) PROVE Programs'
  <2>1. CASE \/ GlobalRead(t) \/ GlobalCount(t) \/ AssignDrop(t) \/ AssignStore(t)
             \/ SetGlobalSwap(t) \/ ArrayNew(t) \/ Counted(t) \/ NameNew(t)
             \/ Obtained(t) \/ Publish(t) \/ DeleteBody(t)
             \/ \E i \in StdSlots : ObtainOrdinary(t, i)
    <3>1. UNCHANGED <<falive, extra, floc, gift>>
      BY <2>1 DEF GlobalRead, GlobalCount, AssignDrop, AssignStore, SetGlobalSwap, ArrayNew,
                  Counted, NameNew, Obtained, Publish, DeleteBody, ObtainOrdinary
    <3> QED
      BY <1>3, <3>1, ProgramsKept
  <2>2. CASE UnwindBody(t) \/ \E i \in Slots : CountSlot(t, i)
    <3>1. /\ UNCHANGED <<falive, extra, floc>>
          /\ \A u \in Threads : gift'[u] \in {gift[u], NoFacet}
      BY <1>3, <2>2 DEF UnwindBody, FreeUnbuilt, CountSlot, FacetInv, FacetTypeOK
    <3> QED
      BY <1>3, <3>1, ProgramsKept
  <2>3. ASSUME NEW i \in Slots, DeleteSlot(t, i) \/ UnwindSlot(t, i) PROVE Programs'
    <3>1. PICK b \in Bodies : /\ slot[b][i] # NoFacet /\ Release(b, i)
                              /\ UNCHANGED <<floc, extra, gift>>
      <4>1. CASE DeleteSlot(t, i)
        BY <1>3, <4>1 DEF DeleteSlot, First, Held, At, BodyInv, Place, BodyTypeOK, Bodied
      <4>2. CASE UnwindSlot(t, i)
        <5>1. body[t] \in Bodies
          BY <1>3, <4>2, BuildingFacts DEF UnwindSlot, At, Building
        <5> QED
          BY <4>2, <5>1 DEF UnwindSlot, Last, Held
      <4> QED
        BY <2>3, <4>1, <4>2
    <3> QED
      BY <1>3, <3>1, ReleasePrograms
  <2>4. ASSUME NEW i \in Slots, NEW f \in Heap, ObtainByname(t, i, f) PROVE Programs'
    <3>1. /\ f \notin falive /\ falive' = falive \cup {f}
          /\ floc' = [floc EXCEPT ![f] = name[body[t]][i]] /\ UNCHANGED <<extra, gift>>
      BY <2>4 DEF ObtainByname
    <3>2. \A u \in Threads : gift[u] # NoFacet => gift[u] \in falive /\ gift[u] # f
      BY <1>3, <3>1 DEF FacetInv, Gift
    <3> QED
      BY <1>3, <3>1, <3>2 DEF Programs, FacetInv, FacetTypeOK
  <2> QED
    BY <1>3, <2>1, <2>2, <2>3, <2>4 DEF Continue
<1>4. ASSUME FacetInv, Programs, NEW t \in Threads, Fail(t) PROVE Programs'
  <2>1. CASE ArrayThrow(t)
    <3>1. /\ falive' = falive \ {gift[t]} /\ floc' = floc
          /\ gift' = [gift EXCEPT ![t] = NoFacet]
          /\ extra' = IF gift[t] = NoFacet THEN extra ELSE [extra EXCEPT ![gift[t]] = 0]
      BY <2>1 DEF ArrayThrow, FreeUnbuilt
    <3>2. NoFacet \notin Facets /\ Heap \subseteq Facets
      BY FacetFacts
    <3> QED
      BY <1>4, <3>1, <3>2 DEF Programs, FacetInv, FacetTypeOK
  <2>2. CASE NameThrow(t)
    <3>1. /\ UNCHANGED <<falive, extra, floc>>
          /\ \A u \in Threads : gift'[u] \in {gift[u], NoFacet}
      BY <1>4, <2>2 DEF NameThrow, FreeUnbuilt, FacetInv, FacetTypeOK
    <3> QED
      BY <1>4, <3>1, ProgramsKept
  <2>3. CASE ObtainThrow(t)
    BY <1>4, <2>3, ProgramsKept DEF ObtainThrow
  <2> QED
    BY <1>4, <2>1, <2>2, <2>3 DEF Fail
<1> QED
  BY <1>1, <1>2, <1>3, <1>4 DEF Next

LEMMA ProgramsAlways == Spec => []Programs
<1>1. Init => Programs
  <2> SUFFICES ASSUME Init PROVE Programs
    OBVIOUS
  <2>1. /\ extra = [f \in Facets |-> 0] /\ gift = [t \in Threads |-> NoFacet]
        /\ Heap \subseteq Facets
    BY FacetFacts DEF Init
  <2> QED
    BY <2>1 DEF Programs
<1> QED
  BY <1>1, ProgramsStep, BodyInvAlways, FacetInvAlways, PTL DEF Spec

\* As long as the memory for a combination's name can be had, the count of a
\* facet is the number of places that have it and of references the program
\* was given, and one on the heap dies with its last place unless it is a
\* facet of the program to which the program, or a call that is yet to count
\* it, has a reference; whichever factory throws, or the allocation of the
\* array of the program's facets (locale_body.cpp:359-373).
THEOREM FacetsRightAlways ==
  ASSUME ~LongNames
  PROVE  Spec => []FacetsRight
<1>1. BodyInv /\ FacetInv /\ Programs => FacetsRight
  <2> SUFFICES ASSUME BodyInv, FacetInv, Programs PROVE FacetsRight
    OBVIOUS
  <2>1. TypeOK
    BY DEF TypeOK, BodyInv, BodyTypeOK, Bodied, FacetInv, FacetTypeOK
  <2>2. FacetCountExact
    BY DEF FacetInv, RefsCounted, Enough, FacetCountExact, Holders
  <2>3. FacetsDie
    <3> SUFFICES ASSUME NEW f \in Heap, f \in falive
                 PROVE  \/ \E b \in Bodies, i \in Slots : slot[b][i] = f
                        \/ floc[f] = NoName /\ (extra[f] > 0 \/ \E t \in Threads : gift[t] = f)
      BY DEF FacetsDie
    <3>1. \/ \E b \in Bodies, i \in Slots : slot[b][i] = f
          \/ extra[f] > 0
          \/ \E t \in Threads : gift[t] = f
      BY DEF FacetInv, HeapKept
    <3>2. f # NoFacet
      BY FacetFacts
    <3> QED
      BY <3>1, <3>2 DEF Programs
  <2> QED
    BY <2>1, <2>2, <2>3 DEF FacetsRight
<1> QED
  BY <1>1, BodyInvAlways, FacetInvAlways, ProgramsAlways, PTL

\* The name of a locale tells its facets, category by category, and a locale
\* with a facet of the program's has none.
THEOREM NameTellsAlways == Spec => []NameTells
<1>1. FacetInv => NameTells
  BY DEF FacetInv, NamesTell, Tells, LocOf, NameTells
<1> QED
  BY <1>1, FacetInvAlways, PTL

-----------------------------------------------------------------------------
\* Which body is an object's value: while a thread assigns to it, the body the
\* thread has retained.
BodyOfRight ==
    \A x \in Objects :
        /\ \A t \in Threads : Assigning(t, x) => BodyOf(x) = body[t] /\ x \in Mine[t]
        /\ (\A t \in Threads : ~Assigning(t, x)) => BodyOf(x) = body[x]
        /\ BodyOf(x) \in Bodies \cup {NoBody}
        /\ BodyOf(x) # NoBody => status[BodyOf(x)] = "live"

LEMMA BodyOfIs == BodyInv => BodyOfRight
<1> SUFFICES ASSUME BodyInv, NEW x \in Objects
             PROVE  /\ \A t \in Threads : Assigning(t, x) => BodyOf(x) = body[t] /\ x \in Mine[t]
                    /\ (\A t \in Threads : ~Assigning(t, x)) => BodyOf(x) = body[x]
                    /\ BodyOf(x) \in Bodies \cup {NoBody}
                    /\ BodyOf(x) # NoBody => status[BodyOf(x)] = "live"
  BY DEF BodyOfRight
<1>0. x \in Owners /\ x \notin Threads
  BY OwnerFacts DEF Objects
<1>1. ASSUME NEW t \in Threads, Assigning(t, x)
      PROVE  /\ x \in Mine[t] /\ body[t] \in Bodies /\ status[body[t]] = "live"
  BY <1>1, OwnerFacts DEF Assigning, BodyInv, BodyTypeOK, Bodied, Place, Aims, NoDangling,
     Building
<1>2. ASSUME NEW t \in Threads, Assigning(t, x) PROVE BodyOf(x) = body[t]
  <2>1. \A u \in Threads : Assigning(u, x) => u = t
    BY <1>1, <1>2, OwnerFacts
  <2>2. (CHOOSE u \in Threads : Assigning(u, x)) = t
    BY <1>2, <2>1
  <2> QED
    BY <1>2, <2>2 DEF BodyOf
<1>3. CASE \E t \in Threads : Assigning(t, x)
  BY <1>1, <1>2, <1>3
<1>4. CASE \A t \in Threads : ~Assigning(t, x)
  <2>1. BodyOf(x) = body[x]
    BY <1>4 DEF BodyOf
  <2>2. body[x] \in Bodies \cup {NoBody} /\ (body[x] # NoBody => status[body[x]] = "live")
    BY <1>0 DEF BodyInv, BodyTypeOK, Bodied, NoDangling
  <2> QED
    BY <1>4, <2>1, <2>2
<1> QED
  BY <1>3, <1>4

LEMMA BodyOfNext == BodyInv' => BodyOfRight'
<1>1. BodyInv => BodyOfRight
  BY BodyOfIs
<1> QED
  BY <1>1, PTL

\* Outside an assignment t finds in its handles what they are.
LEMMA OwnBody ==
  ASSUME BodyInv, NEW t \in Threads, pc[t] \notin {"assign_drop", "assign_store", "delete"},
         NEW g \in Mine[t] \cup {ClassicObj, Global}
  PROVE  g \in Objects /\ BodyOf(g) = body[g] /\ \A u \in Threads : ~Assigning(u, g)
<1>1. g \in Objects
  BY OwnerFacts DEF Objects
<1>2. \A u \in Threads : ~Assigning(u, g)
  BY <1>1, OwnerFacts, BodyOfIs DEF BodyOfRight, Assigning
<1> QED
  BY <1>1, <1>2, BodyOfIs DEF BodyOfRight

\* No step changes a body that is somebody's value.
LiveKept == \A b \in Bodies : status[b] = "live" => slot'[b] = slot[b] /\ name'[b] = name[b]

LEMMA LiveStays == BodyInv /\ FacetInv /\ Next => LiveKept
<1> SUFFICES ASSUME BodyInv, FacetInv, NEW t \in Threads, Start(t) \/ Continue(t) \/ Fail(t),
                    NEW b \in Bodies, status[b] = "live"
             PROVE  slot'[b] = slot[b] /\ name'[b] = name[b]
  BY DEF Next, LiveKept
<1>1. /\ slot \in [Bodies -> [Slots -> Facets \cup {NoFacet}]]
      /\ name \in [Bodies -> FullNames \cup {NoName}]
      /\ pc[t] \in Building => body[t] # b
      /\ pc[t] = "delete" => reg[t] # b
  BY BuildingFacts DEF FacetInv, FacetTypeOK, BodyInv, Place
<1> USE <1>1 DEF bodyVars, facetVars, Building, At
<1>2. CASE Start(t)
  <2>1. ASSUME NEW h, DefaultCtor(t, h) \/ Dtor(t, h)
        PROVE  UNCHANGED <<slot, name>>
    BY <2>1 DEF DefaultCtor, Dtor
  <2>2. ASSUME NEW h, NEW g, CopyCtor(t, h, g) \/ AssignCount(t, h, g) \/ SetGlobalCount(t, g, h)
        PROVE  UNCHANGED <<slot, name>>
    BY <2>2 DEF CopyCtor, AssignCount, SetGlobalCount
  <2>3. ASSUME NEW h, NEW c, NEW n, Allocate(t, h, c, n), UNCHANGED slot
        PROVE  slot'[b] = slot[b] /\ name'[b] = name[b]
    BY <2>3 DEF Allocate
  <2>4. ASSUME NEW h, NEW c, NEW n, NamedAlloc(t, h, c, n)
        PROVE  slot'[b] = slot[b] /\ name'[b] = name[b]
    BY <2>3, <2>4 DEF NamedAlloc
  <2>5. ASSUME NEW h, NEW g, NEW c, NEW f, NEW i, NEW r, CombineFacetAlloc(t, h, g, c, f, i, r)
        PROVE  slot'[b] = slot[b] /\ name'[b] = name[b]
    BY <2>3, <2>5 DEF CombineFacetAlloc
  <2>6. ASSUME NEW h, NEW g, NEW k, NEW c, NEW cat, CombineCatAlloc(t, h, g, k, c, cat)
        PROVE  slot'[b] = slot[b] /\ name'[b] = name[b]
    BY <2>3, <2>6 DEF CombineCatAlloc
  <2> QED
    BY <1>2, <2>1, <2>2, <2>4, <2>5, <2>6 DEF Start
<1>3. CASE Fail(t)
  BY <1>3 DEF Fail, ArrayThrow, NameThrow, ObtainThrow, FreeUnbuilt
<1>4. CASE Continue(t)
  <2>1. CASE \/ GlobalRead(t) \/ GlobalCount(t) \/ AssignDrop(t) \/ AssignStore(t)
             \/ SetGlobalSwap(t) \/ ArrayNew(t) \/ Counted(t) \/ NameNew(t)
             \/ Obtained(t) \/ Publish(t) \/ DeleteBody(t) \/ UnwindBody(t)
    BY <2>1 DEF GlobalRead, GlobalCount, AssignDrop, AssignStore, SetGlobalSwap, ArrayNew,
       Counted, NameNew, Obtained, Publish, DeleteBody, UnwindBody, FreeUnbuilt
  <2>2. ASSUME NEW i, NEW f,
               \/ CountSlot(t, i) \/ DeleteSlot(t, i) \/ UnwindSlot(t, i)
               \/ ObtainByname(t, i, f) \/ ObtainOrdinary(t, i)
        PROVE  slot'[b] = slot[b] /\ name'[b] = name[b]
    BY <2>2 DEF CountSlot, DeleteSlot, UnwindSlot, ObtainByname, ObtainOrdinary, Hold, Release
  <2> QED
    BY <1>4, <2>1, <2>2 DEF Continue
<1> QED
  BY <1>2, <1>3, <1>4

\* The step is t's: the others stay where they are, with what they have in flight.
Alone(t) ==
    \A u \in Threads : u # t => pc'[u] = pc[u] /\ tgt'[u] = tgt[u] /\ body'[u] = body[u]

\* The object x keeps its value in a step of t if t neither starts nor ends an
\* assignment to it, and leaves alone what its value is read from.
LEMMA Steady ==
  ASSUME BodyInv, BodyInv', NEW t \in Threads, Alone(t), NEW x \in Objects,
         Assigning(t, x)' <=> Assigning(t, x),
         Assigning(t, x) => body'[t] = body[t],
         ~Assigning(t, x) => body'[x] = body[x]
  PROVE  BodyOf(x)' = BodyOf(x)
<1>1. BodyOfRight /\ BodyOfRight'
  BY BodyOfIs, BodyOfNext
<1>2. \A u \in Threads : Assigning(u, x)' <=> Assigning(u, x)
  BY DEF Alone, Assigning
<1>3. ASSUME NEW u \in Threads, Assigning(u, x) PROVE BodyOf(x)' = BodyOf(x)
  <2>1. body'[u] = body[u] /\ Assigning(u, x)'
    BY <1>2, <1>3 DEF Alone
  <2>2. BodyOf(x) = body[u]
    BY <1>1, <1>3 DEF BodyOfRight
  <2>3. BodyOf(x)' = body'[u]
    BY <1>1, <2>1 DEF BodyOfRight
  <2> QED
    BY <2>1, <2>2, <2>3
<1>4. CASE \A u \in Threads : ~Assigning(u, x)
  <2>1. BodyOf(x) = body[x]
    BY <1>1, <1>4 DEF BodyOfRight
  <2>2. BodyOf(x)' = body'[x]
    BY <1>1, <1>2, <1>4 DEF BodyOfRight
  <2> QED
    BY <1>4, <2>1, <2>2
<1> QED
  BY <1>3, <1>4

\* Two objects with the same body have the same value, in whichever states.
LEMMA SameValue ==
  ASSUME BodyInv, FacetInv, Next, NEW x \in Objects, NEW y \in Objects,
         BodyOf(x)' = BodyOf(y)
  PROVE  ValueOf(x)' = ValueOf(y)
<1>1. BodyOf(y) # NoBody => BodyOf(y) \in Bodies /\ status[BodyOf(y)] = "live"
  BY BodyOfIs DEF BodyOfRight
<1>2. BodyOf(y) # NoBody => slot'[BodyOf(y)] = slot[BodyOf(y)] /\ name'[BodyOf(y)] = name[BodyOf(y)]
  BY <1>1, LiveStays DEF LiveKept
<1> QED
  BY <1>2 DEF ValueOf

LEMMA Stutter ==
  ASSUME BodyInv, FacetInv, Next, \A x \in Objects : BodyOf(x)' = BodyOf(x)
  PROVE  ObjectValues' = ObjectValues
<1>1. \A x \in Objects : ValueOf(x)' = ValueOf(x)
  BY SameValue
<1> QED
  BY <1>1 DEF ObjectValues

LEMMA Update ==
  ASSUME BodyInv, FacetInv, Next, NEW h \in Objects,
         \A x \in Objects : x # h => BodyOf(x)' = BodyOf(x)
  PROVE  ObjectValues' = [ObjectValues EXCEPT ![h] = ValueOf(h)']
<1>1. \A x \in Objects : x # h => ValueOf(x)' = ValueOf(x)
  BY SameValue
<1> QED
  BY <1>1 DEF ObjectValues

\* An object is constructed exactly when it has a body.
LEMMA ValueIs ==
  ASSUME BodyInv, FacetInv, NEW x \in Objects
  PROVE  /\ Values!Constructed(x) <=> BodyOf(x) # NoBody
         /\ ObjectValues[x] = ValueOf(x)
         /\ BodyOf(x) # NoBody =>
               ValueOf(x) = [name |-> name[BodyOf(x)], facets |-> slot[BodyOf(x)]]
<1>1. BodyOf(x) # NoBody => ValueOf(x) \in [name : [StdSlots -> Names] \cup {NoName},
                                            facets : [Slots -> Facets \cup {NoFacet}]]
  <2>1. BodyOf(x) \in Bodies \cup {NoBody}
    BY BodyOfIs DEF BodyOfRight
  <2> QED
    BY <2>1 DEF ValueOf, FacetInv, FacetTypeOK, FullNames
<1>2. BodyOf(x) # NoBody => ValueOf(x) # NoBody
  BY <1>1, LocaleAssumption
<1>3. ObjectValues[x] = ValueOf(x)
  BY DEF ObjectValues
<1> QED
  BY <1>2, <1>3 DEF Values!Constructed, ValueOf

Assigns == {"assign_drop", "assign_store", "delete"}

\* What a step of t may do and change no object's value.
Idles(t) ==
    /\ Alone(t)
    /\ \/ /\ pc[t] \notin Assigns /\ pc'[t] \notin Assigns
          /\ \A x \in Objects : body'[x] = body[x]
       \/ /\ UNCHANGED <<body, tgt>>
          /\ pc'[t] \in Assigns \/ body[t] = NoBody
          /\ pc[t] \in Assigns

LEMMA IdlesStep ==
  ASSUME BodyInv, BodyInv', FacetInv, Next, NEW t \in Threads, Idles(t)
  PROVE  ObjectValues' = ObjectValues
<1>1. ASSUME NEW x \in Objects PROVE BodyOf(x)' = BodyOf(x)
  <2>1. /\ Assigning(t, x)' <=> Assigning(t, x)
        /\ Assigning(t, x) => body'[t] = body[t]
        /\ ~Assigning(t, x) => body'[x] = body[x]
    BY DEF Idles, Assigning, Assigns
  <2> QED
    BY <2>1, Steady DEF Idles
<1> QED
  BY <1>1, Stutter

\* An object of t that has no body yet, or any while t is not assigning, but
\* for those in S.
LEMMA Others ==
  ASSUME BodyInv, BodyInv', NEW t \in Threads, Alone(t), pc[t] \notin Assigns,
         NEW x \in Objects, body'[x] = body[x],
         pc'[t] \in Assigns => tgt'[t] # x \/ body'[t] = NoBody
  PROVE  BodyOf(x)' = BodyOf(x)
<1>1. ~Assigning(t, x) /\ ~Assigning(t, x)'
  BY DEF Assigning, Assigns
<1> QED
  BY <1>1, Steady

LEMMA HandleIdles ==
  ASSUME BodyInv, NEW t \in Threads,
         \/ \E h \in Mine[t] : DefaultCtor(t, h)
         \/ \E h \in Mine[t], g \in Mine[t] \cup {ClassicObj} : SetGlobalCount(t, g, h)
         \/ GlobalRead(t)
  PROVE  Idles(t)
<1> USE OwnerFacts DEF BodyInv, BodyTypeOK, Bodied, Idles, Alone, Assigns, At, Goto, Objects
<1>1. ASSUME NEW h \in Mine[t], DefaultCtor(t, h) PROVE Idles(t)
  BY <1>1 DEF DefaultCtor
<1>2. ASSUME NEW h \in Mine[t], NEW g \in Mine[t] \cup {ClassicObj}, SetGlobalCount(t, g, h)
      PROVE  Idles(t)
  BY <1>2 DEF SetGlobalCount, Retain
<1>3. CASE GlobalRead(t)
  BY <1>3 DEF GlobalRead
<1> QED
  BY <1>1, <1>2, <1>3

LEMMA BuildIdles ==
  ASSUME BodyInv, NEW t \in Threads,
         \/ \E h \in Mine[t], b \in Bodies, n \in FullNames : NamedAlloc(t, h, b, n)
         \/ \E h \in Mine[t], b \in Bodies, g \in Mine[t] \cup {ClassicObj},
               f \in Facets, i \in Slots, r \in 0 .. 1 : CombineFacetAlloc(t, h, g, b, f, i, r)
         \/ \E h \in Mine[t], b \in Bodies, g, k \in Mine[t] \cup {ClassicObj},
               cat \in SUBSET StdSlots : CombineCatAlloc(t, h, g, k, b, cat)
         \/ ArrayNew(t) \/ Counted(t) \/ NameNew(t) \/ Obtained(t)
         \/ \E i \in Slots : CountSlot(t, i) \/ UnwindSlot(t, i)
                             \/ \E f \in Heap : ObtainByname(t, i, f)
         \/ \E i \in StdSlots : ObtainOrdinary(t, i)
         \/ UnwindBody(t) \/ Fail(t)
  PROVE  Idles(t)
<1> USE OwnerFacts DEF BodyInv, BodyTypeOK, Bodied, Idles, Alone, Assigns, At, Goto, Objects
<1>1. ASSUME NEW h, NEW b, NEW n, Allocate(t, h, b, n), pc'[t] \notin Assigns,
             \A u \in Threads : u # t => pc'[u] = pc[u]
      PROVE  Idles(t)
  BY <1>1 DEF Allocate
<1>2. ASSUME NEW h, NEW b, NEW n, NamedAlloc(t, h, b, n) PROVE Idles(t)
  BY <1>1, <1>2 DEF NamedAlloc
<1>3. ASSUME NEW h, NEW b, NEW g, NEW f, NEW i, NEW r, CombineFacetAlloc(t, h, g, b, f, i, r)
      PROVE  Idles(t)
  BY <1>1, <1>3 DEF CombineFacetAlloc
<1>4. ASSUME NEW h, NEW b, NEW g, NEW k, NEW cat, CombineCatAlloc(t, h, g, k, b, cat)
      PROVE  Idles(t)
  BY <1>1, <1>4 DEF CombineCatAlloc
<1>5. CASE ArrayNew(t) \/ Counted(t) \/ NameNew(t) \/ Obtained(t) \/ ObtainThrow(t)
  BY <1>5 DEF ArrayNew, Counted, NameNew, Obtained, ObtainThrow
<1>6. ASSUME NEW i, CountSlot(t, i) \/ UnwindSlot(t, i) \/ ObtainOrdinary(t, i)
      PROVE  Idles(t)
  BY <1>6 DEF CountSlot, UnwindSlot, ObtainOrdinary
<1>7. ASSUME NEW i, NEW f, ObtainByname(t, i, f) PROVE Idles(t)
  BY <1>7 DEF ObtainByname
<1>8. CASE ArrayThrow(t) \/ NameThrow(t) \/ UnwindBody(t)
  BY <1>8 DEF ArrayThrow, NameThrow, UnwindBody, FreeUnbuilt
<1> QED
  BY <1>2, <1>3, <1>4, <1>5, <1>6, <1>7, <1>8 DEF Fail

LEMMA DeleteIdles ==
  ASSUME BodyInv, NEW t \in Threads, DeleteBody(t) \/ \E i \in Slots : DeleteSlot(t, i)
  PROVE  Idles(t)
<1> USE DEF BodyInv, BodyTypeOK, Idles, Alone, Assigns, At, Goto
<1>1. CASE DeleteBody(t)
  BY <1>1 DEF DeleteBody
<1>2. ASSUME NEW i, DeleteSlot(t, i) PROVE Idles(t)
  BY <1>2 DEF DeleteSlot
<1> QED
  BY <1>1, <1>2

LEMMA AssignEnds ==
  ASSUME BodyInv, BodyInv', FacetInv, Next, NEW t \in Threads, AssignDrop(t) \/ AssignStore(t)
  PROVE  ObjectValues' = ObjectValues
<1> USE OwnerFacts DEF BodyInv, BodyTypeOK, Bodied, At, Goto
<1>0. BodyOfRight /\ BodyOfRight'
  BY BodyOfIs, BodyOfNext
<1>1. CASE AssignDrop(t)
  <2>1. /\ Alone(t) /\ tgt' = tgt /\ pc[t] = "assign_drop" /\ pc'[t] \in Assigns
        /\ body[t] # NoBody /\ body'[t] = body[t]
        /\ \A x \in Objects : x # tgt[t] => body'[x] = body[x]
    BY <1>1 DEF AssignDrop, Drop, Alone, Assigns, Place, Objects
  <2>2. ASSUME NEW x \in Objects PROVE BodyOf(x)' = BodyOf(x)
    <3>1. /\ Assigning(t, x)' <=> Assigning(t, x)
          /\ Assigning(t, x) => body'[t] = body[t]
          /\ ~Assigning(t, x) => body'[x] = body[x]
      BY <2>1 DEF Assigning, Assigns
    <3> QED
      BY <2>1, <3>1, Steady
  <2> QED
    BY <2>2, Stutter
<1>2. CASE AssignStore(t)
  <2>1. /\ Alone(t) /\ tgt' = tgt /\ pc[t] = "assign_store" /\ pc'[t] = "idle"
        /\ body[t] # NoBody /\ tgt[t] \in Mine[t] /\ body'[tgt[t]] = body[t]
        /\ \A x \in Objects : x # tgt[t] => body'[x] = body[x]
    BY <1>2 DEF AssignStore, Store, Alone, Place, Aims, Objects
  <2>2. ASSUME NEW x \in Objects, x # tgt[t] PROVE BodyOf(x)' = BodyOf(x)
    <3>1. ~Assigning(t, x) /\ ~Assigning(t, x)'
      BY <2>1, <2>2 DEF Assigning
    <3> QED
      BY <2>1, <2>2, <3>1, Steady
  <2>3. ASSUME NEW h \in Objects, h = tgt[t] PROVE BodyOf(h)' = BodyOf(h)
    <3>1. Assigning(t, h) /\ BodyOf(h) = body[t]
      BY <1>0, <2>1, <2>3 DEF Assigning, BodyOfRight
    <3>2. \A u \in Threads : ~Assigning(u, h)'
      BY <1>0, <2>1, <2>3 DEF BodyOfRight, Assigning, Alone
    <3>3. BodyOf(h)' = body'[h]
      BY <1>0, <3>2 DEF BodyOfRight
    <3> QED
      BY <2>1, <2>3, <3>1, <3>3
  <2> QED
    BY <2>2, <2>3, Stutter
<1> QED
  BY <1>1, <1>2

\* Where one object of t takes the body of another, it takes its value.
LEMMA Copies ==
  ASSUME BodyInv, FacetInv, Next, NEW h \in Objects, NEW g \in Objects, h # Global,
         BodyOf(g) # NoBody, BodyOf(h)' = BodyOf(g),
         \A x \in Objects : x # h => BodyOf(x)' = BodyOf(x)
  PROVE  Values!Copy(h, g)
<1>1. ObjectValues' = [ObjectValues EXCEPT ![h] = ValueOf(h)']
  BY Update
<1>2. ValueOf(h)' = ObjectValues[g] /\ Values!Constructed(g)
  BY SameValue, ValueIs
<1> QED
  BY <1>1, <1>2 DEF Values!Copy

LEMMA GlobalCountCopies ==
  ASSUME BodyInv, BodyInv', FacetInv, Next, NEW t \in Threads, GlobalCount(t)
  PROVE  \E x, y \in Objects : Values!Copy(x, y)
<1> USE OwnerFacts DEF BodyInv, BodyTypeOK, Bodied
<1>0. BodyOfRight /\ BodyOfRight'
  BY BodyOfIs, BodyOfNext
<1>1. PICK h \in Mine[t] : h = tgt[t]
  BY DEF GlobalCount, At, Place, Aims
<1>2. /\ h \in Objects /\ h # Global /\ Global \in Objects
      /\ body[Global] # NoBody /\ reg[t] = body[Global]
  BY DEF Objects, Rooted, GlobalCount, At, Place
<1>3. /\ Alone(t) /\ pc[t] \notin Assigns /\ pc'[t] \notin Assigns
      /\ body'[h] = body[Global]
      /\ \A x \in Objects : x # h => body'[x] = body[x]
  BY <1>1, <1>2 DEF GlobalCount, Retain, Alone, Assigns, At, Goto, Objects
<1>4. BodyOf(Global) = body[Global] /\ BodyOf(Global) # NoBody
  BY <1>0, <1>2 DEF BodyOfRight
<1>5. BodyOf(h)' = body'[h]
  <2>1. \A u \in Threads : ~Assigning(u, h)'
    BY <1>0, <1>2, <1>3 DEF BodyOfRight, Assigning, Assigns, Alone, GlobalCount
  <2> QED
    BY <1>0, <1>2, <2>1 DEF BodyOfRight
<1>6. \A x \in Objects : x # h => BodyOf(x)' = BodyOf(x)
  BY <1>3, Others
<1> QED
  BY <1>2, <1>3, <1>4, <1>5, <1>6, Copies

LEMMA CopyCtorCopies ==
  ASSUME BodyInv, BodyInv', FacetInv, Next, NEW t \in Threads, NEW h \in Mine[t],
         NEW g \in Mine[t] \cup {ClassicObj}, CopyCtor(t, h, g) \/ AssignCount(t, h, g)
  PROVE  \E x, y \in Objects : Values!Copy(x, y)
<1> USE OwnerFacts DEF BodyInv, BodyTypeOK, Bodied
<1>0. BodyOfRight /\ BodyOfRight'
  BY BodyOfIs, BodyOfNext
<1>1. /\ pc[t] = "idle" /\ h \in Objects /\ h # Global /\ body[g] # NoBody
      /\ body[g] \in Bodies
  BY DEF CopyCtor, AssignCount, Readable, At, Objects
<1>2. g \in Objects /\ BodyOf(g) = body[g]
  BY <1>1, OwnBody
<1>3. CASE CopyCtor(t, h, g)
  <2>1. /\ Alone(t) /\ pc[t] \notin Assigns /\ pc'[t] \notin Assigns
        /\ body'[h] = body[g]
        /\ \A x \in Objects : x # h => body'[x] = body[x]
    BY <1>1, <1>3 DEF CopyCtor, Retain, Alone, Assigns, Objects
  <2>2. BodyOf(h)' = body'[h]
    <3>1. \A u \in Threads : ~Assigning(u, h)'
      BY <1>0, <1>1, <2>1 DEF BodyOfRight, Assigning, Assigns, Alone
    <3> QED
      BY <1>0, <1>1, <3>1 DEF BodyOfRight
  <2>3. \A x \in Objects : x # h => BodyOf(x)' = BodyOf(x)
    BY <2>1, Others
  <2> QED
    BY <1>1, <1>2, <2>1, <2>2, <2>3, Copies
<1>4. CASE AssignCount(t, h, g)
  <2>1. /\ Alone(t) /\ pc[t] \notin Assigns /\ pc'[t] = "assign_drop"
        /\ tgt'[t] = h /\ body'[t] = body[g]
        /\ \A x \in Objects : body'[x] = body[x]
    BY <1>1, <1>4 DEF AssignCount, Retain, Alone, Assigns, Goto, At, Objects
  <2>2. BodyOf(h)' = body'[t]
    <3>1. Assigning(t, h)'
      BY <1>1, <2>1 DEF Assigning
    <3> QED
      BY <1>0, <1>1, <3>1 DEF BodyOfRight
  <2>3. \A x \in Objects : x # h => BodyOf(x)' = BodyOf(x)
    BY <2>1, Others
  <2> QED
    BY <1>1, <1>2, <2>1, <2>2, <2>3, Copies
<1> QED
  BY <1>3, <1>4

LEMMA DtorDestroys ==
  ASSUME BodyInv, BodyInv', FacetInv, Next, NEW t \in Threads, NEW h \in Mine[t], Dtor(t, h)
  PROVE  \E x \in Objects : Values!Destroy(x)
<1> USE OwnerFacts DEF BodyInv, BodyTypeOK, Bodied
<1>0. BodyOfRight /\ BodyOfRight'
  BY BodyOfIs, BodyOfNext
<1>1. /\ pc[t] = "idle" /\ body[t] = NoBody /\ body[h] # NoBody
      /\ h \in Objects /\ h \notin {Global, ClassicObj}
  BY DEF Dtor, Place, At, Objects
<1>2. BodyOf(h) = body[h]
  BY <1>1, OwnBody
<1>3. /\ Alone(t) /\ pc[t] \notin Assigns /\ body'[t] = NoBody /\ body'[h] = NoBody
      /\ \A x \in Objects : x # h => body'[x] = body[x]
  BY <1>1 DEF Dtor, Drop, Alone, Goto, Objects, Assigns
<1>4. BodyOf(h)' = NoBody
  <2>1. \A u \in Threads : ~Assigning(u, h)'
    BY <1>0, <1>1, <1>3 DEF BodyOfRight, Assigning, Alone
  <2> QED
    BY <1>0, <1>1, <1>3, <2>1 DEF BodyOfRight
<1>5. \A x \in Objects : x # h => BodyOf(x)' = BodyOf(x)
  BY <1>3, Others
<1>6. ObjectValues' = [ObjectValues EXCEPT ![h] = NoBody]
  <2>1. ObjectValues' = [ObjectValues EXCEPT ![h] = ValueOf(h)']
    BY <1>1, <1>5, Update
  <2>2. ValueOf(h)' = NoBody
    BY <1>4 DEF ValueOf
  <2> QED
    BY <2>1, <2>2
<1>7. Values!Constructed(h)
  BY <1>1, <1>2, ValueIs
<1> QED
  BY <1>1, <1>6, <1>7 DEF Values!Destroy

LEMMA SwapExchanges ==
  ASSUME BodyInv, BodyInv', FacetInv, Next, NEW t \in Threads, SetGlobalSwap(t)
  PROVE  \E x, y \in Objects : Values!Exchange(x, y)
<1> USE OwnerFacts DEF BodyInv, BodyTypeOK, Bodied
<1>0. BodyOfRight /\ BodyOfRight'
  BY BodyOfIs, BodyOfNext
<1>1. /\ pc[t] = "set_global" /\ body[t] # NoBody /\ tgt[t] \in Mine[t]
      /\ body[tgt[t]] = NoBody /\ body[Global] # NoBody /\ Stage(t)
  BY DEF SetGlobalSwap, At, Place, Aims, Rooted, FacetInv
<1>2. PICK h \in Mine[t] : h = tgt[t]
  BY <1>1
<1>3. PICK g \in Mine[t] \cup {ClassicObj} : body[g] = body[t]
  BY <1>1 DEF Stage
<1>4. /\ h \in Objects /\ g \in Objects /\ Global \in Objects /\ h # Global
      /\ BodyOf(h) = NoBody /\ BodyOf(g) = body[t] /\ BodyOf(Global) = body[Global]
  BY <1>1, <1>2, <1>3, OwnBody DEF Objects
<1>5. /\ Alone(t) /\ pc[t] \notin Assigns /\ pc'[t] \notin Assigns
      /\ body'[h] = body[Global] /\ body'[Global] = body[t]
      /\ \A x \in Objects : x # h /\ x # Global => body'[x] = body[x]
  BY <1>1, <1>2, <1>4 DEF SetGlobalSwap, Alone, Assigns, Goto, Objects
<1>6. /\ BodyOf(h)' = BodyOf(Global) /\ BodyOf(Global)' = BodyOf(g)
      /\ \A x \in Objects : x # h /\ x # Global => BodyOf(x)' = BodyOf(x)
  <2>1. \A u \in Threads : ~Assigning(u, h)' /\ ~Assigning(u, Global)'
    BY <1>0, <1>2, <1>4, <1>5 DEF BodyOfRight, Assigning, Assigns, Alone
  <2>2. BodyOf(h)' = body'[h] /\ BodyOf(Global)' = body'[Global]
    BY <1>0, <1>4, <2>1 DEF BodyOfRight
  <2>3. \A x \in Objects : x # h /\ x # Global => BodyOf(x)' = BodyOf(x)
    BY <1>5, Others
  <2> QED
    BY <1>4, <1>5, <2>2, <2>3
<1>7. /\ ValueOf(h)' = ValueOf(Global) /\ ValueOf(Global)' = ValueOf(g)
      /\ \A x \in Objects : x # h /\ x # Global => ValueOf(x)' = ValueOf(x)
  BY <1>4, <1>6, SameValue
<1>8. ObjectValues' = [ObjectValues EXCEPT ![Global] = ObjectValues[g],
                                           ![h] = ObjectValues[Global]]
  BY <1>4, <1>7 DEF ObjectValues
<1>9. ~Values!Constructed(h) /\ Values!Constructed(g)
  BY <1>1, <1>4, ValueIs
<1> QED
  BY <1>4, <1>8, <1>9 DEF Values!Exchange

\* A facet that only the body under construction has is none of a value's.
LEMMA SoleUnused ==
  ASSUME BodyInv, FacetInv, NEW t \in Threads, pc[t] \in Building,
         NEW f \in Heap, Sole(body[t], f)
  PROVE  Values!Unused(f)
<1>1. ASSUME NEW x \in Objects, Values!Constructed(x), NEW i \in Slots
      PROVE  ObjectValues[x].facets[i] # f
  <2>1. BodyOf(x) \in Bodies /\ status[BodyOf(x)] = "live"
    BY <1>1, ValueIs, BodyOfIs DEF BodyOfRight
  <2>2. BodyOf(x) # body[t]
    BY <2>1, BuildingFacts
  <2>3. slot[BodyOf(x)][i] # f
    BY <2>1, <2>2 DEF Sole
  <2> QED
    BY <1>1, <2>3, ValueIs
<1> QED
  BY <1>1 DEF Values!Unused, Values!Slots, Slots

\* What the constructor returns is the value its arguments asked for, of the
\* values they have as it returns.
LEMMA PublishMakes ==
  ASSUME BodyInv, BodyInv', FacetInv, Next, NEW t \in Threads, Publish(t)
  PROVE  Values!Next
<1> USE OwnerFacts DEF BodyInv, BodyTypeOK, Bodied
<1>0. BodyOfRight /\ BodyOfRight'
  BY BodyOfIs, BodyOfNext
<1>1. /\ pc[t] = "publish" /\ pc[t] \in Building /\ tgt[t] \in Mine[t]
      /\ body[tgt[t]] = NoBody
  BY DEF Publish, At, Place, Aims, Building
<1>2. PICK h \in Mine[t] : h = tgt[t]
  BY <1>1
<1>3. PICK b \in Bodies : b = body[t]
  BY <1>1, BuildingFacts
<1>4. h \in Objects /\ BodyOf(h) = NoBody /\ ~Values!Constructed(h)
  BY <1>1, <1>2, OwnBody, ValueIs DEF Objects, Building
<1>5. /\ Alone(t) /\ pc[t] \notin Assigns /\ pc'[t] \notin Assigns
      /\ body'[h] = b /\ slot' = slot /\ name' = name
      /\ \A x \in Objects : x # h => body'[x] = body[x]
  BY <1>1, <1>2, <1>3 DEF Publish, Store, Alone, Assigns, Goto, Objects, facetVars
<1>6. BodyOf(h)' = b
  <2>1. \A u \in Threads : ~Assigning(u, h)'
    BY <1>0, <1>2, <1>4, <1>5 DEF BodyOfRight, Assigning, Assigns, Alone
  <2> QED
    BY <1>0, <1>4, <1>5, <2>1 DEF BodyOfRight
<1>7. \A x \in Objects : x # h => BodyOf(x)' = BodyOf(x)
  BY <1>5, Others
<1>8. ObjectValues' = [ObjectValues EXCEPT ![h] = [name |-> name[b], facets |-> slot[b]]]
  <2>1. ObjectValues' = [ObjectValues EXCEPT ![h] = ValueOf(h)']
    BY <1>4, <1>7, Update
  <2>2. ValueOf(h)' = [name |-> name[b], facets |-> slot[b]]
    BY <1>5, <1>6 DEF ValueOf
  <2> QED
    BY <2>1, <2>2
<1>9. /\ slot[b] \in [Slots -> Facets \cup {NoFacet}] /\ name[b] \in FullNames \cup {NoName}
      /\ \A f \in Heap : Sole(b, f) => Values!Unused(f)
  BY <1>1, <1>3, SoleUnused DEF FacetInv, FacetTypeOK
<1>10. ASSUME NEW g \in src[t], Combination(t)
       PROVE  /\ g \in Objects /\ Values!Constructed(g)
              /\ ObjectValues[g].name = name[body[g]]
              /\ ObjectValues[g].facets = slot[body[g]]
  <2>1. g \in Mine[t] \cup {ClassicObj} /\ body[g] # NoBody
    BY <1>10 DEF Combination
  <2>2. g \in Objects /\ BodyOf(g) = body[g]
    BY <1>1, <2>1, OwnBody
  <2> QED
    BY <2>1, <2>2, ValueIs
<1>11. CASE src[t] = {}
  <2>1. /\ name[b] \in FullNames
        /\ \A i \in Slots \ StdSlots : slot[b][i] = NoFacet
        /\ \A i \in StdSlots : FacetOfName(b, i)
    BY <1>1, <1>3, <1>11, Finished DEF Naming
  <2>2. PICK fs : fs = [i \in StdSlots |-> slot[b][i]]
    OBVIOUS
  <2>3. \A i \in StdSlots : IF name[b][i] = CName \/ i \in Plain
                            THEN fs[i] = Ordinary[i]
                            ELSE fs[i] \in Heap /\ Values!Unused(fs[i])
    BY <1>9, <2>1, <2>2 DEF FacetOfName
  <2>4. fs \in [StdSlots -> Heap \cup {Ordinary[i] : i \in StdSlots}]
    BY <2>2, <2>3
  <2>5. slot[b] = [i \in Slots |-> IF i \in StdSlots THEN fs[i] ELSE NoFacet]
    BY <1>9, <2>1, <2>2
  <2>6. Values!FromName(h, name[b])
    BY <1>4, <1>8, <2>3, <2>4, <2>5
       DEF Values!FromName, Values!Value, Values!StdSlots, Values!Slots, StdSlots, Slots
  <2> QED
    BY <1>4, <2>1, <2>6 DEF Values!Next, FullNames, Values!StdSlots, StdSlots
<1>12. CASE src[t] # {}
  <2>1. Combination(t) /\ slot[b] = want[t]
    BY <1>1, <1>3, <1>12, Finished
  <2>2. gift[t] = NoFacet
    BY <1>1, Finished
  <2>3. ASSUME NEW g \in src[t], NEW i \in Slots, NEW f \in Facets, Facetted(t, g, i, f)
        PROVE  Values!Next
    <3>1. slot[b] = [slot[body[g]] EXCEPT ![i] = f] /\ name[b] = NoName
      BY <1>3, <2>1, <2>3 DEF Facetted
    <3>2. Values!Unused(f) \/ \E z \in Objects : /\ Values!Constructed(z)
                                                 /\ ObjectValues[z].facets[i] = f
      BY <1>3, <1>9, <1>10, <2>1, <2>2, <2>3, FacetFacts DEF Facetted
    <3>3. Values!WithFacet(h, g, i, f)
      BY <1>4, <1>8, <1>10, <2>1, <3>1, <3>2 DEF Values!WithFacet, Values!Value
    <3> QED
      BY <1>4, <1>10, <2>1, <3>3 DEF Values!Next, Values!Slots, Slots, Facets,
         Values!StdSlots, StdSlots
  <2>4. ASSUME NEW g \in src[t], NEW k \in src[t], NEW cat \in SUBSET StdSlots,
               Categorized(t, g, k, cat)
        PROVE  Values!Next
    <3>1. /\ slot[b] = [i \in Slots |-> IF i \in cat THEN slot[body[k]][i]
                                        ELSE slot[body[g]][i]]
          /\ name[b] = CombinedName(body[g], body[k], cat)
      BY <1>3, <2>1, <2>4 DEF Categorized
    <3>2. name[b] = IF NoName \in {name[body[g]], name[body[k]]} THEN NoName
                    ELSE [i \in StdSlots |-> IF i \in cat THEN name[body[k]][i]
                                             ELSE name[body[g]][i]]
      BY <3>1 DEF CombinedName
    <3>3. /\ Values!Constructed(g) /\ Values!Constructed(k)
          /\ ObjectValues[g].name = name[body[g]] /\ ObjectValues[g].facets = slot[body[g]]
          /\ ObjectValues[k].name = name[body[k]] /\ ObjectValues[k].facets = slot[body[k]]
      BY <1>10, <2>1
    <3>4. Values!WithCategories(h, g, k, cat)
      BY ONLY <1>4, <1>8, <3>1, <3>2, <3>3
         DEF Values!WithCategories, Values!Value, Values!StdSlots, Values!Slots, StdSlots, Slots
    <3> QED
      BY <1>4, <1>10, <2>1, <3>4 DEF Values!Next, Values!StdSlots, StdSlots
  <2> QED
    BY <2>1, <2>3, <2>4 DEF Combination
<1> QED
  BY <1>11, <1>12

LEMMA InitValues == Init => Values!Init
<1> SUFFICES ASSUME Init PROVE Values!Init
  OBVIOUS
<1> USE OwnerFacts
<1>1. \A t \in Threads, x \in Objects : ~Assigning(t, x)
  BY DEF Init, Assigning
<1>2. ASSUME NEW x \in Objects PROVE BodyOf(x) = body[x]
  BY <1>1 DEF BodyOf
<1>3. ASSUME NEW x \in Objects
      PROVE  ValueOf(x) = IF x \in {ClassicObj, Global} THEN Values!ClassicValue ELSE NoBody
  <2>1. x \in Owners /\ x # Self
    BY DEF Objects
  <2>2. CASE x \in {ClassicObj, Global}
    <3>1. BodyOf(x) = Classic
      BY <1>2, <2>1, <2>2 DEF Init
    <3> QED
      BY <2>2, <3>1 DEF ValueOf, Init, Values!ClassicValue, Values!Value, OrdinaryName,
         Values!StdSlots, Values!Slots, StdSlots, Slots
  <2>3. CASE x \notin {ClassicObj, Global}
    <3>1. BodyOf(x) = NoBody
      BY <1>2, <2>1, <2>3 DEF Init
    <3> QED
      BY <2>3, <3>1 DEF ValueOf
  <2> QED
    BY <2>2, <2>3
<1> QED
  BY <1>3 DEF Values!Init, ObjectValues

LEMMA ValuesStep == BodyInv /\ BodyInv' /\ FacetInv /\ [Next]_vars => [Values!Next]_ObjectValues
<1> SUFFICES ASSUME BodyInv, BodyInv', FacetInv, [Next]_vars
             PROVE  Values!Next \/ ObjectValues' = ObjectValues
  OBVIOUS
<1>1. CASE UNCHANGED vars
  BY <1>1 DEF vars, bodyVars, facetVars, ObjectValues, ValueOf, BodyOf, Assigning
<1>2. ASSUME NEW t \in Threads, Next, Start(t) \/ Continue(t) \/ Fail(t)
      PROVE  Values!Next \/ ObjectValues' = ObjectValues
  <2>1. CASE Start(t)
    <3>1. ASSUME NEW h \in Mine[t], DefaultCtor(t, h) \/ Dtor(t, h)
          PROVE  Values!Next \/ ObjectValues' = ObjectValues
      BY <1>2, <3>1, HandleIdles, IdlesStep, DtorDestroys DEF Values!Next
    <3>2. ASSUME NEW h \in Mine[t], NEW g \in Mine[t] \cup {ClassicObj},
                 CopyCtor(t, h, g) \/ AssignCount(t, h, g) \/ SetGlobalCount(t, g, h)
          PROVE  Values!Next \/ ObjectValues' = ObjectValues
      BY <1>2, <3>2, HandleIdles, IdlesStep, CopyCtorCopies DEF Values!Next
    <3>3. ASSUME NEW h \in Mine[t], NEW b \in Bodies, NEW n \in FullNames, NamedAlloc(t, h, b, n)
          PROVE  ObjectValues' = ObjectValues
      BY <1>2, <3>3, BuildIdles, IdlesStep
    <3>4. ASSUME NEW h \in Mine[t], NEW b \in Bodies, NEW g \in Mine[t] \cup {ClassicObj},
                 NEW f \in Facets, NEW i \in Slots, NEW r \in 0 .. 1,
                 CombineFacetAlloc(t, h, g, b, f, i, r)
          PROVE  ObjectValues' = ObjectValues
      BY <1>2, <3>4, BuildIdles, IdlesStep
    <3>5. ASSUME NEW h \in Mine[t], NEW b \in Bodies, NEW g \in Mine[t] \cup {ClassicObj},
                 NEW k \in Mine[t] \cup {ClassicObj}, NEW cat \in SUBSET StdSlots,
                 CombineCatAlloc(t, h, g, k, b, cat)
          PROVE  ObjectValues' = ObjectValues
      BY <1>2, <3>5, BuildIdles, IdlesStep
    <3> QED
      BY <2>1, <3>1, <3>2, <3>3, <3>4, <3>5 DEF Start
  <2>2. CASE Fail(t)
    BY <1>2, <2>2, BuildIdles, IdlesStep
  <2>3. CASE Continue(t)
    <3>1. CASE GlobalRead(t)
      BY <1>2, <3>1, HandleIdles, IdlesStep
    <3>2. CASE GlobalCount(t)
      BY <1>2, <3>2, GlobalCountCopies DEF Values!Next
    <3>3. CASE AssignDrop(t) \/ AssignStore(t)
      BY <1>2, <3>3, AssignEnds
    <3>4. CASE SetGlobalSwap(t)
      BY <1>2, <3>4, SwapExchanges DEF Values!Next
    <3>5. CASE Publish(t)
      BY <1>2, <3>5, PublishMakes
    <3>6. CASE DeleteBody(t) \/ \E i \in Slots : DeleteSlot(t, i)
      BY <1>2, <3>6, DeleteIdles, IdlesStep
    <3>7. CASE \/ ArrayNew(t) \/ Counted(t) \/ NameNew(t) \/ Obtained(t) \/ UnwindBody(t)
               \/ \E i \in Slots : CountSlot(t, i) \/ UnwindSlot(t, i)
                                   \/ \E f \in Heap : ObtainByname(t, i, f)
               \/ \E i \in StdSlots : ObtainOrdinary(t, i)
      BY <1>2, <3>7, BuildIdles, IdlesStep
    <3> QED
      BY <2>3, <3>1, <3>2, <3>3, <3>4, <3>5, <3>6, <3>7 DEF Continue
  <2> QED
    BY <1>2, <2>1, <2>2, <2>3
<1> QED
  BY <1>1, <1>2 DEF Next

\* Locale objects behave as values: what a thread does with its handles, with
\* the bodies and facets they share and with the global locale is, object by
\* object, a copy, a destruction, an exchange or a construction in one step
\* (locale_core.cpp:60-116, locale_body.cpp:386-545, locale_combine.cpp:133-398).
THEOREM LocalesAreValuesAlways == Spec => LocalesAreValues
<1>1. Init => Values!Init
  BY InitValues
<1>2. BodyInv /\ BodyInv' /\ FacetInv /\ [Next]_vars => [Values!Next]_ObjectValues
  BY ValuesStep
<1> QED
  BY <1>1, <1>2, BodyInvAlways, FacetInvAlways, PTL DEF Spec, LocalesAreValues, Values!Spec
=============================================================================
