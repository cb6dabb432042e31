----------------------------- MODULE MCLocaleRefs ---------------------------
(***************************************************************************)
(* LocaleRefs on small instances.                                          *)
(***************************************************************************)
EXTENDS LocaleRefs, TLC

CONSTANTS t1, t2, h1, h2, h3, b1, b2, classic_body, o1, o2, f1, f2

\* two threads race over the global locale: one slot, bodies and facets that
\* run out
RaceThreads == {t1, t2}
RaceHandles == {h1, h2, h3}
RaceMine == (t1 :> {h1, h2}) @@ (t2 :> {h3})
RaceBodies == {classic_body, b1, b2}
RaceOrdinary == <<o1>>
SymmetryRace == {h @@ b : h \in Permutations({h1, h2}),
                               b \in Permutations({b1, b2})}

\* one thread combines locales: a byname slot, one with no byname form, and
\* one of the program's
BuildThreads == {t1}
BuildHandles == {h1, h2}
BuildMine == t1 :> {h1, h2}
BuildOrdinary == <<o1, o2>>
SymmetryBuild == {h @@ b @@ f : h \in Permutations({h1, h2}),
                                b \in Permutations({b1, b2}),
                                f \in Permutations({f1, f2})}
=============================================================================
