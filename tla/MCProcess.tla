------------------------------ MODULE MCProcess -----------------------------
(***************************************************************************)
(* What the library keeps one of in a process, on small instances: the C    *)
(* library's locale (SetLocale), the repository of message catalogs         *)
(* (Messages), the standard streams' count (StdStreams over Once) and the   *)
(* ids of facets (FacetId).  They share no state, so a behaviour is of one  *)
(* of them: nothing that one does depends on where another is.              *)
(***************************************************************************)
EXTENDS SetLocale

CONSTANTS Size, Pages, Files, Bad, Locales, NoLocale, CloseInUse,      \* Messages
          ios_once, NoFlag, MaxWrites, LateInit,                       \* StdStreams
          Types, LastType                                              \* FacetId

VARIABLES
    part,
    catalogs, pages, entry, nCatalogs, largest, libOpen, handed, lost, reader,
    state, mutex, opc, onext, view, flagView, mutexView, got, othrows,
    initcnt, inits, todo, buffered, inBuffer, written, inFile, ended, failed,
    id, gen, guard, at, used

Catalogs == INSTANCE Messages
Streams == INSTANCE StdStreams WITH
               Flags <- {ios_once}, Flag <- ios_once, AtomicOps <- TRUE, Streams <- {1, 2},
               Callee <- [f \in {ios_once} |-> NoFlag], Depth <- [f \in {ios_once} |-> 0],
               pc <- opc, next <- onext, throws <- othrows
Ids == INSTANCE FacetId

ASSUME ProcessAssumption ==
    /\ Catalogs!MessagesAssumption
    /\ Streams!OnceAssumption /\ Streams!StdStreamsAssumption
    /\ Ids!FacetIdAssumption

cVars == <<catalogs, pages, entry, nCatalogs, largest, libOpen, handed, lost, reader>>
sVars == <<state, mutex, opc, onext, view, flagView, mutexView, got, othrows,
           initcnt, inits, todo, buffered, inBuffer, written, inFile, ended, failed>>
iVars == <<id, gen, guard, at, used>>
allVars == <<part, vars, cVars, sVars, iVars>>

MCInit ==
    /\ part \in {"locale", "catalogs", "streams", "ids"}
    /\ Init /\ (part # "locale" => clocale = [c \in Cats |-> CHOOSE n \in Known : TRUE])
    /\ Catalogs!Init /\ Streams!StreamsInit /\ Ids!Init

Is(p) == part = p /\ UNCHANGED part

OfLocale(A) == Is("locale") /\ A /\ UNCHANGED <<cVars, sVars, iVars>>
LocaleStep == OfLocale(Next)
CatalogStep == Is("catalogs") /\ Catalogs!Next /\ UNCHANGED <<vars, sVars, iVars>>
StreamStep == Is("streams") /\ Streams!StreamsNext /\ UNCHANGED <<vars, cVars, iVars>>
IdStep == Is("ids") /\ Ids!Next /\ UNCHANGED <<vars, cVars, sVars>>

MCNext == LocaleStep \/ CatalogStep \/ StreamStep \/ IdStep

\* the fairness of SetLocale's LiveSpec, asked of its own behaviours
MCFairness ==
    \A t \in Threads : SF_allVars(OfLocale(Step(t))) /\ SF_allVars(OfLocale(Finish(t)))

MCSpec == MCInit /\ [][MCNext]_allVars /\ MCFairness
-----------------------------------------------------------------------------
(* Handles lead to their catalogs through growing and shrinking, and get()    *)
(* may use what it has read without the guard (Messages, messages.cpp:85).    *)
CatalogsRight == Catalogs!CatalogsRight

(* Init objects mean usable streams, and nothing written is lost (StdStreams, *)
(* iostream.cpp:195).                                                        *)
StreamsRight == Streams!StreamsRight

(* A facet's type has one id and no other type has it (FacetId,               *)
(* facet.cpp:387).                                                           *)
IdsRight == Ids!IdsRight
=============================================================================
