----------------------------- MODULE StdStreams -----------------------------
(***************************************************************************)
(* The standard streams' ios_base::Init (src/iostream.cpp) over Once: every *)
(* Init object is counted and constructs the streams through __rw_once();   *)
(* the last one destroyed makes the output streams unbuffered, so that what *)
(* is written after it, by destructors of other objects, is not lost in a   *)
(* buffer that nobody will flush.                                          *)
(*                                                                         *)
(* Every thread has at most one Init object at a time, as a library that is *)
(* loaded and unloaded does.  An output stream is the number of characters  *)
(* in its buffer, and of those that were written and that reached the file. *)
(***************************************************************************)
EXTENDS Once, FiniteSets

CONSTANTS Streams,     \* the output streams, 1 .. n in the order they are flushed in
          Flag,        \* __rw_ios_once
          MaxWrites,   \* bound: characters written to a stream
          LateInit     \* may an Init be constructed after the last one has begun
                       \* to be destroyed?

\* what the constants are; the module that gives them values assumes it
StdStreamsAssumption ==
    /\ IsFiniteSet(Threads)
    /\ Streams \subseteq Nat /\ Flag \in Flags /\ MaxWrites \in Nat /\ LateInit \in BOOLEAN

VARIABLES
    initcnt,     \* __rw_ios_initcnt
    inits,       \* what the thread's Init is doing
    todo,        \* ~Init(): the streams yet to be made unbuffered
    buffered, inBuffer, written, inFile,    \* of each stream
    ended,       \* the count has come back to zero
    failed       \* ghost: streams whose sync() failed

counts == <<initcnt, inits, todo, ended>>
streams == <<buffered, inBuffer, written, inFile, failed>>
allVars == <<vars, counts, streams>>

Phases == {"none", "counted", "calling", "lives", "flush", "unbuffer"}

StreamsInit ==
    /\ Init
    /\ initcnt = 0 /\ ended = FALSE
    /\ inits = [t \in Threads |-> "none"]
    /\ todo = [t \in Threads |-> {}]
    /\ buffered = [s \in Streams |-> TRUE]
    /\ inBuffer = [s \in Streams |-> 0]
    /\ written = inBuffer /\ inFile = inBuffer /\ failed = {}
-----------------------------------------------------------------------------
Phase(t, p, q) == inits[t] = p /\ inits' = [inits EXCEPT ![t] = q]

\* Init::Init(): counted first,
Count(t) ==
    /\ Phase(t, "none", "counted")
    /\ LateInit \/ ~ended
    /\ initcnt' = initcnt + 1
    /\ UNCHANGED <<vars, todo, ended, streams>>

\* then the call of __rw_once(), whose steps are Once's
CallOnce(t) ==
    /\ Phase(t, "counted", "calling")
    /\ Call(t, Flag)
    /\ UNCHANGED <<initcnt, todo, ended, streams>>

OnceStep(t) ==
    /\ inits[t] = "calling"
    /\ \E f \in Flags : Step(t, f) \/ SpuriousWakeup(t, f) \/ RunThrow(t, f)
    /\ UNCHANGED <<counts, streams>>

\* it has returned, or the function it ran has thrown: then there is no
\* object, and no destructor will take it off the count
Constructed(t) ==
    /\ \A f \in Flags : At(t, f, "idle")
    /\ Phase(t, "calling", IF Flag \in got[t] THEN "lives" ELSE "none")
    /\ UNCHANGED <<vars, initcnt, todo, ended, streams>>

\* a program writes to a stream while it has an Init object or, from the
\* destructor of some object, after the last of them is gone
MayWrite(t) ==
    \/ inits[t] = "lives"
    \/ inits[t] = "none" /\ Flag \in got[t] /\ ended
       /\ \A u \in Threads : inits[u] = "none"
Write(t, s) ==
    /\ MayWrite(t) /\ written[s] < MaxWrites
    /\ written' = [written EXCEPT ![s] = @ + 1]
    /\ IF buffered[s] THEN inBuffer' = [inBuffer EXCEPT ![s] = @ + 1] /\ UNCHANGED inFile
       ELSE inFile' = [inFile EXCEPT ![s] = @ + 1] /\ UNCHANGED inBuffer
    /\ UNCHANGED <<vars, counts, buffered, failed>>

\* a mutant: the count before it was decremented is tested
LastBefore(n) == n + 1 = 0

\* Init::~Init(), of the last object and of another one
Last(n) == n = 0
Destroy(t) ==
    /\ inits[t] = "lives"
    /\ initcnt' = initcnt - 1
    /\ IF Last(initcnt')
       THEN Phase(t, "lives", "flush") /\ todo' = [todo EXCEPT ![t] = Streams]
       ELSE Phase(t, "lives", "none") /\ UNCHANGED todo
    /\ ended' = (ended \/ initcnt' = 0)
    /\ UNCHANGED <<vars, streams>>

\* basic_filebuf::setbuf (0, 0): sync(), after which it is unbuffered; one
\* that cannot write returns null, one that throws is caught, and either way
\* the stream is left as it was and the others are still dealt with
Turn(t, s) == todo[t] # {} /\ s = CHOOSE x \in todo[t] : \A y \in todo[t] : x <= y
Sync(t, s) ==
    /\ Turn(t, s)
    /\ Phase(t, "flush", "unbuffer")
    /\ inFile' = [inFile EXCEPT ![s] = @ + inBuffer[s]]
    /\ inBuffer' = [inBuffer EXCEPT ![s] = 0]
    /\ UNCHANGED <<vars, initcnt, todo, ended, buffered, written, failed>>

SyncFails(t, s) ==
    /\ inits[t] = "flush" /\ Turn(t, s)
    /\ failed' = failed \cup {s}
    /\ todo' = [todo EXCEPT ![t] = @ \ {s}]
    /\ UNCHANGED <<vars, initcnt, inits, ended, buffered, inBuffer, written, inFile>>

Unbuffer(t, s) ==
    /\ Turn(t, s)
    /\ Phase(t, "unbuffer", "flush")
    /\ buffered' = [buffered EXCEPT ![s] = FALSE]
    /\ inBuffer' = [inBuffer EXCEPT ![s] = 0]      \* setp (0, 0)
    /\ todo' = [todo EXCEPT ![t] = @ \ {s}]
    /\ UNCHANGED <<vars, initcnt, ended, written, inFile, failed>>

Destroyed(t) ==
    /\ todo[t] = {}
    /\ Phase(t, "flush", "none")
    /\ UNCHANGED <<vars, initcnt, todo, ended, streams>>

StreamsNext ==
    \E t \in Threads :
        \/ Count(t) \/ CallOnce(t) \/ OnceStep(t) \/ Constructed(t) \/ Destroy(t) \/ Destroyed(t)
        \/ \E s \in Streams : Write(t, s) \/ Sync(t, s) \/ SyncFails(t, s) \/ Unbuffer(t, s)

StreamsSpec == StreamsInit /\ [][StreamsNext]_allVars
-----------------------------------------------------------------------------
\* an object is constructed after the streams are, and sees them
Ready == \A t \in Threads : inits[t] = "lives" => Flag \in view[t]
\* the count is of the objects there are and of those about to be; one that
\* was not constructed because the streams could not be stays counted
CountRight ==
    throws = 0 =>
        initcnt = Cardinality({t \in Threads : inits[t] \in {"counted", "calling", "lives"}})
\* nothing that was written is lost, but in a stream that could not be flushed
NothingLost ==
    \A s \in Streams : s \notin failed => written[s] = inFile[s] + inBuffer[s]
\* and once the last object is gone all of it is in the files
AllFlushed ==
    ended /\ throws = 0 /\ (\A t \in Threads : inits[t] = "none") =>
        \A s \in Streams : s \notin failed => ~buffered[s] /\ inBuffer[s] = 0

(* "The last one destroyed flushes the streams; only the first constructs     *)
(* them, and the others wait until it has" (iostream.cpp:195): an Init object *)
(* means streams that can be used, and what is written while there is one, or *)
(* after the last, arrives (iostream.cpp:278).                                *)
StreamsRight == Ready /\ CountRight /\ NothingLost /\ AllFlushed
=============================================================================
