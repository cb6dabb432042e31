# A verification development of stdcxx

stdcxx is a C++ standard library: shared string bodies, deque and red-black
tree, locales with reference-counted bodies and lazily built facets, streams
with user data and callbacks, buffered files, and the one-time initialization
under all of them; besides, lists, vectors and algorithms, the reading and
writing of numbers, message catalogs, and the driver that runs the tests.  The
modules here model the parts of it whose correctness depends on interleavings, on
failures in the middle of an operation, on long sequences of legal calls, or on
boundaries that data can fall on in many ways; the `MC*` modules and `.cfg` files check them with TLC
on small instances, and the `*Proofs` modules prove the most important
invariants with TLAPS for every instance.

Everything is translated from the code under `src/` (paths below are relative to
the repository), and `PROJECT.json` gives the lines of each definition.

1. [The system](#the-system)
2. [The modules](#the-modules)
3. [The runs](#the-runs)
4. [Fairness](#fairness)
5. [The proofs](#the-proofs)
6. [Where the code does not do what it says](#where-the-code-does-not-do-what-it-says)
7. [What is not modelled](#what-is-not-modelled)
8. [The plan](#the-plan)

## The system

| component | source | state | operations | what makes it hard | what makes it correct |
|---|---|---|---|---|---|
| one-time initialization | `src/once.cpp`, `include/rw/_once.h` | a word per flag (ready, running, done); one mutex and one condition variable for all flags | `__rw_once` (test, elect, run, publish, wait) | threads of different flags share the condition variable; the function may go through another flag, throw, or be cancelled | one runner; what the function wrote is seen by everyone who returns; nobody sleeps through the broadcast; calls end |
| locale objects and bodies | `src/locale_body.cpp`, `locale_core.cpp`, `locale_combine.cpp`, `locale_global.cpp`, `locale_eq.cpp` | per handle a pointer; per body a count, its facets and a name; the global pointer and its guard | construct, copy, assign, destroy, name, combine, `locale::global()` | counts without locks while another thread exchanges the global locale; factories and allocations that throw half way | counts exact, nothing dangling, one deleter; locales are values; the name tells the facets |
| a facet's data | `src/facet.cpp`, `include/loc/_facet.h`, `src/punct.cpp`, `src/time_put.cpp` | a pointer and a size per facet; two mutexes | first use: map the database, or build from the C library | reads without a lock, two locks, a call to itself with one of them held | one mapping or builder; its data seen whole; no self-deadlock |
| the C library's locale | `src/setlocale.cpp`, `locale_body.cpp`, `locale_global.cpp` | the process's locale per category, a saved name per scope, two mutexes | scopes, name expansion, `locale::global()` | constructors that fail with the lock held; two global locales set one after the other | outside scopes the program's, inside the scope's; the two globals agree |
| strings' bodies | `include/string`, `string.cc`, `include/rw/_strref.h` | per string a pointer; per body a count (or "not to be shared"), contents | copy, assign, any edit, giving a reference out, destroy | a count read relaxed and acted on later; references given out before a copy | strings are values; no leak, no dangling, no data race |
| strings' edits | `include/string`, `string.cc` | buffer, size, capacity | `replace` and what is built on it; searches | the source inside the buffer that is being overwritten; sums near `max_size()` | the right string, or a throw and no change |
| stream state | `src/iostore.cpp`, `src/ios.cpp` | user data (two arrays, callbacks, tie), format, exceptions, a mutex | `iword`, `pword`, `tie`, `register_callback`, `copyfmt`, `imbue`, destructor | callbacks that call back, throw, and grow or free what the caller is reading | every event delivered once and whole; unlocked during callbacks; copies are all or nothing |
| file buffers | `include/fstream.cc`, `include/streambuf`, `src/file.cpp` | buffer, get and put areas, two remembered positions, the descriptor's offset | read, write, put back, sync, seek, setbuf, open, close | one buffer for reading and writing, putback across refills, positions that are computed | file, buffer and stream agree on position and contents |
| red-black tree | `include/rw/_tree.h`, `_tree.cc` | linked nodes, header with cached corners, size | insert (with a hint), erase, copy, assign, swap, search, iterate | rare cases of the balancing loops; corners that move | order, balance, iterators, nothing lost |
| deque | `include/deque`, `deque.cc`, `doc/notes/analysis-deque-redesign.md` | map of buffers, cached span, two iterators, a reservation | push, pop, insert, erase, assign | an allocation or a copy that throws after the map moved; arguments that refer to elements | a failure is undone; the map is valid; values right |
| standard streams | `src/iostream.cpp` | a count of `Init` objects | construct through `__rw_once`, flush at the end | static destruction order, threads, a stream that fails to flush | an `Init` means usable streams; nothing written is lost in a buffer that nobody flushes |
| message catalogs | `src/messages.cpp`, `include/loc/_messages.cc` | a paged array of open catalogs | open, get, close | the array grows by pages and shrinks to the static one while handles stay valid; use after the guard is released | handles mean their catalogs; counts and pages agree; what a reader holds is there |
| facets' ids | `src/facet.cpp` | an id per type, a generator, a lock | first use of a type | read without the lock, raced for | one id per type |
| test driver | `util/exec.cpp`, `runall.cpp` | a child and its group, an alarm, a list of signals | run, wait, time out, kill | the alarm races `waitpid()`; children stop, ignore signals, leave others behind | what is reported is what happened; a run that is timed out ends; nothing is left running |
| vector, list | `include/vector`, `vector.cc`, `list`, `list.cc` | cells, begin, end; linked nodes, size, allocator | insert, erase, assign, splice, merge, sort, unique, remove, reverse | throws in the middle, sources that are elements, links set in an order, unequal allocators | the sequence the calls say; nothing leaked |
| algorithms | `include/algorithm`, `algorithm.cc`, `include/rw/_heap.cc` | none | sorts, heaps, merges, rotations, partitions, set operations, searches | unguarded loops, temporary buffers smaller than asked for | what each definition says, stably where it must be |
| numbers | `include/loc/_num_get.cc`, `src/strtol.cpp`, `src/num_get.cpp`, `num_put.cpp`, `src/punct.cpp` | none | read and write an integer in a base, with groups | overflow tests at the last digit; groups counted in one direction and checked in the other | the number, or the limit and failbit; what was written is read back |
| input streams | `include/istream`, `istream.cc`, `include/rw/_stringio.cc` | state bits, count, width | sentry, unformatted and string extractors, `ignore`, `ws` | a get area that ends anywhere; a buffer that throws | takes and counts what it is to and says why it stopped |
| string buffers | `include/sstream`, `sstream.cc`, `streambuf` | one buffer, six pointers, mode | every member | get area that is caught up late; growth; positions | the characters and both positions |
| other facets, locale compiler, other stream buffers, mutexes, errors, test support | see `PROJECT.json` | | | mostly sequential data | see [What is not modelled](#what-is-not-modelled) |

How they meet.  A stream's construction and the global locale go through
`__rw_once`: `iostream.cpp` through the flag of the streams, whose function calls
`locale`'s, whose function calls the classic body's, which is the chain of flags
of `MCOnce`.  A locale object is a handle to a counted body, a body holds counted
facets, and a facet obtains its data on first use from a mapped database or, with
the C library's locale set for the duration by a scope, from `localeconv()` and
its like.  `locale::global()` sets both global locales.  A stream holds a locale,
and `imbue()` and `copyfmt()` announce changes to callbacks.  A filebuf sits under
a stream.  Strings, deques and trees are used by all of these but share nothing
with them; each is a component of its own.

The models meet in two ways.  `StdStreams` is composed with `Once`: an `Init`'s
construction takes `Once`'s own steps.  `List` and `Sorting` are built on the ranges
of `Ranges`.  The others meet by assumption: `LocaleRefs` starts where `Once` has
published the classic body, `FacetData` takes a facet that a body holds (`LocaleRefs`
shows it exists), the builders of `FacetData` run in a scope of `SetLocale` (whose lock
is `clocaleLock` there), `Istream` reads from a buffer that cuts its characters
anywhere, as `FileBuf` and `StringBuf` do.

Components that share no state but raise alike questions are checked by one run:
`MCProcess`, `MCSequences`, `MCIosStore` and `MCDeque` instantiate them side by side,
and a behaviour is of one of them (`part`).  A product of their state spaces would
show nothing more, since no step of one reads what another writes.  These modules
state as assumptions of their own those of the modules they instantiate.

## The modules

`Once` - `__rw_once()`, reentrant build.  A thread has a program counter for each
flag it is in a call on (`pc[t][f]`), because the function of one flag may call
through the next.  One action is one access: the acquire load (`TestDone`,
`TestNotDone`), taking the mutex (`EnterLock`), the switch of `__rw_once_enter`
(`EnterReady`, `EnterDone`, `EnterWait`), the function (`RunCall`, `RunReturn`,
`RunThrow`), and the three steps of `__rw_once_leave`.  `SpuriousWakeup` and
`Cancel` are `pthread_cond_wait`'s.  What a release store, an acquire load and a
mutex make visible is kept in `view`, `flagView` and `mutexView`, sets of flags
whose function's writes are seen.

`LocaleRefs` - handles, bodies, facets and their counts.  One action is one access
to what threads share: an increment, a decrement with its test, a read or write of
the global pointer under its guard, one facet of a body under construction or
destruction.  `NamedAlloc`..`UnwindBody` are the constructor of a named locale with
its catch clause, `CombineFacetAlloc`..`Publish` the combinations, `DeleteSlot` and
`DeleteBody` the destructor.  Storage is reused, so that a stale pointer meets
another body.  A facet's id is its slot; a name is a function from standard slots to
names.  `LocaleValues` is the abstract specification: objects hold values, an
operation changes the value of the one it is called on, and the global one changes
atomically.  `LocaleRefs!LocalesAreValues` is `LocaleValues!Spec` under the mapping
that takes a handle to its body's name and facets.

`FacetData` - `_C_data()` and `_C_get_data()`, and the builders of `punct.cpp` and
`time_put.cpp`.  `_C_impsize`, `_C_impdata` and the bytes have histories and each
thread a view (how old a value it may still read), so that a load returns any value
not older than what the thread has seen; an acquire load joins the view that the
release store left, a mutex the view of its last unlock.

`SetLocale` - a scope is the life of a `__rw_setlocale` object: `Open`, `Lock`,
`Query`, `Save` or `SaveThrow`, `Set` or `SetFail`, `Close`, `Restore`, `Unlock`.
`Expand` and `ExpandNext` are `__rw_expand_name` for one category after the other,
with the second lock; `Global`, `GlobalC` and `GlobalCxx` are `locale::global()`.

`StringRep`, `StringValues` - bodies with a count one less than their strings, or -1.
One action is one test, atomic operation, allocation or write of a member; contents
are whole values.  `StringValues` is the abstract specification: each call changes
its own strings at one point, or throws and changes nothing.

`StringOps` - one string's buffer, character by character, for the edits that
`replace` does and those built on `_C_grow` and `_C_get_rep`, and the searches as
recursive functions that follow the loops.  The ghost `want` is the sequence the
call stands for.

`IosStore` - `_C_usr`, its arrays, callbacks and tie; the format; exceptions; the
mutex.  The calls that fire events form a stack of frames, because a callback may
call members that fire in turn; `Fire`, `Call`, `CallbackReturns`,
`CallbackThrows`, `AllCalled` are `_C_fire_event`, and `Install`, `Assign`,
`Return` are what `copyfmt()` does after each event.

`FileBuf` - `fb` is the filebuf and its file: the buffer, the areas as offsets
(`g`, `n` the get pointer and its end, `p` the put pointer, `pb` the characters
kept for putting back), `cur` and `beg` the two remembered positions, `off` the
descriptor's.  One action is one member, whole, with the overflows, syncs and
refills it makes.  The codecvt converts nothing.

`RbTree` - links, colours, corners and size as the code has them; one step is a
call, but one pass of a balancing loop is a step of its own (`InsertFix`,
`EraseFix`), so that invariants are checked in the middle.  `list` is the sequence
the tree stands for.  An insertion may throw while it searches or makes its node
(`Throws`) and, with `LateThrow`, at the comparison after that (`Loses`).

`StdStreams` - over `Once`.  An `Init` is counted and calls `__rw_once()` (`Once`'s
steps); the last one destroyed flushes and unbuffers the output streams one after the
other, each of which may fail.  A stream is the number of characters written, in its
buffer and in the file.

`FacetId` - `__rw_facet_id::_C_init()`: the acquire load, the lock, the second test, the
generator, the release store.

`Messages` - the array of handles, the pages and their entries as the code has them.
Each function holds the guard for its whole length, so a step is a function; but
`get()` calls two and then uses the text and the locale they returned, which are steps
of their own.

`ExecWatch` - the driver between `fork()` and the result, the child and its process
group.  A signal may come at any step of the driver; `waitpid()` is two steps, so that
one may come between the test of the flag and the wait.

`Vector` - a call is the list of the operations on elements it performs, up to the one
that throws, and what a handler then destroys.  `List` - every link in the order it is
set, over two lists, whose allocators may be unequal.

`Ranges`, `Sorting`, `Algorithms` - `<algorithm>` as operators on sequences, a loop
being a recursion that follows it, so that an unguarded loop that ran off its range
would be an application outside of a domain; values have a key and a tag, so that
stability can be told.  `Algorithms` calls each on every range within the bounds and
says what is due.

`Numbers` - the characters of a text come one by one to `_C_get`, which keeps its
variables in `st`; then the words of `strtol.cpp` wrap at `Width` bits, and the groups
are checked.  What `num_put.cpp` writes is read back.

`Istream` - a stream is its get area, the chunks yet to come (an empty one throws), its
bits, count and width; a call is a step.

`StringBuf` - the pointers as offsets in one buffer; the ghost `model` is the
characters and the two positions.

`Deque`, `DequeShift` - the map, iterators and reservation, each allocation and each
construction a step that may fail; and the order in which insertions, erasures and
assignments construct, assign and destroy elements, each operation on an element a
step that may throw.  `MCDeque` instantiates the second beside the first.

`OnceProofs`, `LocaleRefsProofs`, `ProcessProofs`, `StringRepProofs`, `IosStoreProofs`,
`FacetDataProofs`, `ExecWatchProofs`, `DequeProofs` - see [The proofs](#the-proofs).

Operators described as mutants in their comments are wrong on purpose: each is a bug
that the code could plausibly have had at that place (`PROJECT.json`, `"mutants"`),
and the run named there finds it by the property named there.

## The runs

`tlc -workers 2 -config X.cfg M`; each ends within two minutes or so on two cores.

| run | instance | distinct states | what it shows |
|---|---|---|---|
| `once` | 2 threads, the library's 3 flags in a chain, 2 exceptions or cancellations | 294,312 | `TypeOK`, `OneRunner`, `Published`, `NoLostWakeup`, `CallsEnd` |
| `locale_race` | 2 threads, 3 handles, 3 bodies, 1 slot, 1 exception | 181,907 | `ReferencesRight`, `FacetsLive`, and that locales are values |
| `locale_build` | 1 thread, 2 handles, 3 slots (a byname one, a plain one, the program's), 1 exception | 89,669 | `FacetsRight`, `NameTells` |
| `facet` | 3 threads, with and without a database, 1 throwing builder | 159,160 | `DataRight`, `CallsEnd` |
| `process` | 2 threads, 1 of which calls `global()`, 2 categories, 3 names (1 unknown), 1 failed allocation; catalogs on 3 pages of 4; 2 streams of 2 characters; 2 types of facets | 94,326 | `CLocaleRight`, `GlobalAgrees`, `CallsEnd`, `CatalogsRight`, `StreamsRight`, `IdsRight` |
| `exec` | 2 programs, 1 request to terminate | 106,641 | `ChildWatched`, `WaitEnds` |
| `string_share` | 2 threads, 3 strings, 3 bodies, any allocation may fail | 212,983 | `BodiesRight`, and that strings are values |
| `ios` | 2 streams (1 locked), 2 callbacks, 1 word, 2 formats, calls 2 deep; numbers of 8 bits in texts of 5; input of 4 characters | 2,157,723 | `AsWanted`, `EventsDelivered`, `NothingStale`, `NumbersRight`, `InputRight` |
| `sequences` | files up to 3 bytes, buffers of 0 to 2, 4 modes; strings up to 5 of 2 characters, 7 texts; vectors up to 5, lists of 4 nodes, ranges up to 5; stringbufs of 3 in 6 modes | 335,986 | `PosRight`, `ContentRight`, `EditsRight`, `SearchesRight`, `VectorRight`, `ListsRight`, `AlgorithmsRight`, `StringBufRight` |
| `filebuf_seek` | a file up to 4 bytes, with `sungetc()` right after a seek | 6,627 at most | `PosRight` is violated (below) |
| `tree` | 2 trees, 4 keys, 2 nodes of one key, up to 7 nodes | 639,650 | `TreeRight`, `ReturnsRight` |
| `deque` | 5 buffers of 3 elements; 7 elements of 2 values beside it | 566,174 | `StorageRight`, `CallRight`, `FailureUndone` |

The properties whose names end in `Right`, and `ChildWatched` and `NothingStale`, are
mostly conjunctions of named parts; the comment on each part says what it is about.
The type invariant of a module is one of the parts, or `TypeOK` by itself in `Once`,
which has it proved.

### Why these bounds

- `once`: two threads suffice for each hazard (a runner and a waiter, a waiter of
  another flag, an elected waiter after an exception), three flags are the
  library's longest chain, and two exceptions let the flag throw, be elected again
  and throw in a nested call.  The proofs lift the safety properties to any number
  of threads and flags.
- `locale_race`: the races are between one thread that reads the global locale and
  one that exchanges it and destroys what it got; the third handle makes assignment
  between two handles of a thread possible while the other thread's is alive.  Two
  heap bodies are reused.  Again the proofs lift this to any number.
- `locale_build`: names and facets differ in slots, and three slots have each kind;
  two facets on the heap are enough for the n-th factory to throw with n-1 obtained.
- `facet`: a mapper or builder, one that waits for its lock, and one that reads
  without a lock.
- `process`: one scope sets one category while the other needs both.  One caller of
  `locale::global()` because two that overlap may leave the two globals different,
  as `doc/notes/ref-locale.md` says.  Two pages on the heap beside the static one and
  six catalogs of the C library: the array grows twice and shrinks, whatever handles
  are left.  Two `Init` objects and two streams suffice for one to be flushed while the
  other is written to or fails.
- `exec`: the second program shows what the first leaves in the handlers and flags.
- `string_share`: two strings share a body, a third one races for it.
- `sequences`: a file's buffer may be smaller than, equal to, or larger than its part
  of the file.  Texts overlap themselves (`aab`, `aba`) and one is longer than a string
  may be, up to `max_size()`.  A vector of five has room for an insertion of three with
  elements behind it that overlap or not.  Two lists of four nodes in all: a splice or
  merge of each length into each.  The constants of the sorts are scaled with the
  ranges (threshold 2 for 16, chunks of 2 for 7), so that five elements go through the
  splits, the passes with a buffer and the insertions at the end; the temporary buffer has
  every size from none to the range's.  `sort()` itself never splits five elements often
  enough to give up and sort them as a heap (`algorithm.cc:1083`).  A part of a longer
  range comes with less depth left, so ranges are sorted with every smaller depth too,
  from none, which takes that branch.  A stringbuf's capacity grows from two to three,
  past what was read.
- `ios`: a callback that calls `copyfmt()` whose callbacks run in turn is two deep;
  `MaxCallbacks` is how many are registered of both streams, two being enough for an
  order.  `MaxVaried` is one: at a time the streams differ from new ones in their user
  data (words and tie), or in their format, or in their exceptions; a copy that mixes
  up two of these would have to be wrong about one of them alone as well.
- `ios`, numbers: `Width` is 8, so that all numbers of three digits, in range and
  beyond, can be read in each base; `Narrow` is 6 bits, the short.  Groupings have each
  form: one length, two, with the rest unlimited or repeated.  Input: every text of up to
  four characters (letters, space, newline) cut in every way, texts of up to three with
  a throw in any place, and fields shorter than, equal to and longer than what the
  caller has room for.
- `tree`: erasure's four cases and their mirror images need up to seven nodes.
- `deque`: five slots let the map be full, grow, and be recentred with spares at each
  side; at most four elements inserted at once span three buffers.

`CHECK_DEADLOCK FALSE` is in `MCProcess_all.cfg` only: an allocation that fails under
`SetLocale`'s lock does leave the system stopped (below).  Counters that have no bound in
the code have one here, named in each module's CONSTANTS.

### Constants that leave calls out

Some calls make the code go wrong.  A constant, `FALSE` in the passing runs, admits
them, so that the passing runs can check everything else to the end:

| constant | calls left out of the passing run | to reproduce |
|---|---|---|
| `TieFirst` (IosStore) | `tie()` on a stream with no user data | `MCIosStore_all.cfg` with `MaxDepth = 1`, `TieFirst = TRUE`, `EventsDelivered` |
| `CopyWithin` (IosStore) | a callback of `copyfmt()` copies to the same stream | `MCIosStore_all.cfg` with `Formats = {f}`, `Callbacks = {c1}`, `MaxCallbacks = 1`, `Kinds = {}`, `Indices = {}`, `MaxVaried = 3`, `CopyWithin = TRUE`, `DataKept` |
| `RegisterInDtor` (IosStore) | a callback of the destructor registers others | the same with `MaxCallbacks = 3`, `CopyWithin = FALSE`, `RegisterInDtor = TRUE`, `NoStaleArray` |
| `LongShift`, `AutoOdd`, `OctalBase` (Numbers) | a number too large in octal or hexadecimal; texts for `%i` that `scanf` reads otherwise; octal numbers written with base and groups | set it to `TRUE`, `NumbersRight` |
| `StringArea`, `ReadThrows` (Istream) | `>>` into a string that finds the end of the string in the get area; `read()` from a buffer that throws | set it to `TRUE`, `InputRight` |
| `UngetAfterSeek` (FileBuf) | `sungetc()` right after a seek | the run `filebuf_seek` |
| `UngetAcross` (FileBuf) | `sungetc()` back over the beginning of the last fill | `MCFileBuf_seek.cfg` with `UngetAfterSeek = FALSE`, `UngetAcross = TRUE` |
| `ShrinkRead` (FileBuf) | `setbuf()` to a smaller buffer after reading | the same with `Sizes = {1, 3}`, `PBack = 2`, only `ShrinkRead = TRUE`, `AreasFit` |
| `SputnUnread` (FileBuf) | `sputn()`, unbuffered, after reading | the same with `Sizes = {0}`, only `SputnUnread = TRUE` |
| `Terminator` (StringOps) | the string's own terminator as a source | set it to `TRUE`, `EditsRight` |
| `OwnValue` (Vector) | an insertion in place of several copies of an element | set it to `TRUE`, `VectorRight` |
| `RemoveOwn` (List) | `remove()` of a value that is an element | set it to `TRUE`, `ListsRight` |
| `GrowRead`, `OwnSource`, `StrThrows` (StringBuf) | growth after reading; `sputn()` of the buffer's own characters; `str()` without memory | set it to `TRUE`, `StringBufRight` |
| `LongNames` (LocaleRefs) | a combination whose name does not fit its buffer needs memory, and there may be none; `TRUE` in `locale_race` | `MCLocaleRefs_build.cfg` with `LongNames = TRUE` (`FacetsRight`) |
| `LateThrow` (RbTree) | a comparison that throws when the new node has been made | set it to `TRUE`, `TreeRight` |
| `CloseInUse` (Messages) | closing a catalog that another thread gets a message of | set it to `TRUE`, `CatalogsRight` |
| `LateInit` (StdStreams) | an `Init` constructed while the last one is being destroyed | set it to `TRUE`, `StreamsRight` |

The tree has a state `"broken"` after the throws its code does not recover from, in
which nothing more is done; `CallsEnd` of `SetLocale` excepts the same of the lock, and
`WaitEnds` of `ExecWatch` the signal that was lost.

## Fairness

- `Once`: strong fairness of each thread's own steps (`Step(t, f)` for some `f`).
  Strong, because the mutex is free again and again and the platform's mutex is
  assumed not to starve a thread for ever.  Not fair: calling, throwing, cancelling and
  spurious wakeups.  A function is assumed to return or throw.
- `FacetData`: strong fairness of each thread's `Step`, for the same reason.
- `SetLocale`: as well of an expansion's last category (`Finish`), because a call
  has finitely many categories and each is expanded once.
- `ExecWatch`: weak fairness of the driver, of the alarm that is running, of the
  forming of the child's group, and of a process's death by a signal it does not
  survive: the kernel delivers.  Not fair: what the child does of itself, exit, stop,
  go on or start others.
- The other modules have no liveness property: their calls are loops over finite data,
  and a call that does not return would show as a missing step, not as fairness.

## The proofs

Liveness under fairness, `ENABLED` and what recursive functions compute are beyond
the prover used, and stay with TLC; so does everything not named here.

`OnceProofs` (for any threads, flags, nesting and number of exceptions; assumption
`OnceAssumption`: a function calls downwards only, as `_once.h:53` demands)
- `TypeCorrect`: `TypeOK` is inductive by itself.
- `OneRunnerAlways`.  `OneRunner` is not inductive: `RunReturn` and `RunThrow` of one
  call change the program counter of the call that it is nested in, so one must know
  that a thread's calls form a stack.  `StackInv` says so without a stack: of the
  calls a thread is in, the one not in state "nested" has the lowest flag, a nested
  call's callee is active, and no active flag lies between a nested call's flag and
  its callee.
- `PublishedAlways`.  Needs, besides, `MutexInv` (who is "holding" holds the mutex)
  and `ViewInv`: a done flag carries its function's writes, and so does the mutex or
  its holder, and a function that has returned has its own and its callee's.
- `NoLostWakeupAlways`: inductive together with `TypeOK` and `StackInv`.

`LocaleRefsProofs` (for any threads, handles, bodies, slots and facets; assumptions
`LocaleAssumption` and, that the switch is one, `LongNamesAssumption`)
- `CountExactAlways`, `NoDanglingAlways`, `CustodyAlways`, and the three together as
  the run has them, `ReferencesRightAlways`.  The inductive invariant is `BodyInv`:
  `BodyTypeOK`, `Rooted` (the classic body's own reference and the global's are never
  given up), `Place` (where a thread's references are at each of its steps: without it
  an increment might count an owner twice), and the three.  A count is the
  cardinality of a set of owners, so the lemmas `Gain`, `Lose` and `Move` say how it
  changes when an owner takes, gives up or hands over a reference; each action that
  touches a reference is one lemma that cites one of the three, and the others leave
  everything alone (`QuietStep`).
- `FacetsLiveAlways`, `FacetsRightAlways`, `NameTellsAlways`.  The inductive invariant
  is `FacetInv`, over `BodyInv`.  A facet's count is the cardinality of the set of its
  places in bodies and the number of references that are the program's own (`HolderGained`,
  `HolderLost`, `HoldersForgotten`).  `RefsCounted` says that it is at least that, which is
  all that `FacetsLive` needs and is so whatever throws, and exactly that if the memory for
  names can be had (`~LongNames`); `HeapKept` says of that case who has a facet on the heap,
  and `Programs` which facets can be the program's.  `FacetsRightAlways` is therefore of
  `~LongNames`, the other two of both.  Why a facet is alive between being read out of a
  body and being counted, and why a name tells the facets, depends on how far the
  construction has come: `Stage` says it for each step, in `Combination` (what of the
  two locales is in the new body, what is still to be taken) and `Naming` (which slots
  the factories have filled).  A thread that is unwinding gives back what it has taken
  and nothing else (`Gift`, `Aside`).
- `LocalesAreValuesAlways`: `LocaleRefs` implements `LocaleValues`.  The value of an
  object is that of its body; the map is total because of `BodyInv`, a live body's
  value does not change (`LiveKept`), and each action is one of the abstract copies,
  destructions, exchanges and constructions, or a stutter.
- The counting lemmas need finite sets of bodies; `LocaleAssumption` says so, and that
  "no body" is none of the values.

`ProcessProofs` (of `MCProcess`, whose parts share no state; for any instance that
fulfils `SetLocaleAssumption` and `ProcessAssumption`, which are the parts' assumptions
together; the properties are those that the run `process` checks)
- `IdsRightAlways`: `IdInv` is `IdType`, `Guarded` (who is between the lock and the store
  has the guard, and the generator's value is no type's id when it is about to be
  stored), `Distinct` and `Stored` (an id returned is the one stored).
- `CatalogsRightAlways`, if no catalog is closed while it is read (`~CloseInUse`; what
  happens otherwise is in the table of divergences).  `CatInv` says besides what each
  handle leads to (`Entries`), that nothing in use lies behind the largest handle
  (`Behind`: without it the array could be cut off above an open catalog), what the two
  counters count (`Counts`), and that what a `get()` holds without the guard is still
  there (`Reading`).  The next free handle and the new largest one are a least and a
  greatest element of a set of numbers; that these exist is derived from the
  well-foundedness of the strict subsets of a finite set (`Least`, `Greatest`).
- `StreamsRightAlways`, if no `Init` is constructed once the last one is being destroyed
  (`~LateInit`).  `StreamInv` takes from `Once` that who has seen its flag sees what the
  function wrote (`Carried`, `Sees`), and adds that the count is of the objects there are
  (`Counting`: a cardinality over the threads, which are finitely many), that one thread
  at most flushes (`Ending`), and where the characters of each stream are (`Arrives`).

- `CLocaleAlways`.  `CLocaleRight` is not inductive: what a scope restores is what it
  has saved.  `CInv` says for each thread (`Own`) that it holds the lock at the steps
  that have it, that up to the setting the C locale is the program's, and how what
  is saved relates to the program's.  The lemma `Harmless` covers the steps that change
  nothing that another thread's `Own` speaks of, `Alone` that two threads are never both
  inside.
- `GlobalAgreesAlways`, if one thread calls `locale::global()` (`OneCaller`): `GInv`
  adds that between its two steps the C locale is set to what the C++ one will be.

`StringRepProofs` (for any finitely many threads and strings, any bodies and values;
assumption `StringRepAssumption`)
- `BodiesRightAlways`.  A body's count is one less than its strings while it is not
  being changed, but a call may have taken a reference it has not stored, or given up a
  string whose count it has not lowered.  `Counted` says that the count is the sum, over
  the calls and the strings, of what each has (`Tally` and `OneOwner` are the lemmas about
  the sum when one of them changes).  `Given` is about references into a body that the
  program holds, `Exclusive` about who may write, `Place` about what each call has at each
  step.  The lemmas `Apart` and `Others` say that a call does not disturb another's.
- `StringsAreValuesAlways`: `StringRep` implements `StringValues`; a call takes effect at
  the step that stores `_C_data`, or at its only step, and every other step stutters.

`IosStoreProofs` (for any streams, callbacks, indices, formats and depth of calls;
assumption `IosStoreAssumption`)
- `AsWantedAlways`, for all values of the switches.  `DataInv` adds types and what a
  call that copies from another stream has in hand (`Copies`).
- `EventsDeliveredAlways`, if no stream is tied before it has user data (`~TieFirst`).
  `EventInv`: what a call has called, followed by what it has yet to call backwards, is
  what was due; the lemmas are about `Reverse`.
- `NothingStaleAlways`, if no callback copies to the stream whose copy fired it
  (`~CopyWithin`) or registers another in a destructor (`~RegisterInDtor`).  `RunInv` is
  about the stack: every call but the last is inside a callback, a call of `copyfmt()` or
  of the destructor has no other of the same stream above it, one that fires its erase
  event still has the user data that it is going to replace (`Keeps`), and exactly the
  last call's stream is locked.

`FacetDataProofs` (for any threads, any number of throws, with and without a database)
- `DataRightAlways`.  Loads return any value that is not older than what the thread has
  seen, so `FInv` is about views as much as about values: `Held` (locks), `Once` (the data
  is stored once, after its content), `Ptrs` (who has a pointer sees the content), and how
  a thread that finds nothing under its lock knows that nothing is there: `Mapping` for
  the facet's lock, `Building` for that of the C library's locale.

`ExecWatchProofs` (for any number of targets and of requests to terminate)
- `ChildWatchedAlways`.  What the property says of the end of a wait needs what is so
  before: `Grouped` (a child that is stopped, signalled or has ended has made its group,
  so `ESRCH` never hides it from the clean-up), `Asked` (an alarm, and the interruption it
  makes, is of a child with a time limit or of a driver that is to end), `Killed` (once
  KILL was sent nobody who can be ended survives or starts others) and `Signalled`.

`DequeProofs` (for any buffers, any number of elements in a buffer and any limit of the
map, and for any values, numbers of elements and lengths of insertions; assumptions
`BAssumption`, `LimitAssumption`, `NoBufAssumption` of the storage, and
`ElementsAssumption`, that values, which are handles for what `T` holds, are numbers
other than the mark of a raw cell; all three theorems are of `MCDeque`'s `MCSpec`, of
which each step is one of `Deque` or one of `DequeShift`)
- `StorageRightAlways`.  `StorageRight` is about the storage between calls, so it is not
  inductive.  `DInv` says what is so during a call.  The elements are in the cells of a
  row (`Holds`), wherever the slots of these are in the map.  Between calls (`Resting`)
  one span of slots owns the buffers and the iterators name the buffers of theirs
  (`Valid`).  A reservation is `Allocating`, when the slots that had buffers, those that
  have been given new ones, and those still to be given one lie side by side and together
  hold the room, while the iterators may name the wrong buffers; or it is `Building`, when
  the deque is `Valid` again and the cells of the room are constructed up to the cursor.
  Meanwhile it is `Undoable`: `_C_restore()` would at this moment give the deque of before.
- Iterators are numbers: `Pos` numbers an iterator by `slot * B + offset`, `Spot` is the
  iterator at a number, and `++`, `--`, `+=` add to the number whatever slots they cross
  (`IncSpot`, `DecSpot`, `PlusSpot`; division and remainder by a variable B are beyond the
  solver, which is why `DivMod` and `OneWay` come first).  The walk is a recursive
  function: `WalkSpot` says where it is after n steps, by a least counterexample (`Least`).
- What a reservation plans is right (`PlanRight`: the room suffices and the slots that are
  reused have no element) and there are always slots for it (`RoomExists`: the check for
  the length inside `_C_prepare` cannot fire).  Recentring, transferring the spares and a
  new map have in common that the slots of the span keep their cyclic order (`Rotated`,
  `Turned`): no buffer is lost or doubled (`RotatedBufs`), and the elements are in the cells
  they were in (`TurnedEnds`).  `BodilyBack` and `SlidBack` undo the two moves within a map.
- `FailureUndoneAlways`, from `Undoable`: an action property, of every failure at every step.
- `CallRightAlways`.  A call is a list of operations, of which `CallRight` sees the first
  only.  `ElementsInv` is about all that are left (`Running`): each is on a cell in the
  right state when its turn comes, and together they lead to cells that hold what was
  asked for (`Leads`, which gives the cells after each of them).  The destructions come
  last, and until the first of them the objects are the elements and those the call has
  made (`Kept`), so that clearing the latter leaves exactly the elements when an operation
  throws.  What the lists are is the long part: `Way` says what constructing, assigning,
  copying forwards and copying backwards each lead to, and these are put end to end for
  the branches of `InsertProg` and `EraseProg`.  It is there that the order of shifting
  and filling, and `Source`, which keeps a reference to an element from being read after
  the shift, are needed.  Nothing is induced over the list: the cells after each operation
  are given as a function, and only a list's beginning and end are ever taken off.

### Only model-checked

- Liveness: `CallsEnd` of `Once`, `FacetData` and `SetLocale`, and `WaitEnds`.
- What is computed by recursion over data: `StringOps`, `Vector`, `List`, `Ranges`,
  `Sorting`, `Algorithms`, `Numbers`, `Istream` and `StringBuf`, and so `MCIosStore`'s
  and `MCSequences`' properties about them.  `TreeRight` and `ReturnsRight` of `RbTree`
  speak of the sequence that a walk of the tree yields.
- `PosRight` and `ContentRight` of `FileBuf`: no obstacle of principle; not proved.

## Where the code does not do what it says

Each was met while modelling.  The last column says how to see it: a run, or a passing
run's configuration with a constant or a property changed (the table above has the
constants' other values).

| where | what happens | what says otherwise | reproduce |
|---|---|---|---|
| `include/fstream.cc:899` | a seek keeps the characters saved for putting back: `sungetc()` then moves the stream before the place sought, and a read returns a character of another place | `fstream.cc:723`: sync "also invalidates the get/put area" | run `filebuf_seek` |
| `include/fstream.cc:810` | `sync()` after a `sungetc()` over the beginning of the last fill seeks wrongly | `PosRight` | `UngetAcross` |
| `include/fstream.cc:659` | `setbuf()` to a smaller buffer keeps areas that reach past its end | `_C_is_valid()` | `ShrinkRead` |
| `include/fstream.cc:435` | an unbuffered `sputn()` after reading keeps the get area and its position | `PosRight` | `SputnUnread` |
| `include/fstream.cc:563` | in append mode the remembered position ignores that `write()` went to the end, so `in_avail()` is wrong | `ReturnsRight` | `MCFileBuf_seek.cfg` with `UngetAfterSeek = FALSE`, `Modes = {"inapp"}`, `ReturnsRight` |
| `include/sstream.cc:131` | growth sets the get pointer back to the beginning: characters are read again | `StringBufRight` | `GrowRead` |
| `include/sstream.cc:184` | `xsputn()` of the buffer's own characters takes the offset with the wrong sign | `TODO:245` records it | `OwnSource` |
| `include/sstream.cc:92` | `str()` frees the buffer before it allocates one, and keeps the pointers if that throws | `StringBufRight` | `StrThrows` |
| `include/rw/_stringio.cc:102` | `>>` into a string also extracts the space it finds in the get area; its width is ignored when the end of the string is found there, and it takes n-1 characters and sets failbit when the area has more than n | `tests/strings/21.string.io.cpp:280` to 300 expect the width obeyed | `StringArea` |
| `include/istream.cc`, `read()` | a buffer that throws makes it set eofbit and failbit besides badbit and count nothing | `InputRight` | `ReadThrows` |
| `include/istream.cc`, `get()`, `getline()` | `get (s, 0)` writes `s [0]`; the array is left without its terminator when the buffer throws | the standard | by reading |
| `src/strtol.cpp:263` | the test for overflow in octal and hexadecimal misses some numbers (1ffffffffffffffff with 64 bits) | `strtol.cpp:389`: `ERANGE` | `LongShift` |
| `include/loc/_num_get.cc`, detected base | `0010` is read as decimal ten and `08` as eight; `0x-12` is read; the group after `0x` is counted one short | `%i` of `scanf` | `AutoOdd` |
| `src/num_put.cpp`, octal with base and groups | reading the number back sets failbit | `NumbersRight` | `OctalBase` |
| `src/locale_combine.cpp:268` | when the memory for a combination's name cannot be had, the references to its facets are not given back | `doc/notes/ref-locale.md:458`: "A library-made named facet dies with the last locale that holds it" | `LongNames` |
| `src/setlocale.cpp:88` | `new char[size]` throws with the lock held, and no destructor will release it | `setlocale.h:47`: "dtor then resets the global C locale ... and unlocks" | `MCProcess_all.cfg` with `LockScoped` |
| `src/setlocale.cpp:82` | an early return leaves the name null | `setlocale.h:56`: "will not be 0" | by reading; `saved` stays empty after `Query` |
| `src/messages.cpp:133`, `:146` | an `open()` that throws leaves the C library's catalog open | `CatalogsRight` counts it in the ghost `lost` | in the passing run |
| `src/messages.cpp:307` | the locale and text that `get()` uses after the guard's release go with a catalog closed meanwhile | `CatalogsRight` | `CloseInUse` |
| `src/iostream.cpp:278` | what is written between the last flush and the change to no buffer, by a thread whose `Init` is not the last any more, stays in the buffer | `StreamsRight` | `LateInit` |
| `src/iostream.cpp`, `Init()` | the count stays one too high when the construction of the streams throws | `StreamsRight` counts it | in the passing run |
| `util/exec.cpp:487` | a signal between the test of `alarm_timeout` and `waitpid()` is lost: the wait goes on until the child ends | `exec.cpp:427`: "To prevent the child process from running forever" | `MCExec_all.cfg` with `WaitAlwaysEnds` |
| `util/runall.cpp`, `merge_argv()` | `isspace (target [tlen])` tests the terminator; the array is reallocated one pointer short | | by reading |
| `src/ios.cpp:271` | a stream tied before its first callback never fires events | `iosdata.h:61` | `TieFirst` |
| `src/iostore.cpp:324` | `copyfmt()` goes on with user data that a callback of its erase event may have replaced | `iostore.cpp:167` | `CopyWithin` |
| `src/ios.cpp:82` | the destructor calls callbacks out of the stream's own array, which a callback that registers another frees | `ios.cpp:75` | `RegisterInDtor` |
| `include/string.cc:301` | the test for a source in the own buffer does not count the terminator as in it | `doc/notes/ref-string-replace.md:195` | `Terminator` |
| `include/vector.cc:166` | an insertion in place of several copies of an element of the vector copies it after it was overwritten | the standard | `OwnValue` |
| `include/vector.cc:355` | `assign` allocates whenever the capacity is less than the old size and the new together | its comment: "nothrow if size() >= distance" | by reading |
| `include/list.cc:242` | `remove()` of an element of the list goes on comparing with it when it is erased | the standard | `RemoveOwn` |
| `include/list`, range `splice` | asserts 23.2.2.4, p12 with the wrong iterators | `TODO:294` | by reading |
| `include/rw/_tree.cc:101` | the copy constructor never destroys the values copied before the one that throws | `_tree.h:360` | by reading; the state "broken" |
| `include/rw/_tree.cc:185` | a comparison that throws when an insertion has made its node: the node is in no tree and never destroyed, and `size()` stays one too high | `_tree.h:360`: "Every call to _C_get_node must eventually be followed by a call to _C_put_node" | `LateThrow` |
| `include/rw/_tree.cc:69` | an assignment that throws leaves `begin()` at a node of a tree with no root | `_tree.h:396`, the comment on `_C_end` | `MCRbTree_all.cfg` with `MaxSize = 4`, `CornersAgree` |

## What is not modelled

- Text: the format of locale names, conversion of characters, messages, date
  formatting, the contents of databases.  `StringOps`, `StringBuf`, `Numbers` and
  `Istream` are the modules about characters.
- The locale compiler and its tools: batch programs whose output is data.  They are a
  large part of the repository's lines, as are the tables and the facets that look
  things up in them, which is why the modules cover a tenth of the lines only.
- `codecvt` and ISO 2022, which by `TODO:89` does not convert; `ctype`, `collate`, the
  time and money facets; `bool`, `void*` and `long long`, whose code repeats that of the
  other integers, and floating point, which the C library reads and writes; the growth
  of number buffers and padding.
- `strstreambuf`; output streams, which only call facets and buffers; `putback`,
  `unget`, `tellg`, `seekg` and `sync` of input streams, which forward to the buffer.
- `bitset`, `valarray`, `vector<bool>`; constructors and `resize` of the sequences, and
  their members on input iterators; algorithms that visit each element once, numeric
  ones, iterator adaptors.
- The driver's options, limits and the parsing of what a target prints.
- Within modelled components: precision, width and `xalloc()` of a stream; failures
  of `read()` and `write()` under a filebuf; iterators' templates of `string`; staging a
  source range for `deque::insert`.
- Memory models: an atomic operation is one step, and acquire/release is modelled
  where the code reads without a lock (`Once`, `FacetData`, `FacetId`).  Mutexes exclude.

## The plan

Done, in order of importance: `Once` with proofs; `LocaleRefs` with `LocaleValues` and
proofs of both; `FacetData` with proofs; `SetLocale` with proofs; `StringRep` with
`StringValues` and proofs of both; `StringOps`; `IosStore` with proofs; `FileBuf`;
`RbTree`; `Deque` with `DequeShift` and proofs of both; `Messages`, `ExecWatch`, `StdStreams` and `FacetId`,
all four with proofs; `Vector`, `List` and the algorithms; `Numbers`; `Istream`;
`StringBuf`.

To extend the model:
1. `strstreambuf`, and the positions of `seekg` and `tellg` over a buffer that fails.
2. `codecvt`: partial conversions and shift states under `FileBuf`.
3. `time_get`: which fields a format leaves unset.
4. An abstract sequence with throws that `Deque` composed with `DequeShift` implements.

To prove:
1. `FileBuf`: `PosRight` and `ContentRight`.
2. `RbTree`: the links and colours between two calls.
