# CMASan: verification of the run time for custom allocators

CMASan makes AddressSanitizer (ASan) aware of custom memory allocators (CMAs).
A compiler pass wraps the ALLOC, FREE, REALLOC, CLEAR and GC functions of a
program's allocators with hooks; the run time keeps a record for every chunk,
poisons redzones and freed chunks, and delays frees in a quarantine zone per
allocator instance.  This directory holds TLA+ modules of that run time, their
TLC configurations, and proofs for TLAPS.

Paths below are relative to the repository, which the modules call `src/`; the
run time is `LLVM/src/compiler-rt-files/` (called RT here).

## Inventory

| part | state | operations | hard behaviours |
|---|---|---|---|
| quarantine zones (RT/asan_allocator.cpp 1080-1205, 1249-1258) | per identifier a list of chunks, its size and its number | pushPtr, popPtrIfMax, isChunkValid, emptyQuarantineOnGC | entries that went stale while they waited; counters apart from the list; limits; a reset without the lock |
| allocator hooks (1403-1472, 1518-1619) | the record and the shadow of every chunk, the mutex | allocate, release, reallocateStart, reallocateEnd, clear | several critical sections per call; reports with the mutex released; the allocator's own code between two hooks |
| allocation lists (1214-1309) | per identifier the recent allocations | add with wrap, walk on CLEAR, reset on GC | stale entries, memory shared by instances, wrap, no lock |
| two-layer table (RT/asan_utils.cpp 43-67, 307-318, 547-714) | a table of granules that point to shared, counted records | tlt_get, tlt_insert, tlt_update, tlt_release | overlapping chunks, shared records, page boundaries, range loops |
| chunk geometry (asan_allocator.cpp 42-45, 405-418, 1387-1401, 1474-1516) | none | extendSize, redzone sizes, poisoned ranges | overflow, rounding, unaligned starts, size zero |
| coupling with the standard allocator (605-609, 677-683) | shares the table | tlt_release on malloc, tlt_update on free | memory of a CMA that is freed and handed out again |
| address tables (asan_utils.cpp 141-305, 320-410, 465-517) | ranges of CMA functions | reading at start, call-stack tests | relocation by the first line, limit checked after the write, stacks cut off at five frames |
| instance map (asan_utils.h 304-378) | a hash map | find, insert | creation without a lock |
| reports (asan_report.cpp, asan_errors.cpp, asan_descriptions.cpp) | none | ReportDoubleFree, ReportGenericError | reading records without the mutex; going on after a report |
| instrumentation pass (LLVM/src/llvm-files/AddressSanitizer.cpp 664-1121) | IR | wraps the five kinds of functions | order of hooks, FREE functions that return a value |
| plugin, scripts, logging, benchmarks | - | - | offline or for measurements only |

The parts meet in the hooks.  A hook takes `_tlt_chunk_info_mutex`, finds the
record of the chunk in the two-layer table, changes its status and its shadow,
and pushes it into or pops another one from the zone that the record names.
The pass runs the body of FREE with the pointer the hook returns, or not at all
if that is null.  REALLOC functions often call FREE inside: the start hook sets
the status IN_REALLOC so that the nested FREE can tell.

What makes the parts correct: a chunk the program holds is accessible and has
its redzone; a chunk it has freed is poisoned until its address is handed out
again; a correct program is never reported; and the allocator sees each of its
addresses come back exactly as often as they are freed, never while it has them
already.

## Modules

| module | content |
|---|---|
| `QuarantineZone` | a zone as a record of list and counters, with push, pop and reset |
| `CmaRuntime` | the hooks, run by several threads around the bodies of the allocator's functions; the properties |
| `CollectSteps` | push, pop and the reset of GC for one zone, one access to memory a step |
| `ZoneOperations` | the abstract specification of a zone: the operations of `QuarantineZone` as steps |
| `MCCollectSteps` | its instance for TLC |
| `ChunkCycle` | the abstract specification: the cycle of an address between allocator, program and quarantine |
| `TwoLayerTable` | the table of granules and its shared, counted records, with the loops of tlt_update and tlt_release |
| `CmaArenas` | the table between malloc, free and the hooks; its properties |
| `ChunkMap` | the abstract specification of the table: a map from granules to the chunks inserted last |
| `MCCmaArenas` | its instances for TLC |
| `ChunkGeometry` | extended sizes, redzones and ends of chunks, with the width of a word |
| `ShadowHeap` | an arena of chunks, their records and the shadow of every granule, under all hooks |
| `MCShadowHeap` | its instance for TLC |
| `PcTable` | the tables of CMA functions: how they are filled, how a call stack is looked up in them |
| `HookNesting` | a thread that calls functions: which of them the hooks act for, which accesses the filter lets pass |
| `MCHookNesting` | its instance for TLC |
| `CmaRuntimeInv` | the inductive invariants |
| `MCCmaRuntime` | the instances TLC checks |
| `CmaRuntimeProofs` | type correctness, the limit and the counters of a zone, what stops while a collection runs |
| `CustodyProofs` | custody: who answers for an address; from it what is returned, and what waits in a zone |
| `CycleProofs` | the hooks implement `ChunkCycle` |
| `GuardProofs` | poison, false reports and lost addresses |
| `ArenaProofs` | the table: counts, records of chunks in use, the refinement of `ChunkMap` |
| `ChunkGeometryProofs` | sizes: nothing shrinks, a redzone fits |
| `ShadowHeapProofs` | all six properties of `ShadowHeap` |
| `HookNestingProofs` | all three properties of `HookNesting` |

Definitions named ...Unless, ...Not, ...Keeping and the like, marked "Mutant",
are altered copies of the definition behind them, as a plausible bug would
have it; each shows that a property can fail.  No specification uses them.

### Correspondence

`info[p]` is the record `tlt_get` finds at the start of a chunk (status and
cma_id; `Untracked` is no record or status NONE).  Chunks do not overlap in this
module, so the test `start_addr != ptr` never succeeds.  `shadow[p]` tells three
states of a chunk's shadow apart.  `zone` and `alz` are the two instance maps
with every key present; `alz` holds the first `pos` entries of a list, which is
all the code reads.  `mutex` is the mutex when it is held across steps: a
critical section that cannot be interrupted is one action guarded by
`mutex = NoThread`, and only the loop of `popPtrIfMax` runs as several steps.

| action | code |
|---|---|
| AllocateCMAChunk | `__asan_allocateCMAChunk` |
| ReleaseInRealloc, Release, Shrink, ReleaseAfterReport | `__asan_releaseCMAChunk`: first and second critical section, one iteration of the loop of `popPtrIfMax`, the part behind a report that returns |
| ReallocateCMAChunkStart, StartAfterReport | `__asan_reallocateCMAChunkStart` |
| ReallocateEndNull, ReallocateCMAChunkEnd | `__asan_reallocateCMAChunkEnd` |
| ClearCMAChunks | `__asan_clearCMAChunks` with the body of CLEAR |
| EmptyQuarantineOnGC, CmaCollect | `__asan_emptyQuarantineOnGC`; the body of GC |
| CmaAlloc, CmaFree, CmaRealloc* | the bodies between the hooks; external, any allocator that keeps its own books right |
| FreeCall, ReallocCall | a call by the program |

`__asan_emptyQuarantineOnGC` is called at the entry of a GC function and takes
no mutex; the body of the function runs behind it.  `CmaRuntime` has the two as
two steps, and takes a collection for one that stops the other threads outside
of the functions of the CMA from the first step to the second (`Running`), as
tracing collectors do.  The code does not see to that.  What another thread can
do between two accesses of the hook, or between the hook and the body, is the
subject of `CollectSteps`.

A second FREE is reported only if the whole call stack shows no other CMA (line
1421), while whether a hook is nested is decided from five frames.  So a second
FREE deep below another CMA function is not reported, and pushes its address
into the zone again.  With `DeepFrees` the model explores that (run realloc);
`HandBackSound`, `QuarantineHeld` and `NotQuarantinedTwice` are claimed of
programs whose double frees all end the process (`Contained`).

A program passes pointers it holds, to the instance they are from.  With
`faulty` it also passes pointers it has freed; its REALLOC of such a pointer
comes after the calls it repeats have returned.  CLEAR is called while no other
thread is in a call of its instance, as such functions require.

`CollectSteps` is one zone and the three fields of it that GC writes, with one
step for each access to one of them; the number of chunks, the records and the
CMAQuarantineChunks are touched with the mutex held only, and their accesses
are part of the step before or after.  The list is a chain of nodes that are
allocated (`inUse`) and freed, the counters wrap at `WordSize`.  `stops` tells
the two kinds of CMA apart: one that stops its threads outside of its functions
to collect, and one that collects while they run.  `crashed` ends a behaviour
that dereferences a null pointer or passes the CMA an address it does not have.
One thread collects at a time, memory is sequentially consistent, the zone is
there from the start, the program frees nothing twice, and the allocation list
is left out.  For a CMA that stops its threads, `FollowsOperations` maps the
accesses to the operations of `QuarantineZone`: that is why `CmaRuntime` may
take a push, an iteration of the loop of popPtrIfMax and a reset for one step
each.

| action of CollectSteps | code |
|---|---|
| Free | `__asan_releaseCMAChunk` up to `pushAndPopFromQuarantine` |
| ReadLimits, LoadFirst, ReadSize, Uncount, ReadFirst, CompareEnds, DropFirst, DropLast, Advance | `popPtrIfMax`, lines 1162 to 1187 |
| ReadSizeToAdd, Count, TestFirst, SetFirst, LinkLast, SetLast | `pushPtr`, lines 1123 to 1136 |
| ResetSize, ResetLast, ResetFirst | `__asan_emptyQuarantineOnGC`, lines 1255 to 1257 |
| CmaAlloc, CmaFree, CmaCollect | the bodies of ALLOC, FREE and GC; external |

`TwoLayerTable` counts in bytes.  `top` is TopLayerTable with the second layers
it points to, `rec` the memory of the records; a freed record is `Unused` and
may be used again at once, so that a reference kept too long would show another
chunk.  A record's `size` is chunk_size + rz_size, of which only the sum is
used.  The loops are recursive functions from an offset to the records found
behind it, and follow the code where it takes an address for an offset
(`ReleaseWholeChunk`).  Whether a second layer comes from the block set aside
at start or from mmap makes no difference and is left out.  `CmaArenas` adds
malloc and free, which call tlt_release and tlt_update, and the hooks that
insert records and write their status, all under the mutex and so one step
each.  An in-place REALLOC (`ResizeChunk`) gives the old record the status
DEALLOCATED, which granules behind a chunk that shrinks go on to show, and
inserts the new one.  `block` and `chunk` are what malloc and the CMA have
handed out.

`ShadowHeap` takes up what `CmaRuntime` leaves out: chunks have bytes, lie beside
each other at any alignment and share granules, so that `info` becomes `map`,
from granules to records, and `shadow` a byte for each granule.  It has one
thread and the quarantine on; which chunk leaves the zone is left open, at most
one for each push.  The memory for a request of no bytes (`ZeroBytes`) is at
least a granule; ASan's own redzone behind the arena is the granule number
`Granules`.

| action of ShadowHeap | code |
|---|---|
| AllocateCMAChunk | the body of ALLOC, `__asan_allocateCMAChunk` |
| ReleaseCMAChunk, ReleaseInRealloc | `__asan_releaseCMAChunk`, its two critical sections |
| ReallocateCMAChunkStart, FreeWithinRealloc, ReallocateEnd* | REALLOC: its start, a FREE in its body, its end for each outcome of the body |
| ClearCMAChunks, FlushMmapRange | `__asan_clearCMAChunks`; `__asan_flushMmapRange` |

`PcTable` reads the list one line a step: the point of reference, functions of
the program, functions of libraries that dlsym finds or does not find.  Its
constants are what the compiler, the scripts and the loader have determined.
In `HookNesting` a frame holds its function, a program counter in it and, for
an instrumented function, whether its entry found itself nested.  The list is
read before the program runs.  `Visible` is the five frames that
`__asan_isInOtherCMA` unwinds, without the run time's own.  `CMASanOnDlOpen`
changes nothing but that the plugin may be called: the code looks for the file
`<path of the library>/<name>.cmasan.pc`, which cannot exist, since the library
is a file and no directory, and returns.

## Runs

`p1..p4` are addresses, `i1, i2` instances.  Three addresses suffice for a zone
of two, a chunk that leaves it and a chunk in use; two threads for every race
between two critical sections.  `NumBound` and `AllocBound` cap a counter that
collections never reset and the allocation list; they bound only what is
explored.

| run | instance | shows |
|---|---|---|
| threads | 2 threads, chunks of sizes 5, 3 and 1, zone of size 5 and 2 chunks, so that either limit decides | poison, custody, counters and limits under concurrent ALLOC and FREE, reported double frees included |
| realloc | 1 thread, 2 instances over the same memory, reports do not halt, second FREEs that are not reported | REALLOC in its three forms, an address that changes instance, life after a report |
| collect | 2 threads, zone of 1 chunk, every end of a REALLOC, GC that stops the other thread | custody and the cycle with collections, their hook and body apart |
| clear | 1 thread, 2 instances over the same memory, quarantine off, lists of at most 3 of 5 | CLEAR poisons what it takes back |
| zone | 2 threads, zone of size 3 and 2 chunks, chunks of sizes 3 and 2, 3 nodes, words below 10; GC of both kinds | the accesses of push, pop and reset: no node is used after its release, the limit holds, the mutex is released; for threads that are stopped, the refinement of `ZoneOperations` |
| arenas | 5 granules over two second layers of 3, 4 records, blocks of 16, 20 and 40 bytes, chunks of 8, 12 and 24 bytes that start at or within a granule | reference counts, the records of live chunks, the refinement of `ChunkMap` |
| shadow | 10 granules, chunks at 4, 12 and 44 (none aligned), requests of 9 bytes, of one element of 12 and of none | access, redzones, poison and records of neighbours under every sequence of hooks |
| nesting | 8 functions at up to 6 frames, three lists (complete, without the program's CMA, too long) | one hook per request, an exact filter, tables within bounds |
| malloc_keeps_records | the same as arenas | finding |
| clear_returns_twice | CLEAR with the quarantine on | finding |
| realloc_race | 2 threads, nested FREE | finding |
| gc_race | the instance of zone, GC that stops nobody | finding |

In `zone` three nodes are a list of two and the one that is being linked.  A
CMA that stops its threads has three addresses, one in the hands of each thread
and one in the zone or two in the zone; for the other one two do, as an address
that is collected while it is listed comes back at once.  In words of ten a size
that has fallen below zero is no smaller than the maximum of the zone, as in
words of 64 bits.

In `arenas` four records allow two chunks in use over the remains of two older
ones; a chunk is only inserted while a record is free.

In `shadow` the starts lie so that a chunk ends in the granule in which the next
one begins, so that a moved chunk overlaps its old place, and so that one ends
at the end of the arena.  A word of 16 bits is wide enough for no product of
the run to wrap.  Six frames in `nesting` put up to four between a CMA function
and the one that called it, one more than can be seen.

Deadlock is off where a report ends the process (`threads`, `realloc_race`, and
`collect`, where a coarse granularity makes a false report possible); the
threads then stop for good.  It is off in `zone` and `gc_race`, where a
behaviour ends with a null pointer, and where a CMA may have no address left to
hand out.  It is off in `nesting`, where a list that is too
long aborts the process.

Fairness: `CollectSteps` has weak fairness of what a thread does with the mutex
held (`Section`).  Nothing there waits, so a scheduler that runs every thread
again and again gives it.  None is assumed of the program, the allocator, the
wait for the mutex or a collection.  `MutexReleased` is the one liveness
property: the loop of popPtrIfMax ends, over entries that are stale because the
CMA has collected and handed out what the zone listed, and with links that a
reset takes away in the middle of an iteration.  The other modules need no
fairness.

### Findings

* CLEAR does not look at the quarantine zone (`HandBackSound` in
  clear_returns_twice): an address the allocator took back is freed again.
* `reallocateCMAChunkEnd` acts on the old address whatever happened to it since
  the nested FREE (`NoFalseDoubleFree` in realloc_race): a false report.
* The hook of GC resets the zone before the body of GC runs, and stops nobody
  (`HandBackSound` in gc_race): a chunk that another thread frees in between is
  collected while the zone lists it, and freed again by the CMA's own FREE.
* `tlt_release` looks at one or two granules of its range (`ReleasesRange` in
  malloc_keeps_records): records of old chunks survive in a new block.

Met while modelling, and not listed as runs:

* A REALLOC that returns null leaves IN_REALLOC behind (line 1563): the chunk's
  later FREE takes the path for chunks in reallocation and does not poison it,
  and no end of a REALLOC follows.  `realloc` has no such REALLOC; with "fail"
  among its ReallocKinds, `DanglingPoisoned` is violated.
* A collection does not reset the number of chunks (1255): the zone is taken
  for full, and evicts what it has just taken in.  With "GC" in the Api of
  `threads`, `EvictsOnlyWhenFull` is violated.
* A collection that runs against FREE may zero the size before it is
  decremented, which then wraps (1167); may zero `last_chunk` between the test
  of `first_chunk` and the link through `last_chunk`, a null pointer (1135);
  and may zero both before `first_chunk` is set to the next chunk (1180), which
  leaves `last_chunk` null behind a list.  `zone` explores all three.
* A second FREE deep below another CMA function is not reported and lists its
  address twice (1421, see above).
* CLEAR does not check whose chunk a record is (1292).  Where instances share
  memory it poisons the live chunk of another one; `LiveGuarded` does not hold
  in `clear`, and is not claimed there.
* A report that does not halt lets the rest of FREE run without the mutex, and
  release it a second time (1422).  With two threads nothing keeps the other
  one apart then; `realloc` goes on after a report with one thread.
* After an in-place REALLOC whose granularity is too coarse the live chunk
  stays DEALLOCATED, and its next FREE is reported.
* `allocateCMAChunkImpl` returns at once if the granularity leaves no room for
  a redzone (asan_allocator.cpp 1480).  On memory of a freed chunk the old
  poison and record stay, so the program is reported for using its chunk.
  `HeapAssumption` excludes such requests.
* `size * granularity` is not checked for overflow (1392); a product that wraps
  gives a small extended size.  `Fits` of `ChunkGeometry` excludes it.
* `__asan_flushMmapRange` passes the size of munmap to PoisonShadow, which
  CHECKs that it is a multiple of a granule (1353).
* Unpoisoning a new chunk reaches one granule beyond its end (1504), which
  opens the first granule of a freed neighbour, or of ASan's redzone.
* A chunk of size zero is accessible, although a comment (1486) takes it for
  inaccessible.
* `CMASanOnDlOpen` never finds the cache of a library (asan_utils.cpp 330; the
  scripts write it to `<path>.cmasan.pc`).  Were it found, the loop would give
  the white list ends from the other table, count entries in the wrong counter
  and look up every line under the name in the first.  So the functions of an
  opened library are in no table: they are hooked within other CMAs, and their
  own accesses are reported.
* `__asan_isInOtherCMA` sees three callers (asan_allocator.cpp 1383) where a
  comment in the pass (AddressSanitizer.cpp 914) speaks of the call stack; two
  functions of a CMA further apart both hook a request, and so do the levels
  of one that calls itself.

## Proofs

For any numbers of threads, instances and addresses and any limits.  Where GC is
among them, the theorems are about collections that stop the other threads
outside of the CMA; for others gc_race refutes most of them.  `Stopped` is the
part of the invariants that says so: while a thread is between the hook and the
end of the body of GC, the others are idle and the zone lists nothing.

* `TypeCorrect`: `TypeOK /\ Located`.  `Located` says what a thread holds at each
  location; types alone are not inductive, as the actions read `info[ptr[t]]`.
* `NumAlwaysWithinLimit`: from `Counted`: the counter never falls behind the
  list, so the list is below the limit when it grows.  This holds with the
  collections that leave the counter too high.
* `CountersAlwaysAccurate`: without GC both counters of a zone are the number
  and the bytes of its list, also between two iterations of the pop loop and for
  programs that free twice.  No strengthening is needed beyond types; the work
  is in what a push and a pop do to `BytesOf`, a sum defined by recursion over
  the positions of a list.  `BytesAlwaysCounted`: with GC the bytes still are
  those of the list, only the number is not.  `EvictsOnlyWhenFullWithoutGC`
  follows: `EvictsOnlyWhenFull` holds for every program and any limits, without
  GC.
* `CustodyKept`, `HandBackAlwaysSound`, `QuarantineAlwaysHeld`,
  `NeverQuarantinedTwice`: `Custody` says that every address is answered for by
  the program, one thread, one zone or the allocator.  The properties only speak
  of the moment of the return and of valid entries; to be inductive they need
  the threads on their way (`HeldOnce`), the zone entries (`ListedOnce`), the
  program (`LiveOwned`) and that memory does not change instance (`Served`).
  Assumed (`CustodyAssumption`) are instances without common memory, a program
  that frees nothing twice, and no CLEAR where there is a quarantine (it breaks
  the property, see above).  Where there is none, a CLEAR is one of the steps;
  for it the invariant says in addition that an allocation list has only
  addresses of its instance (`ListsServed`) and that nothing is taken out of
  zones (`ShrinksOn`).  A collection takes back what the program has freed, no
  thread works on and, by `Stopped`, no zone lists.
* `AlwaysFollowsCycle`: under the same assumption every step moves every address
  along the cycle of `ChunkCycle`, or leaves it where it is.  Each kind of step
  is one of five (`Same`, `HandedOut`, `Held`, `GivenBack`, `TakenIn`) for each
  address; that it finds the address where it must be is `Custody`, and for a
  chunk in REALLOC `Resized`.
* `NeverFalseDoubleFree`, `AlwaysGuarded` (`LiveGuarded`) and `AlwaysPoisoned`
  (`DanglingPoisoned`): from `Guarded`, one predicate on a chunk for each phase
  of its life.  A chunk the program has, or that a FREE or REALLOC has not yet
  reached (`Entering`), is as ALLOC left it (`Whole`); one that the body of a
  REALLOC has open (`Opened`) is IN_REALLOC, so that the FREE in that body takes
  the first critical section; one the program has given up is as FREE left it
  (`Settled`) or some thread has still to see to it (`Away`).  That no other
  thread writes a record in between is `Custody`.  Assumed
  (`GuardAssumption`) are, beside `CustodyAssumption`, granularities with room
  for a redzone and, where a REALLOC moves chunks, one thread; a REALLOC in
  place, one that fails and one of size zero may run in any number of threads.
  This is where the code draws the line: realloc_race has a false report with
  two threads and a move.  `AlwaysGuarded` excludes a REALLOC that fails (the
  chunk it leaves IN_REALLOC loses its poison for good and may be in use again
  with that status), `AlwaysPoisoned` that and one of size zero, and CLEAR,
  whose list forgets chunks when it wraps.  Collections that stop the other
  threads are included, and so is CLEAR without a quarantine in the first two.
* `NothingEverLost` (`NothingLost`): from `Kept`, with the quarantine on and
  without collections.  The step that matters is the pop of an entry that is
  not valid, which would lose its address; by `Guarded` and `Custody` every
  entry is valid, those that REALLOC has put there included.

For any memory, any sizes of the layers and any blocks, chunks and records
(`TableAssumption`, `MemoryAssumption`):

* `TypeCorrect`, `AlwaysRefCounted`, `AlwaysLiveFound`, `AlwaysImplementsMap` of
  `ArenaProofs`: from `TableInv` (a record counts the cells that point to it,
  they are cells of its own range, two records with cells differ in their start
  or size, and a record without cells is free) and from where the users' chunks
  lie (`Housed`, `Apart`, `LiveShown`).  Of the loops, which are recursive over
  data, the proofs use only that they change records found in their range; that
  is why `Updated` and `Found` say so themselves.  The record
  that an in-place REALLOC marks as freed is that of the chunk it replaces, so
  no granule of a chunk that stays in use shows it.

For any arena, starts and requests that leave room for a redzone
(`HeapAssumption`, `GeometryAssumption`):

* `RedzoneFits`, `ExtendNeverShrinks`: from lemmas about rounding, quotients and
  the sizes of redzones; the division by the granularity loses less than the
  padding.
* `TypeCorrect`, `ChecksAlwaysPass`, `AlwaysAttributed`, `AlwaysAccessible`,
  `RedzoneAlwaysKept`, `FreedAlwaysKept` of `ShadowHeapProofs`: from one
  invariant.  Each chunk is placed in the arena, owns the records of its
  granules (`Own`) and has the shadow its state asks for (`Shaded`), and any
  two chunks lie apart (`Apart`).  A hook writes the granules of its chunk and
  one more; that this one more holds nothing of a neighbour but its first bytes
  is what makes the step for the neighbours go through.

For any program, lists and load addresses (`TableAssumption`,
`NestingAssumption`: functions do not overlap, calls return within their
function, no list marks a function without hooks as a CMA):

* `TypeCorrect`, `FilterAlwaysExact`, `AlwaysHookedOnce` of
  `HookNestingProofs`: from `TablesRight` (the tables hold the addresses of
  exactly the lines read so far), `StackRight` (each program counter lies in its
  function, and each answer is the one its functions give).  That an answer
  stays right while the frames in front of it come and go is `NestedBehind`.

Recursion over data is dealt with in two ways.  `BytesOf` is a recursive
function on the positions of a list; that such a function exists and what a
longer list does to it is proved by induction over a set of naturals (a
nonempty one has a least member), stated for this one sum, since the induction
theorems of the library take an operator, which the provers cannot instantiate
(`BytesOfSums`, `BytesOfAppend`, `BytesOfTail`).  Of the loops of the table
only what their definitions say is used.

Only model-checked: `CollectSteps`, whose properties rest on the length of a
chain of nodes, and with it that the steps of `CmaRuntime` on a zone may be
taken for atomic; what the loops of the table find beyond lying in their
range, the poison of chunks that CLEAR takes back (`DanglingPoisoned` in
`clear`), programs that free twice but for their counters, limits and types
(`threads`, `realloc`), instances that share memory (`realloc`), and
`MutexReleased` (liveness is out of the prover's reach).

## Not modelled

* The texts of reports, and the experiment logging, which exists only under
  EXPERIMENT_COVERAGE_INCREMENT.
* Collections against allocations: `addCMAAllocChunk` and the reset of the
  allocation list both write its position, one with and one without the mutex.
  An allocation may then be missing from the list, or the list keep its length;
  only a later CLEAR reads it.
* The instance map (`CMASanSimpleMap`): a function with every key present stands
  for it.  The race on its creation is up to compiled code.
* The rewriting of IR (only what the instrumented functions then do is
  modelled), the reader of the CMA list, the plugin and the scripts: they run
  before the program, keep no state over time and are judged by their output,
  which the models take as given.
* Calls in tail position and functions whose last instruction is a call, which
  the stack tests cannot see; recursion of a CMA function, of which nothing is
  claimed.
* Vendored code.  Most lines of the repository are copies of Clang, LLVM and
  ASan files with a few lines added, and a JSON library; CMASan's own run time,
  which the modules cover nearly whole, is a small share of them.

## Plan

1. done: `QuarantineZone`, `CmaRuntime`, `ChunkCycle`, their runs and proofs.
2. done: `TwoLayerTable`, `ChunkMap`, `CmaArenas` and their runs.
3. done: `ChunkGeometry`, `ShadowHeap`, their run and proofs.
4. done: `PcTable`, `HookNesting`, their run and proofs.
5. done: `ArenaProofs`, `CycleProofs`, `GuardProofs`, with REALLOC and CLEAR
   as far as the code keeps its promises under them.
6. done: `CollectSteps`, `ZoneOperations`: collections that stop nobody.
7. open: what is kept for a program that frees twice where a report ends the
   process, which needs `Custody` with the wrong FREE on its way; and the poison
   of chunks that CLEAR takes back, as long as its list does not wrap.
