# py-leveldb: a TLA+ development

py-leveldb is a CPython extension that wraps the LevelDB engine. This directory
models the extension's own logic: which Python object owns what, what runs with
and without the GIL, what a program sees of its data, and the Snappy code that is
compiled into the extension. It contains TLA+ modules, TLC configurations, and
proofs for TLAPS.

Line numbers below are those of `src/leveldb_object.cc` unless a file is named.

## 1. Inventory

### The system's parts

| Component | State | Operations | What makes it correct |
|---|---|---|---|
| `LevelDB` object (`PyLevelDB`, leveldb_ext.h:26) | `_db`, `_options`, `_cache`, `_comparator`, `n_snapshots`, `n_iterators` | constructor and repeated `__init__` (872-1001), Put, Get, Delete, Write, RangeIter, CreateSnapshot, GetStats, CompactRange, dealloc (43) | the native database is deleted exactly once, after everything made from it and before what it was opened with |
| `Snapshot` object (leveldb_ext.h:43) | `db`, native snapshot | constructor (1014) and `CreateSnapshot` (698), Get, RangeIter, dealloc (69) | holds its database; the native snapshot is released once, while the database is open |
| range iterator (`PyLevelDBIter`, leveldb_ext.h:53) | `db`, `ref`, native iterator, `bound`, `is_reverse`, `include_value` | made by RangeIter (542-680), `next` (1292), clean (1261), dealloc (1282) | holds the database; returns exactly the range; is cleaned once |
| `WriteBatch` object (leveldb_ext.h:75) | list of operations | Put, Delete (450-501), `__init__` (1003), consumed by Write (503) | written whole, in order, as it was when Write was called |
| Python comparator (`PythonComparatorWrapper`) | callable, name, stored exception | Compare (called by the engine's threads), destructor | takes the GIL when it runs Python code; its references change under the GIL only |
| `DestroyDB` (19), `RepairDB` (834) | none; RepairDB makes a comparator | one native call each, without the GIL | run beside every other call |
| module initialisation (leveldb_ext.cc) | module dictionary | once, at import | - |
| LevelDB engine (git submodule, sources absent) | log, tables, its own mutex, background thread | what the extension calls | external |
| Snappy (src/snappy, third party, compiled in) | per call: the source's position, the scratch buffers, the hash table, the writer | compress, uncompress, validate, to an array or an iovec | decompression undoes compression; neither leaves its buffers; every call returns |

### How they interact

* A snapshot owns a reference to its `LevelDB` object. A non-empty range iterator
  owns one too, *also when the range was asked of a snapshot* (679): the snapshot
  may go away during the scan. A method call owns a reference to the object it
  runs on (the interpreter's argument stack).
* The extension lets the GIL go around nearly every native call. What it reads
  before, and uses or writes after, is exposed to the other threads.
* `next`, `GetStats`, `CreateSnapshot` make native calls with the GIL held.
* The engine calls back into Python only through a Python comparator, on whichever
  thread compares two keys, its own background thread included.
* The engine compresses its blocks with Snappy; the extension itself never calls it.
* The native objects are nested: comparator, cache and options outlive the
  database, the database outlives its iterators and snapshots.

### What is hard

* Interleaving: every GIL-free section, and the cleanup of an iterator, which
  lets the GIL go before it clears its fields (1263-1275).
* Order: the program may drop database, snapshot and iterator in any order and
  from any thread; the last `Py_DECREF` closes the database wherever it happens,
  also in the middle of another object's cleanup.
* Failure: `DB::Open` fails, `PyObject_GC_New` fails, arguments are rejected,
  halfway through an object's life.
* Boundaries: the seek of a reverse range, where `Seek` lands at, after, or past
  every key.
* Crashes: `sync` and what survives.
* Waiting: the GIL, the engine's mutex and a Python comparator.
* Snappy: elements that straddle the pieces of a source, copies that overlap
  themselves, loads and stores wider than the data, and sizes at every boundary.

PROJECT.json lists each of these at its line, under `hazards`, with the
properties that cover it.

## 2. Modules

| Module | Models |
|---|---|
| `Handles` | lifetime of the three object types and of the native objects behind them, under threads |
| `Lifetime` | abstract: what the native library asks of its user |
| `MCHandles` | symmetry sets for the runs of `Handles` |
| `HandlesInv` | the inductive invariant of `Handles`, in named parts |
| `HandlesInvProofs` | type correctness, and proof that the invariant is one |
| `HandlesTheorems` | what follows: safety, exact counters, and that `Handles` implements `Lifetime` |
| `MapData` | contents, batch entries, ranges, listings |
| `Store` | the calls that read and write data, split where the GIL is let go |
| `OrderedMap` | abstract: an ordered map with atomic calls, shared batches, snapshots, scans, crashes |
| `MCStore` | symmetry sets for the runs of `Store` |
| `StoreProofs` | proof of the invariant of `Store`, and that it implements `OrderedMap` |
| `GilMutex` | the GIL, the engine's mutex, its background thread and the comparator, while a database is opened, used and closed, and beside DestroyDB and RepairDB |
| `GilInv`, `GilProofs` | the inductive invariant of `GilMutex`, and the theorems |
| `MCGilMutex` | bounds for the runs of `GilMutex` |
| `SnappyFormat` | tags, and the copy element that stands for a piece of a match |
| `SnappyLength`, `SnappyVarint` | the length in front of a stream: encoder and parser as functions, the reader that gets it byte by byte as actions |
| `SnappyLemmas` | what the Snappy proofs share: induction over numbers, that a length is parsed back, and how a reader of `SnappyContents` goes on |
| `SnappyTable` | the hand-written `char_table` and `ComputeTable` |
| `SnappyContents` | reference: what the elements of a stream stand for, read one after the other |
| `SnappyWriters` | the array writer, the iovec writer and the validator |
| `SnappyDecompress` | decompression from the public calls to the answer; composes the length, the table and the writers |
| `SnappyDecodes` | what a decompression has to achieve, compared with `SnappyContents` |
| `SnappyDecompressInv` | the inductive invariants of `SnappyDecompress`, in named parts |
| `SnappyDecompressProofs` | theorems about the reader of the length, and that a decompression stays inside its buffers |
| `SnappyDecodesProofs` | that a decompression writes what the stream stands for |
| `SnappyBits` | the bit operations of class `Bits` |
| `SnappyEmit` | `EmitCopy` and `EmitLiteral` |
| `SnappyCompress` | compression from the public calls to the return; composes `SnappyEmit`, `SnappyBits` and the length |
| `SnappyCompressInv`, `SnappyCompressProofs` | the inductive invariant of `SnappyCompress`, in named parts, and the theorems, those about `SnappyEmit` included |
| `MCSnappyDecompress`, `MCSnappyCompress` | the streams, texts, sources and hash functions of the runs |

### Handles

State: `alloc`, `rc` and `named` are the interpreter's view (allocated memory,
`ob_refcnt`, and the objects the program itself refers to). `db`, `snap`, `iter`
are the C structs; a native pointer is "null", "live" or "dangling", and a native
child remembers which database made it. `_options`, `_cache` and `_comparator`
are always created and deleted together and are one field `aux`. The fields
`db`, `ref`, `iterator`, `bound` of an iterator change together under the GIL and
are represented by `db`. `th[t]` is the label thread t is at, with the object the
method runs on (`self`), the child being made or cleaned (`cur`), the database
being closed (`dying`), and the database whose pointer the call has read before it
let the GIL go (`using`; `Orphan` once that native object is deleted). `fault` records the first use of a bad pointer; since the C
program is undefined from there on, the model stops.

Grain: code under the GIL is one action; a GIL-free section is one action of its
own, or several where it makes several native calls whose order matters
(`delete _db`, then `delete _options, _cache, _comparator`). One call therefore is
a path through labels:

    LevelDB()         idle -> open -> opened -> idle        (or open -> return)
    db.__init__()     idle -> [close -> close_aux ->] closed -> open -> return
    Put, Delete, ...  idle -> native -> return      reads _db without the GIL
    Get               idle -> get -> return         reads _db with the GIL held
    s.__init__()      idle -> [close -> close_aux -> closed -> return]
    RangeIter         idle -> seek -> [discard ->] make -> return   (or abandon)
    next() at the end idle -> clean -> unref -> return
    tp_dealloc        close -> close_aux -> closed          LevelDB
                      release -> unsnap                     Snapshot
                      clean -> unref                        iterator

`unref` and `unsnap` give up the child's reference to its database; when it was
the last one the same thread goes through `close`, `close_aux`, `closed` with the
child still half cleaned, as the nested `Py_DECREF` does.

`Usage` names what a program may additionally do: "reinit" (a second
`db.__init__()`), "shared_iter" (concurrent `next()` on one
iterator), "bad_snapshot" (`leveldb.Snapshot(...)` with arguments it
rejects), "snap_reinit" (a second `snapshot.__init__()` on a snapshot no other thread
is using), "shared_snap" (also while others use it). With `Usage = {}` everything else is still free: any thread may make,
use and drop any object at any time.

### Store

State: `disk` is the engine's durable view: a sequence of contents, each of which
a crash may leave, the last one current. `snap` and `iter` hold the contents seen by a
snapshot and an iterator, `batch` the operations of each WriteBatch, `th` the call
each thread is in, `answer` what the step just returned. A call is a GIL-held
action that reads the arguments, and a native action with the return. `Write`
copies the batch in the first, `WriteBatch.Put` appends in the second, as in the code.
`OrderedMap` has the batches, too: a `Write` asks for what its batch holds at that moment
(`Sound`), whatever is added to the batch, or cleared, before the engine writes it; a `Push` adds its
operation to the batch once, at a moment of its own between start and return.

`StartPos` is the seek logic of RangeIter in terms of the engine's `Seek`,
`SeekToFirst`, `SeekToLast`, `Prev`; `PastBound` is the check `next()` makes.
`OrderedMap` defines the answer of a scan with neither: it lists the keys in the
range. The refinement mapping takes an open iterator to the items it has still to
return.

### GilMutex

A thread that runs Python code between two calls is "idle" and holds the GIL whenever
nobody else does; `gil` names the holder only inside the extension, the library or a comparison.

    Put, RangeIter, ...   idle -> native -> return -> finish -> idle      GIL let go
    CreateSnapshot, stats idle -> locking -> held -> finish -> idle       GIL kept
    next()                idle -> next -> finish -> idle                  GIL kept
    next() at the end     idle -> next -> native -> return -> ...         GIL let go
    LevelDB()             idle -> native [-> close_aux] -> return -> finish -> idle
    the library's mutex   native | held | next -> locking -> back there
    last reference        idle -> close -> close_aux -> return -> finish -> idle
    DestroyDB, RepairDB   idle -> tool | repair -> return -> finish -> idle
    Compare               ensure -> python [-> resume -> release] -> where it came from

The library is external: a call may ask for its mutex and compare keys, with and without the
mutex, up to `MaxWork` times, in any order; one that has asked for the mutex (`Want`) stays in "locking"
until it has it (`Lock`). `GetSnapshot`, `ReleaseSnapshot` and `GetProperty` always begin with the mutex, so
`HeldCall` starts in "locking". `next()` may take it: the option `max_file_size` (966) needs LevelDB 1.19, which
samples reads under the mutex when an iterator moves. With a Python comparator each
comparison goes through `Compare`, and the interpreter may switch threads in the middle
(`Switch`, `Resume`). `db` is the stage of the database: it is "opened" when `DB::Open` has returned, so
that the library may compact, and "open" when the constructor has returned, so that the program may use it.
`users` are the threads in a call on
it (their references keep `PyLevelDB_dealloc` away, as module `Handles` shows in detail).
The
comparator that RepairDB makes is never deleted, so it needs no state.

`Embrace` names the one deadlock of the code: a thread in a call that keeps the GIL waits for
the mutex, and the thread that has the mutex waits for the GIL to compare in Python.

### Snappy

`SnappyDecompress` has one action per step of `DecompressAllTags`, `RefillTag` and the iovec
writer's `AppendFromSelf`. `Peek` of the source shows any
non-empty part of what is left, valid until the next `Skip`. The contract (snappy-sinksource.h:88)
lets it show bytes behind the end, too, if the source is a view on something larger: these are the field `beyond`
of a call. The decompressor takes them for its input (5. below), so its properties are about sources
without (`ExactSources`), like `ByteArraySource`, the one source of the repository. `MaxSize` is
`max_size()` of a string on a 32-bit build. A byte of a region that is no longer
valid, or was never written, is `Garbage`. Every buffer of a writer is followed by `Guard` cells,
so that a store past the end leaves a trace. `wide` tells machines with pointers of eight
bytes, where eight bytes are moved at once, from the others. The loops of the writers are functions of
the number of rounds (`IncrementalCopy`, `EightByEight`, `IncrementalCopyFastPath`). The buffers of an
iovec are taken in one row: `Address` is the place of the writer in it, `BufferAt` the buffer
that has a place, so that `Fill` and `Locate` say where the loops over buffers end up.

`SnappyCompress` has one action per step of `Compress` and `CompressFragment`, with the hash function a
parameter: nothing it computes may matter for correctness. `arch` selects the word size and
the byte order of `FindMatchLength`. `loaded` and `high` remember how far a load or store has reached.
`BlockSize` and the table sizes are parameters, so that texts of two and three blocks are short.
The length is a varint to base `Base` with `Top` in the last digit (128 and 16 in the code). The run of the
decompressor uses 3 and 2, so that every form of length is short, the run of the compressor those of the code.
Loops over words, bytes and bits are written without recursion, so that they can be
proved about: the word loop of `FindMatchLength` as the least number of words at which it stops
(`MatchedWords`), those of class `Bits` as their five rounds, the contents of a stream as
a function of the number of elements read (`ReadAll`).

## 3. Runs

| Run | Instance | Shows |
|---|---|---|
| handles_safety | 3 threads, 2 databases, 2 snapshots, 2 iterators, `Usage = {}` | no use after free, no double delete, no leak; reference counts and counters exact; children inside their database; the inductive invariant; `Handles` implements `Lifetime` |
| handles_misuse | 2 threads, 2 databases, one snapshot, one iterator; "reinit", "snap_reinit", "bad_snapshot" | repeated `__init__` and rejected arguments: counts stay exact even where native pointers go wrong; where they do not, every database is closed once the program has dropped everything |
| handles_shared_iter | as above, "shared_iter" | violation: cleanup of an iterator is not idempotent |
| handles_bad_snapshot | "bad_snapshot" | violation: a snapshot object without database is deallocated through a null pointer |
| handles_shared_snapshot | "snap_reinit", "shared_snap" | violation: two `__init__` calls on one snapshot count it down twice |
| store_scans | 2 threads, 2 keys, 1 snapshot, 1 iterator; limits below, at and past keys | scans against concurrent writes, both directions, on the database and on a snapshot that is dropped at any time; the inductive invariant; `Store` implements `OrderedMap` |
| store_calls | 2 threads, 2 keys, 1 snapshot, 1 batch of up to 2 entries, both values of `sync` | calls are atomic; a batch shared by two threads is written as it was when Write was called, and loses no operation; synchronous writes survive crashes |
| gil | 2 threads and the library's, either comparator, every call | no deadlock but the one embrace, and every call returns unless it comes to that; Python code runs under the GIL, the comparator outlives its uses, the inductive invariant |
| gil_embrace | the same | violation: GIL and mutex are waited for crosswise, and calls do not return |
| snappy_uncompress | streams of one and two elements of every form, and of three of the commonest, whole and cut off anywhere, every tag, every form of length, long streams for the fast paths; any source that shows no more than it has left | the answer is yes exactly for streams that stand for contents of the announced length; these are written, and nothing else; no tag is read past a region; the inductive invariants; the call returns |
| snappy_view | single elements, from a source that shows two bytes more than it has left | violation: bytes behind the end are skipped |
| snappy_compress | some seventy texts of zero to three blocks, three hash functions, three machines, sources with pieces of four sizes; `EmitCopy` and `EmitLiteral` alone with large arguments | what is written stands for the text; the table holds earlier places of this block only; loads stay in the block, stores in the output; matches are as long as possible; the inductive invariant; the call returns |

All runs are exhaustive. Why the instances are large enough:

* Two databases and two snapshots and iterators let children of one database
  outlive, or be dropped in any order relative to, each other and children of
  another. Three threads let two cleanups race with a call. Every memory slot is
  reused after it has been freed.
* The keys of store_scans are 1 and 3, the limits 2, 3 and "none": a limit is between keys,
  at a key or missing, `Seek` lands at a key, after one or past all, and inverted and empty
  ranges occur. One value is enough, as no operation looks at values.
* `MaxBatch` (entries of a batch) and `MaxUnsynced` (writes since the last
  synchronous one) are bounds of the model: two entries show order and
  atomicity within a batch; one lost write separates synchronous from lazy.
* `MaxWork` is two: enough to take the mutex and then compare under it, or to compare
  twice. Every call that needs the mutex at all waits for it, and the embrace needs no more.
* Streams: three elements let an element depend on the contents of two others and
  straddle any pieces; one more or less than the right length is announced. `Slack` is the
  number of cells watched after a buffer; no store is wider than 16 bytes.
* Texts: blocks of 80 bytes leave room for a literal of more than 60 bytes, for a copy of
  more than 64 and for the margin of 15; tables of 4 to 16 entries collide.
* Threads, objects and values are interchangeable: runs without liveness use symmetry.

`CHECK_DEADLOCK FALSE` appears where the model really stops: in the runs with
unusual use the program is undefined after a fault; a call of Snappy returns; the runs gil and gil_embrace
reach the embrace, where every thread waits.

Fairness:

* handles_misuse: weak fairness of each thread's `Step`: native calls return, and a
  thread that waits for the GIL gets it. `Step` contains only what a thread does inside the
  extension. Nothing obliges the program to drop anything; the property assumes that it
  eventually has.
* gil and gil_embrace: strong fairness of what a thread does once it is in a call, and of taking a lock
  when it is free again and again, which the interpreter's GIL provides for itself, and the operating
  system for the library's mutex. Nothing obliges a lock to become free, and nothing obliges a thread to begin a call.
* snappy: the one thread of the call runs on.

### Disagreements found

1. `PyLevelDBIter_next` calls its cleanup "idempotent" (1296). It is so only when
   the calls do not overlap: the cleanup counts `n_iterators` down and lets the GIL go
   before it clears the fields, so a second thread runs it again (count, delete
   and `Py_XDECREF`).
2. `PyLevelDBSnapshot_init` leaves `db` null when it rejects its arguments, and the
   deallocator runs `Py_DECREF(self->db)` (80) on it, outside the test "if (self->db)" made above it (77).
3. `PyLevelDBSnapshot_init` gives the old database back (1018-1020) before it nulls `db`
   and `snapshot`. When that was the last reference, closing the database lets the
   GIL go, and a second `__init__` on the same snapshot counts `n_snapshots` down again;
   leveldb_ext.h:36 calls it the "number of open snapshots".
4. `CreateSnapshot` (700), `Snapshot(db)` and `GetStats` (691) call the library with the
   GIL held, and so does `next()` (1351), where the library may sample reads. With a Python comparator, which
   "can be called from pretty much any leveldb threads" (270), another thread may compare keys under the library's mutex and wait for
   the GIL, and neither call returns. The tests make such calls with a Python comparator and expect
   them to return (test.py:39, 111).
5. A `Source` may show more than it has left, says snappy-sinksource.h:88, and the caller must look at
   `Available()`. The decompressor does not: `peeked_` is what was shown (snappy.cc:760, 797), and is skipped
   (681, 756, 794, 820, 838) though `Skip` requires as much to be available.

Observed in the source, and left out of the runs:

* leveldb_ext.h:30 says a closed object "can not be re-opened". The repeated `__init__` (872) closes the
  native database and opens one on the same object (`PyLevelDB_reinit`, `PyLevelDB_init` of `Handles`).
* `PyLevelDB_dealloc` deletes the comparator (51) without the GIL, so that its destructor decrements Python
  reference counts (201-208) while other threads run Python code (`CloseAux` of `GilMutex`). In `PyLevelDB_init` a comment
  says of the same deletion "move out of thread block" (983).
* format_description.txt:55 stores the length of a long literal less one, so that FF FF FF FF says
  2^32 bytes, which no stream has. `DecompressAllTags` (snappy.cc:748) adds the one in 32 bits
  and accepts the element as an empty literal. So does the reader of `SnappyContents`, so `DecodesStream` does not see it.
* `RepairDB` never deletes its comparator wrapper (847).
* A comparison that fails (`SetError`) aborts the process.
* A varint of five bytes may hold 35 bits: `Parse32WithLimit` rejects what does not fit,
  the stream reader (704) drops the upper bits. `ReaderFollowsParser` therefore has one direction only.
* The iovec writer drops the result of `Append` (snappy.cc:1082): what did not fit
  shows in the length at the end, which `DecodesStream` covers.
* A comment of the compressor speaks of blocks of 32 kB; `kBlockLog` is 16.

## 4. Proofs

### Handles

These theorems hold for every number of threads, databases, snapshots and iterators,
and rest on `HandlesAssumption`: these sets are finite and disjoint, and contain neither
`Null` nor `Orphan`. All but the first assume `Usage = {}`; without it they are false, as the
runs with unusual use show.

| Module | Theorem | States |
|---|---|---|
| `HandlesInvProofs` | `TypeCorrect` | `Spec => []TypeOK`, for every `Usage` |
| | `InvCorrect` | `Spec => []IInv` |
| `HandlesTheorems` | `Safe` | `Spec => []MemorySafe` |
| | `CountsOwners` | `Spec => []RefcountExact` |
| | `NothingLeaks` | `Spec => []NoLeak` |
| | `ChildrenInside` | `Spec => []ChildrenInsideDb` |
| | `ImplementsNative` | `Spec => ImplementsLifetime` |
| | `CountersCorrect` | `Spec => []CountersExact` |

**Types.** `TypeOK` includes `ThreadOK`, which says for each label what `self`, `cur`
and `dying` are; it is inductive only with that part, because most actions apply
`db[...]`, `snap[...]` or `iter[...]` to one of these fields. There is one lemma per
helper (`DecRef`, `Finish`, `ReleaseParent`, `Reach`, ...) and one step per action.

**The invariant.** `MemorySafe` says nothing of why the next dereference will be good, and
`RefcountExact` nothing of what becomes of an object whose count reaches zero. `IInv` adds:

* `CallsOK`: a thread that closes a database does so for a deallocation, never from a
  method of a database or snapshot; a call still uses the database it has read.
* `Exclusive`: no child is cleaned, no database closed, no iterator used by two threads.
* `Unowned`: what is being made or deallocated has no owner, so nobody can find it;
  a database being opened has only its constructor.
* `AllocOK`: what has an owner is allocated; a free slot is blank.
* `DbsOK`: a database that is named, or owned by a child whose cleanup has not given
  it up, is open; at each label of a thread that closes one, which pointers are live,
  dangling or null.
* `SnapsOK`, `ItersOK`: the native object of a child is that of its database, except
  in between: at each label of the thread that makes, cleans or deallocates it.

The step that carries the argument is the last `Py_DECREF`: an exact count of one means
that the owner who gives up its reference was the only one (`LastOwner`), so the closing
thread is alone with the database (`DyingAlone`), which is why `delete _db` meets neither
children nor callers (`CloseNativeFields`). In the other direction `SelfHeld`, `NamedHeld`,
`SnapHeld`, `ParentHeld` say that what a call, the program or a child refers to is not being
taken down. `OwnersOf` describes `Refs` by its elements and `CountAdd`, `CountDel`, `CountSwap` turn
a changed owner into a changed count; general lemmas (`QuietStep`, `AllocStep`, `CallsStep`,
`SameDbsStep`, ...) serve the actions that leave most of the state alone, and each action
has a lemma of its own (`...Inv`).

**What follows.** `NoLeak` is a consequence of `IInv`. For the others, `Effect` lists what a step can
do to the native objects (nothing, make or delete one child, open or close one database without
children), one lemma per action (`...Effect`). It implies a step of `Lifetime`
(`NativeStep`) and preserves `Equipped`, the last conjunct of `ChildrenInsideDb`.

**The counters.** `CountersExact` is preserved by every step from a state in `IInv`: a step leaves all
counters and all links alone (`AllKeep`), or adds or removes exactly one child of one database
(`SnapAdded`, `SnapRemoved`, `IterAdded`, `IterRemoved`), or allocates a database, to whose slot no child
can still be linked (`NewCounts`). A snapshot counts as long as it owns its database (`Parent`); an
iterator counts unless a thread makes or cleans it (`Counted`), because `PyLevelDBIter_clean` counts
it down first and nulls its fields last, with GIL-free sections in between. That no iterator is
counted down twice needs `Exclusive` and the exact reference count (`DecRefCounts`).

### Store

For every number of threads, snapshots, iterators and batches, every set of values and every
bound on batches and unsynchronised writes. `MapDataAssumption`: the keys are a finite set of
integers (the engine's order is total, the database finite); `StoreAssumption`: limits are
integers or "none", a batch may hold an operation, and the markers ("closed", "invalid", ...)
are neither contents nor keys nor snapshots.

| Theorem of `StoreProofs` | States |
|---|---|
| `InvCorrect` | `Spec => []StoreInv` |
| `TypeCorrect` | `Spec => []TypeOK` |
| `ImplementsMap` | `Spec => ImplementsOrderedMap` |

`TypeOK` alone is not inductive. `EngineGet` and `EngineSeek` look at the contents of their
source some steps after the call began; that they are contents, and not those of a snapshot
that is gone, is `CallsOnOpen`: who is in a call on a snapshot keeps it open (`Busy`, the
reference of the argument stack). `PosPresent` says that an open iterator stands at a key that
is there, or nowhere.

The refinement has one lemma per action (`...Map`). Most of them turn on a few facts about a scan:
where `StartPos` puts the iterator is the first key of the range, in the direction of the scan, also when
`Seek` went past the last key or beyond the bound and one `Prev` had to follow (`StartIsFirst`); and
when `next()` returns the item at the iterator, what is left of the range is the listing without its head,
or nothing if `PastBound` holds (`RestStep`, `ListingStep`). So the answers of a scan are those
of the listing that `OrderedMap` fixed at its start, whatever was written meanwhile.
A call under way is the request that `OrderedMap` has seen (`CallIsRequest`), with the operations its batch
had at the start, and batches are the same on both sides.

`Listing` and `ApplyTo` are written with ranks and last positions, not with recursion. Where a first or a last key is wanted, it comes from the well-founded
order of the finite subsets (`FS_StrictSubsetOrderingWellFounded`), which needs no
induction over an operator.

### GilMutex

For every set of threads and every `MaxWork`, from `GilMutexAssumption` (the library's thread
and `Nobody` are no threads of the program):

| Theorem of `GilProofs` | States |
|---|---|
| `GilInvCorrect` | `Spec => []GilInv` |
| `TypeCorrect` | `Spec => []TypeOK` |
| `PythonHasGil` | `Spec => []PythonUnderGil` |
| `ComparatorIsThere` | `Spec => []ComparatorOutlivesUse` |
| `OnlyTheEmbraceStops` | `Spec => []StuckOnlyInEmbrace`, with every comparator and every call |

`PythonUnderGil` is not inductive: a thread in `ensure` may own the GIL already, and where it goes
on decides whether it gives it back. `GilOK` says exactly when a thread has the GIL, from its label and
from `back`; `BackOK` that no comparison goes back to a section that compares nothing. For
the comparator the argument goes through the stages of the database: `UsersOK` (a call keeps the
database open, or opening), `OpeningOK` (whoever opens it is alone), `BackgroundOK` (the library's
thread is idle before the database is deleted), `CloserOK` (one thread takes it down, and its label
is the stage), `ClosedOK` (nobody uses a database that goes away), `ComparatorOK` (there is a comparator unless
the database is closed). `OnlyTheEmbraceStops` follows thread by thread: when nobody is `Ready`, the thread
that waits for the mutex finds it with one who waits for the GIL in a comparison (`MutexOK`), and whoever has the GIL
can only be waiting for the mutex (`GilOK`). There is one lemma per
conjunct, with one step per action.

### Snappy

| Module | Theorem | States |
|---|---|---|
| `SnappyLemmas` | `EncodingIsParsed` | what `Encode32` writes for a uint32 in seven-bit digits is parsed back from the bytes written |
| `SnappyCompressProofs` | `SpecTypeOK` | `EmitCopy` always leaves a rest that an element can say |
| | `SpecCopiesShrink` | `EmitSpec => []CopiesShrink` |
| | `SpecLiteralIsReadBack` | `EmitSpec => []LiteralIsReadBack` |
| | `SpecPiecesAreReadBack` | `EmitSpec => PiecesAreReadBack` |
| | `InvCorrect` | `Spec => []CompressInv` |
| | `TypeCorrect` | `Spec => []TypeOK` |
| | `TableIsPastCorrect` | `Spec => []TableIsPast` |
| | `LoadsInsideCorrect` | `Spec => []LoadsInside` |
| | `MatchIsLongestCorrect` | `Spec => []MatchIsLongest` |
| | `OutputFitsCorrect` | `Spec => []OutputFits` |
| | `RoundTripCorrect` | `Spec => []RoundTrip` |
| `SnappyDecompressProofs` | `SpecTypeOK` | the stream reader takes at most five bytes and its result fits the word |
| | `SpecReaderFollowsParser` | `LengthSpec => []ReaderFollowsParser` |
| | `SpecEncodingIsReadBack` | `LengthSpec => []EncodingIsReadBack`, for the digits and the word of the code |
| | `DecompressInvCorrect` | `Spec => []DecompressInv` |
| | `DecompressTypeCorrect` | `Spec => []TypeOK` |
| | `TagIsAlwaysReadable` | `Spec => []TagIsReadable` |
| | `NothingIsOverrun` | `Spec => []NoOverrun` |
| | `TableAlwaysFollowsFormat` | `Spec => []TableFollowsFormat` |
| `SnappyDecodesProofs` | `DecodesInvCorrect` | `Spec => []DecodesInv` |
| | `DecodesStreamCorrect` | `Spec => []DecodesStream` |

The reader's invariant (`LengthInv` of `SnappyVarint`) is that after k bytes `result` is the value of the
first k digits, modulo the word. The one of the emitters (`EmitInv` of `SnappyCompressInv`) relates what is left of a match to the
bytes written for it, and the length bytes of a literal to the number they have still to say.

**Decompression.** The theorems of `SnappyDecompressProofs` hold for every stream, well formed or not,
every way a source cuts it up, every entry point, every list of buffer lengths and both pointer
sizes. They assume `ExactSources`: a source shows no more than it has left; without it they are false, as snappy_view shows. `CallsAssumption` says what the types of a call are: bytes, a list of buffer lengths (one for
`snappy_uncompress`, one or more for an iovec), and that the marks are not bytes. None of the
properties is inductive. `DecompressInv` adds:

* `BufferOK`: whenever the reader may look at `ip`, the bytes up to `limit` are there (`Buffered`): in
  the region last peeked, still valid, which ends at `pos + peeked`, or in the scratch buffer.
  With a tag in hand its trailer is buffered, and five bytes can be loaded: because the
  region has them, or because the tag was moved to the start of the scratch buffer.
* `StitchOK`: while an element is put together nothing is peeked, and what has been
  collected is part of what its first byte asks for, so that five bytes are enough.
* `SourceOK`: what was skipped and what is peeked is no more than the stream has. A skip is
  always one of what is peeked, or of bytes of a region just shown.
* `BuffersOK`: each buffer keeps its length and the cells behind it are untouched.
* `PlaceOK`: the array writer has written `at = total` bytes; the iovec writer's place in the row of
  its buffers is `total`, which is why a copy from `offset <= total` bytes back finds a buffer
  (`LocateIs`).
* `RoomOK`: the array is as long as was announced. Uncompress parses the length once to make the
  array and the decompressor reads it again from a `Source`, with another routine;
  `FollowsParser`, from the proof about the length, says that they agree (`ReadAsAnnounced`).
* `CopyOK`: a copy in an iovec reads from a buffer at or before the writer's and stays below the length announced.

The lemmas go from the bottom up: what a store or a move of n bytes leaves alone (`StoreKeeps`,
`MoveKeeps`), how far the fast copy may write (`FastPathKeeps`: ten bytes past the end, so a writer
with that much room left loses nothing), what each writer's append and copy preserve (`FillFits`,
`AppendFits`, `ArrayCopyFits`, `FromSelfFits`), then one lemma per action (`...Reader`, `...Keeps`, `...Inv`).
That `Entry` is the one value ComputeTable assigns to a tag is
`TagIsAssignedOnce`. Inductions over the rounds of a loop go through sets of numbers: what has zero
and with each number the next has all (`UpTo`, from the well-founded order of the numbers).

**What is decompressed.** `DecodesStream` compares the answer and the buffers with the reader of
`SnappyContents`, which reads the stream whole and element by element, knows no buffers and makes copies
a byte at a time. A long literal is as long as in the code there (`LongLength`, see the remark above):
the theorem is about how elements are put together and written, not about that addition.
`DecompressInv` says nothing of contents, so `DecodesInv` adds:

* `ShownOK`: what is buffered at `ip` are the bytes of the stream from `Here` on, whether they are in the
  region last peeked or were collected in the scratch buffer.
* `WrittenOK`: there is a number of elements after which the reader is where the element being read
  starts and has put out what the writer holds (`Wrote`); inside a literal or a copy the
  part that was already written comes on top (`InLiteral`, `InCopy`). It has a premise, `Enough`: when the buffers of an
  iovec are too small for the length announced, the dropped result of `Append` may leave them
  short of the reader, but then the call cannot succeed.
* `EndOK`: a call that stops before the end of the stream has met a bad element, or one that goes beyond the
  length announced, so the stream has no contents of that length.
* `StateOK`: how far the call has come, and what length it expects.

The lemmas go from the cells up. A store or move replaces the cells it is meant to (`StoreCells`,
`MoveCells`). The incremental copy repeats the pattern between source and target, and so do
the fast copies: eight bytes at a time if the two are that far apart (`EightByEightShows`),
and otherwise after the pattern was doubled until they are, each doubling keeping
its period (`DoublingShows`, `FastPathShows`). `Held` is then a sequence addressed through the
row of buffers (`PlaceIs`, `HeldIs`), which an append makes longer (`AppendWrites`) and a copy continues as
`CopyFromSelf` does, because a sequence in which each cell equals the one `offset`
before it is determined by its beginning (`PatternExists`, `HeldCopied`, `FromSelfWrites`).
Copies across the buffers of an iovec are made in parts, and a copy in parts is the copy
(`CopyInParts`). On the side of the stream, the tag, the literal and the offset that the decompressor
sees are those of the reader (`TagShown`, `LiteralShown`, `CopyShown`), and literals that arrive
in parts are put together (`PartsFollow`). There is one lemma per action (`...Decodes`). When the call
answers, the reader has either reached the end with what is held, or the stream
has no contents of that length (`NoContents`, `AnswerDecodes`).

**Compression.** The theorems about `SnappyCompress` hold for every set of texts whose length a uint32 can
say, every way a source cuts them up, every hash function, the three versions of `FindMatchLength`, every
block size up to that of the code and all table sizes that are powers of two up to it.
`CompressAssumption` says so (15 bytes for a block are the least for which the margin makes sense;
digits and word are those of the code), and `HashAssumption` that a hash is below the
size asked for, which is all that `HashBytes` promises by its shift. `TypeOK` is not inductive:
that a place fits the 16 bits of an entry needs to know where in the block one is. `CompressInv` adds, from the
bottom up:

* `EmitInv`: what a call of an emitter has written so far, and how long it is (`RoomInv`:
  a tag grows by a byte for sixty bytes of literal, three bytes of copy stand for four).
* `BlockInv`, `BuffersInv`: the block is the next part of the text, in the source or collected in the
  scratch buffer; what was made for an earlier block is large enough, because only the last one is shorter.
* `TableInv`, `PlaceInv`: the table in use has `2^(32 - shift)` entries, none at or after
  the place looked at; a place is at most at `ipLimit` when something is loaded from it.
* `CallInv`: which emitter runs at which step, and for which bytes.
* `MatchIsLongest`, which says while a match is cut into copies that its bytes are the same.
* `SizeInv`: after each step the block's output is at most 61/60 of the bytes it stands for, with
  one byte more where a literal has been written and no copy after it. This is stricter than the 7/6 of
  `MaxCompressedLength`, and is what makes room for the sixteen bytes of the fast path, in each block and
  in the sum of all blocks.
* `OutputInv`: the reader of `SnappyContents` reads what was written, the copies of a
  match that is still being cut included, as the text so far (`Covered`).

The argument about contents has three layers. An element is read as what it was made from: `ShortCopy` and
`IsCopy` for a copy, `LiteralIsReadBack` for a literal. A stream that stands for a text, followed by one such element,
stands for the text and its bytes (`StandsFor`), because `ReadAll` of a longer stream goes through
the same states; a copy that overlaps itself repeats what `MatchIsLongest` says is in the text. Each action then
adds bytes and elements alike. For the match, the least bit in which two
words differ is the least place of a set, which the rounds of `FindLSBSetNonZero` find by halving; in a little-endian
word it lies in the first byte that differs. There is one lemma per action and part of the
invariant (`...Inv`); `Parts` opens the invariant, and lemmas like `SameBytes` and `BlockPlace` serve the
actions that leave the block alone. Powers of two are handled as the seventeen numbers they are.

### Only model-checked

Everything about unusual use except types. The prover reaches no liveness under fairness
(`ClosesWhenDropped`, `ReturnUnlessEmbraced`, `Returns`, `Finishes`). Every other property of a run that passes is
the statement of a theorem.

## 5. Not modelled, and why

* In `Handles`: the comparator is the bytewise one, so `next()` never gives the GIL
  away (`GilMutex` has the other one, without the objects). The cyclic garbage collector is left
  out. `PyLevelDB_new` covers the successful parse of the arguments: one that is rejected
  leaves no object behind.
* In `Store`: error statuses of the engine, and argument buffers (bytearray) that
  another thread changes during a call. The engine is external: atomic batches,
  stable views and the log's behaviour at a crash are its contract, not results.
* In `GilMutex`: the engine's condition variables and its write queue; an aborting
  comparison; when the library takes its mutex, which is left open; what a decrement without the
  GIL does to a reference count; the iterator
  objects, so that two calls of `next()` on one iterator are not told apart.
* Exported argument buffers and `std::string` bounds (two leaks on error paths are
  listed under hazards).
* Parameters of the constructor (cache size, block size, ...): they are passed on to the
  engine, which clips them. The lock on a directory is the engine's too.
* In Snappy: texts of 4 GB and more, the platform's compiler intrinsics, and the library's
  own tests and benchmarks.
* Module initialisation, type and method tables, build scripts and tests are not part of the
  running logic.

## 6. Plan

Done, in this order: `Lifetime`, `Handles` with its runs and types, `MapData`, `OrderedMap`,
`Store` with its runs, `HandlesInv`, `HandlesInvProofs`, `HandlesTheorems`, `GilMutex` with its runs, the
Snappy modules with theirs and their proofs, `GilInv`, `GilProofs`, the counters in
`HandlesTheorems`, `StoreProofs`, `SnappyDecompressProofs`, `SnappyCompressInv`, `SnappyCompressProofs`,
`SnappyDecodesProofs`.

What would come next:

1. Error statuses in `Store`; exported argument buffers and bound strings.
