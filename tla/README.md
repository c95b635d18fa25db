# A TLA+ model of StateDatabase

StateDatabase stores tables of rows in a memory-mapped file and can undo, squash
and commit nested sessions of changes. This directory models its storage engine,
`chainbase`, and the tables that `eos_db` builds on it, checks the models with TLC
and proves the central results with TLAPS.

## Inventory

| component | state it keeps | operations | what makes it hard |
|---|---|---|---|
| `undo_state`, `generic_index` (chainbase.hpp) | rows, a deque of undo states (old values, removed values, new ids, revision), `_revision` | emplace, modify, remove, start_undo_session, undo, squash, commit, undo_all, set_revision | the differences of nested sessions are merged by a sixteen-case table; uniqueness while undoing; ids chosen by callers |
| `database`, `database::session` (chainbase.hpp/.cpp) | the list of indices, session objects that own one session per index | add_index, create/modify/remove, loops of undo, squash, commit, undo_all, set_revision, start over all indices | a loop may throw or be cut off by a crash half-way; objects close whatever is on top |
| `pinnable_mapped_file` | the file with its header (dirty flag), a file lock, in heap mode a copy in memory | open (create, grow, lock, load), save, close | several processes, crashes at any step, check-then-lock |
| `eos_db`, `iterator_cache` | tables with row counts, rows, secondary rows; caches of pointers to them | db_*_i64, db_*_by_key, db_*_by_scope, idx64/128/256 | pointers outlive rows; several creations in one call |
| row types (`qos_contract_table.hpp`), `types.hpp` | none | none | unique indices over ids and keys |
| `name` | none | string <-> uint64 | twelve and thirteen characters |
| `db_viewer`, `statedb`, `performance_test` | none | print, benchmark | sequential |
| `read_write_mutex_manager`, `eos_contract_table.hpp` | | unused by the program | |
| `fc` | third party | sha256 | |

How they interact: `eos_db` calls `database::create/modify/remove/find`, which
forward to the `generic_index` of the row's type. `database` holds an
`abstract_index` per type and moves the undo stacks of all of them in step;
its session objects hold a `generic_index::session` per index. All of it lies in
the segment that `pinnable_mapped_file` maps or loads. There are no threads:
concurrency is between processes that share the file, and between a process and
its own crash.

Properties that make each part correct: an index restores exactly the state
before a session, however sessions were nested, squashed and committed; the
indices of a database stay at the same revisions, and a half-done loop is never
taken for a complete one; a database file opens only with what was saved; an
iterator of `eos_db` denotes the row it was handed out for, a table's count is the
number of its elements, also after a session was undone, and a query answers for
the rows of the named table alone; names are ordered and told apart by their numbers.

## Modules

| module | models | state and actions |
|---|---|---|
| `VersionedStore` | the abstract specification of an index | a table, the table before each open session, a revision; nothing is merged or restored row by row |
| `UndoState` | `undo_state` and the loops of undo and squash | operators: `on_create`, `on_modify`, `on_remove`, `Revert`, `Merge`, and the conditions under which the loops are defined, unique and pass their assertions |
| `GenericIndex` | `generic_index` | `indices`, `stack`, `revision` are the fields of that name; one action per method; `status` says how the process left defined behaviour (`aborted`, `undefined`, `overflow`) |
| `GenericIndexProofs` | theorems about `GenericIndex` | |
| `Database` | `database`, `database::session`, `add_index` | `segment` is the mapped memory, `index_list` and `handles` belong to the process; a loop over the indices is one step per index (`LoopStep`), which may throw (`StartThrows`, `SetRevisionThrows`, `AddThrows`, `IterationThrows`), and `Crash` may come between any two; `dirty` is the flag of the file, set by `Open` and cleared by `Close` only; history variables tell the last loop (`interrupted`), whether the file was only used as intended (`intact`), whether it was always used with all its indices (`whole`), and whether an undo, squash or undo_all ran out of memory (`torn`) |
| `DatabaseStore` | the abstract specification of a database | a `VersionedStore` whose ids are the index types: all tables together, with one history and one revision, each operation one step; nothing is promised once the database was used without some of its indices, or an undo, squash or undo_all ran out of memory |
| `DatabaseProofs`, `DatabaseRefinement` | theorems about `Database`; that it implements `DatabaseStore` | |
| `MappedFile` | `pinnable_mapped_file` | `file`, `lock`, and per process the stage its constructor or destructor has reached; `extent` is how much of the file the segment in it spans, which `Grow` and `GrowReturns` change before the lock is taken; `Die` may come at any stage; history variables tell what was saved last (`saved`) and whether a process ever died growing the file (`halfgrown`) |
| `MappedFileProofs` | theorems about `MappedFile` | |
| `TableStore` | the abstract specification of `eos_db` | the names of the tables, the primary keys of the rows and entries under each, and what an open session would restore; no ids, counts, addresses or caches |
| `EosDb` | `eos_db`, `iterator_cache`, one secondary `generic_index` | `tables`, `rows`, `entries` are the objects by address, `keyval` and `idx` the caches with the four containers of `iterator_cache`; one action per function, queries change the cache only; `session` is an undo session of the database below, with `start_undo_session`, `commit` and `undo`; `construct` makes another `eos_db` object; `FaultySpec` adds a store that runs out of memory (`StoreThrows`) |
| `EosDbProofs`, `EosDbRefinement` | theorems about `EosDb`; that it implements `TableStore` | |
| `NameCodec` | `name` | operators `string_to_uint64_t` and `to_string` over character codes and bits; `names` are the objects made by `set`, `string_to_name` and from a number |
| `NameCodecProofs` | theorems about `NameCodec` | |
| `MCGenericIndex`, `MCDatabase`, `MCMappedFile`, `MCEosDb`, `MCNameCodec` | TLC instances | constants and symmetry |

Abstractions. A row is an id, a `key` (the value of a unique index besides the
id) and `data` (everything else). `emplace` and `remove_object` calls that throw
without a change are not steps. An index inside `Database` is the
`VersionedStore` it implements, with its whole contents as one value; the theorem
`IndexImplementsStore` is what allows this. One operation of one index is a single
step there, so a crash inside it is not modelled: chainbase excludes it for create and
modify, and elsewhere it would leave what `HalfDone` describes, under a set dirty flag. What `Database` uses of
`MappedFile` is its dirty flag and that a mapped segment survives a crash; one process
has the file open at a time. Allocations may fail in every loop over the indices that
allocates: `start_undo_session` (`StartThrows`), `add_index`'s catch-up loop (`AddThrows`),
and `undo`, `squash` and `undo_all` (`IterationThrows`), where the index at which it
happens keeps its session and any contents (`HalfDone`). A throw out of the undo of
`~session` ends the process, like a crash. In `GenericIndex` a failing `emplace` and
`squash` are actions of `FaultySpec`; a failing `undo` there is not modelled. `MappedFile`
treats the contents of a 1 MiB chunk as one value, except that it keeps the header and
the extent of the segment, both in the first chunk, apart, and loads the file in one step;
saving goes chunk by chunk. From the first write of `segment_manager->grow` to its last
the extent is 0; a failing mmap after `resize_file` leaves what a death in stage `growing`
leaves. `squash`'s assertions stop the process, as in the
default build, which defines no `NDEBUG`. In `EosDb` the segment is a set of
addresses that the allocator may reuse; a table's id is any value `by_id` accepts,
because nothing initialises it; the name of a row's table (`owner`) is history, the
code knows the table by id only; payers, values and secondary keys are left out, so
that `db_update_i64`, `db_update_by_scope` and the secondary's `update` are left with
their ways of failing; the three secondary indices have a cache each and one stands
for all. A session there is one level deep (nesting is `GenericIndex`'s subject):
`undo` puts old values back in place and inserts removed objects again at any free
address. Reading through the address of a removed object leaves
defined behaviour (`status` is `undefined`, or `dangling` when `db_previous_i64` does it
for an end iterator); reading one that holds another object
by now reads that object. In `NameCodec` a `string_view` is followed in memory by any
characters up to a NUL, because the encoder reads on past the view's end; characters
keep their codes, and sizes of alphabet, slots and word are constants tied by
`1 + Digits + Letters = pow2[Bits]`, where `pow2[n]` is a one shifted left by n; `set`'s assertions end the process. Operators whose comment begins with
"Mutant" are plausible bugs; no specification uses them.

## Runs

| run | bounds | checks | shows |
|---|---|---|---|
| `index_sessions` | 2 ids, 2 keys, 2 data values, depth 2, revisions to 3, keys may change | TypeOK, Restorable, RevisionsConsecutive, UndoFindsRows, UndoAllRestores, Implements | sessions restore what they should and the index implements `VersionedStore` |
| `index_disciplined` | 3 ids, depth 3, keys fixed, symmetric keys and data | AllLinked, NeverAborts | callers that keep `modify`'s preconditions and reuse no id never abort |
| `index_reuse` | as `index_sessions`, ids reused | Restorable: violated | squash loses a row that was removed and created again under its id |
| `index_exhausted` | as `index_sessions`, keys fixed, allocations may fail | UndoFindsRows: violated | a squash that runs out of memory half-way leaves ids in two undo states; the second undo erases `end()` |
| `database` | 2 indices with 2 contents, revisions to 2, 2 session objects | TypeOK, InSync, CrashAtomic, SessionRestores, CleanOpens, Implements | until an undo, squash or undo_all runs out of memory: the indices stay in step through a throwing start_undo_session, set_revision or add_index and through crashes; a file that was not left dirty can be opened again; used with all its indices the database is one `DatabaseStore` |
| `database_late_add` | the same, add_index at any time | InSync: violated | closing a session object after add_index leaves the new index ahead |
| `eos_db` | 2 table names and addresses, 3 table ids, 3 rows and primary keys, 1 entry, 2 iterators per cache | TypeOK, CountsElements, IteratorsDenote, TablesCached, QueriesAnswer, OnlyDeadEndsFail, Implements | counts, iterators and queries are right while rows and tables come and go and addresses are reused; no call but db_previous_i64 of an end iterator leaves defined behaviour; by name, the calls do what `TableStore` says |
| `eos_db_sessions` | 2 table names and addresses, 2 ids, 2 row addresses with 1 primary key, 2 entries, 2 iterators per cache, one undo session at a time | CountsElements, TablesCached, Implements | counts survive an undo that brings tables back elsewhere, and the caches of the `eos_db` object made after it know them there; by name, undo restores exactly what was stored |
| `eos_db_repeated_ids` | as `eos_db` with 3 iterators, 2 table ids that may repeat | CountsElements: violated | a table with the id of a removed one is counted through a stale address |
| `names` | 2 slots of 2 bits and a last one of 1, an alphabet of 3 and the dot, one other character; views of up to 4 characters, up to 2 behind them, 2 names | TypeOK, RoundTrip, SetComplete, Ordered | every number has a text that leads back to it, proper names are accepted, and accepted names are ordered like their texts |
| `mapped_file` | 2 processes, 2 chunks, 2 contents, mapped and heap mode | OpensWhatWasSaved, TypeOK, DirtyWhileInUse, SaveWithinMemory | a half-created, half-changed or half-saved file never opens; unless a process died growing it, the segment spans the file |
| `mapped_file_zeros` | the same, chunks may become zero | OpensWhatWasSaved: violated | a chunk that became zero keeps its old contents in the file |

Why the bounds are enough. Undo and squash treat ids independently except for
unique keys, and squash looks at two neighbouring sessions: two ids, two keys and
two sessions reach every cell of the merge table together with an earlier and a
later change of the same row; `index_disciplined` adds a third session, so that a
merged state is merged again, and a third id, so that two restored rows can
conflict with a third. The theorems remove the bounds altogether. In
`database` two indices are enough to have one that a loop has passed and one it
has not; two session objects can nest, and end in either order; the constraint
`UntilTorn` stops after a failed undo, squash or undo_all, of which the properties say
nothing (without it they hold on 2.5 million states). In `eos_db` a
second table is what a walk over the common order, or a reused address, can be
confused with; three rows give a row with neighbours on both sides; three ids let
a removed table come back under a new id while the other one exists; the entry
keeps a table alive without rows. In `eos_db_sessions` two addresses per kind of
object let a removed object come back elsewhere, or at the address of one that was
created meanwhile; two rows of one table are `eos_db`'s case. In `names` a view may be
shorter than the slots, fill them exactly, use the last place, or be too long, and in
each case be followed by something else than a NUL. In
`mapped_file` a second process is what a crashed or living one can be confused
with, and a second chunk is what a grown or half-saved file differs in.

Deadlock is checked in every run but `names`, where the program makes a few names
and ends; a process that has aborted stutters (`Halted`).

Fairness. Only `UndoAllRestores` needs it: weak fairness of `undo_all`'s loop,
which runs on its caller's thread without waiting for anything. No other action
is assumed to happen.

Conditions. `mapped_file` assumes `SerialOpens`: processes open the database one
at a time, which is the interprocess locking chainbase's README asks callers for.
Without it OpensWhatWasSaved fails in the model, because the dirty flag
is read before the lock is taken. It also assumes that nobody passes
`allow_dirty`; with it, a refused second writer may already have grown the file
under a heap-mode writer (SaveWithinMemory fails), while DirtyWhileInUse still
holds. A process may die anywhere. If it dies between `resize_file` and the end of
`segment_manager->grow`, a window that neither lock nor flag covers, the next one opens
the file as clean, finds the saved contents, and a segment that is shorter than the file
or half changed and never repaired: OpensWhatWasSaved makes this one exception
(`halfgrown`). `eos_db` assumes that a new table's id is new to both caches (`RepeatIds` is
FALSE); run `eos_db_repeated_ids` shows what happens otherwise. `eos_db_sessions` assumes that an `eos_db` object is not used on after a session
was undone (`KeepCaches` is FALSE), since the caches are never told: with TRUE its
instance violates IteratorsDenote. IteratorsDenote is therefore a property of `eos_db` only, where
nothing is assumed of the caches. InSync, CrashAtomic, SessionRestores, CleanOpens and
Implements of a database end where an undo, squash or undo_all runs out of memory
(`torn`). That step is in the run, and without the exception InSync fails there: an undo that
throws at the second index leaves the first one a session behind, and a session object
whose squash throws has let go of the first index's session, whose changes stay, while its
destructor undoes the second's. `CleanOpens`
is about files all of whose indices `add_index` has accepted since they were last opened
in spite of a dirty flag (a clean close then clears it although the indices differ), used
with some of their indices missing from the list (the others stay behind), or left by a
catch-up loop of `add_index` that threw (nothing repairs that index): the history variable
`intact`. Callers pass
iterators whose row they have not removed, since `iterator_cache::get` asserts it. An end
iterator may outlive its table; `db_previous_i64` then reads freed memory, and in the
model the process halts, or it reads another table that has got the memory and answers
for that one. OnlyDeadEndsFail says that no other call fails; neither it nor QueriesAnswer
says anything of such an answer.

What else the models show, without a run of its own. A primary key is unique over
all tables, because `db_store_i64` makes it the row's id, and a refused
`db_store_i64` leaves an empty table behind. `emplace` that runs out of memory while
it records the new id leaves a row that undo does not take away (`EmplaceThrows`;
Restorable fails under `FaultySpec` too). `db_store_i64` that runs out of memory while the
table's old value is recorded leaves a row that is not counted (`StoreThrows`;
CountsElements fails under the `FaultySpec` of `EosDb`). A crash inside a loop over the indices
leaves ranges that `add_index` refuses, although chainbase's README promises a
consistent state outside `modify` and `create`; the dirty flag keeps the file from
being opened unawares (`CleanOpens`), and a half-done loop from being taken for a whole
one (`CrashAtomic`). `Check` refuses a reader while a writer has the database open, because the
dirty flag is set. chainbase's own test does this: test.cpp:47-63 opens `db2` on the
directory of an open `db` and reads its rows; only with `allow_dirty` would it open, and in
mapped mode see them. `set` accepts a view that is followed by characters other than a NUL
only if they change nothing; `string_to_name`, which asserts nothing, lets them into
the number.

## Proofs

The theorems hold for every value of the constants: any sets of ids, keys, tables,
rows, index types and processes, any depth and any size. What a theorem assumes of the
callers is a hypothesis of its own, and each such hypothesis is a switch of the model
whose other position TLC has shown to break a property (see below the table).

| module | theorem | states | needs |
|---|---|---|---|
| `GenericIndexProofs` | `TypeCorrect`, `RevisionsCorrect` | TypeOK, RevisionsConsecutive | |
| | `UndoRestores`, `SessionsLinked`, `UndoDefined` | Restorable, AllLinked, UndoFindsRows | `~ReuseIds` |
| | `IndexImplementsStore` | Implements (`VersionedStore`) | `~ReuseIds` |
| | `DisciplinedNeverAborts` | NeverAborts | `~ReuseIds`, `~RekeyRows` |
| `DatabaseProofs` | `TypeCorrect` | TypeOK | |
| | `IndicesInSync`, `AcceptedIsAtomic` | InSync, CrashAtomic | `~LateAdd` |
| | `CleanFileOpens` | CleanOpens | `~LateAdd` |
| | `SessionObjectsRestore` | SessionRestores | `~LateAdd` |
| `DatabaseRefinement` | `DatabaseImplementsStore` | Implements (`DatabaseStore`) | `~LateAdd` |
| `MappedFileProofs` | `TypeCorrect` | TypeOK | |
| | `DirtyCorrect` | DirtyWhileInUse | `SerialOpens` |
| | `SaveCorrect` | SaveWithinMemory | and nobody passes `allow_dirty` |
| | `OpensCorrect` | OpensWhatWasSaved | and nobody writes zeros over a chunk |
| `EosDbProofs` | `TypeCorrect` | TypeOK | |
| | `IteratorsCorrect` | IteratorsDenote | `~KeepCaches` |
| | `CountsCorrect`, `TablesFound`, `QueriesCorrect`, `CallsDefined` | CountsElements, TablesCached, QueriesAnswer, OnlyDeadEndsFail | `~KeepCaches`, `~RepeatIds` |
| `EosDbRefinement` | `EosDbImplementsTables` | Implements (`TableStore`) | `~KeepCaches`, `~RepeatIds` |
| `NameCodecProofs` | `NamesTyped`, `NamesRoundTrip`, `ProperNamesAccepted`, `NamesOrdered` | TypeOK, RoundTrip, SetComplete, Ordered | |

Why the hypotheses are there. `~ReuseIds`: run `index_reuse`. `~LateAdd` (all indices
are added before the first operation, as `statedb.cpp` does): run `database_late_add`.
`~RepeatIds` (a new table's id is new to both caches): run `eos_db_repeated_ids`. No
zeros over data: run `mapped_file_zeros`. The others have no run of their own. With
`KeepCaches` TRUE the instance of `eos_db_sessions` violates IteratorsDenote. With
`RekeyRows` TRUE the instance of `index_disciplined` violates NeverAborts. The instance of
`mapped_file` violates all three properties with `SerialOpens` FALSE, and SaveWithinMemory
and OpensWhatWasSaved, not DirtyWhileInUse, with TRUE in `AllowDirty`, which is what the
theorems say.

**An index.** `Restorable` is not inductive: it speaks of the end result of an
undo, not of how the three containers of an undo state share the ids. The
invariant is `SessionInv`: the types, one snapshot per session, `AllLinked` (each
undo state tells, for every id, whether the row was created, changed, removed or
left alone between the two tables its session lies between) and `NoIdReused` (no
session creates an id that an older one on the stack removed). Lemmas show that
creating, modifying and removing keep the newest state linked (`LinkedCreate`,
`LinkedModify`, `LinkedRemove`), that merging two linked states links the outer
tables (`LinkedMerge`, the merge table), and that a linked state reverts to the
table before it (`LinkedRevert`). `DisciplinedNeverAborts` adds `KeysUnique` and
`KeysStable`: since a row's key never changes, every intermediate table of undo
has the keys of a table that was once current.

**A database.** `InSync` holds between loops only; to carry it through a loop that
throws or is cut off, `SyncInv` says, as long as nothing is torn, of the last loop, running or interrupted, that it
began with indices in step (`LoopAtomic`), that each index is as it was or has had all
of the loop's work done to it, and which of them are which (`LoopShape`,
`LoopProgress`); session objects hold one session of every index (`HandlesFull`).
`CrashAtomic` follows because every operation changes the range of revisions or does
nothing, so that equal ranges mean all or none. `CleanOpens` adds `IntactInv`: the
dirty flag covers every process that may change an index, and an intact file that lacks
an index was never used; a process that has all indices in its list has them in step,
so that `intact` may come back then (`IntactAccept`). An undo, squash or undo_all that
runs out of memory sets `torn` for good, which ends what the invariants say
(`TornStep`); only the types go on (`HalfSound`). `SessionRestores` adds that between loops the table a session
object saved lies as deep in each undo stack as there are objects above it (`Claims`),
and that no loop that would move it runs while it is claimed (`Undisturbed`).

**A database as one store.** The refinement mapping (`Settled`) shows the indices as they
were before the last loop until every one of them has had the loop's work done to it, and
from then on as they are: a loop takes effect at its last iteration, in all tables at
once, and one that throws, is rolled back or never gets to the end after a crash has no
effect. That this is a function of the state and not of what the process still knows is
what makes it hard. After a crash the indices may be half-way, a process may open them in
spite of the dirty flag, and the loop is never resumed; but any operation needs all of
them in the list, `add_index` accepts only indices with one range, and indices with one
range are settled (`SettledNow`, from the same lemma as `CrashAtomic`). `WholeInv` adds
what this needs to `SyncInv`: the last loop went over all types, an index still missing
means that the others are fresh, and a rollback has fewer sessions to undo than the
loop would have started, so that it is never taken for a complete start. The mapping is
total: where a stack has no such session, `SessionTable` shows `NoIndex`, which no store
holds: a stack that is too short is visible and never read beyond its end.
`StartAll`, `PopAll`, `CommitAll` and `UndoAllAll` compute what equal changes to the
stacks of indices in step do to the stack of all tables, and `LoopImplements` finds the
operation of the store for each loop.

**A file.** Each theorem adds a layer. `LockInv`: with one process in its constructor at a
time, a writer in use holds the lock, and the file is valid and dirty. `SizeInv`: without
`allow_dirty` nobody passes the check of a file in use, so nobody grows it under a
heap-mode writer. `ExtentInv`: if nobody died growing it, the segment in a valid file spans
the file whenever nobody is growing it, and so does its copy in a heap. `SavedInv`: a clean valid file is what was saved last, and the chunks
that `save_database_file` skips or has passed are already in the file as in memory.
The types need one strengthening too: no mapping reaches past the end of the file.

**Tables.** The count, the cache and the table's life depend on each other: a removal
decrements the count at an address from the cache, a count of zero removes the table,
and a table that is gone takes its cached address with it. `StoreInv` breaks the circle
by saying all of it at once: tables, rows and entries respect their unique indices;
every element has a table with its id and its name (`Homed`); the counts are right
(`Counting`); an id known to a cache leads to the live table that has it, if any
(`TablesKnown`); the elements with iterators have known ids (`IdsKnown`); and the same
holds of what a session would restore (`Sound` of the snapshot), which undo moves to
other addresses one to one (`Moves`, `RestoredMoves`). That counts do not wrap uses that
`count` is wide enough for all objects the memory can hold. `QueriesCorrect` goes on from
there: the first or last row of the common order within the table's id is the one of the
named table with the least or greatest key. `EosDbRefinement` maps a state to the names
of its live tables and the primary keys under each, and shows one lemma per operation;
the delicate one is `RemoveRowImplements`, where a count of zero must mean an empty
name.

**Names.** The word is composed slot by slot, so its value takes induction over the
number of slots. It is done on sets of naturals: a set that holds 0 and with each number
the next is `Nat`, because what it lacked would have a least element (`LeastNat`,
`NatSetInduction`). It gives the recursive functions `pow2` and `Looped` their defining
equations (`NatRecursion`, `LoopedRecursion`) and shows that the number after i iterations
is below 2^Width with nothing in the slots to come, and that slot k holds the symbol of
character k (`EncodedStep`, `EncodedDigits`). Conversely a number is determined by its
chunks (`DigitsDetermine`), and of two numbers the one with the smaller chunk at the first
place where they differ is the smaller (`FirstDifference`, `LowerPrecedes`). A text
that `to_string` gives is thus encoded to the number it came from (`TextRoundTrip`), a
proper name is the text of its number (`NameIsText`), and texts are ordered as numbers
(`OrderOfTexts`), for the codes of dot, digits and letters ascend as their symbols do.
The invariant `NameInv` says that every number fits, that a checked text is its number's,
and that what was refused failed one of `set`'s assertions.

Assumptions on constants, all of them evaluated in the runs: ids and primary keys are
integers, bounds are naturals, switches are Booleans, and the values that stand for
"nothing" (`Absent`, `NoIndex`, `Nobody`, `Null`) are none of the things they are the
absence of; addresses of different kinds of object differ; `CountModulus` exceeds the
number of addresses, which is finite; there is at least one index type; an alphabet
fills `Bits` bits, and the codes of its digits lie below those of its letters.

Only model-checked. `UndoAllRestores` is liveness under fairness, out of the prover's
reach. Every other property of the passing runs is stated by a theorem.

## Plan

1. Done: `UndoState`, `GenericIndex` (with an interrupted `squash`), `VersionedStore`;
   `Database` with the dirty flag, `DatabaseStore`; `MappedFile`; `EosDb` over sessions,
   `TableStore`; `NameCodec`; their runs; theorems for every safety property of the
   passing runs and for the three refinements.
2. Open: action properties of `MappedFile` (what a refused opener leaves alone), and one
   refinement from `GenericIndex` through `Database` to `DatabaseStore`, which would join
   `IndexImplementsStore` and `DatabaseImplementsStore` index by index.

## Not modelled

The by-key store is a hash and one call of the index each, with no state of its own:
its rows are rows of `GenericIndex` whose id is the hash. `find_secondary` passes a table
where the index wants its id and cannot be instantiated. Huge pages, mlock and
the stream operators of `map_mode` are I/O; the move operations of
`pinnable_mapped_file` and `read_write_mutex_manager` are unused;
`eos_contract_table.hpp` is included by nothing; `db_viewer`, `statedb` and
`performance_test` print and measure; `types.hpp` has aliases only. Loss of the page
cache is out of scope in chainbase's README.

`fc` is a vendored third-party library (with its own vendored gtest, rapidjson,
miniz and secp256k1), and makes up nearly all lines of the repository. StateDatabase
uses its sha256 and aliases of its containers. The program's own code, `src/*.hpp`, `src/*.cpp` and
`src/chainbase`, is about 3350 lines, tests included; what the modules leave of it
is the list above, headers of includes and declarations, and the tests.
