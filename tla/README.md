# X1ngLSM-KV in TLA+

A verification development for the X1ngLSM-KV storage engine: TLA+ models of the
code, TLC configurations that check them on small instances, and TLAPS proofs of
theorems about them for all values of the constants.  Paths below are relative to
the root of the repository, written `src/...` for its own `src`, `include`,
`docs` and `test` directories.

Check a model with `tlc -config <run>.cfg <module>.tla`, a proof with
`tlapm <module>.tla`.

## 1. The system

X1ngLSM-KV is an embedded, single-threaded LSM store with a command-line front end.

| Component | State | Operations | Hard part |
|---|---|---|---|
| `KVStore` (`src/src/kv_store.cpp`) | memtable, immutable memtable, tables per level, next file id | `put`, `remove`, batches, `get`, `keys`, `clear`, flush, compaction, recovery | every call is a sequence of file-system effects; recovery reconstructs the state from files and file names |
| `WriteAheadLog` (`core/write_ahead_log.cpp`) | output stream, file | `append`, `read_all`, `clear` | torn records, failed writes, a stream that stays bad |
| `MemTable` (`core/mem_table.cpp`) | skip list, timestamp counter, encoded size | `put`, `remove`, `get_next_timestamp`, `advance_timestamp`, `clear` | timestamps decide which version a merge keeps |
| `SSTable` (`core/sstable.cpp`) | file, lazily loaded footer, index, Bloom filter and data | `write_from_entries`, `get`, `get_all_entries` | files cut short, three format versions, 32-bit sizes |
| `BloomFilter` | bits | `add`, `may_contain`, `serialize`, `deserialize` | no false negatives |
| `SkipList` | linked nodes of random height | `insert`, `find`, `clear` | links of all heights stay sorted |
| `Entry` codec | - | `encode`, `decode`, `encode_size` | short input |
| CLI commands (`cli/commands.cpp`) | - | 26 command names over the store | read-modify-write commands |
| Glob matcher (`utils/glob_utils.cpp`) | - | `glob_match` | back-tracking |
| CRC32, string, argument and system utilities | - | - | - |
| LZ4 (vendored) | - | - | - |

How they interact: a command calls `KVStore`; a put or remove takes a timestamp
from the memtable, appends to the log (write, flush, fsync), updates the
memtable, and when that has reached the flush threshold moves it to the immutable
memtable and writes it to a table on level 0; the log is then truncated and any level
with four tables is merged into the next.  All of that runs inside the put.  The
constructor lists the table files by name and replays the log.  There are no
threads and no callbacks: what makes the system hard is that a crash or a failing
write can fall between any two effects, that a flush which failed is retried later,
and that long sequences of legal calls move versions through the levels.

What makes each part correct:

* the store: the places that `get` searches hold ever older versions of a key; a
  flush or compaction changes no answer of `get`; what has been acknowledged survives
  a stop, a crash and a recovery; `keys` lists what `get` finds; ids and names of files
  are never reused; every level stays short;
* the log: `read_all` returns every acknowledged record since the last truncation, in order;
* the memtable: the newest version of a key, size equal to the sum of its entries;
* a table: what was written is what is read, or the file is refused as a whole;
* Bloom filter, skip list, codec, glob: agreement with a set, a sorted map, the
  identity, a reference matcher.

## 2. Modules

| Module | What it is |
|---|---|
| `KVStore` | the engine, with the log, the memtable and the tables it drives; all properties of single calls |
| `KVStoreBatch` | the batch calls, composed from the actions of `KVStore` |
| `KVMap` | abstract specification: an atomic, durable map with one client |
| `KVStoreImplementsMap` | the refinement mapping from `KVStore` to `KVMap` |
| `KVStoreStateProofs` | proofs that `KVStore` keeps its types, that `get` searches in the order of time, that ids are fresh and that lists and files of tables agree |
| `KVStoreValueProofs` | proofs about answers: what flush and merge keep of them, and what `keys` lists of what `get` finds |
| `KVStoreMapProofs` | proofs about what a recovery finds: what is acknowledged, at every step the map of `KVMap`, and a prefix of every batch |
| `WriteAheadLog` | the log below the level of records: stream buffer, file, disk |
| `FlushedLog` | `WriteAheadLog` composed with the memtable it recovers and the unsynced table files that replace it |
| `WriteAheadLogProofs` | proofs about both: what is acknowledged is read back |
| `KeyOrder`, `EntryCodec` | keys in their order; entries and their encoding |
| `SkipList`, `MemTable` | the skip list, one pointer at a time, and the memtable over it |
| `BloomFilter`, `SSTable` | the filter; the table file and the object that loads it part by part |
| `FlushPath` | `MemTable` composed with `SSTable`: filled, flushed, read back |
| `FlushPathProofs` | proofs that the list stays linked and sorted, that an entry survives its encoding and that the filter excludes no written key |
| `Glob` | `glob_match`, recursion and cache as a machine with a stack |
| `GlobProofs` | proof that it finds what the definition of a match says |
| `Commands` | the commands of the command line that change the store, over the map of `KVMap` |
| `CommandsProofs` | proofs that its arithmetic is exact, that its types are kept and that its three other properties hold |
| `Induction` | induction over numbers and finite sets, as facts about sets |
| `MCKVStore`, `MCKVStoreImplementsMap`, `MCKVStoreBatch`, `MCCommands`, `MCWriteAheadLog`, `MCFlushPath`, `MCGlob` | constants for TLC |

What is composed with what: `KVStoreBatch` and `KVStoreImplementsMap` stand on `KVStore`;
`FlushedLog` on `WriteAheadLog`; `FlushPath` on `MemTable` (over `SkipList`) and `SSTable`
(over `EntryCodec` and `BloomFilter`).  `KVStore` uses a log of records, a memtable that is a
map and tables that are maps or unreadable; `WriteAheadLog` and `FlushPath` open
these boxes.  There is no formal refinement between the levels: what `KVStore` takes from a
lower module is what that module's properties say (`AckedIsRead`, `FoundIsWritten`,
`AllOrNothing`, `WalkIsSorted`, `TotalIsSum`).

### KVStore and the code

The program counter `pc` names the file-system effect that comes next; a step of the
model is one effect together with the in-memory work up to the next one.

| Action | Code (`src/src/kv_store.cpp`) |
|---|---|
| `Put`, `Remove` (`Log`, `LogFails`) | 42-46, 107-111: take a timestamp, `wal_->append` |
| `Apply` | 314-325: update the memtable; `maybe_flush` 170-185 up to the write of the table |
| `FlushWrite`, `FlushFails` | 195-205: take an id, `write_from_entries` |
| `Install` | 207-215: list the table, drop the immutable memtable, truncate the log |
| `FlushReturns` (in `FlushFails`, `CompactDone`) | the return to `maybe_flush`, which after a retried flush rotates the current memtable (179-188) |
| `CompactSkip`, `CompactDone` | 218-224: the loop over the levels |
| `CompactToNothing`, `CompactWrite`, `CompactFails` | 226-297: merge, drop tombstones, write |
| `Unlink`, `Replace` | 280-288 and 299-306: remove the merged files one by one, then change the lists |
| `Clear`, `WipeFile`, `WipeDone` | 340-362 |
| `Stop`, `Crash`, `CrashInLog`, `CrashInTable` | the process ends, between or inside effects |
| `Open` | 19-40, 113-168: the constructor |
| `Read` | `get`, `exists`, `keys` and the counters, which are const |

Modelling decisions:

* A version is a value or `Tombstone` with a timestamp.  A log is a sequence of
  records and `Torn` ones; a table file is a map from keys to versions or `Partial`.
  Bytes, checksums, compression and the Bloom filter are abstracted to whether a
  record or file can be read.
* Lists of tables and file names are kept exactly, because recovery depends on them:
  `NameBefore` compares the decimal digits of two ids as text, as `std::sort` does with
  path names, and `NextIds` takes the id of the last *name* of each level, as the code
  does.
* `std::sort` is not stable, so that among versions with equal timestamps a merge may
  keep any (`Kept`).
* Faults are chosen by the constant `Faults`: `walFails` (a write or fsync of the log
  fails, leaving nothing, a piece or all of the record), `sstFails` (a table cannot be
  opened or written), `sstShort` (the end of a table is lost when its stream is closed,
  after `good()` was asked), `readFails` (a merge cannot open, check or decompress any
  of the tables of its level: it goes on without their entries and removes them with the rest;
  `unread` remembers which), `crash`, `crashInClear`, and `torn` (a crash inside a write).
* `Visible` is what `get` answers when it can read the tables it asks.  A read that fails makes
  `get` miss a key for that one call and changes nothing; it is in `FlushPath`.
* `Seen`, `Listing` and `KeyCount` are the loop of `keys` with its set of seen keys, apart from
  the lookup of `get`.
* A log stream that has failed may still hold its bytes in its buffer and write them
  when it is closed.  The outcomes are the ones `LogFails` offers at once, since
  nothing else is written to that stream in between; a record that the buffer brings
  a second time is in `WriteAheadLog` only.
* Not modelled: a failing `std::filesystem::remove` (it throws).  A failing truncation or
  reopening of the log and power failures are in `WriteAheadLog` and `FlushedLog`, tables
  damaged at rest in `FlushPath`.
* Bounds: `TimestampBound[n]` limits the writes of the process after its n-th start,
  `MaxStops` the number of stops.

### KVStoreBatch

`put(kvs)` and `remove(keys)` are the same loop over the single call; a batch is a
list of keys with values or `Tombstone`.  The module adds the loop's position and
two maps that remember what `get` answered at its start, live and after a restart.

### WriteAheadLog, FlushedLog

| Definition | Code (`src/src/core/write_ahead_log.cpp`, `src/src/kv_store.cpp`) |
|---|---|
| `Construct`, `Destruct` | the constructor, which opens the file at its end, and the destructor |
| `append`, `do_append`, `flush`, `fsync`, `Refuse` | both kinds of `append`: each record goes to the stream, then one `sync()` flushes it and calls `fsync`; a closed or bad stream is refused |
| `WriteFails` | a write that fails: some data in the file, all of it still in the buffer, the stream bad |
| `clear`, `close`, `Truncate`, `Reopen` | `clear()`: close, open for truncation, open for appending; each open may fail |
| `read_all`, `IsRecord` | `read_all`: lengths and checksums from the front, up to the first that does not fit |
| `Survivors`, `PowerFails` | external: what a power failure leaves |
| `Start`, `Put`, `WriteTable`, `WriteBack`, `Stop` | recovery, `put`, `flush_immutable`; the operating system writes table files to the disk |

A record is two pieces, so that a cut or a failing write can fall inside it, and any number
of pieces may stay in the buffer.  A power failure leaves the file as the
last successful `fsync` saw it, or with any more of what was written since; if the file
was truncated since, also any prefix of the new contents (`Survivors`).  A successful
`fsync` covers what an earlier failed one had left.  The checksum is perfect: a record with a
missing piece is recognised.  A zero-filled block after a power failure is not in the
model: it reads as records of length zero, which have the checksum of nothing, decode to nothing
and are passed over.  `acked` counts records that were acknowledged while the file could be read to
its end when it was opened (`whole`); the others are the subject of section 3.

### MemTable, SSTable, FlushPath

| Definition | Code |
|---|---|
| `BeginSearch`, `Right`, `Down`, `Hit` | `find` and the search of `insert` in `skip_list.hpp`, one pointer at a time |
| `Predecessor`, `Successor`, `Link`, `Overwrite`, `Emptied` | the end of `insert`; `clear` |
| `write`, `FoundOld`, `InsertNew` | `MemTable::put` and `remove`: one search for the size of the old entry, one for the insertion |
| `get`, `Got`, `get_all_entries`, `Collect`, `clear` | the functions of these names; `keys` and `size` make the walk of `get_all_entries` |
| `encode`, `decode`, `encode_size` | `entry.cpp`, with every check of a length |
| `Filter`, `add_all`, `may_contain`, `serialize`, `deserialize` | `bloom_filter.cpp`: sizes, double hashing, bits in bytes |
| `Written`, `write_from_entries` | `sstable.cpp`: data region, index of offsets, filter, footer |
| `load_footer`, `load_bloom_filter`, `load_index`, `load_data` | the lazy loading, each with an open of its own |
| `AfterGet`, `AfterGetAll`, `Kept`, `AfterKeys` | `get`, `get_all_entries`, `keys`: what they return and what they leave loaded; an entry that cannot be decoded is left out |
| `Flush`, `Reopen` | `flush_immutable`; the table object of a later process |
| `Opens`, `CutShort`, `DamageData` | external: opens that fail, files damaged at rest |

A cell stands for a character or for a field of fixed width, and a text is a sequence of cells.
`random_level` may give any height.  The hash functions are constants.  Files of versions 1 and 2 are what
older builds wrote.  LZ4 is lossless and takes no more than `LZ4_MAX_INPUT_SIZE`; the checksum
recognises every damage of the data region.  The size of the data goes through casts to 32 bits
(`sstable.cpp:38`, `42`, `46`): the model takes it modulo `Word`, so that of larger data LZ4 compresses a
part and the size in the file is that of the part.  `fits` remembers whether the size was told; what is read
behind the end of the buffer is `Garbage`.  `WordIsLarge` (the limit of LZ4 is below `Word`),
`EntriesFitWord` (a single entry and its fields are below it: the lengths in the encoding are 32 bits) and
`GarbageIsNotData` are the assumptions.  Index, filter and footer have no
checksum in the format, nor has the data of versions 1 and 2, so that damage there is
not in the model: the code cannot notice it.  A table of no entries is never written.

### Glob

A frame of `stack` is a call of `glob_match_impl` (`src/src/utils/glob_utils.cpp`): the place
it is about, and from where its loop goes on.  `EvaluateStar`, `EvaluateOne`, `AtEnd` and
`FromCache` are the ways a call begins, `Resume` what it does with the answer of the call it
waited for.  `Match` is the reference: the text is cut into one piece per character of the
pattern.  The last call of a star, with `text_end` (line 60), is in the model and always answers
false: what follows the skipped stars is another character, which the end of the text does not match.

### KVMap and the refinement

`KVMap` has a map `dict` and a flag `busy`.  A put, remove or clear changes the map in
one step, a failed put may or may not change it, the call returns in the end, and
nothing else may change the map.  `KVStoreImplementsMap` maps `dict` to what `get`
would answer if the process stopped at this very step and were started again
(`Durable`), so that each step of flush, compaction, stop, crash and recovery has to
be a stutter.

### Commands

| Definition | Code (`src/src/cli/commands.cpp`) |
|---|---|
| `handle_put` ... `handle_flushdb` | the handler of that name: it reads the store, decides what to write and what to print |
| `Sum`, `Difference`, `TooBig`, `TooSmall` | the guards of `handle_incrby` and `handle_decrby` (729-741, 791-803) on two's complement numbers |
| `CounterWrites` | the 0 stored for a missing key, then the new number (719-742) |
| `RenameWrites` | put of the new key, then remove of the old one (891-898) |
| `WriteNext`, `WriteFails`, `StoreReturns`, `Finish` | the calls of the store, and what the handler does with their results |
| `Die` | the process ends between or after the calls and is started again |

A handler becomes the list of writes it is going to make; each of them is marked by
whether the handler looks at its result.  The reads are taken when the handler begins,
since nothing else changes the store.  A value is a member of a set with three
tables, `NumberOf` (`std::stol`), `TextOf` (`std::to_string`) and `Concat`; that a number
which has been written is read back as the same number is an assumption
(`ConversionsAreSane`).  `stol` accepts a text that only begins with a number, and so does
`NumberOf`.  The store is `KVMap`: a failed put may have taken effect or not.  In `KVStore`
such a put becomes visible at the next restart only; the map shows it at once.  A
`FLUSHDB` cut short by the death of the process is not atomic in `KVStore` and is so here.
`MPUT` and `MDEL` hand their list to the batch calls of `KVStoreBatch`.

## 3. Runs

Passing runs:

| Run | Properties | Instance | Shows |
|---|---|---|---|
| `lifetime` | `TypeOK`, `SearchOrderIsTimeOrder`, `LevelsAreCompacted`, `LiveValuesKept`, `DeletedReturnsOnlyFromNextLevel` | two keys, two values of different size, three levels merged at two tables, seven writes | without faults, flush and cascading compaction keep every answer of `get`, but for a deleted key that can come back in one way |
| `faults` | `TablesAreOnDisk`, `KeysListsFound`, `LiveLostOnlyByDrop`, `DurableLostOnlyByRetry` | one key, two levels, four writes and any number of clears, all faults but crashes | with failing log writes, table writes and reads, short tables, retried flushes and a last level that cannot be compacted, a value is lost in the three ways the properties name, and `keys` lists a key that `get` does not find, or twice, in one way |
| `crash` | `AckedIsDurable`, `IdsAreFresh`, `ImplementsMap` | two keys, three levels merged at two tables, four puts, removes and clears, then a stop after any call or a crash between any two effects of a put or remove, also inside a record or a table, and a recovery | put, remove, flush, the merges of level 0 and level 1, and clear are atomic and durable, and return; what recovery lists has ids below the next one |
| `batch` | `BatchTypeOK`, `BatchAppliesPrefix`, `BatchCallReturns` | a batch put that names a key twice, a batch remove, single puts, clears, failing log writes, one crash, also inside clear | a batch has the effect of a prefix of its list, also when flushes fall into it |
| `commands` | `CommandsTypeOK`, `OkMeansDone`, `OneOfThreeStores`, `RenameKeepsValue` | two keys, longs of three bits, ten kinds of value, all sequences of commands | a command that prints no error has been carried out; a failure or death leaves the store as before, half way or after; `RENAME` to another key never loses the value |
| `log` | `LogTypeOK`, `AckedIsRead`, `ReadInOrder`, `SizeIsAtMostFile`, `OnlyUnsyncedTablesAreLost`, `MemtableHoldsTheLog` | four records in appends of up to three, one stop, all faults | an acknowledged record is read back after any crash or power failure, unless the failure takes the unsynced table file it was moved to |
| `flush_path` | `MemTableTypeOK`, `ListIsSound`, `SearchFinds`, `TotalIsSum`, `WalkIsSorted`, `FoundIsWritten`, `AllOrNothing`, `NoFalseNegative`, `CodecRoundTrip` | three keys (one a prefix of another, one empty), two values and a tombstone, three levels, three versions of the format, up to two failing opens in a call, a file cut or damaged, data larger than LZ4 takes and than the width of sizes tells | what was put is what the memtable and the table answer; failing opens, damage and data LZ4 refuses make keys unfindable and never answer them wrongly; only a table whose size wraps is misread |
| `glob` | `DepthIsBounded`, `WorkIsBounded`, `MatchIsRight`, `Terminates` | all patterns and texts of up to four characters over two characters | the matcher is right, ends, and does no work twice |

Runs in which TLC finds what a document or comment says violated by the code (the
counterexample is the point of the run; details with quotations in `PROJECT.json`):

| Run | Violated property | What happens |
|---|---|---|
| `deleted_returns` | `DeletedStaysDeleted` | `compact` looks for older tables from `level + 2` on, and drops a tombstone while `level + 1` holds the key |
| `load_order` | `LoadedInIdOrder` | `10.sst` is loaded before `5.sst` |
| `timestamp_reset` | `LiveValuesKept` | after a restart with an empty log timestamps start at 1, and a merge keeps the old version |
| `batch_atomic` | `BatchIsAtomic` | a batch put that fails in the middle returns false and leaves its first entries written, where `src/docs/api.md:26` promises all or nothing; `BatchAppliesPrefix` is what the code does |

More follows from the same models and has no run of its own:

* Records appended behind a torn one are never found: the constructor opens the log at its
  end (`src/src/core/write_ahead_log.cpp:19`) and `read_all` stops at the torn record (line 69).
  `src/include/x1nglsm/core/write_ahead_log.hpp:29` says that `read_all` skips what a crash
  has left incomplete ("跳过崩溃时写入不完整的数据"), and
  `src/include/x1nglsm/kv_store.hpp:33` that the log keeps data from being lost ("保证数据不丢失").
  `AckedIsDurable` fails with `torn`, two stops and a put between them; this is why
  `AckedIsRead` is about records appended to a `whole` log.
* After a failed write the buffer is written again on close, so that a batch that has failed
  can leave `r s r s t` in the log.  Its records are not acknowledged, but are replayed, an
  earlier one after a later one; `ReadInOrder` says that no acknowledged record lies among them.
* A retried flush that succeeds truncates the log (`src/src/kv_store.cpp:212`), which holds the
  records of the memtable filled since: a crash then loses acknowledged values.  If the retry fails too, `maybe_flush`
  moves the memtable over the immutable one (line 181), whose values are then in no memory
  and no table.  `LiveLostOnlyByDrop` and `DurableLostOnlyByRetry` name these losses.
* `compact` takes a table it cannot open, check or decompress for an empty one (`src/src/kv_store.cpp:230`),
  merges without it and removes its file: all it held is lost, to `get` and to a restart, although
  the next open might have succeeded.  Both properties name this as the second way of losing a value.  The third is a table
  whose end is lost on close after `good()` was asked; they say that there is no fourth.
* Table files are never synced (`src/src/core/sstable.cpp:104`): a power failure soon after a flush
  can take the table when the log has been truncated (`OnlyUnsyncedTablesAreLost` has `lost` for it).
* LZ4 takes at most 2016 MiB, and a merge of level 2 into level 3 has, with the default sizes, what
  64 memtables of 32 MiB held.  `write_from_entries` does not look at the result of `LZ4_compress_default`
  (`src/src/core/sstable.cpp:38`): the table is written without data and reported as
  written, and its sources are removed.  In `flush_path` such a table answers like
  an unreadable one.  Beyond 4 GiB the size wraps to a small number: LZ4 compresses a part of the data, the checksum
  fits, and `get` and `get_all_entries` read behind the end of the decompressed part
  (lines 130-133, 209-216).  `Misread` is this case in `FoundIsWritten` and `AllOrNothing`.
* `RENAME k k` writes `k` and then removes it (`src/src/cli/commands.cpp:898`); `RenameKeepsValue` is
  about two keys.
* The Bloom filter of a file is made with `std::hash`, which the format does not fix: another
  standard library may look for its keys elsewhere.
* `compact` of the last level opens a file in `level_4`, a directory the constructor does not
  create: after 256 flushes level 3 is full, every later flush merges it in vain, and it grows.
* After a restart that has listed `10.sst` before `5.sst` the next id is 6 (`recover_sstables`
  takes it from the last name), so that a later table can be written over a listed one.
* While a failed flush waits for its retry, `keys` lists a key of the immutable memtable that the
  memtable has deleted, and lists twice one that it has rewritten.  `KeysListsFound` says that they
  differ in no other way.

The first three runs of the second table use the constants of the code (`COMPACTION_TRIGGER` 4, `MAX_LEVEL` 4, decimal
ids) and the smallest workload that gets there;
`batch_atomic` those of `batch`.

Why the bounds of the passing runs are enough: with a trigger of two, four flushes
fill level 1 twice and reach level 2, so that a version passes through every kind of place
(memtable, immutable memtable, level 0, a middle level, the last level) and meets an
older version of its key in every other kind; two keys suffice because versions
of different keys meet only in the size of a memtable; the two sizes let one entry or
two fill a memtable.  The passing runs with a crash stay below ten files, have no
flushed version meet a merge after a restart, and write nothing behind a torn record:
the runs `load_order` and `timestamp_reset` and the list above show what happens beyond.  One stop is enough where the state before it is arbitrary.
In `crash` four writes are what it takes to merge level 0 twice and level 1 once; calls after
a recovery are in `batch`.  `faults` has one key, because the losses it is about are those of a single key - what
happens to it does not depend on which other keys lie in the same tables, but for the size of a memtable, and
there every write fills one; four writes reach the merge of the last level, and a memtable
filled behind a flush that failed twice.
A crash inside `clear` happens only in `batch`, whose properties ask nothing of it:
no document says what it should leave (it brings back the tables not yet removed).

`Commands` needs no bound on its behaviours: its states are finitely many.  Two keys
are the one a command names and another; longs of three bits reach both limits from
both sides with every sign, and the proofs drop the width.

In `log` an append of three records is the shortest in which the buffer can hold a whole record
and part of another while a third is still to come; one stop between any two steps
suffices because the state before it is arbitrary, and a run with two stops
(`MaxStops = 2`, 2,986,862 states, over five minutes) passes as well.  The proofs of section 4
have no bound.  In `flush_path` three keys are two neighbours and one between or
beside them, with three levels a new node can bring two into use, filters of 9, 19 and 28 bits have bits beyond
the last whole byte, 19 cells of input hold the smaller tables, those of up to 24 are refused, and the largest, from 25 cells on, wrap, one of them to 0.
In `glob` four characters hold two stars with something between and behind them; the proofs drop the bound.

Fairness: `WF_vars(Step)` says that a call that runs keeps running, which the one
thread of the program justifies; `KVStoreBatch` adds that the loop of a batch goes
on.  `WF_vars(Next)` in `Glob` says that a recursive function of one thread keeps
running.  No fairness is assumed of clients, faults, stops or restarts, and none in `FlushedSpec`
and `FlushSpec`, which have no liveness property.  It is used by
the `WF` of `KVMap` (each call returns), by `BatchCallReturns` and by `Terminates`.

Each property of a passing run has a mutant in `PROJECT.json`: a faulty variant of
an operator, defined next to it and used nowhere, with which the property fails.

## 4. Proofs

The theorems about `KVStore` hold for every set of keys and values, all sizes,
thresholds, triggers and numbers of levels allowed by `MarkersAreNotData`,
`ParametersAreSane` and `WorkloadIsSane`; those about `Commands` for every set of
keys and values, every width of long and all conversions allowed by `NumbersAreSane` and
`ConversionsAreSane`.

* `TypeCorrect` (`KVStoreStateProofs`): `Spec => []TypeOK`.  `TypeOK` is inductive.
  One lemma per action; helper lemmas type what the operators return (`EncodedSize`
  needs none: the model only compares it).  Where the model chooses - the maximum of the timestamps, the
  load order - it does so with `\E`, so that the type follows from
  the set chosen from.
* `SearchOrderIsRight` (`KVStoreStateProofs`): `Spec => [](stops = 0 => SearchOrderIsTimeOrder)`.
  The property is not inductive: a flush lists the table it has
  written earlier, so its contents must be tied to the immutable memtable, and a merge
  moves versions to the next level, so that what `out` holds must come from
  level `lvl`.  The invariant `OrderInv` adds that timestamps of memory, tables and
  the running record are below the counter, that `out` is ordered between the
  memtables and the tables it will be searched before, and that levels `lvl` and
  `lvl + 1` stay in order when the merged tables are replaced.  It ends with the first stop:
  `timestamp_reset` and `load_order` show the order lost after a restart.
* `IdsStayFresh`, `ListsAgreeWithDisk`, `ListsInIdOrder` (`KVStoreStateProofs`): for any faults and any
  number of restarts, `Spec /\ []RecoveryMeetsOneLength` implies `IdsAreFresh`, `TablesAreOnDisk` and `LoadedInIdOrder`
  always.  None is inductive alone; `FilesInv` takes the first two together and adds that no two files have one name, that a
  listed table is in its file and a readable file is listed, except for the level a merge has begun to unlink
  and the table it has written, and that the id of that table is above all listed ones.
  `RecoveryMeetsOneLength` (a recovery finds names of one length on each level) is what the code relies on:
  `recover_sstables` sorts names, not ids, and takes the next id from the last name (`load_order`).  `OneLifetime`
  drops it for `MaxStops = 0`.
* `NoLevelStaysFull` (`KVStoreValueProofs`): `LevelsAreCompacted` in one lifetime, if no table fails to be written. It
  needs what the loop has done so far (`CompactedSoFar`).
* `KeysAlwaysListsFound` (`KVStoreValueProofs`): `KeysListsFound` with any faults and restarts, a waiting immutable memtable
  included.  It compares two algorithms: of the tables from which the loop of `keys` could list a key it
  does so from the first one only, as it has seen the key in all later ones, and that is the one `get`
  answers from.  That there is a first one is induction over the finite set of places that hold the key.
* `AckedIsAlwaysDurable` (`KVStoreMapProofs`): `AckedIsDurable` through any number of stops and crashes at any step, with
  torn records and tables cut short, under three hypotheses: no write
  reports a failure (a rejected put may be on the disk; a retried flush truncates too much of the log), `[]NothingBehindTorn` (no record is
  logged behind one that was cut short) and `[]NamesOfOneLength`.  The code ensures none of the three,
  and section 3 says how each is broken.  `LogHoldsMemtable` ties the log to the memtable; `FilesInv` and
  `LoadedInIdOrder` make the list and the directory answer alike (`TablesAgreeWithFiles`), because the first holder in
  the order of the search is the same in both.
* `ValuesAreLostOnlyByDrop`, `ValuesAreKept`, `DeletedReturnsOnlyByMerge` (`KVStoreValueProofs`): the three action properties
  about what a background step may do to an answer, in one lifetime; the first with any faults, the others when tables
  can be written and read.  `LifetimeInv` is `OrderInv`, `FilesInv` and
  `OutIsRight`: the table that is being written holds what the merge of the tables it could read, or the immutable memtable, holds.  From
  the order of time, a merge keeps of each key the version `get` finds (`MergeKeepsNewest`), a replaced level
  answers as before (`ReplaceFinds`) unless a tombstone was dropped, and a listed flush answers as its memtable did
  (`InstallFinds`).
* `StepsAreMapSteps` (`KVStoreMapProofs`): what `ImplementsMap` says of single steps, without its fairness: `Durable`
  begins as the empty map, a put, remove or clear changes it as the call says and in one step, and every
  step of a flush, a merge, a stop, a crash or a recovery leaves it, through any number of stops and crashes
  at any step.  `MapInv` adds to the invariants above what is true in the middle of a call: a table
  that is not yet listed holds what the log also holds (`FlushedIsLogged`), so that truncating the log after it loses
  nothing; a merge removes its tables from the oldest on (`UnlinkedInOrder`), while the merged one, on the level below,
  is read after those that are left; and no table was cut short.  The theorem excludes `walFails` (a rejected put that has
  reached the file is in `Durable` until the next flush truncates it away), `sstFails` (a retried flush truncates too much),
  `sstShort` (a table loses its end), `readFails` (a merge removes what it could not read) and a crash inside `clear`
  (the tables not yet removed come back).  `Assumed` names what the code relies on and does not ensure:
  names of one length and nothing behind a torn record, as above; no tombstone dropped while an older value is left
  (`TombstonesAreKept`, see `deleted_returns`); and, in a merge after a restart, versions that are as old as their
  places say (`MergesInOrder`, see `timestamp_reset`).  In the first lifetime the last of these is not assumed but
  follows from `OrderInv`.
* `DurableIsLostOnlyByRetry` (`KVStoreMapProofs`): in one lifetime, with any faults.  `LogHoldsKeys` says
  which keys the log still covers - all of the memtable's, except after the retry of a flush has truncated them
  away - and `TornIsLast` that a torn record ends the log: the stream is bad from then on and the process writes nothing
  behind it until it stops.  The theorem assumes no more than file names of one length on a level.
* `BatchTypeCorrect`, `BatchHasPrefix` (`KVStoreMapProofs`): for any lists of puts and removes, any number of stops, and crashes,
  torn records and refused writes anywhere; the first without any hypothesis, the second with `Assumed`, as above, and without `sstFails`, `sstShort` and `readFails`,
  by which a flush or merge in the middle of a batch may lose entries of it.  To the engine a batch is a series of
  single calls (`BatchStepIsStep`), so that its invariants carry over (`EngineInv`).  `BatchInv` says
  what a reader and what a restart would find: `get` answers the entries up to the one the batch has reached, the
  running one as soon as it is logged (`Answering`), on top of what it answered before; a restart finds as many, or one
  more when that was refused but is in the log, on top of what it would have found before
  (`PrefixIsDurable`).  A flush that truncates the log makes the second what the first is
  (`InstallMakesDurable`); `AfterNext` says that of several entries of a key the last decides.

* `SumIsExact`, `DifferenceIsExact` (`CommandsProofs`): the guards let a sum or difference
  pass if and only if it fits in a long, and their own subtractions never overflow.
* `CommandsTypeCorrect`: `Spec => []CommandsTypeOK`.
* `OkIsDone`, `CutShortIsOneOfThree`, `RenameIsSafe`: `OkMeansDone`, `OneOfThreeStores` and
  `RenameKeepsValue` always hold.  All three follow from `ScriptInv`: while a command
  runs, the writes that are left lead from the store to what the command is to
  leave (`Ready`), also when the first of two is skipped.  It is needed because the properties
  say nothing of the list of writes.  Each command makes `Ready` true when it
  begins, which for the counters rests on the two theorems about arithmetic; each
  write keeps it.

* `LogTypeIsRight`, `AckedIsAlwaysRead`, `SizeIsAlwaysAtMostFile`, `OnlyUnsyncedTablesAreEverLost`,
  `MemtableAlwaysHoldsTheLog` (`WriteAheadLogProofs`): for any number of records, batch size, number of stops
  and set of faults.  `AckedIsRead` is about what every survivor of a power failure
  reads, and is not inductive: a step may change file or disk alone.  `FlushedInv` adds that, while
  a stream that found a whole log is good, file and buffer together are whole records, among them
  those of the running call (`FileOK`), and that the disk holds what is acknowledged and, if
  that is anything, is a beginning of the file (`AckedOK`): between a truncation and the next `fsync`
  nothing is acknowledged.  `KeptOK` ties the records of memtable and tables to those of the log.
  The lemmas on `read_all` rest on the greatest number of a bounded set.
* `ReadIsAlwaysInOrder` (`WriteAheadLogProofs`): for the same.  Neither the file nor file and buffer together are sorted, since
  a stream that went bad writes its buffer twice.  `OrderOK` says what is left of the order: the running call
  has the newest numbers, none of them acknowledged (`CallOK`); while the stream is good the buffer holds records of
  that call only, and they lie in their order behind everything else (`RunOK`); what is out of place has no acknowledged
  record between (`InOrder`).  So a failing write disorders only the call that fails with it, and an `fsync` that
  succeeds acknowledges nothing that lies across a disorder.
* `ListIsAlwaysSound`, `SearchAlwaysFinds`, `WalkIsAlwaysSorted` (`FlushPathProofs`): for any set of keys,
  any `MAX_LEVEL` and any heights.  `SkipInv` adds to the linkage what a search under way
  knows: on every level it has left, `update` holds the last node before the key
  (`LastBefore`), and what a walk under way has passed is sorted and lacks nothing up to where it is.
  `LinkIsOK` is the heart: a new node between its predecessors and successors leaves
  every pointer leading to the next node of its level.
* `TotalIsAlwaysSum`, `MemTableTypeIsRight` (`FlushPathProofs`): `TotalOK` says what the total is between the two searches
  of an insertion, too: the sum without the key that is written.  The sum is the library's fold, a recursive function
  over sets.  That there is such a function is proved by induction over cardinality (`SumExists`), and
  from this, again by induction, that two sums over the same numbers are equal and that any member may be added last
  (`SumsAreEqual`, `SumWithout`).  That the total is a natural number follows: the subtraction of the old
  entry's size never wraps.
* `CodecIsRoundTrip`, `NoKeyIsExcluded` (`FlushPathProofs`): for any keys, entries and, given `HashesAreNumbers`,
  hash functions.  `EncodedFields` says at which position each field of an entry lies, from which `decode` and its
  checks of lengths follow, also for an entry cut short.  Adding to a filter only sets bits, and a bit
  survives `serialize` and `deserialize`, so that a filter contains the keys it was made of; by
  `WalkIsAlwaysSorted` these are all keys of the memtable.  `TableOK` adds that what the object has loaded is the
  footer and the filter of its file.
* `FoundIsAlwaysWritten`, `AlwaysAllOrNothing` (`FlushPathProofs`): for any keys, entries, versions among the
  three of the format, limit of LZ4, width of the sizes, failing opens in any order of calls, and damage, given
  `HashesAreNumbers`, `WordIsLarge`, `EntriesFitWord`, `GarbageIsNotData`
  and `FullIsNotNil` (an entry is not the value that stands for none).  A table whose size wraps is included: each of its entries
  is right or `Garbage` (`Misread`), and none is another key's.  Neither is inductive: both say what
  a call returns, and nothing of what it leaves loaded for the next.  `Holding` says, of the list of entries that the table was
  written from, in key order: a file with a footer has their index, data that its check accepts is their encoding, or
  the beginning of it that LZ4 was told of (`FileHolds`, `IsPart`), and what the object has loaded is a part of the same (`CacheHolds`), whichever opens failed.  That
  the list is all of the memtable is `WalkMeets`, on top of the sorted walk.  The data region is a chain of records with their
  lengths before them (`ChainExists`, `ChainHolds`), so that a read at a noted offset gives the record noted there
  (`ReadsBack`), and the round trip of the codec its entry.  `LowerBoundSeparates` is the binary search: were
  there an interval it searches wrongly, take the shortest.  Both the search and the library's flattening are
  recursive functions, whose existence is proved by induction over numbers before they are unfolded.
* `GlobIsInvariant`, `DepthIsAlwaysBounded`, `WorkIsAlwaysBounded`, `MatchIsAlwaysRight` (`GlobProofs`): for
  every pattern and text.  The cache holds only right answers (`CacheOK`), and a call that
  waits on top of another tries a place whose answer, with what its loop has already
  refuted, decides the caller's (`WaitingOK`).  `Match` is unfolded at the first character of the
  pattern, which for a star needs the greatest and least cuts.
* `Induction` derives least and greatest numbers and induction over a set of numbers from the library's
  facts on finite sets, as statements about sets.

Every safety invariant of the runs that pass has a theorem.  Checked by TLC only: liveness, which rests on
fairness and is out of the prover's reach - that of the refinement (`ImplementsMap` beyond its steps), of
batches, and `Terminates`.

## 5. Plan

1. `KVStore`, `KVStoreBatch`, the refinement, `Commands`, and their theorems (done).
2. `WriteAheadLog` and `FlushedLog` with their theorems (done).
3. `SkipList`, `MemTable`, `EntryCodec`, `BloomFilter`, `SSTable` and `FlushPath` (done), the theorems
   of the skip list, the codec, the filter and the table (done).
4. `Glob` and its theorems (done).
5. `IdsAreFresh`, `TablesAreOnDisk`, `AckedIsDurable`, the action properties of `KVStore` and the steps of the
   refinement, `DurableLostOnlyByRetry`, `BatchHasPrefix`, `FoundIsWritten` and `AllOrNothing`
   (done).  Open proofs: none of a safety invariant; the hypotheses of the theorems of the engine (`Assumed`) may be weakened.
6. Open models: two stores in one process do not occur; a `std::filesystem` call
   that throws leaves the constructor or a compaction in the middle.

## 6. Not modelled

Wording and layout of command output, the splitting of a command line, the string, argument
and system utilities: they keep no state and decide nothing the store depends on.  CRC32 and
the vendored LZ4 are taken for what their users expect (every damage found, no data lost within the
limit).  Memory: a torn length makes recovery allocate up to 4 GiB
(`src/src/core/write_ahead_log.cpp:64`).  Exceptions of `std::filesystem`.  The casts of the offset of the filter and of the number of entries
(`src/src/core/sstable.cpp:101`, `97`): the index is taken to end below 4 GiB, and a table to have fewer entries than that.
Lengths of a key or value from 4 GiB on (`src/src/core/entry.cpp:28`, `37`).  Tests, examples and scripts.
