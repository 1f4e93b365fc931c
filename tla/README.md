# Verification of badger-rs

badger-rs is a key-value store after WiscKey: an LSM tree of keys (memtables and levels of
immutable SST tables) and a value log for large values. This directory holds TLA+ modules
translated from its Rust code, TLC configurations that check them on small instances, and
proofs checked by TLAPS. File names below are relative to the repository's `src/`.

## 1. The system

| Component | State | Operations | Talks to |
|---|---|---|---|
| KV, write path (`kv.rs`) | write channel, value pointer `vptr`, CAS counter | `set`, `set_if_ab_sent`, `compare_and_set`, `delete`, `compare_and_delete` (all `batch_set`), `do_writes`, `write_requests`, `write_to_lsm`, `ensure_room_for_write` | value log, memtables, flush task over `flush_chan` |
| memtables (`st_manager.rs`, `skl/`) | current skip list `mt`, list `imm` of immutable ones | `swap_st`, `advance_imm`, lock-free `put`, `get`, cursors | writer, flush task, readers |
| flush task (`kv.rs`) | the current task | `flush_mem_table`: store `!badger!head`, write a table file, `add_level0_table`, `advance_imm` | levels |
| levels (`levels.rs`, `level_handler.rs`) | per level: table list, total size, two locks | `run_worker`, `do_compact`, `fill_tables(_l0)`, `run_compact_def`, `add_level0_table`, `get`, `new` | compaction status, manifest, table files |
| compaction status (`compaction.rs`) | per level: claimed key ranges, `del_size` | `compare_and_add`, `delete` | workers |
| manifest (`manifest.rs`) | the MANIFEST file and its content in memory | `open_or_create_manifest_file`, `add_changes`, `rewrite`, replay | levels |
| value log (`value_log.rs`, `log_file.rs`) | log files, write offset, iterator count | `write`, `sync`, `read`, `replay`, rotation, garbage collection | KV |
| iterators (`iterator.rs`, `y/merge_iterator.rs`, `table/iterator.rs`) | cursors | `rewind`, `seek`, `next` | memtables, tables |
| tables (`table/`) | file, block index, bloom filter, reference count | builder, `open_table`, `incr_ref`, `decr_ref`, `drop` | file system |
| `Closer`, channels (`types.rs`) | counter, bounded queues | `signal`, `done`, `wait` | every background task |

What is hard about it: one write loop, one flush task, several compaction workers, readers and
`close` all run at once, with locks that are smaller than they look (a level's `self_lock` does
not protect its table list; the guards of `share_lock` are dropped in the statement that takes
them); flushes stall on compactions; a compaction is committed in the manifest before the
levels change; a crash may come between any two of these steps; `close` stops tasks in an
order. `PROJECT.json` lists the hazards line by line.

What makes each part correct:

* compaction status: running compactions never overlap; it forgets exactly what ends;
* levels: sorted above level 0; a lookup finds the newest version at every moment, also for a
  reader that is under way; a crash loses nothing the manifest accepted; flushes do not stall forever;
* manifest: what replays is right, of an interrupted change set all or nothing;
* iterators: each is a cursor over the sorted set of its keys; a scan shows the newest record of every
  key, in order, whatever is written meanwhile;
* value log: a pointer leads to the record it was made for; a clean shutdown leaves nothing to replay;
  with `sync_writes` counters do not repeat while the stored head is there;
* write path: reads see the last write, conditional writes are atomic, the stored head lets a replay
  find everything, requests are answered, `close` ends and leaves everything on disk.

## 2. Modules

`KeyRanges` (constant operators) <- `CompactStatus` (state machine) <- `CompactStatusProofs`;
`Tables`, `Levels` <- `LevelsProofs`, which instantiates `CompactStatusProofs` as `CSP`;
`WritePath` <- `WritePathProofs`; `SkipList` <- `SkipListProofs`; `ManifestFile` <- `ManifestFileProofs`;
`ValueLog` <- `ValueLogProofs`; `Iterators` <- `IteratorsProofs`.
`FiniteSetFacts` (induction and recursion on the naturals as lemmas about sets and functions, sums over finite
sets, minima and maxima, what is n-th in an order, words modulo `Word`) is under all of these proof modules but
`WritePathProofs`.
`KeyRanges` <- `Tables` (constant operators) <- `Levels` (state machine), which instantiates
`CompactStatus` as `CS` and is checked to implement it. `ManifestFile` and `WritePath` stand on
their own: `Levels` uses the abstract content of the manifest, `WritePath` the abstract content
of the levels. `SkipList` implements `MemTable`, the map that `WritePath` takes a memtable for.
`Cursors` (constant operators) <- `Iterators` (state machine), which is checked to implement
`SortedCursor`. `ValueLog` stands on its own: it takes the steps of the write loop as one and has what
`WritePath` leaves out, the bytes of the log and several sessions of a store.
`MC*` modules give the constants of the runs.

**KeyRanges** - `KeyRange` and its comparisons. Keys are positive numbers, 0 is the empty
byte string. `Equals` keeps the code's comparison of a range's right end with itself.

**CompactStatus** - `at[w]`, `def[w]` are a worker's place in `do_compact` and its
`CompactDef`; `lock[l]` is the exclusive side of `self_lock`; `ranges`, `delSize` the
`LevelCompactStatus`. `LockThis`, `LockNext` = `lock_exclusive_levels`; `FillTables` = an
admitting `compare_and_add` with unlocking; `GiveUp` = returning false; `SlicePanics` = the panic in `fill_tables` that leaves
both locks taken; `Delete` = `delete`. Which
tables a worker finds is an input. Sizes are words modulo `Word`, as both build profiles wrap:
`Cargo.toml` sets `debug-assertions = false` for dev, and overflow checks follow that setting unless they are set themselves.

**Tables** - the pure functions on table lists: sorting, validation, the two binary searches
of `overlapping_tables`, `replace_tables`, `delete_tables`, a level's `get`, the merge and the
cutting into new tables. A table is an id and a function from keys to versions; its size is
the number of its keys. Lists are filtered and sorted by what is at their n-th place (`Nth`), which needs
no recursion. `binary_search_by` may answer with any of several matches, so a search
has a set of outcomes.

**Levels** - one action per step of a worker between two lock releases: `Tick` (pick levels),
`LockThis`, `LockNext`, `SearchLeft`, `SearchRight`, `FillTables`/`Refused`/`NothingToCompact`/
`SlicePanics`, `Build`/`BuildFails`/`BuildPanics`, `WriteManifest`/`ManifestRefuses`,
`ReplaceNext`, `DeleteThis`, `Finish`; the flush task (`Flush`, `LogTable`, `TryAdd`, `Stall`,
`Unstall`); a reader (`StartGet`, `GetLevel`); a crash and reopening at any moment (`Reopen`). A
worker whose task panics stays "dead", "stuck" (holding locks) or "lost" (holding claims).
History variables `visible` and `durable` are the newest versions in level 0 and in the manifest.
`Stages` and `StatusDefs` are what `CompactStatus` sees of the workers.

**ManifestFile** - the file is a sequence of words (magic, version, and per change set a
length, a checksum and a body) and the handle has a position, so that overwriting and torn
appends can be told from appending. `Create`, `Open`, `AddRefused`, `AppendChanges`,
`CrashInAppend`, `Rewrite`, `Close`.

**WritePath** - clients, the write loop (`Receive` ... `WriteToLsm`), the flush task
(`FlushTakes`, `FlushAdds`, `FlushFails`, `AdvanceImm`), `close` (`Close` ... `Closed`) and a
reader. `latest` is the history of what the loop put.

**MemTable** - the promise of a memtable: a map, and puts that each take effect at one moment
between call and return.

**SkipList** - the lock-free list. `nodeKey`, `value`, `tower` are the arena's nodes by offset (0 is
nil), `writer[w]` the locals of `_put`: where it is, the predecessors and successors it found.
A step is one access to memory that others write: `Advance`, `SearchDone`, `FindDone`, `RetryDone`
are loads of a tower in `find_splice_for_level`, `Link` is a compare-and-swap of a level, `Grow` and
`Raise` the loop on the height, `SetValue` the store of a value. A reader does one `find_near`
or one walk with a cursor. A failed assertion is the place "panicked".

**Cursors** - the iterators as values and their calls as functions: a block with its dummy entry
(`BlockNext`, `BlockPrev`, `BlockSeek`), a table (`TableSeekFrom` = `seek_from` over the block index,
`TableForward`, `TableBack`), the tables of a level (`ConcatNext`, `ConcatRewind`, `ConcatSeek`), a
memtable (`Mem...` = `UniIterator`), and the merge with its heap (`MergeRewind`, `MergeSeek`,
`MergeNext`). `ItNext` and its like are the trait `Xiterator`.

**SortedCursor** - the promise of an `Xiterator`: a place in a sorted set of keys.

**Iterators** - one iterator in use: `RewindSource`, `SeekSource`, `NextInSource` on one source,
`RewindMerge`, `SeekMerge`, `NextInMerge`, and for `IteratorExt` of a store `Rewind`, `Seek`,
`NextItem` with `item` and `data` as in the code and a writer (`Put`). `kept`, `shown`, `base` and `removed` are
the history of a scan: the item a seek returned again, the items since, and what was there at its position. The guards of `NextInSource` and `SeekMerge` leave out calls nobody makes.

**ValueLog** - `log`, `fileLen` are the only file, `maxFid`, `vlogs`, `woff` the `ValueLogCore`; `mt`,
`tables`, `head`, `vptr`, `cas` what of the KV matters to it. `Open`, `Replay`, `OpenFails`, `Ready` =
`KV::open`; `Write`, `WriteFull` (with a flush), `WritePanics` = `write_requests` with
`ValueLogCore::write` (`AppendBatch`, `Rotate`); `LoseHead` = a compaction of level 0; `Close`, `Crash`. An
entry has length 1 or 2 (values over `value_threshold`). `spilled`, `misread`, `forgot` record that a session
outgrew its file or crashed, that something was replayed or would be, and that a head was lost:
the properties say what holds without them.

Abstractions a reader should know:

* `replace_tables` is one step. In the code `total_size` grows just before the lock of the list is
  taken, so a worker that picks levels in between may see a sum that is too large;
* the levels a worker picks are computed in one step from a snapshot;
* a change set that the manifest refuses is not written; that the changes before the refused one stay applied in memory is
  modelled in `ManifestFile` (`AddRefused`), and left out of `Levels` (`ManifestRefuses`), where it takes two workers;
* the searches of `Tables` in a list that is not sorted (only two workers, or tables of one key, make one) answer with the
  number of smaller keys when the key itself is not there; Rust's probe order may end at another place;
* a file whose handles are all dropped is removed; references that readers leak, which may keep a
  file or delete a live one, are not in `Levels` yet. A file kept too long is harmless there:
  opening removes files the manifest does not list;
* tables of a failed build are dropped with a count of 1, which removes their files; a file that the
  failing build left half-written is not modelled (opening removes what the manifest does not list);
* bloom filters only skip tables without the key, so they cancel out of `get`;
* `Levels` takes the manifest as atomic and durable: what `ManifestFile` shows about it is separate;
* a request in `WritePath` has one entry; the capacity of `write_ch` is not modelled (senders wait);
* in `WritePath` the levels are the newest record of each key: that this is what they return is
  `LookupIsLatest` of `Levels`;
* keys in `Cursors` are whole: the prefix compression of a block is left out;
* a call of `IteratorExt` is one step: a put between two steps of the merge inside one `pre_fetch`, which awaits there, is not modelled;
* values are fetched by tasks that change neither the keys of a scan nor their order, and are left out;
* in `ValueLog` a batch and the flush it causes are one step (their interleavings are in `WritePath`), and
  what a replay reads out of step is any counter up to `Garbage` above, or an error;
* the replayed empty key hides the whole table in `ValueLog` (`Flush`); in the code it hides the block it begins, 100 records;
* a rewritten MANIFEST is empty (`Rewrite`), since its buffer is never flushed; of a manifest over the 8 KiB of that buffer
  the first part would be on disk;
* memtables are full after `MemSize` records, whatever their size in bytes;
* atomics of `SkipList` are sequentially consistent, as the instructions on x86-64 are;
  `cas_next_offset` asks for Acquire only. `compare_exchange_weak` on the height fails only when
  the height differs. The arena never runs out.

## 3. Runs

| Run | Checks | Result |
|---|---|---|
| `compact_status` | `TypeOK`, `ClaimsDisjoint`, `StatusIsClaims`, `DelSizeIsClaimed`, `LocksReleased` | hold |
| `levels` | `TypeOK`, `LevelsSorted`, `LookupIsLatest`, `CrashSafe`, `SizesExact`, `ManifestAccepts`, `ReplacesMerged`, `ReadsNotStale`, `FlushCompletes` | hold |
| `levels_pair` | `TablesNotShared`, `StatusRefined` | hold |
| `manifest` | `TypeOK`, `NeverMisread`, `CountersExact` | hold |
| `write_path` | `TypeOK`, `LookupIsLatest`, `GetNotStale`, `HeadSafe`, `ConditionalWrites`, `RequestsAnswered`, `CloseCompletes` | hold |
| `skip_list` | `TypeOK`, `ListsSorted`, `AssertionsHold`, `FindsNear`, `ScanComplete`, `MapRefined` | hold |
| `iterators` | `ReplaceAsserts`, `ScanSorted`, `ScanComplete`, `CursorRefined` | hold |
| `value_log` | `PointersResolve`, `CleanReopen`, `CasAhead`, `WritesContinue` | hold |
| `levels_single` | `LevelsSorted` with tables of one key | violated |
| `levels_race` | `ReplacesMerged` with two workers | violated |
| `manifest_reopen` | `AlwaysReplayable` | violated |
| `write_path_close` | `ClosedIsDurable` | violated |

The four violations are places where the code does not do what its comments say:

* `levels_single`: `replace_tables` keeps a table with `biggest <= left`, so a table of one key
  survives its own merge and the level has overlapping tables (`level_handler.rs:255` against 402).
  In a run of `levels` every table above level 0 has two keys, which is why `LevelsSorted` holds there.
* `levels_race`: a worker looks for its bottom tables twice and then slices the list; another
  worker, which needs no level lock for it, may replace tables in between (`levels.rs:823`
  against 302-303). With one worker, `ReplacesMerged` holds (`levels`).
* `manifest_reopen`: after reopening, the handle is at the start of MANIFEST and the next change
  overwrites the magic text (`manifest.rs:475` against 68-70).
* `write_path_close`: the flush task is sent before `swap_st` pushes the memtable to `imm`; if
  the flush task is quick, `remove(0)` on the empty `imm` panics and ends it. `close` counts a dead
  task as a finished one and returns, with memtables not flushed (`kv.rs:554` against 1197-1198).

Five more places disagree with a comment. There the modules follow the code, and the properties of the passing
runs name the case as their exception, so that they say what does hold around it; none of them is shown to hold
as the comment has it:

* seek on a positioned iterator: `iterator.rs:352-354` says "Seek to the provided key if present. If absent, if would
  seek to the next smallest key greater than provided if iterating in the forward direction." `IteratorExt::seek` does
  not take the current item away (355-367), so it returns that item once more and the sought keys follow it.
  `Iterators` has the item as `kept`; `ScanSorted` and `ScanComplete` are about what comes behind it, and `ScanSorted`
  says that only a seek leaves one.
* reverse scans: `iterator.rs:258` says "Direction of iteration. False is forward, true is backward." and 369-371 that
  rewind goes to "the smallest key if iterating forward, and largest if iterating backward". `new_iterator`
  does not pass `reverse` to the merge (`kv.rs:1194`), so a scan of the store goes upwards whatever the
  option says. `StoreOK` has `~rev` for `"kv"` for this reason; the merges and single iterators run in both directions.
* rewinding an empty memtable: `skl/skip.rs:682-683` says "Seeks position at the first entry in list. Final state of iterator
  is valid() iff list is not empty." `seek_to_first` unwraps `find_last` (686) and panics on an empty list, and so
  does every scan of a store whose memtable is empty (`MemRewindPanics`, `UnwrapsNothing`). `ReplaceAsserts` is about
  the other way to panic only: meeting `!badger!head` behind the start of a scan (`y/merge_iterator.rs:26`).
* compare_and_delete: `kv.rs:1053-1054` says "CompareAndDelete deletes a key ensuring that it has not been changed since last
  read." It writes an empty value without the delete bit (1055-1056), which `_get` passes over (187): the record before it, with its
  counter, is found again as long as an older memtable or a table has it, and a stale `compare_and_set`
  succeeds. The run `write_path` has this operation (`"empty"`); `ConditionalWrites` is about keys whose last record is not
  such a one, `GetNotStale` about gets that pass over none, and without these exceptions both are violated.
* a request at close: `kv.rs:1197-1198` says of `close` that it ensures "all the pending updates make their way to disk". A
  request that the write loop has taken from `write_ch` and only buffered, when it finds `write_ch` empty and the store
  closing, is dropped (1110-1169). Its sender keeps a clone of its own channel (`value_log.rs:414-419`,
  `types.rs:26-29`), so it gets no error and waits forever. `RequestsAnswered` has this case (`Lost`) as its exception.

Further places where the code does less than one would expect and no comment or test says otherwise; again the models follow the
code and the properties leave the case out, each in its comment:

* iterators: after a `seek`, `ConcatIterator::next` starts again at its first table, since `init` is never
  set (`table/iterator.rs:634`; nobody does it). `IteratorExt::next` returns the item it queued last, not the
  current one, which `peek` gives.
* locks: a slice of the next level's list with indices that are stale (`levels.rs:769`, `828`) panics while the worker holds
  both level locks, which are raw locks and stay taken. `SlicePanics` has it in `CompactStatus` and in `Levels`, and
  `LocksReleased` says who can be kept waiting by it: workers on that level or a lower one.
* replay: `LogFile::iterate` clears the buffers it reads keys and values into, so it reads neither: replay puts
  the empty key and steps through the file by headers. Logged writes that were not flushed do not come back
  after a crash, and a record with a counter check makes `open` fail, also after a clean close if only refused
  conditional writes were logged. The empty key is then written like the dummy entry of a block and
  hides the block it begins.
* rotation: `fetch_add` returns the old id, so the "new" file is the old one and `max_fid` names a file that is
  not there; the next write, or without `sync_writes` the next flush, panics in the write loop.
* crash: the file keeps its mapped length, writing goes on behind it and the next logged batch fails an assertion.
* counters: without `sync_writes` a store that logged nothing stores no head, and a compaction of level 0 drops
  it (`y/merge_iterator.rs:69`); the counter then starts over.
* `ReadsNotStale` is checked with one compaction worker; the race of `levels_race` can lose tables
  under a reader too.

Bounds. `compact_status`: three workers and three levels, so that two compactions can share a level
as source, as target, or as both, with a third one waiting; three keys give disjoint, touching,
nested and equal ranges; `Word = 3` makes sizes wrap. `levels`: the store opens with a table in level 0 (`OpenedWith`), and two flushes fill
level 0 to the stall, push level 1 over its limit and make level 2 a target, while a reader looks for a key; one crash and one failing build
can come anywhere in that. `levels_pair`: two workers and tables of one key, with the head key
in the middle, so that every refusal and every panic happens. `manifest`: seven change sets over
three sessions reach refusals, rewrites and torn appends. `write_path`: memtables of one
record and one place in `flush_chan`, so three requests fill it; two clients suffice for
conditional writes to race. Its operations include records with an empty value, unconditional and as
`compare_and_delete` writes them, so that a get passes over one and a conditional write meets one.
`skip_list`: the store itself puts from one task and reads from others, but the list promises more and
its tests put from many threads, so two threads put three records on two keys, which makes them meet on
the same key, on the same predecessor and on the height; towers of three levels give the search of a
level above the one first seen (`i > 1`). The reader runs during the first two puts (`MaxPutsRead`);
threads are interchangeable (symmetry).
`iterators`: blocks of two records and five keys give tables of up to three blocks and every list of up to
two tables; the merges have two or three sources over four keys, the head key not the least of them; a scan
prefetches three items with up to two writes under it. `value_log`: a file of length 4 is outgrown by two
batches; three openings give a crash or a shutdown and what comes after the session that follows it; both
values of `sync_writes`.
`MaxFileId`, `MaxFlushes`, `MaxFailures`, `MaxRestarts`, `MaxAdds`, `MaxOpens`, `MaxOps`, `MaxPuts`, `MaxWrites` are the bounds
that guards use; when file ids run out a build cannot start, which only `levels_pair` reaches, and
it checks no liveness.

Fairness. Weak fairness of each compaction worker (a tokio task with a one-second timer), of the
flush task (which polls every 10 ms while stalled), of the write loop (a task with a timer) and of
the caller of `close`; strong fairness of taking the second level lock, as parking_lot's locks are
eventually fair. Nothing makes clients write, readers read, I/O fail or the process crash. The
liveness properties of `write_path` exempt the case that a task died, and `RequestsAnswered` the request lost at close. In `compact_status`
the fairness of `GiveUp` only says that a worker leaves `fill_tables`, which it also does by being admitted or by a panic; the
locks of a worker that panicked are never given back. `FlushCompletes` is checked
with a last level that never fills, since a full one ends the worker (`levels.rs:297`).

Deadlock is not checked: workers that panicked with their locks held can stop all others, and a store that is closed or that
nobody writes to, or an iterator after a panic, comes to rest.

## 4. Proofs

`CompactStatusProofs` proves, for every set of workers, every number of levels from two on, every
word size and every set of keys (`KeysAssumption`, `WorkersAssumption`, `MaxLevelsAssumption`,
`WordAssumption`, `SizesAssumption`):

* `TypeCorrect`: `Spec => []TypeOK`;
* `CompactionsDisjoint`: `Spec => []ClaimsDisjoint`;
* `StatusExact`: `Spec => []StatusIsClaims`;
* `DeleteFinds`: a running compaction finds both its ranges, so `assert!(found)` holds;
* `DelSizeExact`: `Spec => []DelSizeIsClaimed`.

The inductive invariant is `IInv` = `TypeOK`, `LockInv` (between locking and unlocking a worker
owns both levels), `ClaimShape` (on level 0 a compaction claims everything, above it the hull of
some tables), `ClaimsDisjoint` and `StatusIsClaims`. The last two need each other: admission looks
at the recorded ranges only, so disjointness needs the record to be complete; and `remove` drops
every range with the same left end, so the record stays complete only because two claims with the
same left end would overlap (`EqualsOverlaps`) and claims do not. `ClaimShape` excludes the one
exception, a finite range with the empty left end of `INFO_RANGE`. `DelSizeIsClaimed` is inductive with `TypeOK`: it
is a sum over the running workers modulo `Word`, of which admission adds and `delete` takes away one term (`SumJoins`).

`LevelsProofs` proves, for any number of workers, levels, flushes, failures and restarts, every capacity of a table
and all sets of keys that a table can hold (`TableSets`: not empty, and the size is a machine word):

* `SizesAreExact`: `Spec => []SizesExact`;
* `StatusImplemented`: `Spec => StatusRefined`;
* `TypeCorrect`: `Spec => []TypeOK`, that no file id is handed out twice included;
* `TablesApart`: `Spec => []TablesNotShared`.

All four hold with the races of `levels_race`, with tables of one key, and after panics, so nothing in them may rest
on sorted lists or on indices that still fit. The inductive invariant `LInv` is `WorkersOK` (a `CompactDef` at each
place of `do_compact`: `Chosen` after the top tables are, `Admitted` once `next_range` is the range of the bottom tables),
`ListsOK` (lists of tables, with `SizesExact`), `DiskOK` (the manifest names ids that were handed out) and `KnownOK`:
of all tables that are listed, on disk, or held by a worker or the flush task, no two have the same id, and each id
is below the next one. `SizesExact` needs it: `replace_tables` takes off the counter what a second search finds and takes
out of the list what has the same ids, so the two agree only because ids are unique. The operator lemmas say what
`Filter`, `StableSort`, `ReplaceTables`, `DeleteTables`, `Merge` and `BuildTables` do to any list: `PartOf` relates a
list to the part of it at some indices, and the sum over a list does not depend on its order (`SumOfPart`).

For the refinement, a step of a worker changes one entry of `Stages` and `StatusDefs` (`SeenStep`); `LockThis`, `LockNext`,
`FillTables`, `Finish` and the ways to give up are the steps of `CompactStatus`, all others are not seen
(`UnseenSteps`), and a restart begins with an empty status. So `CSP!IInv`, the inductive invariant of `CompactStatus`, holds
in `Levels` (`StatusInvariant`), which gives the types of locks, ranges and `del_size`. `TablesApart` follows: claims
are disjoint, a claim spans the keys of its tables (`RangeFacts`), a table has a key, and an id is one table. It is stated level
by level on purpose. Across levels it is false: a worker may hold a table in `top` that a stale search lets another one move
down, and with four levels and three workers a third one can take it from the level below. No run has that many.

Its second part proves what the levels store, for any number of levels, flushes, failures and restarts, every
set of keys and every capacity, with one worker (`OneWorker`) and in behaviours in which no table below
level 0 ever has a single key (`Spec /\ []NoSingles => []...`):

* `SpecLevelsSorted`: `LevelsSorted`; `SpecLookup`: `LookupIsLatest`; `SpecCrashSafe`: `CrashSafe`;
* `SpecManifestAccepts`: `ManifestAccepts`; `SpecReplacesMerged`: `ReplacesMerged`;
* `SpecReads`: `ReadsNotStale`, for readers of user keys (`ReadKeys \subseteq UserKeys`; compactions drop the head key).

Both hypotheses are needed and neither is empty: `levels_single` has one worker and tables of one key,
`levels_race` two workers and no such table, and each ends in a violation; every reachable state of `levels`
satisfies `NoSingles`. The inductive invariant `SInv` extends `LInv`:

* `VersionsOK`: versions are numbers of flushes, and the table being flushed has the greatest;
* `SortedOK`: level 0 is in the order of ids, the other lists ascend without overlaps and do not have the head key;
* `OrderOK`: no table has an older version of a key than a table on a level below it, except between
  `replace_tables` and `delete_tables`, when the two levels have the same records; and the newest of all are `visible`;
* `DiskGood` and `DiskMatches`: the store that a restart would find is ordered and has the versions in `durable`, and differs
  from the lists by the tables that a compaction has logged but not yet replaced or deleted, and by the flushed table;
* `FlushOK`, `WorkerOK`: what the flush task and the worker hold still fits the lists (`Searching`, `Taken`, `Merged`,
  `Logged`, `Deletable`, by the place in `do_compact`).

The lists and the disk need each other: `CrashSafe` after `WriteManifest` rests on the lists being in order before
it, and the order of the lists in `"delete"` rests on the disk, which is already as the lists will be. The single-key
condition enters in one place, `TakesMerged`: a merged table lies within the hull of the new ones, and
`replace_tables` finds it unless its biggest key is the left end of that hull, which a table with two keys
cannot have. The operator lemmas before it say what the two binary searches find in
a list in order (`LeftSearch`, `RightSearch`, `CutOut`), that a level's search finds its newest version
(`LevelGetNewest`, `LookupNewest`), that a merge keeps the newest of each key (`MergeNewest`) and that the tables built
from it ascend (`BuildOrder`). For a reader, `ReaderOK` says that a version as new as it may expect is on a level it has not
visited; tables only move down, and are there before they are deleted above (`Sinks`).

`WritePathProofs` proves, for every set of clients and keys, every memtable size, every capacity of
`flush_chan` and any number of requests:

* `TypeCorrect`: `Spec => []TypeOK`, the limits of memtables and of `flush_chan` included;
* `LookupCorrect`: `Spec => []LookupIsLatest`;
* `HeadIsSafe`: `Spec => []HeadSafe`;
* `ConditionalWritesCorrect`: `Spec => ConditionalWrites`, and `GetIsNotStale`: `Spec => []GetNotStale`, for all
  operations, records with an empty value included; the properties themselves say where such a record is in the way.

The inductive invariant `IInv` says which memtables are flushed, by the place of every thread: `imm` holds the
memtables `FirstImm .. Mt - 1` (`ImmInv`), the tasks on their way are those memtables in that order, then the
one being swapped, then the order to quit (`TasksInv`), and the levels hold exactly the first `d` memtables,
where `d` follows from where the flush task is (`DiskInv`). `HeadSafe` needs more than itself: a head is
stored from the pointer in the task, which was taken when the memtable was swapped, so `TaskPtr` puts the
pointer of every task between the stored head and everything that later memtables got from the log
(`ChanPtr`, `BatchPtr`). `LookupIsLatest` needs counters that ascend with the age of memtables (`CasInv`)
and `latest` to be the newest record in all memtables that ever were (`LatestInv`). A reader under way has taken a
list of memtables that may be older than the state; `ReaderInv` says that what it has not looked at yet,
with the levels, still has something at least as new as what was there when it started.

`SkipListProofs` proves, for any number of threads that put, any keys, any `MAX_HEIGHT` and any number of puts:

* `TypeCorrect`: `Spec => []TypeOK`; `ListsAreSorted`: `Spec => []ListsSorted`;
* `AssertionsNeverFail`: `Spec => []AssertionsHold`;
* `SkipListIsMemTable`: `Spec => MapRefined`, the refinement of `MemTable`;
* `FindNearCorrect`: `Spec => []FindsNear`; `ScanIsComplete`: `Spec => []ScanComplete`.

The inductive invariant describes a level by the nodes that are pointed to there (`On(tower, l)`), since
a compare-and-swap changes that set in one place, and the walk from the head (`List(l)`) everywhere;
`ListOn` proves by induction that they are equal. `ListInv` is what makes a set of pointers a sorted list:
pointers go to greater keys, nothing is pointed to only by a node that is not linked yet, and no pointer leads
past a node. A put in flight has splices that were right when they were read: `SpliceInv` says what stays
true of one when others insert, that it is around the key, on nodes of the level; the compare-and-swap
makes sure of the rest. `NodeInv` says that the new node is on exactly the levels below the one it is linked on.
`PhaseInv` holds the argument for `assert!(i > 1)`: the levels 0 and 1 have a splice until they are linked,
from the first search or from the head (`HeadSplice`). `ArenaInv` counts the nodes that puts under way will
still take. For the refinement, `ValuesInv` tells the puts in flight apart by their values; a put takes effect
at its successful compare-and-swap on the base level or at its `set_value`, and every other step is a stutter.
Searches and scans only need that lists grow: `ReaderInv` relates the place of a reader to the keys
that were there when it started.

`ManifestFileProofs` proves, for all change sets in which a table is created once, deleted once, or deleted and
then created (`ChangeSetsAssumption`: what `add_level0_table`, `build_change_set` and a move write), for every
threshold and ratio of a rewrite, and any number of sessions and crashes:

* `TypeCorrect`: `Spec => []TypeOK`; `CountersAreExact`: `Spec => []CountersExact`;
* `NothingMisread`: `Spec => []NeverMisread`.

The inductive invariant `IInv` says that a file is damaged at its first word, or is a header, the entries of some
change sets and at most two words of a further one, such that building a manifest from those sets gives the
accepted tables or is refused (`Readable`). It may be refused although `add_changes` accepted every set: a refused
set is partly applied in memory and not written (`AddRefused`), so the file can miss what a later set builds on.
While the manifest is open, the handle is at the start or at the end of a readable file; a write at the start
damages the file for good, and `DamagedNotOk` says that replay notices. `AcceptedIsWanted` is about the operators alone:
a change set that is accepted change by change does what its caller asked for as a set. What the recursive
functions `ApplyChangeSet` and `Built` compute is proved by induction over the set of the numbers for which it
holds (`SetInduction`), and that they exist at all by `RecursionExists`.

`ValueLogProofs` proves, for all batches whose records fit into one log file (`BatchAssumption`) and any number of writes,
flushes, sessions and crashes, the first, third and fourth with and without `sync_writes`. `CasAhead` is a statement
about `sync_writes` and a head that no compaction dropped (`syncWrites /\ ~forgot`): with the default options
it claims nothing, and counters may start over.

* `PointersAlwaysResolve`: `Spec => []PointersResolve`; `CountersStayAhead`: `Spec => []CasAhead`;
* `WriterSurvives`: `Spec => []WritesContinue`; `ReopensClean`: `Spec => []CleanReopen`.

The inductive invariant `IInv` has one part for each. `FileInv`: records lie between the start of the file and
the offset writing is at, inside the mapped length; once the log was rotated `max_fid` names a file that is not there,
so a later write cannot put a second record at an offset that is taken. `PointerInv`: every pointer in memtable or
tables, and the one kept for the next head, has its record in the log. `CasInv`: the counter stored with the head is
not behind the tables, which needs that with `sync_writes` a memtable that is not empty has a pointer to store.
`CleanInv`: until a crash or a rotation the log ends where the next record goes, the pointer of the memtable or the
stored head ends there, and what was acknowledged is what the store holds. What a batch occupies is a sum over its
lengths (`SumOf`), whose monotonicity `SumFacts` to `SumRest` prove by `SetInduction`; `AppendFacts` and `FlushFacts`
say what one batch and one flush do to log and head, whatever the state they start in.

`IteratorsProofs` proves, for any number of sources and any blocks, tables, levels and memtables in them, in both
directions, for every prefetch size and any number of writes under a scan:

* `SpecCursor`: `Spec => CursorRefined`, the refinement of `SortedCursor` by all iterators but `KV::new_iterator`'s;
* `SpecPanics`: `Spec => []ReplaceAsserts`;
* `SpecScanSorted`: `Spec => []ScanSorted`; `SpecScanComplete`: `Spec => []ScanComplete`.

`StoresAssumption` is what the rest of the store gives an iterator (`StoreOK`): tables as `Builder::add` makes
them, blocks that are not empty and keys that ascend; levels whose tables do not overlap (`LevelsSorted`); and for a scan,
memtables and tables from the newest on, so that of two records of a key the first source has the newer one. Versions
are only compared, so it is no loss that they are at most the number of sources. Keys are not empty
(0 is `None`), and a prefetch size is at least 2, which is what `IteratorExt::pre_fetch` makes of smaller ones.

The argument goes upwards. `BlockIterator`, `IteratorImpl`, `ConcatIterator` and `UniIterator` are each shown to be
at an entry or past the end (`TablePlaced`, `ConcatWalks`, `MemWalks`), and to reach the first key of the set they
should: all keys, those from k on, or those behind the current one (`IsFirst`). `TableSeekFromIs` is the block index: the
block before the first index key above k is the right one, or the next one is. `ConcatNextIs` is why a
`ConcatIterator` that walks from its first table again on every call still works: the tables before the current one
stay at their ends. `SourceMoves` sums this up for `Xiterator`. A merge is described by what each source owes: `MergeAt` says that
the item on the heap is where the iterator is, among the keys ahead, and that none of the owed keys was passed.
`CursorInv` adds where the head key can be (`HeadInv`) and makes `SpecCursor` follow step by step.

For a scan of the store, `KvInv` says that there is a division `D` of the keys over the sources such that what a source
owes is still in it, as new as when the scan was positioned (`SourceFresh`): a put can go before or behind the place of the
scan, and make a newer record of a key that another source owes. The division is what makes this inductive: an item
may be older than `base` in a source behind the one that owes the key, since the merge drops it there. `QueueGood`
and `Settled` put `shown`, the queue and the merge's item in one ascending line on which every wanted key has its place.
The loops of `pre_fetch` and `next` are bounded by the number of keys: `LoopStops` shows with a decreasing
measure, what the merge has ahead (`LeftShrinks`), that `Repeat` reaches the end of the loop. The proof of `SpecCursor`
found a fault of the model: the mapping of `at` had overlapping CASE guards, which TLC resolves in order and TLA+ does
not; it is an IF now.

Each of these invariants was first checked with TLC on the constants of its run (`LInv`, which is slow to evaluate, with
two flushes: one worker, and two workers with all panics; `SInv` and `ReaderOK` with two flushes on three and on four levels).

Only model-checked: the liveness properties (`LocksReleased`, `FlushCompletes`, `RequestsAnswered`,
`CloseCompletes`), which are out of the prover's reach like ENABLED, and the properties of the runs that end in a
violation, which are false.

## 5. Plan

Every safety property of a passing run is proved, those of what the levels store under the hypotheses of
section 4. What is left to model: reference counts of tables and the counter of `Closer`.

## 6. Not modelled

* Byte layouts (prefix compression, value structs, protobuf), bloom filters, checksums other than
  MANIFEST's, metrics, options parsing, directory locks, backup (one encoding function) and generated code: no
  control flow, or covered by unit tests.
* Garbage collection of the value log (`rewrite`, `do_run_gc`, the count of active iterators, deletion of
  files): `pick_log` needs a second log file, and rotation never makes one (above), so no state the program can
  be in reaches it.
* Reference counts: `Levels` has when the last handle of a table goes, not the counts; a `get` leaves one
  too many.
