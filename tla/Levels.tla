------------------------------- MODULE Levels -------------------------------
(***************************************************************************)
(* The levels of the LSM tree and everything that runs on them at the same *)
(* time (levels.rs, level_handler.rs): the compaction workers, the task    *)
(* that flushes memtables into level 0, readers, and crashes.              *)
(*                                                                         *)
(* Locks.  lock[l] is the exclusive side of a level's self_lock; readers   *)
(* take its shared side for one level at a time.  The table list has a     *)
(* lock of its own, taken for single reads and writes, so replace_tables   *)
(* and delete_tables do not exclude a worker that is choosing tables.      *)
(* fill_tables_l0 alone keeps level 0's list read-locked to its end.       *)
(*                                                                         *)
(* The manifest is its durable content, table id -> level; ManifestFile    *)
(* models the file.  Every table keeps, per key, the number of the flush   *)
(* that wrote it, so "newer" is "greater".                                 *)
(***************************************************************************)
EXTENDS Tables

CONSTANTS
  Workers, NoWorker, MaxLevels, MaxTotalSize, Word,   \* as in CompactStatus
  NumL0Tables,    \* opt.num_level_zero_tables
  NumL0Stall,     \* opt.num_level_zero_tables_stall
  FlushKeySets,   \* the key sets a flushed memtable may have
  ReadKeys,       \* the keys a reader asks for
  OpenedWith,     \* the keys of the level-0 table found at open, {} in a new directory
  MaxFlushes,     \* bound: memtables flushed, the one found at open included
  MaxFailures,    \* bound: builds that fail with an I/O error
  MaxRestarts,    \* bound: crashes
  MaxFileId       \* bound: file ids reserved (a refused compaction is retried forever)

ASSUME StallAssumption == NumL0Tables \in Nat \ {0} /\ NumL0Stall > NumL0Tables

(* As CompactStatus assumes; above level 0 every level has room for something. *)
ASSUME WorkersAssumption == IsFiniteSet(Workers) /\ NoWorker \notin Workers
ASSUME MaxLevelsAssumption == MaxLevels \in Nat /\ MaxLevels >= 2
ASSUME WordAssumption == Word \in Nat \ {0}
ASSUME SizesAssumption ==
  /\ MaxTotalSize \in [0 .. MaxLevels - 1 -> 0 .. Word - 1]
  /\ \A l \in 1 .. MaxLevels - 1 : MaxTotalSize[l] > 0

(* The key sets of tables: never empty, and the size of a table is a machine word. *)
TableSets ==
  {ks \in SUBSET Keys : ks # {} /\ IsFiniteSet(ks) /\ Cardinality(ks) < Word}

ASSUME FlushAssumption == FlushKeySets \subseteq TableSets /\ OpenedWith \in TableSets \cup {{}}
ASSUME CapacityFits == Capacity < Word

VARIABLES
  tables,      \* tables[l]: the table list of level l
  totalSize,   \* totalSize[l]: its total_size counter
  lock,        \* lock[l]: who holds self_lock of level l exclusively
  ranges, delSize,   \* the CompactStatus
  at, cd,      \* at[w], cd[w]: program counter and CompactDef of worker w
  picks,       \* picks[w]: the levels w still has to try after a tick
  manifest,    \* the live table ids and their levels
  files,       \* the SST files on disk
  nextFileId,
  flusher,     \* the flush task: where it is, and its table
  reader,      \* one get: its key, how far it came, what it may not miss
  visible,     \* visible[k]: the newest version of k added to level 0
  durable,     \* durable[k]: the newest version of k the manifest knows
  flushes, failures, restarts

vars == <<tables, totalSize, lock, ranges, delSize, at, cd, picks, manifest, files,
          nextFileId, flusher, reader, visible, durable, flushes, failures, restarts>>

levelVars == <<tables, totalSize>>
statusVars == <<lock, ranges, delSize>>
diskVars == <<manifest, files, nextFileId>>
clientVars == <<flusher, reader, visible, durable>>
boundVars == <<flushes, failures, restarts>>

-----------------------------------------------------------------------------
(* Where a worker holds both locks, and where its ranges are in the status. *)
(* "stuck" and "lost" are workers that panicked there.                      *)
Picking == {"left", "right", "slice"}
Compacting == {"build", "manifest", "replace", "delete", "finish", "lost"}

Stage(w) == CASE at[w] = "this" -> "this"
              [] at[w] \in Picking -> "both"
              [] at[w] = "stuck" -> "stuck"
              [] at[w] \in Compacting -> "run"
              [] OTHER -> "idle"

(* CompactDef::new; the fields after this_size are locals of the workers. *)
NoRange == HullRange(EmptyKey, EmptyKey)
NewCd(l) == [level |-> l, top |-> <<>>, bot |-> <<>>, this_range |-> NoRange,
             next_range |-> NoRange, this_size |-> 0,
             cands |-> <<>>, left |-> 0, right |-> 0, new |-> <<>>]

StatusDef(d) == [level |-> d.level, this_range |-> d.this_range,
                 next_range |-> d.next_range, this_size |-> d.this_size]

(* What CompactStatus sees of the workers: ranges count once they are admitted. *)
Stages == [w \in Workers |-> Stage(w)]
StatusDefs ==
  [w \in Workers |-> CASE Stage(w) = "run" -> StatusDef(cd[w])
                       [] Stage(w) = "idle" -> StatusDef(NewCd(0))
                       [] OTHER -> StatusDef(NewCd(cd[w].level))]

CS == INSTANCE CompactStatus WITH at <- Stages, def <- StatusDefs

LevelSet == 0 .. MaxLevels - 1

(* fill_tables_l0 holds the read lock of level 0's table list. *)
L0ListLocked == \E w \in Workers : at[w] \in {"left", "right", "slice"} /\ cd[w].level = 0

(* compact-move: one table, nothing below it *)
IsMove(d) == d.level >= 1 /\ d.bot = <<>>

(* A move keeps the manifest locked until both levels are updated. *)
ManifestLocked == \E w \in Workers : at[w] \in {"replace", "delete"} /\ IsMove(cd[w])

IsLevel0Compactable == Len(tables[0]) >= NumL0Tables
IsCompactable(l, del) == CS!Minus(totalSize[l], del) >= MaxTotalSize[l]

(* The table that the session before left in level 0, if any *)
Inherited ==
  IF OpenedWith = {} THEN <<>> ELSE <<[id |-> 1, kv |-> [k \in OpenedWith |-> 1]]>>

Init ==
  /\ tables = [l \in LevelSet |-> IF l = 0 THEN Inherited ELSE <<>>]
  /\ totalSize = [l \in LevelSet |-> IF l = 0 THEN SumOfSizes(Inherited) % Word ELSE 0]
  /\ lock = [l \in LevelSet |-> NoWorker]
  /\ ranges = [l \in LevelSet |-> {}]
  /\ delSize = [l \in LevelSet |-> 0]
  /\ at = [w \in Workers |-> "idle"]
  /\ cd = [w \in Workers |-> NewCd(0)]
  /\ picks = [w \in Workers |-> <<>>]
  /\ manifest = [i \in Ids(Inherited) |-> 0]
  /\ files = ToSet(Inherited)
  /\ nextFileId = Len(Inherited) + 1
  /\ flusher = [at |-> "idle"]
  /\ reader = [at |-> "idle", missed |-> FALSE]
  /\ visible = [k \in Keys |-> IF k \in OpenedWith THEN 1 ELSE 0]
  /\ durable = visible
  /\ flushes = Len(Inherited) /\ failures = 0 /\ restarts = 0

-----------------------------------------------------------------------------
(***************************************************************************)
(* Compaction workers.                                                     *)
(***************************************************************************)

(* pick_compact_levels: compactable levels, highest score first; the last  *)
(* level is among the candidates.                                          *)
PickCompactLevels ==
  LET l0 == IF ~ AnyOverlaps(ranges[0], InfoRange) /\ IsLevel0Compactable THEN {0} ELSE {}
      picked == l0 \cup {l \in LevelSet \ {0} : IsCompactable(l, 0)}
      num(l) == IF l = 0 THEN Len(tables[0]) ELSE totalSize[l]
      den(l) == IF l = 0 THEN NumL0Tables ELSE MaxTotalSize[l]
      before(a, b) == LET x == num(a) * den(b)
                          y == num(b) * den(a)
                      IN  x > y \/ (x = y /\ a < b)
  IN  [n \in 1 .. Cardinality(picked) |-> Nth(picked, before, n)]

(* run_worker wakes up, by its timer or by a notification *)
Tick(w) ==
  /\ at[w] = "idle" /\ picks[w] = <<>>
  /\ PickCompactLevels # <<>>
  /\ picks' = [picks EXCEPT ![w] = PickCompactLevels]
  /\ UNCHANGED <<levelVars, statusVars, at, cd, diskVars, clientVars, boundVars>>

(* do_compact asserts that the level has a next one; the task panics. *)
SanityPanics(w) ==
  /\ at[w] = "idle" /\ picks[w] # <<>>
  /\ Head(picks[w]) + 1 >= MaxLevels
  /\ at' = [at EXCEPT ![w] = "dead"]
  /\ UNCHANGED <<levelVars, statusVars, cd, picks, diskVars, clientVars, boundVars>>

(* do_compact starts on the next level picked: lock_exclusive_levels, part 1 *)
LockThis(w) ==
  LET l == Head(picks[w])
  IN  /\ at[w] = "idle" /\ picks[w] # <<>>
      /\ l + 1 < MaxLevels
      /\ lock[l] = NoWorker
      /\ lock' = [lock EXCEPT ![l] = w]
      /\ at' = [at EXCEPT ![w] = "this"]
      /\ cd' = [cd EXCEPT ![w] = NewCd(l)]
      /\ UNCHANGED <<levelVars, ranges, delSize, picks, diskVars, clientVars, boundVars>>

(* Mutant: the lock of the next level is taken from whoever holds it. *)
LockNext_NoWait(w) ==
  /\ at[w] = "this"
  /\ lock' = [lock EXCEPT ![cd[w].level + 1] = w]
  /\ at' = [at EXCEPT ![w] = "left"]
  /\ cd' = [cd EXCEPT ![w].top = IF cd[w].level = 0 THEN tables[0] ELSE <<>>,
                      ![w].cands = IF cd[w].level = 0 THEN <<>> ELSE tables[cd[w].level]]
  /\ UNCHANGED <<levelVars, ranges, delSize, picks, diskVars, clientVars, boundVars>>

(* Part 2, and the copy of this level's tables: all of level 0 goes down,  *)
(* above the biggest table is tried first.                                 *)
LockNext(w) ==
  LET l == cd[w].level
  IN  /\ at[w] = "this"
      /\ lock[l + 1] = NoWorker
      /\ lock' = [lock EXCEPT ![l + 1] = w]
      /\ at' = [at EXCEPT ![w] = "left"]
      /\ cd' = [cd EXCEPT ![w] =
                  IF l = 0 THEN [@ EXCEPT !.top = tables[0]]
                  ELSE [@ EXCEPT !.cands = SortBySize(tables[l])]]
      /\ UNCHANGED <<levelVars, ranges, delSize, picks, diskVars, clientVars, boundVars>>

(* fill_tables returns false: do_compact gives Ok(false) and the worker    *)
(* forgets the other levels it picked.                                     *)
ReturnFalse(w) ==
  /\ CS!UnlockBoth(w)
  /\ at' = [at EXCEPT ![w] = "idle"]
  /\ cd' = [cd EXCEPT ![w] = NewCd(0)]
  /\ picks' = [picks EXCEPT ![w] = <<>>]
  /\ UNCHANGED <<levelVars, ranges, delSize, diskVars, clientVars, boundVars>>

(* The tables left to try, from the first one on whose range no running     *)
(* compaction claims; those behind it are checked when their turn comes.    *)
FreeCands(w) ==
  LET free(t) == ~ AnyOverlaps(ranges[cd[w].level], GetRange(<<t>>))
  IN  Filter(cd[w].cands,
             {i \in DOMAIN cd[w].cands : \E j \in 1 .. i : free(cd[w].cands[j])})

NothingToCompact(w) ==
  /\ at[w] = "left"
  /\ cd[w].top = <<>> \/ cd[w].level > 0
  /\ FreeCands(w) = <<>>
  /\ ReturnFalse(w)

(* The range whose tables are looked for on the next level *)
SearchRange(d) == GetRange(d.top)

(* The first search of overlapping_tables *)
SearchLeft(w) ==
  LET l == cd[w].level
      t == Head(FreeCands(w))
      chosen ==
        IF l = 0 THEN [cd[w] EXCEPT !.this_range = InfoRange]
        ELSE [cd[w] EXCEPT !.top = <<t>>, !.this_range = GetRange(<<t>>),
                           !.this_size = Size(t), !.cands = Tail(FreeCands(w))]
  IN  /\ at[w] = "left"
      /\ IF l = 0 THEN cd[w].top # <<>> ELSE FreeCands(w) # <<>>
      /\ \E n \in OverlapLeft(tables[l + 1], SearchRange(chosen)) :
           cd' = [cd EXCEPT ![w] = [chosen EXCEPT !.left = n]]
      /\ at' = [at EXCEPT ![w] = "right"]
      /\ UNCHANGED <<levelVars, statusVars, picks, diskVars, clientVars, boundVars>>

(* The second one *)
SearchRight(w) ==
  /\ at[w] = "right"
  /\ \E n \in OverlapRight(tables[cd[w].level + 1], SearchRange(cd[w])) :
       cd' = [cd EXCEPT ![w].right = n]
  /\ at' = [at EXCEPT ![w] = "slice"]
  /\ UNCHANGED <<levelVars, statusVars, picks, diskVars, clientVars, boundVars>>

(* The CompactDef once the tables of the next level are read and cut out *)
Filled(d) ==
  LET bot == Slice(tables[d.level + 1], d.left, d.right)
      f == [d EXCEPT !.bot = bot, !.left = 0, !.right = 0,
              !.next_range = IF bot = <<>> THEN SearchRange(d) ELSE GetRange(bot)]
  IN  IF IsMove(f) THEN [f EXCEPT !.new = f.top] ELSE f

(* The list changed since the searches: the slice panics, the locks stay. *)
SlicePanics(w) ==
  /\ at[w] = "slice"
  /\ ~ SliceOK(tables[cd[w].level + 1], cd[w].left, cd[w].right)
  /\ at' = [at EXCEPT ![w] = "stuck"]
  /\ UNCHANGED <<levelVars, statusVars, cd, picks, diskVars, clientVars, boundVars>>

(* compare_and_add admits the compaction *)
FillTables(w) ==
  LET d == Filled(cd[w])
  IN  /\ at[w] = "slice"
      /\ SliceOK(tables[cd[w].level + 1], cd[w].left, cd[w].right)
      /\ CS!Admits(StatusDef(d), totalSize[d.level])
      /\ CS!Record(StatusDef(d))
      /\ CS!UnlockBoth(w)
      /\ cd' = [cd EXCEPT ![w] = [d EXCEPT !.cands = <<>>]]
      /\ at' = [at EXCEPT ![w] = IF IsMove(d) THEN "manifest" ELSE "build"]
      /\ UNCHANGED <<levelVars, picks, diskVars, clientVars, boundVars>>

(* compare_and_add refuses: level 0 gives up, above the next table is tried *)
Refused(w) ==
  LET d == Filled(cd[w])
  IN  /\ at[w] = "slice"
      /\ SliceOK(tables[cd[w].level + 1], cd[w].left, cd[w].right)
      /\ ~ CS!Admits(StatusDef(d), totalSize[d.level])
      /\ \/ d.level = 0 /\ ReturnFalse(w)
         \/ /\ d.level > 0
            /\ at' = [at EXCEPT ![w] = "left"]
            /\ cd' = [cd EXCEPT ![w] = [NewCd(d.level) EXCEPT !.cands = d.cands]]
            /\ UNCHANGED <<levelVars, statusVars, picks, diskVars, clientVars, boundVars>>

-----------------------------------------------------------------------------
(***************************************************************************)
(* run_compact_def: build the new tables, commit them in the manifest,     *)
(* then first replace on the next level and last delete from this one.     *)
(***************************************************************************)
Order(d) == MergeOrder(d.level, d.top, d.bot)
Built(d) == BuildTables(Merge(Order(d)), nextFileId)

Build(w) ==
  /\ at[w] = "build"
  /\ ~ MergePanics(Order(cd[w]))
  /\ nextFileId + Len(Built(cd[w])) - 1 <= MaxFileId
  /\ cd' = [cd EXCEPT ![w].new = Built(cd[w])]
  /\ files' = files \cup ToSet(Built(cd[w]))
  /\ nextFileId' = nextFileId + Len(Built(cd[w]))
  /\ at' = [at EXCEPT ![w] = "manifest"]
  /\ UNCHANGED <<levelVars, statusVars, picks, manifest, clientVars, boundVars>>

(* A file cannot be written: the tables already built are dropped. *)
BuildFails(w) ==
  /\ at[w] = "build"
  /\ ~ MergePanics(Order(cd[w]))
  /\ failures < MaxFailures
  /\ failures' = failures + 1
  /\ nextFileId' = nextFileId + Len(Built(cd[w]))
  /\ at' = [at EXCEPT ![w] = "finish"]
  /\ UNCHANGED <<levelVars, statusVars, cd, picks, manifest, files, clientVars,
                 flushes, restarts>>

(* The assertion of MergeCursor::replace: c_status keeps the ranges. *)
BuildPanics(w) ==
  /\ at[w] = "build"
  /\ MergePanics(Order(cd[w]))
  /\ at' = [at EXCEPT ![w] = "lost"]
  /\ UNCHANGED <<levelVars, statusVars, cd, picks, diskVars, clientVars, boundVars>>

(* Mutant: the bottom tables are not deleted from the manifest. *)
Outdated_TopOnly(d) == Ids(d.top)

(* build_change_set, or the two changes of a move *)
Outdated(d) == Ids(d.top) \cup Ids(d.bot)

WriteManifest(w) ==
  LET d == cd[w]
  IN  /\ at[w] = "manifest"
      /\ ~ ManifestLocked
      /\ Outdated(d) \subseteq DOMAIN manifest
      /\ manifest' = [i \in Ids(d.new) \cup (DOMAIN manifest \ Outdated(d)) |->
                        IF i \in Ids(d.new) THEN d.level + 1 ELSE manifest[i]]
      /\ at' = [at EXCEPT ![w] = "replace"]
      /\ UNCHANGED <<levelVars, statusVars, cd, picks, files, nextFileId, clientVars,
                     boundVars>>

(* "MANIFEST removes non-existing table": the compaction fails.  Nothing is  *)
(* written; what the changes before the refused one leave in memory is in    *)
(* AddRefused of module ManifestFile.                                        *)
ManifestRefuses(w) ==
  /\ at[w] = "manifest"
  /\ ~ ManifestLocked
  /\ ~ (Outdated(cd[w]) \subseteq DOMAIN manifest)
  /\ at' = [at EXCEPT ![w] = "finish"]
  /\ UNCHANGED <<levelVars, statusVars, cd, picks, diskVars, clientVars, boundVars>>

(* Mutant: the size of the replaced tables is not taken off the level. *)
ReplaceNext_SizeGrows(w) ==
  LET l == cd[w].level + 1
  IN  /\ at[w] = "replace"
      /\ tables' = [tables EXCEPT ![l] = ReplaceTables(@, cd[w].new)]
      /\ totalSize' = [totalSize EXCEPT ![l] = CS!Plus(@, SumOfSizes(cd[w].new))]
      /\ at' = [at EXCEPT ![w] = "delete"]
      /\ UNCHANGED <<statusVars, cd, picks, diskVars, clientVars, boundVars>>

(* next_level.replace_tables *)
ReplaceNext(w) ==
  LET l == cd[w].level + 1
      new == cd[w].new
      out == IF new = <<>> THEN <<>> ELSE Replaced(tables[l], new)
  IN  /\ at[w] = "replace"
      /\ tables' = [tables EXCEPT ![l] = ReplaceTables(@, new)]
      /\ totalSize' = [totalSize EXCEPT ![l] =
                         CS!Minus(CS!Plus(@, SumOfSizes(new)), SumOfSizes(out))]
      /\ at' = [at EXCEPT ![w] = "delete"]
      /\ UNCHANGED <<statusVars, cd, picks, diskVars, clientVars, boundVars>>

(* this_level.delete_tables *)
DeleteThis(w) ==
  LET l == cd[w].level
      ids == Ids(cd[w].top)
  IN  /\ at[w] = "delete"
      /\ l = 0 => ~ L0ListLocked
      /\ tables' = [tables EXCEPT ![l] = DeleteTables(@, ids)]
      /\ totalSize' = [totalSize EXCEPT ![l] =
                         CS!Minus(@, SumOfSizes(Deleted(tables[l], ids)))]
      /\ at' = [at EXCEPT ![w] = "finish"]
      /\ UNCHANGED <<statusVars, cd, picks, diskVars, clientVars, boundVars>>

(* The tables of a compaction that no level lists any more *)
Dropped(d) ==
  {t \in ToSet(d.top \o d.bot) : \A l \in LevelSet : t.id \notin Ids(tables[l])}

(* Mutant: the compaction stays in the status. *)
Finish_KeepsStatus(w) ==
  /\ at[w] = "finish"
  /\ files' = files \ Dropped(cd[w])
  /\ at' = [at EXCEPT ![w] = "idle"]
  /\ cd' = [cd EXCEPT ![w] = NewCd(0)]
  /\ picks' = [picks EXCEPT ![w] = Tail(@)]
  /\ UNCHANGED <<levelVars, statusVars, manifest, nextFileId, clientVars, boundVars>>

(***************************************************************************)
(* c_status.delete; do_compact says Ok(true) whether the compaction failed *)
(* or not, and the worker goes on with the next level it picked.  Dropping *)
(* the last handle of a table removes its file, unless a reader or an      *)
(* earlier attempt left the reference count too high.                      *)
(***************************************************************************)
Finish(w) ==
  LET d == cd[w]
  IN  /\ at[w] = "finish"
      /\ ranges' = [ranges EXCEPT ![d.level] = RemoveRange(@, d.this_range),
                                  ![d.level + 1] = RemoveRange(@, d.next_range)]
      /\ delSize' = [delSize EXCEPT ![d.level] = CS!Minus(@, d.this_size)]
      /\ files' = files \ Dropped(d)
      /\ at' = [at EXCEPT ![w] = "idle"]
      /\ cd' = [cd EXCEPT ![w] = NewCd(0)]
      /\ picks' = [picks EXCEPT ![w] = Tail(@)]
      /\ UNCHANGED <<levelVars, lock, manifest, nextFileId, clientVars, boundVars>>

-----------------------------------------------------------------------------
(***************************************************************************)
(* The flush task: a memtable becomes a file, a manifest entry, and a      *)
(* table of level 0, in that order (flush_memtable, add_level0_table).     *)
(***************************************************************************)
Flush(ks) ==
  LET t == [id |-> nextFileId, kv |-> [k \in ks |-> flushes + 1]]
  IN  /\ flusher.at = "idle" /\ flushes < MaxFlushes
      /\ flushes' = flushes + 1
      /\ files' = files \cup {t}
      /\ nextFileId' = nextFileId + 1
      /\ flusher' = [at |-> "created", table |-> t]
      /\ UNCHANGED <<levelVars, statusVars, at, cd, picks, manifest, reader, visible,
                     durable, failures, restarts>>

Newest(versions, t) ==
  [k \in Keys |-> IF k \in TableKeys(t) THEN t.kv[k] ELSE versions[k]]

LogTable ==
  /\ flusher.at = "created"
  /\ ~ ManifestLocked
  /\ manifest' = [i \in DOMAIN manifest \cup {flusher.table.id} |->
                    IF i = flusher.table.id THEN 0 ELSE manifest[i]]
  /\ durable' = Newest(durable, flusher.table)
  /\ flusher' = [flusher EXCEPT !.at = "adding"]
  /\ UNCHANGED <<levelVars, statusVars, at, cd, picks, files, nextFileId, reader,
                 visible, boundVars>>

(* try_add_level0_table *)
TryAdd ==
  LET t == flusher.table
  IN  /\ flusher.at = "adding"
      /\ ~ L0ListLocked
      /\ Len(tables[0]) < NumL0Stall
      /\ tables' = [tables EXCEPT ![0] = Append(@, t)]
      /\ totalSize' = [totalSize EXCEPT ![0] = CS!Plus(@, Size(t))]
      /\ visible' = Newest(visible, t)
      /\ flusher' = [at |-> "idle"]
      /\ UNCHANGED <<statusVars, at, cd, picks, diskVars, reader, durable, boundVars>>

Stall ==
  /\ flusher.at = "adding"
  /\ ~ L0ListLocked
  /\ Len(tables[0]) >= NumL0Stall
  /\ flusher' = [flusher EXCEPT !.at = "stalled"]
  /\ UNCHANGED <<levelVars, statusVars, at, cd, picks, diskVars, reader, visible, durable,
                 boundVars>>

(* Levels 0 and 1 are healthy again: try once more. *)
Unstall ==
  /\ flusher.at = "stalled"
  /\ ~ IsLevel0Compactable /\ ~ IsCompactable(1, 0)
  /\ flusher' = [flusher EXCEPT !.at = "adding"]
  /\ UNCHANGED <<levelVars, statusVars, at, cd, picks, diskVars, reader, visible, durable,
                 boundVars>>

-----------------------------------------------------------------------------
(***************************************************************************)
(* LevelsController::get.  The reader may not return less than what was    *)
(* visible when it started.                                                *)
(***************************************************************************)
StartGet(k) ==
  /\ reader.at = "idle"
  /\ reader' = [at |-> "busy", key |-> k, done |-> 0, floor |-> visible[k]]
  /\ UNCHANGED <<levelVars, statusVars, at, cd, picks, diskVars, flusher, visible, durable,
                 boundVars>>

(* Mutant: the levels are searched from the last one. *)
SearchOrder_Downward == [i \in 1 .. MaxLevels |-> MaxLevels - i]

(* "It's important that we iterate the levels from 0 on upward." *)
SearchOrder == [i \in 1 .. MaxLevels |-> i - 1]

(* One level, under the shared side of its lock *)
GetLevel ==
  LET l == SearchOrder[reader.done + 1]
      v == LevelGet(l, tables[l], reader.key)
  IN  /\ reader.at = "busy"
      /\ lock[l] = NoWorker
      /\ reader' = IF v # 0 \/ reader.done + 1 = MaxLevels
                   THEN [at |-> "idle", missed |-> v < reader.floor]
                   ELSE [reader EXCEPT !.done = @ + 1]
      /\ UNCHANGED <<levelVars, statusVars, at, cd, picks, diskVars, flusher, visible,
                     durable, boundVars>>

-----------------------------------------------------------------------------
(***************************************************************************)
(* Crash and LevelsController::new: the levels are what the manifest and   *)
(* the files say.  Opening fails when a file is missing or a level does    *)
(* not validate.                                                           *)
(***************************************************************************)
OnDisk(l) == {t \in files : t.id \in DOMAIN manifest /\ manifest[t.id] = l}
Recovered == [l \in LevelSet |-> InitTables(l, SetToSeq(OnDisk(l)))]

(* revert_to_manifest, part 1, and validate *)
OpenSucceeds ==
  /\ DOMAIN manifest \subseteq {t.id : t \in files}
  /\ \A l \in LevelSet : Validate(l, Recovered[l])

(* Mutant: the greatest id in use is handed out again. *)
FirstFreeId_InUse == Max(DOMAIN manifest \cup {0})

FirstFreeId == Max(DOMAIN manifest \cup {0}) + 1

Reopen ==
  /\ restarts < MaxRestarts
  /\ OpenSucceeds
  /\ restarts' = restarts + 1
  /\ tables' = Recovered
  /\ totalSize' = [l \in LevelSet |-> SumOfSizes(Recovered[l]) % Word]
  /\ lock' = [l \in LevelSet |-> NoWorker]
  /\ ranges' = [l \in LevelSet |-> {}]
  /\ delSize' = [l \in LevelSet |-> 0]
  /\ at' = [w \in Workers |-> "idle"]
  /\ cd' = [w \in Workers |-> NewCd(0)]
  /\ picks' = [w \in Workers |-> <<>>]
  /\ files' = {t \in files : t.id \in DOMAIN manifest}
  /\ nextFileId' = FirstFreeId
  /\ flusher' = [at |-> "idle"]
  /\ reader' = [at |-> "idle", missed |-> FALSE]
  /\ visible' = durable
  /\ UNCHANGED <<manifest, durable, flushes, failures>>

-----------------------------------------------------------------------------
WorkerStep(w) ==
  \/ Tick(w) \/ SanityPanics(w) \/ LockThis(w) \/ LockNext(w)
  \/ NothingToCompact(w) \/ SearchLeft(w) \/ SearchRight(w)
  \/ SlicePanics(w) \/ FillTables(w) \/ Refused(w)
  \/ Build(w) \/ BuildFails(w) \/ BuildPanics(w)
  \/ WriteManifest(w) \/ ManifestRefuses(w)
  \/ ReplaceNext(w) \/ DeleteThis(w) \/ Finish(w)

FlusherStep == LogTable \/ TryAdd \/ Stall \/ Unstall

Next ==
  \/ \E w \in Workers : WorkerStep(w)
  \/ \E ks \in FlushKeySets : Flush(ks)
  \/ FlusherStep
  \/ \E k \in ReadKeys : StartGet(k)
  \/ GetLevel
  \/ Reopen

Spec == Init /\ [][Next]_vars

(***************************************************************************)
(* Fairness: the workers and the flush task are tasks of the runtime; a    *)
(* timer wakes each worker every second and the stalled flush task polls   *)
(* every 10 ms.  Nothing forces memtables to be flushed, builds to fail,   *)
(* reads or crashes to happen.                                             *)
(***************************************************************************)
Fairness ==
  /\ \A w \in Workers : WF_vars(WorkerStep(w))
  /\ WF_vars(FlusherStep)

FairSpec == Spec /\ Fairness

-----------------------------------------------------------------------------
UserKeys == Keys \ {HeadKey}

(***************************************************************************)
(* The types.  Also: no file id is handed out twice (reserve_file_id and   *)
(* the first id after a restart), and every CompactDef has a next level.   *)
(***************************************************************************)
TypeOK ==
  /\ at \in [Workers -> {"idle", "dead", "this", "stuck"} \cup Picking \cup Compacting]
  /\ \A w \in Workers : Stage(w) # "idle" => cd[w].level + 1 \in LevelSet
  /\ lock \in [LevelSet -> Workers \cup {NoWorker}]
  /\ ranges \in [LevelSet -> SUBSET KeyRange]
  /\ totalSize \in [LevelSet -> 0 .. Word - 1] /\ delSize \in [LevelSet -> 0 .. Word - 1]
  /\ DOMAIN manifest \subseteq 1 .. nextFileId - 1
  /\ \A i \in DOMAIN manifest : manifest[i] \in LevelSet
  /\ \A t \in files : t.id < nextFileId /\ TableKeys(t) \in (SUBSET Keys) \ {{}}
  /\ \A l \in LevelSet : Ids(tables[l]) \subseteq 1 .. nextFileId - 1

(***************************************************************************)
(* "For level >= 1, tables are sorted by key ranges, which do not overlap" *)
(* (LevelHandlerInner): binary searches, replace_tables and the            *)
(* ConcatIterator over the bottom tables all rest on it.                   *)
(***************************************************************************)
LevelsSorted == \A l \in LevelSet : Validate(l, tables[l])

(***************************************************************************)
(* At every moment a search of the levels finds the newest version added   *)
(* to level 0: a compaction, whatever point it reached, fails at or crashes *)
(* in, neither loses a key nor brings an old version back to the top.      *)
(***************************************************************************)
LookupIsLatest == \A k \in UserKeys : Lookup(tables, k) = visible[k]

(***************************************************************************)
(* A get that visits the levels one by one while compactions move tables   *)
(* under it does not miss what was there when it started ("we don't have a *)
(* bug where reads would see keys missing from both levels").              *)
(***************************************************************************)
ReadsNotStale == reader.at = "idle" => ~ reader.missed

(***************************************************************************)
(* A crash at any moment leaves a store that opens, and that has every     *)
(* version the manifest had accepted: the manifest is written before files *)
(* are deleted and after they are created.                                 *)
(***************************************************************************)
CrashSafe ==
  /\ OpenSucceeds
  /\ \A k \in UserKeys : Lookup(Recovered, k) = durable[k]

(***************************************************************************)
(* total_size is the size of the tables in the list, through any sequence  *)
(* of additions, replacements and deletions; the stall condition and the   *)
(* choice of levels depend on it.                                          *)
(***************************************************************************)
SizesExact == \A l \in LevelSet : totalSize[l] = SumOfSizes(tables[l]) % Word

(***************************************************************************)
(* Every table a compaction is about to delete is still in the manifest,   *)
(* so add_changes does not refuse the change set.                          *)
(***************************************************************************)
ManifestAccepts ==
  \A w \in Workers : at[w] \in {"build", "manifest"} => Outdated(cd[w]) \subseteq DOMAIN manifest

(***************************************************************************)
(* replace_tables searches the range again, as other workers may have      *)
(* shifted the indices ("they can't touch our tables"): what it takes off  *)
(* the next level is exactly the tables that were merged.                  *)
(***************************************************************************)
ReplacesMerged ==
  \A w \in Workers :
    at[w] = "replace" /\ cd[w].new # <<>> =>
      Ids(Replaced(tables[cd[w].level + 1], cd[w].new)) = Ids(cd[w].bot)

(* The tables that a compaction takes off level l *)
TakenFrom(d, l) ==
  IF l = d.level THEN Ids(d.top) ELSE IF l = d.level + 1 THEN Ids(d.bot) ELSE {}

(***************************************************************************)
(* Two running compactions never take the same table off the same level,   *)
(* whatever changes in the lists while they search them.                   *)
(***************************************************************************)
TablesNotShared ==
  \A w, v \in Workers : \A l \in LevelSet :
    w # v /\ at[w] \in Compacting /\ at[v] \in Compacting =>
      TakenFrom(cd[w], l) \cap TakenFrom(cd[v], l) = {}

(***************************************************************************)
(* What the workers do to locks and compaction status is what module       *)
(* CompactStatus allows, so its theorems hold here: every step is a step   *)
(* of CS!Next, with these witnesses for the inputs of FillTables, leaves   *)
(* that state alone, or starts a new session with an empty status.         *)
(***************************************************************************)
StatusStep(w) ==
  LET d == cd'[w]
  IN  \/ d.level \in CS!TopLevels /\ CS!LockThis(w, d.level)
      \/ CS!LockNext(w)
      \/ /\ d.this_range \in KeyRange /\ d.next_range \in FiniteRange
         /\ d.this_size \in CS!Sizes
         /\ CS!FillTables(w, d.this_range, d.next_range, d.this_size,
                          totalSize[d.level])
      \/ CS!GiveUp(w) \/ CS!SlicePanics(w)
      \/ CS!Delete(w)

NewSession == restarts' = restarts + 1 /\ CS!Init'

StatusRefined ==
  CS!Init /\ [][(\E w \in Workers : StatusStep(w)) \/ NewSession]_(CS!csVars)

(***************************************************************************)
(* A flushed memtable always gets into level 0: the stall ends ("it's      *)
(* crucial this behavior replicates pickCompactLevels' behavior ... in     *)
(* order to guarantee progress").                                          *)
(***************************************************************************)
FlushCompletes == flusher.at # "idle" ~> flusher.at = "idle"
=============================================================================
