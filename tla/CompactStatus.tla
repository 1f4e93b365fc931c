--------------------------- MODULE CompactStatus ---------------------------
(***************************************************************************)
(* How concurrent compaction workers keep out of each other's way          *)
(* (compaction.rs, and the locking of fill_tables in levels.rs).           *)
(*                                                                         *)
(* A worker that wants to compact level l into level l+1 takes the         *)
(* exclusive self_lock of both levels, lower level first, chooses tables,  *)
(* and asks the CompactStatus to admit it: compare_and_add refuses a       *)
(* compaction whose ranges overlap those of a running one, or whose level  *)
(* is not over its size limit.  An admitted worker drops the locks, runs   *)
(* the compaction, and finally removes its ranges (delete).                *)
(*                                                                         *)
(* Which tables a worker finds, and the total size of the level at that    *)
(* moment, are inputs here; module Levels has them and implements this     *)
(* specification.                                                          *)
(***************************************************************************)
EXTENDS KeyRanges, FiniteSets, Functions

CONSTANTS
  Workers,        \* the compaction tasks, num_compactors of them
  NoWorker,       \* the owner of a free lock
  MaxLevels,      \* opt.max_levels
  MaxTotalSize,   \* max_total_size of each level; 0 for level 0
  Word            \* sizes are machine words: arithmetic is modulo Word

ASSUME WorkersAssumption == IsFiniteSet(Workers) /\ NoWorker \notin Workers
ASSUME MaxLevelsAssumption == MaxLevels \in Nat /\ MaxLevels >= 2
ASSUME WordAssumption == Word \in Nat \ {0}
ASSUME SizesAssumption == MaxTotalSize \in [0 .. MaxLevels - 1 -> 0 .. Word - 1]

VARIABLES
  at,        \* at[w]: where worker w stands in do_compact
  def,       \* def[w]: its CompactDef
  lock,      \* lock[l]: the worker holding self_lock of level l exclusively
  ranges,    \* ranges[l]: LevelCompactStatus.ranges; order is never observed
  delSize    \* delSize[l]: LevelCompactStatus.del_size

csVars == <<at, def, lock, ranges, delSize>>

Levels == 0 .. MaxLevels - 1
TopLevels == 0 .. MaxLevels - 2    \* the levels that have a next level
Sizes == 0 .. Word - 1

(* Mutant: an addition that does not wrap. *)
Plus_Unbounded(a, b) == a + b

Plus(a, b) == (a + b) % Word
Minus(a, b) == (a + (Word - b)) % Word

(* KeyRange::default(): no table chosen yet *)
DefaultRange == [left |-> EmptyKey, right |-> EmptyKey, inf |-> FALSE]

(* CompactDef::new *)
NewDef(l) == [level |-> l, this_range |-> DefaultRange,
              next_range |-> DefaultRange, this_size |-> 0]

(* The types: levels, ranges and words; sizes wrap instead of growing. *)
TypeOK ==
  /\ at \in [Workers -> {"idle", "this", "both", "stuck", "run"}]
  /\ def \in [Workers -> [level : TopLevels,
                          this_range : KeyRange \cup {DefaultRange},
                          next_range : KeyRange \cup {DefaultRange},
                          this_size : Sizes]]
  /\ lock \in [Levels -> Workers \cup {NoWorker}]
  /\ ranges \in [Levels -> SUBSET KeyRange]
  /\ delSize \in [Levels -> Sizes]

Init ==
  /\ at = [w \in Workers |-> "idle"]
  /\ def = [w \in Workers |-> NewDef(0)]
  /\ lock = [l \in Levels |-> NoWorker]
  /\ ranges = [l \in Levels |-> {}]
  /\ delSize = [l \in Levels |-> 0]

(***************************************************************************)
(* lock_exclusive_levels: this level, then the next one.                   *)
(***************************************************************************)
LockThis(w, l) ==
  /\ at[w] = "idle"
  /\ lock[l] = NoWorker
  /\ lock' = [lock EXCEPT ![l] = w]
  /\ def' = [def EXCEPT ![w] = NewDef(l)]
  /\ at' = [at EXCEPT ![w] = "this"]
  /\ UNCHANGED <<ranges, delSize>>

LockNext(w) ==
  /\ at[w] = "this"
  /\ lock[def[w].level + 1] = NoWorker
  /\ lock' = [lock EXCEPT ![def[w].level + 1] = w]
  /\ at' = [at EXCEPT ![w] = "both"]
  /\ UNCHANGED <<def, ranges, delSize>>

(* Mutant: unlock_exclusive_levels forgets the next level. *)
UnlockBoth_ThisOnly(w) == lock' = [lock EXCEPT ![def[w].level] = NoWorker]

(* unlock_exclusive_levels *)
UnlockBoth(w) ==
  lock' = [lock EXCEPT ![def[w].level] = NoWorker, ![def[w].level + 1] = NoWorker]

(* Mutant: compare_and_add checks the ranges of this level only. *)
Admits_ThisLevelOnly(d, total) ==
  /\ ~ AnyOverlaps(ranges[d.level], d.this_range)
  /\ Minus(total, delSize[d.level]) >= MaxTotalSize[d.level]

(***************************************************************************)
(* Does compare_and_add admit compaction d, when the level's total_size    *)
(* is total?  total - del_size is a subtraction of machine words.          *)
(***************************************************************************)
Admits(d, total) ==
  /\ ~ AnyOverlaps(ranges[d.level], d.this_range)
  /\ ~ AnyOverlaps(ranges[d.level + 1], d.next_range)
  /\ Minus(total, delSize[d.level]) >= MaxTotalSize[d.level]

(* compare_and_add records compaction d *)
Record(d) ==
  /\ ranges' = [ranges EXCEPT ![d.level] = @ \cup {d.this_range},
                              ![d.level + 1] = @ \cup {d.next_range}]
  /\ delSize' = [delSize EXCEPT ![d.level] = Plus(@, d.this_size)]

(***************************************************************************)
(* fill_tables and fill_tables_l0 end in compare_and_add and in unlocking  *)
(* both levels.  For level 0 the range is INFO_RANGE and this_size stays   *)
(* 0; above, it is the range and the size of one table.                    *)
(***************************************************************************)
FillTables(w, tr, nr, size, total) ==
  LET d == [level |-> def[w].level, this_range |-> tr, next_range |-> nr,
            this_size |-> size]
  IN  /\ at[w] = "both"
      /\ at' = [at EXCEPT ![w] = "run"]
      /\ def' = [def EXCEPT ![w] = d]
      /\ def[w].level = 0 => tr = InfoRange /\ size = 0
      /\ def[w].level > 0 => tr \in FiniteRange
      /\ Admits(d, total)
      /\ Record(d)
      /\ UnlockBoth(w)

(* Nothing to compact, or every table refused: unlock and return false. *)
GiveUp(w) ==
  /\ at[w] = "both"
  /\ UnlockBoth(w)
  /\ def' = [def EXCEPT ![w] = NewDef(0)]
  /\ at' = [at EXCEPT ![w] = "idle"]
  /\ UNCHANGED <<ranges, delSize>>

(***************************************************************************)
(* The slice of the next level's list panics, as the list changed between  *)
(* the searches and the slice.  self_lock is a raw lock: nothing gives the *)
(* two locks back.                                                         *)
(***************************************************************************)
SlicePanics(w) ==
  /\ at[w] = "both"
  /\ at' = [at EXCEPT ![w] = "stuck"]
  /\ UNCHANGED <<def, lock, ranges, delSize>>

(* Mutant: delete forgets the range on the next level. *)
Delete_ThisLevelOnly(w) ==
  /\ at[w] = "run"
  /\ ranges' = [ranges EXCEPT ![def[w].level] = RemoveRange(@, def[w].this_range)]
  /\ delSize' = [delSize EXCEPT ![def[w].level] = Minus(@, def[w].this_size)]
  /\ def' = [def EXCEPT ![w] = NewDef(0)]
  /\ at' = [at EXCEPT ![w] = "idle"]
  /\ UNCHANGED lock

(* Mutant: delete subtracts from the size counter of the wrong level. *)
Delete_WrongLevel(w) ==
  /\ at[w] = "run"
  /\ ranges' = [ranges EXCEPT ![def[w].level] = RemoveRange(@, def[w].this_range),
                              ![def[w].level + 1] = RemoveRange(@, def[w].next_range)]
  /\ delSize' = [delSize EXCEPT ![def[w].level + 1] = Minus(@, def[w].this_size)]
  /\ def' = [def EXCEPT ![w] = NewDef(0)]
  /\ at' = [at EXCEPT ![w] = "idle"]
  /\ UNCHANGED lock

(***************************************************************************)
(* CompactStatus::delete, after the compaction ran or failed.  It takes no *)
(* level lock.                                                             *)
(***************************************************************************)
Delete(w) ==
  LET d == def[w]
  IN  /\ at[w] = "run"
      /\ ranges' = [ranges EXCEPT ![d.level] = RemoveRange(@, d.this_range),
                                  ![d.level + 1] = RemoveRange(@, d.next_range)]
      /\ delSize' = [delSize EXCEPT ![d.level] = Minus(@, d.this_size)]
      /\ def' = [def EXCEPT ![w] = NewDef(0)]
      /\ at' = [at EXCEPT ![w] = "idle"]
      /\ UNCHANGED lock

Next ==
  \E w \in Workers :
    \/ \E l \in TopLevels : LockThis(w, l)
    \/ LockNext(w)
    \/ \E tr \in KeyRange, nr \in FiniteRange, size, total \in Sizes :
         FillTables(w, tr, nr, size, total)
    \/ GiveUp(w) \/ SlicePanics(w)
    \/ Delete(w)

Spec == Init /\ [][Next]_csVars

(***************************************************************************)
(* Fairness: a worker is a task of the runtime and keeps running; it does  *)
(* not stay between two locks or inside fill_tables.  GiveUp is possible   *)
(* exactly while a worker is in there, so its fairness says no more than   *)
(* that the worker leaves: admitted, with nothing to do, or by a panic.    *)
(* parking_lot's locks are eventually fair, so a worker is not overtaken   *)
(* forever.                                                                *)
(***************************************************************************)
Fairness ==
  \A w \in Workers :
    /\ SF_csVars(LockNext(w))
    /\ WF_csVars(GiveUp(w))

FairSpec == Spec /\ Fairness

-----------------------------------------------------------------------------
Running(w) == at[w] = "run"

(* The ranges on level l that running compactions claim. *)
Claims(l) ==
  {def[w].this_range : w \in {v \in Workers : Running(v) /\ def[v].level = l}}
    \cup
  {def[w].next_range : w \in {v \in Workers : Running(v) /\ def[v].level + 1 = l}}

(***************************************************************************)
(* The point of CompactStatus: two running compactions never work on       *)
(* overlapping key ranges of one level, whether they read the level, write *)
(* to it, or one does each (compare_and_add, "it doesn't overlap with any  *)
(* other running Compaction").                                             *)
(***************************************************************************)
ClaimsDisjoint ==
  \A w, v \in Workers :
    w # v /\ Running(w) /\ Running(v) =>
      /\ def[w].level = def[v].level =>
           /\ ~ OverlapsWith(def[w].this_range, def[v].this_range)
           /\ ~ OverlapsWith(def[w].next_range, def[v].next_range)
      /\ def[w].level = def[v].level + 1 =>
           ~ OverlapsWith(def[w].this_range, def[v].next_range)

(***************************************************************************)
(* delete gives back exactly what compare_and_add took.  remove() drops    *)
(* every range with the same left end (KeyRange::equals), yet the ranges   *)
(* kept on a level are always those of the compactions still running: no   *)
(* other compaction's claim is dropped, none is left behind, and           *)
(* assert!(found) in delete holds.                                         *)
(***************************************************************************)
StatusIsClaims == \A l \in Levels : ranges[l] = Claims(l)

(***************************************************************************)
(* "del_size: all KeyRange size at the level ... after compacting,         *)
(* KeyRange and del_size all be decr": del_size of a level is the size of  *)
(* the tables that running compactions are taking away from it, so it is 0 *)
(* again once they are done.                                               *)
(***************************************************************************)
DelSizeIsClaimed ==
  \A l \in Levels :
    delSize[l] = SumFunctionOnSet([w \in Workers |-> def[w].this_size],
                   {w \in Workers : Running(w) /\ def[w].level = l}) % Word

(***************************************************************************)
(* Taking the locks lower level first cannot end in workers waiting for    *)
(* each other: whoever holds one lock gets the second and releases both.   *)
(* Only a worker that panicked in fill_tables, itself or one on a higher   *)
(* level, can keep it from that; one on a lower level never does.          *)
(***************************************************************************)
LocksReleased ==
  \A w \in Workers :
    at[w] = "this" ~> \/ at[w] \in {"run", "idle"}
                      \/ \E v \in Workers : at[v] = "stuck" /\ def[v].level >= def[w].level
=============================================================================
