------------------------------- MODULE Tables -------------------------------
(***************************************************************************)
(* SST tables and the table list of one level: the pure part of            *)
(* level_handler.rs and of compact_build_tables in levels.rs.  A table is  *)
(* immutable: an id and a non-empty function from its keys to the versions *)
(* of their values (deletion markers are values like any other).  Its size *)
(* is the number of its keys.                                              *)
(***************************************************************************)
EXTENDS KeyRanges, Sequences, FiniteSetsExt, SequencesExt

CONSTANTS
  HeadKey,    \* !badger!head, the internal key a flush may add to a table
  Capacity    \* max_table_size: a builder is full after that many keys

ASSUME HeadKeyAssumption == HeadKey \in Nat \ {0}
ASSUME CapacityAssumption == Capacity \in Nat \ {0}

TableKeys(t) == DOMAIN t.kv
Smallest(t) == Min(TableKeys(t))
Biggest(t) == Max(TableKeys(t))
Size(t) == Cardinality(TableKeys(t))

Ids(s) == {s[i].id : i \in DOMAIN s}
SumOfSizes(s) == SumFunction([i \in DOMAIN s |-> Size(s[i])])

(* The n-th element of S: the one that has n - 1 before it *)
Nth(S, before(_, _), n) ==
  CHOOSE x \in S : Cardinality({y \in S : before(y, x)}) = n - 1

(* The subsequence of s at the indices in I *)
Filter(s, I) == [n \in 1 .. Cardinality(I) |-> s[Nth(I, <, n)]]

(* A stable sort of s, in which rank[i] is the integer s[i] is sorted by. *)
StableSort(s, rank) ==
  LET before(i, j) == rank[i] < rank[j] \/ (rank[i] = rank[j] /\ i < j)
  IN  [n \in DOMAIN s |-> s[Nth(DOMAIN s, before, n)]]

SortBySmallest(s) == StableSort(s, [i \in DOMAIN s |-> Smallest(s[i])])
SortById(s) == StableSort(s, [i \in DOMAIN s |-> s[i].id])
SortBySize(s) == StableSort(s, [i \in DOMAIN s |-> - Size(s[i])])   \* biggest first

(* init_tables: level 0 by age, the others by key *)
InitTables(l, s) == IF l = 0 THEN SortById(s) ELSE SortBySmallest(s)

(* validate: for level 0 nothing, above the key ranges must not touch *)
Validate(l, s) ==
  l > 0 => \A j \in 2 .. Len(s) : Biggest(s[j - 1]) < Smallest(s[j])

(* KeyRange::get_range: the hull of a non-empty list of tables *)
GetRange(s) ==
  HullRange(Min({Smallest(s[i]) : i \in DOMAIN s}), Max({Biggest(s[i]) : i \in DOMAIN s}))

(***************************************************************************)
(* overlapping_tables(range): two binary searches, each under a read lock  *)
(* of its own, for the half-open interval [left, right) of indices; an     *)
(* empty interval is returned as (0, 0).  binary_search_by answers with    *)
(* any of several matches, so each search has a set of outcomes.           *)
(***************************************************************************)
BinarySearch(s, key(_), k) ==
  LET matches == {i \in DOMAIN s : key(s[i]) = k}
  IN  [ok |-> matches # {},
       at |-> IF matches # {} THEN {i - 1 : i \in matches}
              ELSE {Cardinality({i \in DOMAIN s : key(s[i]) < k})}]

OverlapLeft(s, range) == BinarySearch(s, Biggest, range.left).at

OverlapRight(s, range) ==
  LET found == BinarySearch(s, Smallest, range.right)
  IN  IF found.ok THEN {n + 1 : n \in found.at} ELSE found.at

(* tables[left..right], which panics when the interval is not in the list *)
SliceOK(s, left, right) == left = right \/ (left <= right /\ right <= Len(s))

(* Mutant: the right end is taken for the last index. *)
Slice_ShortByOne(s, left, right) == IF left = right THEN <<>> ELSE SubSeq(s, left + 1, right - 1)

Slice(s, left, right) == IF left = right THEN <<>> ELSE SubSeq(s, left + 1, right)

(* delete_tables *)
Deleted(s, ids) == Filter(s, {i \in DOMAIN s : s[i].id \in ids})
DeleteTables(s, ids) == Filter(s, {i \in DOMAIN s : s[i].id \notin ids})

(***************************************************************************)
(* replace_tables: which tables of the level make room for the new ones.   *)
(* A table is kept when biggest <= left or smallest > right; note the <=.  *)
(***************************************************************************)
Replaced(s, new) ==
  LET left == Smallest(Head(new))
      right == Biggest(Last(new))
  IN  Filter(s, {i \in DOMAIN s : ~ (Biggest(s[i]) <= left \/ Smallest(s[i]) > right)})

(* Mutant: the new tables are added at the end and the list is not sorted. *)
ReplaceTables_NotSorted(s, new) ==
  IF new = <<>> THEN s
  ELSE DeleteTables(s, Ids(Replaced(s, new))) \o new

(* Mutant: the tables that were merged stay in the list. *)
ReplaceTables_KeepsOld(s, new) == SortBySmallest(s \o new)

(* the table list that replace_tables leaves behind *)
ReplaceTables(s, new) ==
  IF new = <<>> THEN s
  ELSE SortBySmallest(DeleteTables(s, Ids(Replaced(s, new))) \o new)

(***************************************************************************)
(* get_table_for_key: the version a level returns for key k, 0 for None.   *)
(* Level 0 is searched from its newest table; above, a binary search on    *)
(* biggest finds the only table that can hold k.                           *)
(***************************************************************************)
LevelGet(l, s, k) ==
  LET hits == {i \in DOMAIN s : k \in TableKeys(s[i])}
      index == Min(BinarySearch(s, Biggest, k).at) + 1
  IN  IF l = 0 THEN IF hits = {} THEN 0 ELSE s[Max(hits)].kv[k]
      ELSE IF index \in hits THEN s[index].kv[k] ELSE 0

(* LevelsController::get on a state that does not change *)
Lookup(levels, k) ==
  LET hits == {l \in DOMAIN levels : LevelGet(l, levels[l], k) # 0}
  IN  IF hits = {} THEN 0 ELSE LevelGet(Min(hits), levels[Min(hits)], k)

-----------------------------------------------------------------------------
(***************************************************************************)
(* compact_build_tables.  MergeIterator takes equal keys from the iterator *)
(* with the least index: the top tables (newest first when they are level  *)
(* 0's), then one ConcatIterator over the bottom tables.  On rewind each   *)
(* iterator skips the internal keys at its front, so !badger!head is       *)
(* dropped; met anywhere else it fails the assertion of                    *)
(* MergeCursor::replace.                                                   *)
(***************************************************************************)

(* Mutant: level 0's tables are merged oldest first. *)
MergeOrder_OldestFirst(l, top, bot) == top \o bot

MergeOrder(l, top, bot) == (IF l = 0 THEN Reverse(top) ELSE top) \o bot

MergePanics(order) ==
  \E i \in DOMAIN order : HeadKey \in TableKeys(order[i]) /\ HeadKey # Smallest(order[i])

Merge(order) ==
  LET keys == (UNION {TableKeys(order[i]) : i \in DOMAIN order}) \ {HeadKey}
  IN  [k \in keys |->
         order[Min({i \in DOMAIN order : k \in TableKeys(order[i])})].kv[k]]

(* The builder starts a new table, under the next file id, when it is full. *)
BuildTables(kv, firstId) ==
  LET keys == DOMAIN kv
      rank(k) == Cardinality({j \in keys : j < k})
      chunk(i) == {k \in keys : rank(k) \div Capacity = i - 1}
      count == (Cardinality(keys) + Capacity - 1) \div Capacity
  IN  [i \in 1 .. count |->
         [id |-> firstId + i - 1, kv |-> [k \in chunk(i) |-> kv[k]]]]
=============================================================================
