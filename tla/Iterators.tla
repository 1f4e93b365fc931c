----------------------------- MODULE Iterators -----------------------------
(***************************************************************************)
(* Iterators in use.  `kind' says which one it is:                         *)
(*   "table", "concat", "memtable"   an Xiterator over one source          *)
(*   "merge"   the MergeIterator over several, as compactions use it       *)
(*   "kv"      KV::new_iterator: IteratorExt (iterator.rs) on top of a     *)
(*             merge of the memtables and all tables, with prefetching,    *)
(*             while a writer goes on putting into the memtable.           *)
(*                                                                         *)
(* One call is one step.  Values are fetched by tasks of their own         *)
(* (KVItem), which change neither the keys nor their order, and are left   *)
(* out.  A panic ends the iterator.                                        *)
(***************************************************************************)
EXTENDS Cursors

CONSTANTS
  Targets,        \* the keys that are put and sought
  Stores,         \* the [kind, rev, src] to start with
  PreFetchSize,   \* what IteratorOptions make of it: at least 2
  MaxPuts         \* bound: writes during a scan

ASSUME HeadAssumption == HeadKey \in Nat \ {0}
ASSUME TargetsAssumption == Targets \subseteq Nat \ {0}
ASSUME PreFetchAssumption == PreFetchSize \in Nat /\ PreFetchSize >= 2

(* A table is what Builder::add makes of keys that ascend: no block is empty. *)
TableOK(t) ==
  /\ t \in Seq(Seq(Nat \ {0})) /\ t # <<>>
  /\ \A b \in DOMAIN t :
       /\ t[b] # <<>>
       /\ \A d, e \in DOMAIN t[b] : d < e => t[b][d] < t[b][e]
       /\ \A c \in DOMAIN t : b < c => \A d \in DOMAIN t[b], e \in DOMAIN t[c] : t[b][d] < t[c][e]

TableKeys(t) == UNION {ToSet(t[b]) : b \in DOMAIN t}

(* A source: one table, the tables of a level in order, or a skip list *)
SourceOK(c) ==
  /\ c = [kind |-> c.kind, tables |-> c.tables, recs |-> c.recs]
  /\ c.recs \in [SourceKeys(c) -> [ver : Nat, del : BOOLEAN]]
  /\ IsFiniteSet(SourceKeys(c)) /\ SourceKeys(c) \subseteq Nat \ {0}
  /\ \/ /\ c.kind = "table" /\ TableOK(c.tables[1])
        /\ SourceKeys(c) = TableKeys(c.tables[1])
     \/ /\ c.kind = "concat" /\ c.tables \in Seq(Seq(Seq(Nat \ {0})))
        /\ \A n \in DOMAIN c.tables : TableOK(c.tables[n])
        /\ \A n, p \in DOMAIN c.tables : n < p =>
             \A j \in TableKeys(c.tables[n]), k \in TableKeys(c.tables[p]) : j < k
        /\ SourceKeys(c) = UNION {TableKeys(c.tables[n]) : n \in DOMAIN c.tables}
     \/ c.kind = "memtable"

(* Of two sources with the same key the first one has the newer record, and  *)
(* what is put later is newer than all.                                      *)
VersionsOK(cs, most) ==
  \A n \in DOMAIN cs : \A k \in SourceKeys(cs[n]) :
    /\ cs[n].recs[k].ver <= most
    /\ \A p \in DOMAIN cs : n < p /\ k \in SourceKeys(cs[p]) => cs[p].recs[k].ver < cs[n].recs[k].ver

(* as_iterator takes tables one by one, and new_iterator merges upwards. *)
StoreOK(s) ==
  /\ s.rev \in BOOLEAN
  /\ s.src = [n \in 1 .. Len(s.src) |-> s.src[n]] /\ Len(s.src) \in Nat
  /\ \A n \in DOMAIN s.src : SourceOK(s.src[n])
  /\ \/ s.kind \in {"table", "concat", "memtable"} /\ Len(s.src) = 1 /\ s.src[1].kind = s.kind
     \/ s.kind = "merge"
     \/ /\ s.kind = "kv" /\ ~s.rev
        /\ Len(s.src) > 0 /\ s.src[1].kind = "memtable"
        /\ \A n \in DOMAIN s.src : s.src[n].kind # "concat"
        /\ VersionsOK(s.src, Len(s.src))

ASSUME StoresAssumption == \A s \in Stores : StoreOK(s)

VARIABLES
  kind, rev,   \* which iterator, and its direction
  src,         \* the sources, the newest first
  m,           \* the iterators on them; with "merge" and "kv" the heap and cur_item too
  last,        \* the last call that positioned the iterator
  item, data,  \* IteratorExt: the current item and the queue behind it
  kept,        \* the item that the positioning seek has shown once more, if any
  shown,       \* the items a scan has shown since it was positioned, after that one
  base,        \* what every key was when the scan was positioned
  removed,     \* the keys deleted since
  puts,        \* the number of writes
  panicked     \* the call that panicked

vars == <<kind, rev, src, m, last, item, data, kept, shown, base, removed, puts, panicked>>
scanVars == <<item, data, kept, shown, base, removed>>
sourceVars == <<kind, rev, src, puts>>

NoCall == [call |-> "none", key |-> None]
RewindCall == [call |-> "rewind", key |-> None]
SeekCall(k) == [call |-> "seek", key |-> k]

(* new_iterator, get_mem_tables and as_iterator: the memtable, the immutable *)
(* ones and the tables of level 0 from the newest on, then the other levels. *)
NewIterator(mt, imm, l0, lower) == <<mt>> \o Reverse(imm) \o Reverse(l0) \o lower

Init ==
  /\ \E s \in Stores : kind = s.kind /\ rev = s.rev /\ src = s.src
  /\ m = MergeNew(src, rev)
  /\ last = NoCall
  /\ item = NoItem /\ data = <<>> /\ kept = NoItem /\ shown = <<>>
  /\ base = << >> /\ removed = {}
  /\ puts = 0
  /\ panicked = NoCall

Single == kind \in {"table", "concat", "memtable"}

Keys(cs) == UNION {SourceKeys(cs[n]) : n \in DOMAIN cs}

(* The newest record of every key *)
Newest(cs) ==
  [k \in Keys(cs) |->
     LET versions == {cs[n].recs[k] : n \in {i \in DOMAIN cs : k \in SourceKeys(cs[i])}}
     IN  CHOOSE r \in versions : \A s \in versions : r.ver >= s.ver]

(* A panic ends the iterator. *)
Panic(c) ==
  /\ panicked' = c
  /\ UNCHANGED <<sourceVars, m, last, scanVars>>

---------------------------------------------------------------------------
(* An iterator over one source *)

SingleStep(c, i) ==
  /\ last' = c
  /\ m' = [m EXCEPT !.its[1] = i]
  /\ UNCHANGED <<sourceVars, scanVars, panicked>>

RewindSource ==
  /\ Single
  /\ IF ItRewindPanics(src[1], rev) THEN Panic(RewindCall)
     ELSE SingleStep(RewindCall, ItRewind(src[1], rev, m.its[1]))

SeekSource(k) ==
  /\ Single
  /\ SingleStep(SeekCall(k), ItSeek(src[1], rev, k, m.its[1]))

(***************************************************************************)
(* Callers go on only as the store does: a level is walked from its start  *)
(* (compact_build_tables rewinds a ConcatIterator, nobody seeks in one),   *)
(* and the end of a memtable is not passed.                                *)
(***************************************************************************)
NextInSource ==
  /\ Single
  /\ kind = "concat" => last.call # "seek"
  /\ kind = "memtable" => last = NoCall \/ ItPeek(src[1], m.its[1]) # None
  /\ SingleStep(IF last = NoCall THEN RewindCall ELSE last, ItNext(src[1], rev, m.its[1]))

---------------------------------------------------------------------------
(* MergeIterator *)

MergeStep(c, n) ==
  IF n.panics THEN Panic(c)
  ELSE /\ last' = c
       /\ m' = n
       /\ UNCHANGED <<sourceVars, scanVars, panicked>>

RewindMerge == kind = "merge" /\ MergeStep(RewindCall, MergeRewind(src, rev, m))

(* Nobody seeks in a merge with a ConcatIterator, see above. *)
SeekMerge(k) ==
  /\ kind = "merge" /\ \A n \in DOMAIN src : src[n].kind # "concat"
  /\ MergeStep(SeekCall(k), MergeSeek(src, rev, k, m))

(* next() asserts that the iterator was positioned. *)
NextInMerge == kind = "merge" /\ last # NoCall /\ MergeStep(last, MergeNext(src, rev, m))

---------------------------------------------------------------------------
(* IteratorExt.  A call makes at most one step of the merge per key; internal *)
(* keys do not get past the merge.                                            *)

Repeat(F(_), x) ==
  LET done[i \in 0 .. Cardinality(Keys(src)) + 1] == IF i = 0 THEN x ELSE F(done[i - 1])
  IN  done[Cardinality(Keys(src)) + 1]

(* Mutant: the step that stops the prefetch is taken too. *)
PreFetch_StepsOn(x0) ==
  LET enough(x) == x.n = PreFetchSize \/ x.m.cur = NoItem
      next(x) == [x EXCEPT !.m = MergeNext(src, rev, @)]
      fill(x) == IF x.item = NoItem THEN [x EXCEPT !.n = @ + 1, !.item = x.m.cur]
                 ELSE [x EXCEPT !.n = @ + 1, !.data = Append(@, x.m.cur)]
  IN  Repeat(LAMBDA x : IF enough(x) THEN x
                        ELSE IF x.m.cur.del THEN next(x)
                        ELSE next(fill(x)), x0)

(* pre_fetch: pass deleted records, the first other one becomes the item if  *)
(* there is none, the next ones queue; the last one stays the merge's cur.   *)
PreFetch(x0) ==
  LET enough(x) == x.n = PreFetchSize \/ x.m.cur = NoItem
      next(x) == [x EXCEPT !.m = MergeNext(src, rev, @)]
      fill(x) == IF x.item = NoItem THEN [x EXCEPT !.n = @ + 1, !.item = x.m.cur]
                 ELSE [x EXCEPT !.n = @ + 1, !.data = Append(@, x.m.cur)]
  IN  Repeat(LAMBDA x : IF enough(x) THEN x
                        ELSE IF x.m.cur.del THEN next(x)
                        ELSE IF enough(fill(x)) THEN fill(x)
                        ELSE next(fill(x)), x0)

(* What the call returns is `stale', the item it did not take away, or the   *)
(* first item from its position on.                                          *)
Position(c, x, stale) ==
  IF x.m.panics THEN Panic(c)
  ELSE /\ last' = c
       /\ m' = x.m
       /\ item' = x.item /\ data' = x.data
       /\ kept' = stale
       /\ shown' = IF stale = NoItem /\ x.item # NoItem THEN <<x.item>> ELSE <<>>
       /\ base' = Newest(src) /\ removed' = {}
       /\ UNCHANGED <<sourceVars, panicked>>

Rewind ==
  /\ kind = "kv"
  /\ Position(RewindCall,
              PreFetch([m |-> MergeRewind(src, rev, m), item |-> NoItem, data |-> <<>>, n |-> 0]),
              NoItem)

(* seek does not take the current item away: if there is one, it is returned *)
(* once more and the keys that were sought queue behind it.                  *)
Seek(k) ==
  /\ kind = "kv"
  /\ Position(SeekCall(k),
              PreFetch([m |-> MergeSeek(src, rev, k, m), item |-> item, data |-> <<>>, n |-> 0]),
              item)

(* The merge, moved to its next record that is not deleted *)
NextLive == Repeat(LAMBDA x : IF x.cur.del THEN MergeNext(src, rev, x) ELSE x,
                   MergeNext(src, rev, m))

(* The queue moves up by one, and what the merge finds goes to its end. *)
NextItem ==
  /\ kind = "kv" /\ last # NoCall
  /\ IF NextLive.panics THEN Panic(last)
     ELSE /\ m' = NextLive
          /\ item' = IF data = <<>> THEN NoItem ELSE Head(data)
          /\ data' = (IF data = <<>> THEN <<>> ELSE Tail(data))
                     \o (IF NextLive.cur = NoItem THEN <<>> ELSE <<NextLive.cur>>)
          /\ shown' = IF item' = NoItem THEN shown ELSE Append(shown, item')
          /\ UNCHANGED <<sourceVars, last, kept, base, removed, panicked>>

(* A client writes a key of its own into the memtable, under a scan. *)
Put(k, del) ==
  /\ kind = "kv" /\ last # NoCall /\ puts < MaxPuts
  /\ k # HeadKey
  /\ puts' = puts + 1
  /\ src' = [src EXCEPT ![1].recs =
               [j \in SourceKeys(src[1]) \cup {k} |->
                  IF j = k THEN [ver |-> Len(src) + puts + 1, del |-> del] ELSE @[j]]]
  /\ removed' = IF del THEN removed \cup {k} ELSE removed
  /\ UNCHANGED <<kind, rev, m, last, item, data, kept, shown, base, panicked>>

---------------------------------------------------------------------------
Next ==
  /\ panicked = NoCall
  /\ \/ RewindSource \/ NextInSource
     \/ RewindMerge \/ NextInMerge
     \/ Rewind \/ NextItem
     \/ \E k \in Targets : \/ SeekSource(k) \/ SeekMerge(k) \/ Seek(k)
                           \/ \E del \in BOOLEAN : Put(k, del)

Spec == Init /\ [][Next]_vars

---------------------------------------------------------------------------
Start == -3
End == -4

Peek == IF Single THEN ItPeek(src[1], m.its[1]) ELSE m.cur.key

SC == INSTANCE SortedCursor
        WITH contents <- CASE kind = "kv" -> {}
                           [] kind = "merge" -> Keys(src) \ {HeadKey}
                           [] OTHER -> Keys(src),
             reverse <- rev,
             at <- IF kind = "kv" \/ last = NoCall THEN Start
                   ELSE IF Peek = None THEN End ELSE Peek

(***************************************************************************)
(* Every iterator of the store, on blocks, tables, levels, memtables and   *)
(* merges of them, in both directions, is a cursor over the sorted set of  *)
(* its keys: rewind, seek and next land on the key that SortedCursor says, *)
(* across the ends of blocks and tables and past them.                     *)
(***************************************************************************)
CursorRefined == SC!Spec

HeadReached(n, c) ==
  /\ HeadKey \in SourceKeys(src[n])
  /\ \/ c.call = "seek" /\ (rev \/ c.key <= HeadKey)
     \/ c.call = "rewind" /\ \E k \in SourceKeys(src[n]) : IF rev THEN k > HeadKey ELSE k < HeadKey

(* seek_to_first unwraps find_last, which an empty skip list does not have. *)
UnwrapsNothing(c) ==
  /\ c.call = "rewind" /\ ~rev
  /\ \E n \in DOMAIN src : src[n].kind = "memtable" /\ SourceKeys(src[n]) = {}

(***************************************************************************)
(* The assertion of MergeCursor::replace holds in every merge, whatever is *)
(* put meanwhile, unless "!badger!head" can be met behind the start of the *)
(* scan: it holds when the head key is the first one of each source that   *)
(* has it and the scan starts at the front, or beyond it.                  *)
(* Calls that fail before they get that far are no part of it: a rewind    *)
(* over an empty memtable panics, although skip.rs:682-683 says "Final     *)
(* state of iterator is valid() iff list is not empty".  That is a         *)
(* disagreement of code and comment, see README.                           *)
(***************************************************************************)
ReplaceAsserts ==
  panicked # NoCall /\ ~UnwrapsNothing(panicked) => \E n \in DOMAIN src : HeadReached(n, panicked)

(***************************************************************************)
(* From its position on a scan of the store shows keys in strictly         *)
(* ascending order, never a deleted record, and no record older than the   *)
(* newest one there was when it was positioned, whatever is written        *)
(* meanwhile: merging, prefetching and the choice among equal keys do not  *)
(* mix versions up.  The one item that may come before and out of order is *)
(* `kept', and only a seek keeps one: seek on an iterator that has an item *)
(* returns that item again (iterator.rs:355-367), although its comment     *)
(* (iterator.rs:352-354) says "Seek to the provided key if present".       *)
(***************************************************************************)
ScanSorted ==
  /\ kept # NoItem => last.call = "seek"
  /\ \A i \in 1 .. Len(shown) - 1 : shown[i].key < shown[i + 1].key
  /\ \A i \in DOMAIN shown :
       /\ ~shown[i].del /\ shown[i].key # HeadKey
       /\ shown[i].key \in DOMAIN base => shown[i].ver >= base[shown[i].key].ver

(***************************************************************************)
(* When the current item is gone, the scan has shown every key from its    *)
(* position on that was there when it was positioned and was not deleted   *)
(* meanwhile: none is lost between the merge, the queue and the item, and  *)
(* an item that a seek has kept does not take the place of one.            *)
(***************************************************************************)
ScanComplete ==
  kind = "kv" /\ last # NoCall /\ item = NoItem =>
    \A k \in DOMAIN base \ (removed \cup {HeadKey}) :
      k >= last.key /\ ~base[k].del => \E i \in DOMAIN shown : shown[i].key = k
=============================================================================
