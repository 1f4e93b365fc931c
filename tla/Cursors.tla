------------------------------ MODULE Cursors ------------------------------
(***************************************************************************)
(* The iterators over one sorted run: a block and a table                  *)
(* (table/iterator.rs), the tables of a level one after the other          *)
(* (ConcatIterator), a memtable (UniIterator of skl/skip.rs), and the      *)
(* merge of several of these (y/merge_iterator.rs).                        *)
(*                                                                         *)
(* An iterator is a value and a call maps it to the next value.  Every     *)
(* call returns what peek() returns after it, so a call is modelled by the *)
(* new value alone.  Keys are positive numbers in the order of the byte    *)
(* strings; None stands for "no item".  A block is the ascending sequence  *)
(* of its keys, a table the sequence of its blocks.                        *)
(***************************************************************************)
EXTENDS Integers, Sequences, FiniteSetsExt, SequencesExt

CONSTANTS
  RestartInterval,   \* Builder::RESTART_INTERVAL, the most records of a block
  HeadKey            \* the key "!badger!head", the only key with the prefix "!badger!"

ASSUME RestartAssumption == RestartInterval \in Nat \ {0}

None == 0

(* Builder::add: the keys in order, a new block when the last one is full. *)
BuildTable(keys) ==
  LET s == SetToSortSeq(keys, <)
      full(b) == SubSeq(s, (b - 1) * RestartInterval + 1,
                        Min({b * RestartInterval, Len(s)}))
  IN  [b \in 1 .. (Len(s) + RestartInterval - 1) \div RestartInterval |-> full(b)]

---------------------------------------------------------------------------
(* BlockIterator.  Entry e <= Len(b) of a block is a record; entry Len(b)+1 *)
(* is the dummy entry of finish_block, and the value of the dummy, ten zero *)
(* bytes, can be read as one more header: entry Len(b)+2.  `pos' is the     *)
(* entry that is read next, `last' the one last_header was read from.       *)
(* Keys are whole: prefix compression against base_key is left out.         *)

NewBlock == [pos |-> 1, last |-> 0]

BlockPeek(b, i) == IF i.last \in DOMAIN b THEN b[i.last] ELSE None

BlockNext(b, i) ==
  IF i.pos > Len(b) + 2 THEN i ELSE [pos |-> i.pos + 1, last |-> i.pos]

(* Header.prev: the entry before, 0 for u32::MAX; in the zero bytes it is    *)
(* offset 0, the first entry.                                                *)
HeaderPrev(b, e) == IF e = Len(b) + 2 THEN 1 ELSE e - 1

BlockPrev(b, i) ==
  IF i.last = 0 THEN i
  ELSE LET e == HeaderPrev(b, i.last) IN [pos |-> e + 1, last |-> e]

(* seek from the origin: next() until the key is not less. *)
BlockSeek(b, k) ==
  LET e == Min({d \in DOMAIN b : b[d] >= k} \cup {Len(b) + 1})
  IN  [pos |-> e + 1, last |-> e]

BlockSeekToFirst(b) == BlockNext(b, NewBlock)

(* next() until the dummy, then one step back over it. *)
BlockSeekToLast(b) == BlockPrev(b, [pos |-> Len(b) + 2, last |-> Len(b) + 1])

---------------------------------------------------------------------------
(* IteratorImpl: `bpos' is the block, `bi' the iterator on it, if it is set. *)

NoBlock == [pos |-> 0, last |-> 0]

TableReset(t, rev) == [bpos |-> IF rev THEN Len(t) ELSE 1, bi |-> NoBlock]

TablePeek(t, i) == IF i.bi = NoBlock THEN None ELSE BlockPeek(t[i.bpos], i.bi)

TableRewind(t, rev) ==
  IF rev THEN [bpos |-> Len(t), bi |-> BlockSeekToLast(t[Len(t)])]
  ELSE [bpos |-> 1, bi |-> BlockSeekToFirst(t[1])]

(* get_or_set_bi *)
Bi(i) == IF i.bi = NoBlock THEN NewBlock ELSE i.bi

(* _next: at the end of a block go on in the next one.  No block is empty. *)
TableForward(t, i) ==
  LET n == BlockNext(t[i.bpos], Bi(i))
  IN  CASE i.bpos > Len(t) -> i
        [] i.bpos <= Len(t) /\ BlockPeek(t[i.bpos], n) # None -> [i EXCEPT !.bi = n]
        [] i.bpos = Len(t) /\ BlockPeek(t[i.bpos], n) = None ->
             [bpos |-> i.bpos + 1, bi |-> NoBlock]
        [] OTHER -> [bpos |-> i.bpos + 1, bi |-> BlockNext(t[i.bpos + 1], NewBlock)]

(* prev: at the start of a block go on at the end of the one before. *)
TableBack(t, i) ==
  LET p == BlockPrev(t[i.bpos], i.bi)
  IN  CASE i.bi = NoBlock -> [i EXCEPT !.bi = BlockSeekToLast(t[i.bpos])]
        [] i.bi # NoBlock /\ (i.bpos = 1 \/ BlockPeek(t[i.bpos], p) # None) ->
             [i EXCEPT !.bi = p]
        [] OTHER -> [bpos |-> i.bpos - 1, bi |-> BlockSeekToLast(t[i.bpos - 1])]

(* The keys of block_index: read_index leaves the key of a lone block empty. *)
IndexKey(t, n) == IF Len(t) = 1 THEN None ELSE t[n][1]

(* Mutant: the next block is not tried. *)
TableSeekFrom_OneBlock(t, k) ==
  LET below == Max({n \in DOMAIN t : IndexKey(t, n) <= k} \cup {1})
  IN  [bpos |-> below, bi |-> BlockSeek(t[below], k)]

(* seek_from: the block whose index key is the greatest that is not above k, *)
(* and if it holds no key >= k, the next one.                                *)
TableSeekFrom(t, k) ==
  LET SeekHelper(n) == [bpos |-> n, bi |-> BlockSeek(t[n], k)]
      below == Max({n \in DOMAIN t : IndexKey(t, n) <= k} \cup {1})
      found == SeekHelper(below)
  IN  IF \/ TablePeek(t, found) # None
         \/ below = Len(t)
         \/ IndexKey(t, below) >= k
      THEN found ELSE SeekHelper(below + 1)

(* Forwards the first key >= k; backwards the last one <= k (seek_for_prev). *)
TableSeek(t, rev, k) ==
  LET i == TableSeekFrom(t, k)
  IN  IF rev /\ TablePeek(t, i) # k THEN TableBack(t, i) ELSE i

TableNext(t, rev, i) == IF rev THEN TableBack(t, i) ELSE TableForward(t, i)

---------------------------------------------------------------------------
(* ConcatIterator: `index' is the current table (0 before the first, one     *)
(* past the last after them), `its' the iterators of all of them.  `init'    *)
(* stays false, so every next() starts again at the first table and moves on *)
(* over the ones that have ended.                                            *)

ConcatNew(ts, rev) ==
  [index |-> 0, its |-> [n \in DOMAIN ts |-> TableReset(ts[n], rev)]]

ConcatPeek(ts, i) ==
  IF i.index \in DOMAIN ts THEN TablePeek(ts[i.index], i.its[i.index]) ELSE None

ConcatNext(ts, rev, i) ==
  LET moved == [n \in DOMAIN ts |-> TableNext(ts[n], rev, i.its[n])]
      ended(n) == TablePeek(ts[n], moved[n]) = None
      stop == IF rev THEN Max({n \in DOMAIN ts : ~ended(n)} \cup {0})
              ELSE Min({n \in DOMAIN ts : ~ended(n)} \cup {Len(ts) + 1})
      tried(n) == IF rev THEN n >= stop ELSE n <= stop
  IN  IF ts = <<>> THEN i
      ELSE [index |-> stop,
            its |-> [n \in DOMAIN ts |-> IF tried(n) THEN moved[n] ELSE i.its[n]]]

ConcatRewind(ts, rev, i) ==
  LET first == IF rev THEN Len(ts) ELSE 1
  IN  IF ts = <<>> THEN i
      ELSE [index |-> first,
            its |-> [n \in DOMAIN ts |-> IF n = first THEN TableRewind(ts[n], rev)
                                         ELSE TableReset(ts[n], rev)]]

TableSmallest(t) == t[1][1]
TableBiggest(t) == t[Len(t)][Len(t[Len(t)])]

(* seek: the first table that ends at or after k, or the last that starts at *)
(* or before k; the other tables stay where they are.                        *)
ConcatSeek(ts, rev, k, i) ==
  LET hits == IF rev THEN {n \in DOMAIN ts : TableSmallest(ts[n]) <= k}
              ELSE {n \in DOMAIN ts : TableBiggest(ts[n]) >= k}
      n == IF rev THEN Max(hits) ELSE Min(hits)
  IN  CASE ts = <<>> -> i
        [] ts # <<>> /\ hits = {} -> [i EXCEPT !.index = 0]
        [] OTHER -> [i EXCEPT !.index = n, !.its[n] = TableSeek(ts[n], rev, k)]

---------------------------------------------------------------------------
(* UniIterator over a skip list with keys s: the node it is at, the head of  *)
(* the list, or null.                                                        *)

ListHead == -1
Null == -2

MemNew(rev) == IF rev THEN Null ELSE ListHead

MemPeek(i) == IF i < 0 THEN None ELSE i

(* find_near, or the head of the list when there is nothing *)
Above(s, k, dflt) == LET S == {n \in s : n >= k} IN IF S = {} THEN dflt ELSE Min(S)
Below(s, k, dflt) == LET S == {n \in s : n <= k} IN IF S = {} THEN dflt ELSE Max(S)

SeekToLast(s) == IF s = {} THEN ListHead ELSE Max(s)

(* SkipIterator::next and prev *)
MemNext(s, rev, i) ==
  CASE ~rev /\ i = Null -> Null
    [] ~rev /\ i # Null -> Above(s, i + 1, Null)
    [] rev /\ i = Null -> SeekToLast(s)
    [] rev /\ i = ListHead -> ListHead
    [] OTHER -> Below(s, i - 1, ListHead)

(* seek_to_first unwraps find_last, which is None on an empty list *)
MemRewindPanics(s, rev) == ~rev /\ s = {}

MemRewind(s, rev) == IF rev THEN SeekToLast(s) ELSE Min(s)

MemSeek(s, rev, k) == IF rev THEN Below(s, k, ListHead) ELSE Above(s, k, ListHead)

---------------------------------------------------------------------------
(* The trait Xiterator over the three of them.  A source has a kind, its     *)
(* tables and the record of every key in it.                                 *)

SourceKeys(c) == DOMAIN c.recs

ItNew(c, rev) ==
  CASE c.kind = "table" -> TableReset(c.tables[1], rev)
    [] c.kind = "concat" -> ConcatNew(c.tables, rev)
    [] c.kind = "memtable" -> MemNew(rev)

ItPeek(c, i) ==
  CASE c.kind = "table" -> TablePeek(c.tables[1], i)
    [] c.kind = "concat" -> ConcatPeek(c.tables, i)
    [] c.kind = "memtable" -> MemPeek(i)

ItNext(c, rev, i) ==
  CASE c.kind = "table" -> TableNext(c.tables[1], rev, i)
    [] c.kind = "concat" -> ConcatNext(c.tables, rev, i)
    [] c.kind = "memtable" -> MemNext(SourceKeys(c), rev, i)

ItRewindPanics(c, rev) == c.kind = "memtable" /\ MemRewindPanics(SourceKeys(c), rev)

ItRewind(c, rev, i) ==
  CASE c.kind = "table" -> TableRewind(c.tables[1], rev)
    [] c.kind = "concat" -> ConcatRewind(c.tables, rev, i)
    [] c.kind = "memtable" -> MemRewind(SourceKeys(c), rev)

ItSeek(c, rev, k, i) ==
  CASE c.kind = "table" -> TableSeek(c.tables[1], rev, k)
    [] c.kind = "concat" -> ConcatSeek(c.tables, rev, k, i)
    [] c.kind = "memtable" -> MemSeek(SourceKeys(c), rev, k)

---------------------------------------------------------------------------
(* MergeIterator over a sequence cs of sources.  `heap' has at most one item *)
(* of each source (heap_flag), taken when it was pushed; `cur' is cur_item.  *)

NoItem == [key |-> None, ver |-> 0, del |-> FALSE]

ItemAt(c, i) ==
  LET k == ItPeek(c, i)
  IN  IF k = None THEN NoItem ELSE [key |-> k, ver |-> c.recs[k].ver, del |-> c.recs[k].del]

MergeNew(cs, rev) ==
  [its |-> [n \in DOMAIN cs |-> ItNew(cs[n], rev)],
   heap |-> [n \in DOMAIN cs |-> NoItem], cur |-> NoItem, panics |-> FALSE]

(* Mutant: of equal keys the source with the greatest index. *)
HeapTop_Oldest(heap, rev) ==
  LET full == {n \in DOMAIN heap : heap[n] # NoItem}
      keys == {heap[n].key : n \in full}
  IN  Max({n \in full : heap[n].key = IF rev THEN Max(keys) ELSE Min(keys)})

(* IterRef::cmp: the least key, backwards the greatest, and of equal keys    *)
(* the source with the least index.                                          *)
HeapTop(heap, rev) ==
  LET full == {n \in DOMAIN heap : heap[n] # NoItem}
      keys == {heap[n].key : n \in full}
  IN  Min({n \in full : heap[n].key = IF rev THEN Max(keys) ELSE Min(keys)})

(* _next: take the top of the heap, and move every source that is at its     *)
(* key.  MergeCursor::replace asserts that the key is not internal.          *)
MergeNext(cs, rev, m) ==
  IF m.panics THEN m
  ELSE IF \A n \in DOMAIN cs : m.heap[n] = NoItem THEN [m EXCEPT !.cur = NoItem]
  ELSE LET cur == m.heap[HeapTop(m.heap, rev)]
           popped == {n \in DOMAIN cs : m.heap[n].key = cur.key}
           its == [n \in DOMAIN cs |-> IF n \in popped THEN ItNext(cs[n], rev, m.its[n])
                                       ELSE m.its[n]]
       IN  IF cur.key = HeadKey THEN [m EXCEPT !.panics = TRUE]
           ELSE [m EXCEPT !.its = its, !.cur = cur,
                          !.heap = [n \in DOMAIN cs |->
                                      IF n \in popped THEN ItemAt(cs[n], its[n]) ELSE @[n]]]

(* The heap that rewind and seek fill before they call next(). *)
MergeFill(cs, its) ==
  [its |-> its, heap |-> [n \in DOMAIN cs |-> ItemAt(cs[n], its[n])],
   cur |-> NoItem, panics |-> FALSE]

(* Mutant: the internal key is not passed over. *)
MergeRewind_KeepsHead(cs, rev, m) ==
  IF \E n \in DOMAIN cs : ItRewindPanics(cs[n], rev) THEN [m EXCEPT !.panics = TRUE]
  ELSE MergeNext(cs, rev, MergeFill(cs, [n \in DOMAIN cs |-> ItRewind(cs[n], rev, m.its[n])]))

(* rewind: every source to its start, and over the internal key if it is there *)
MergeRewind(cs, rev, m) ==
  IF \E n \in DOMAIN cs : ItRewindPanics(cs[n], rev) THEN [m EXCEPT !.panics = TRUE]
  ELSE MergeNext(cs, rev, MergeFill(cs,
         [n \in DOMAIN cs |-> LET i == ItRewind(cs[n], rev, m.its[n])
                              IN  IF ItPeek(cs[n], i) = HeadKey THEN ItNext(cs[n], rev, i)
                                  ELSE i]))

MergeSeek(cs, rev, k, m) ==
  MergeNext(cs, rev, MergeFill(cs, [n \in DOMAIN cs |-> ItSeek(cs[n], rev, k, m.its[n])]))
=============================================================================
