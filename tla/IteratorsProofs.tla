-------------------------- MODULE IteratorsProofs --------------------------
(***************************************************************************)
(* What holds of the iterators over any sources, of any length, upwards    *)
(* and downwards.                                                          *)
(*                                                                         *)
(* The first part is about the operators of module Cursors: what rewind,   *)
(* seek and next do to the iterator of a block, a table, a level, a        *)
(* memtable (SourceMoves: all of them reach the first of the keys they     *)
(* should), and a merge (MergeAt: no key that a source owes is passed).    *)
(* Then come the invariant CursorInv and the refinement of SortedCursor,   *)
(* and last KV::new_iterator's iterator with the invariant KvInv: what its *)
(* loops compute, what a writer may change under it, and what it shows.    *)
(***************************************************************************)
EXTENDS Iterators, FiniteSetFacts, SequenceTheorems

(* j comes after k in the direction of the walk. *)
After(r, j, k) == IF r THEN j < k ELSE j > k

(* k is the first of S in that direction, or None if there is none. *)
IsFirst(r, S, k) ==
  IF S = {} THEN k = None ELSE k \in S /\ \A j \in S : ~ After(r, k, j)

(* The keys of S after k, and from k on *)
Beyond(r, S, k) == {j \in S : After(r, j, k)}
Onward(r, S, k) == {j \in S : ~ After(r, k, j)}

-----------------------------------------------------------------------------
(***************************************************************************)
(* Tables                                                                  *)
(***************************************************************************)

(* At entry e of block b *)
At(b, e) == [bpos |-> b, bi |-> [pos |-> e + 1, last |-> e]]

TableAt(t, i) == \E b \in DOMAIN t : \E e \in DOMAIN t[b] : i = At(b, e)

(* Past the end: in the dummy of the last block or behind it, or before the first record *)
TableEnd(t, r, i) ==
  \/ ~ r /\ i = [bpos |-> Len(t) + 1, bi |-> NoBlock]
  \/ ~ r /\ i = At(Len(t), Len(t[Len(t)]) + 1)
  \/ r /\ i = At(1, 0)

(* What TableOK says, without sequences *)
LEMMA TableFacts ==
  ASSUME NEW t, TableOK(t)
  PROVE  /\ Len(t) \in Nat /\ Len(t) >= 1 /\ DOMAIN t = 1 .. Len(t)
         /\ \A b \in DOMAIN t :
              /\ Len(t[b]) \in Nat /\ Len(t[b]) >= 1 /\ DOMAIN t[b] = 1 .. Len(t[b])
              /\ \A e \in DOMAIN t[b] : t[b][e] \in Nat /\ t[b][e] # None
                                        /\ t[b][e] \in TableKeys(t)
         /\ \A k \in TableKeys(t) : \E b \in DOMAIN t : \E e \in DOMAIN t[b] : k = t[b][e]
<1>1. t \in Seq(Seq(Nat \ {0})) /\ t # <<>>
  BY DEF TableOK
<1>2. Len(t) \in Nat /\ Len(t) >= 1 /\ DOMAIN t = 1 .. Len(t)
  BY <1>1
<1>3. ASSUME NEW b \in DOMAIN t
      PROVE  /\ Len(t[b]) \in Nat /\ Len(t[b]) >= 1 /\ DOMAIN t[b] = 1 .. Len(t[b])
             /\ \A e \in DOMAIN t[b] : t[b][e] \in Nat \ {0} /\ t[b][e] \in ToSet(t[b])
  <2>1. PICK s \in Seq(Nat \ {0}) : s = t[b]
    BY <1>1, <1>3
  <2>2. s # <<>>
    BY <2>1 DEF TableOK
  <2>3. Len(s) \in Nat /\ Len(s) >= 1 /\ DOMAIN s = 1 .. Len(s) /\ \A e \in DOMAIN s : s[e] \in Nat \ {0}
    BY <2>2
  <2> QED
    BY <2>1, <2>3 DEF ToSet
<1>4. \A k \in TableKeys(t) : \E b \in DOMAIN t : \E e \in DOMAIN t[b] : k = t[b][e]
  BY DEF TableKeys, ToSet
<1> QED
  BY <1>2, <1>3, <1>4 DEF TableKeys, None

(* The entries of a table in order *)
LEMMA EntryOrder ==
  ASSUME NEW t, TableOK(t), NEW b \in DOMAIN t, NEW c \in DOMAIN t,
         NEW d \in DOMAIN t[b], NEW e \in DOMAIN t[c]
  PROVE  t[b][d] < t[c][e] <=> b < c \/ (b = c /\ d < e)
<1>1. /\ b \in Int /\ c \in Int /\ d \in Int /\ e \in Int /\ t[b][d] \in Nat /\ t[c][e] \in Nat
  BY TableFacts, SMTT(20)
<1>2. b < c => t[b][d] < t[c][e]
  BY DEF TableOK
<1>3. c < b => t[c][e] < t[b][d]
  BY DEF TableOK
<1>4. b = c /\ d < e => t[b][d] < t[c][e]
  BY DEF TableOK
<1>5. b = c /\ e < d => t[c][e] < t[b][d]
  BY DEF TableOK
<1>6. b = c /\ d = e => t[b][d] = t[c][e]
  OBVIOUS
<1> QED
  BY <1>1, <1>2, <1>3, <1>4, <1>5, <1>6

(* peek *)
LEMMA TablePeekIs ==
  ASSUME NEW t, TableOK(t)
  PROVE  /\ \A b \in DOMAIN t : \A e \in DOMAIN t[b] : TablePeek(t, At(b, e)) = t[b][e]
         /\ \A r, i : TableEnd(t, r, i) => TablePeek(t, i) = None
<1>1. ASSUME NEW b \in DOMAIN t, NEW e \in DOMAIN t[b]
      PROVE  TablePeek(t, At(b, e)) = t[b][e]
  <2>1. [pos |-> e + 1, last |-> e] # NoBlock
    BY TableFacts DEF NoBlock
  <2> QED
    BY <2>1 DEF TablePeek, BlockPeek, At
<1>2. ASSUME NEW r, NEW i, TableEnd(t, r, i)
      PROVE  TablePeek(t, i) = None
  <2>1. CASE i = [bpos |-> Len(t) + 1, bi |-> NoBlock]
    BY <2>1 DEF TablePeek
  <2>2. CASE i = At(Len(t), Len(t[Len(t)]) + 1)
    <3>1. Len(t[Len(t)]) + 1 \notin DOMAIN t[Len(t)]
      BY TableFacts
    <3> QED
      BY <2>2, <3>1 DEF TablePeek, BlockPeek, At
  <2>3. CASE i = At(1, 0)
    <3>1. 0 \notin DOMAIN t[1]
      BY TableFacts
    <3> QED
      BY <2>3, <3>1 DEF TablePeek, BlockPeek, At
  <2> QED
    BY <1>2, <2>1, <2>2, <2>3 DEF TableEnd
<1> QED
  BY <1>1, <1>2

(* Entries and their neighbours in a block *)
LEMMA BlockSteps ==
  ASSUME NEW s, Len(s) \in Nat, DOMAIN s = 1 .. Len(s)
  PROVE  /\ \A e \in Nat : e <= Len(s) + 1 =>
              BlockNext(s, [pos |-> e + 1, last |-> e]) = [pos |-> e + 2, last |-> e + 1]
         /\ \A e \in Nat : e >= 1 /\ e <= Len(s) + 1 =>
              BlockPrev(s, [pos |-> e + 1, last |-> e]) = [pos |-> e, last |-> e - 1]
         /\ BlockPrev(s, [pos |-> 1, last |-> 0]) = [pos |-> 1, last |-> 0]
         /\ BlockNext(s, NewBlock) = [pos |-> 2, last |-> 1]
         /\ BlockSeekToFirst(s) = [pos |-> 2, last |-> 1]
         /\ BlockSeekToLast(s) = [pos |-> Len(s) + 1, last |-> Len(s)]
<1>1. \A e \in Nat : e <= Len(s) + 1 =>
        BlockNext(s, [pos |-> e + 1, last |-> e]) = [pos |-> e + 2, last |-> e + 1]
  BY DEF BlockNext
<1>2. \A d \in Nat : d >= 1 /\ d <= Len(s) + 1 =>
        BlockPrev(s, [pos |-> d + 1, last |-> d]) = [pos |-> d, last |-> d - 1]
  BY DEF BlockPrev, HeaderPrev
<1>3. BlockPrev(s, [pos |-> 1, last |-> 0]) = [pos |-> 1, last |-> 0]
  BY DEF BlockPrev
<1>4. BlockNext(s, NewBlock) = [pos |-> 2, last |-> 1]
  BY DEF BlockNext, NewBlock
<1>5. BlockSeekToLast(s) = [pos |-> Len(s) + 1, last |-> Len(s)]
  <2>1. PICK d \in Nat : d = Len(s) + 1
    OBVIOUS
  <2>2. BlockSeekToLast(s) = BlockPrev(s, [pos |-> d + 1, last |-> d])
    BY <2>1 DEF BlockSeekToLast
  <2> QED
    BY <2>1, <2>2, <1>2
<1> QED
  BY <1>1, <1>2, <1>3, <1>4, <1>5 DEF BlockSeekToFirst

(* _next *)
LEMMA TableForwardIs ==
  ASSUME NEW t, TableOK(t)
  PROVE  /\ \A b \in DOMAIN t : \A e \in DOMAIN t[b] :
              TableForward(t, At(b, e)) =
                IF e < Len(t[b]) THEN At(b, e + 1)
                ELSE IF b < Len(t) THEN At(b + 1, 1) ELSE [bpos |-> Len(t) + 1, bi |-> NoBlock]
         /\ TableForward(t, TableReset(t, FALSE)) = At(1, 1)
         /\ \A i : TableEnd(t, FALSE, i) => TableEnd(t, FALSE, TableForward(t, i))
<1>1. ASSUME NEW b \in DOMAIN t, NEW e \in Nat, e <= Len(t[b]),
             NEW i, i.bpos = b, Bi(i) = [pos |-> e + 1, last |-> e], i = [bpos |-> i.bpos, bi |-> i.bi]
      PROVE  TableForward(t, i) =
               IF e < Len(t[b]) THEN At(b, e + 1)
               ELSE IF b < Len(t) THEN At(b + 1, 1) ELSE [bpos |-> Len(t) + 1, bi |-> NoBlock]
  <2>1. /\ b \in Nat /\ b <= Len(t) /\ Len(t) \in Nat /\ Len(t[b]) \in Nat
        /\ DOMAIN t[b] = 1 .. Len(t[b])
    BY TableFacts
  <2>2. PICK n : n = BlockNext(t[b], Bi(i))
    OBVIOUS
  <2>3. n = [pos |-> e + 2, last |-> e + 1]
    <3>1. e <= Len(t[b]) + 1
      BY <1>1, <2>1
    <3>2. BlockNext(t[b], [pos |-> e + 1, last |-> e]) = [pos |-> e + 2, last |-> e + 1]
      BY <3>1, <2>1, BlockSteps
    <3> QED
      BY <3>2, <2>2, <1>1
  <2>4. CASE e < Len(t[b])
    <3>1. BlockPeek(t[b], n) = t[b][e + 1] /\ t[b][e + 1] # None
      BY <2>1, <2>3, <2>4, TableFacts DEF BlockPeek
    <3>2. TableForward(t, i) = [i EXCEPT !.bi = n]
      BY <3>1, <2>1, <2>2, <1>1 DEF TableForward
    <3> QED
      BY <3>2, <2>3, <2>4, <1>1 DEF At
  <2>5. CASE ~ (e < Len(t[b]))
    <3>1. BlockPeek(t[b], n) = None
      BY <2>1, <2>3, <2>5 DEF BlockPeek
    <3>2. CASE b < Len(t)
      <4>1. TableForward(t, i) = [bpos |-> b + 1, bi |-> BlockNext(t[b + 1], NewBlock)]
        BY <3>1, <3>2, <2>1, <2>2, <1>1 DEF TableForward
      <4>2. b + 1 \in DOMAIN t
        BY <3>2, <2>1, TableFacts
      <4>3. BlockNext(t[b + 1], NewBlock) = [pos |-> 2, last |-> 1]
        BY <4>2, TableFacts, BlockSteps
      <4> QED
        BY <4>1, <4>3, <3>2, <2>5 DEF At
    <3>3. CASE b = Len(t)
      BY <3>1, <3>3, <2>1, <2>2, <2>5, <1>1 DEF TableForward
    <3> QED
      BY <3>2, <3>3, <2>1
  <2> QED
    BY <2>4, <2>5
<1>2. ASSUME NEW b \in DOMAIN t, NEW e \in DOMAIN t[b]
      PROVE  TableForward(t, At(b, e)) =
                IF e < Len(t[b]) THEN At(b, e + 1)
                ELSE IF b < Len(t) THEN At(b + 1, 1) ELSE [bpos |-> Len(t) + 1, bi |-> NoBlock]
  <2>1. e \in Nat /\ e <= Len(t[b]) /\ e # 0
    BY TableFacts
  <2>2. /\ At(b, e).bpos = b /\ Bi(At(b, e)) = [pos |-> e + 1, last |-> e]
        /\ At(b, e) = [bpos |-> At(b, e).bpos, bi |-> At(b, e).bi]
    BY <2>1 DEF At, Bi, NoBlock
  <2> QED
    BY <1>1, <2>1, <2>2
<1>3. TableForward(t, TableReset(t, FALSE)) = At(1, 1)
  <2>1. PICK i : i = [bpos |-> 1, bi |-> NoBlock]
    OBVIOUS
  <2>2. /\ i.bpos = 1 /\ Bi(i) = [pos |-> 0 + 1, last |-> 0] /\ i = [bpos |-> i.bpos, bi |-> i.bi]
    BY <2>1 DEF Bi, NewBlock
  <2>3. 1 \in DOMAIN t /\ 0 < Len(t[1]) /\ 0 <= Len(t[1])
    BY TableFacts
  <2>4. TableForward(t, i) = At(1, 0 + 1)
    BY <1>1, <2>2, <2>3
  <2>5. TableReset(t, FALSE) = i
    BY <2>1 DEF TableReset
  <2> QED
    <3>1. 0 + 1 = 1
      OBVIOUS
    <3> QED
      BY <2>4, <2>5, <3>1, Zenon
<1>4. ASSUME NEW i, TableEnd(t, FALSE, i)
      PROVE  TableEnd(t, FALSE, TableForward(t, i))
  <2>a. PICK w \in Nat : w = Len(t) /\ w \in DOMAIN t
    BY TableFacts
  <2>b. PICK q \in Nat : q = Len(t[w]) /\ DOMAIN t[w] = 1 .. q
    BY <2>a, TableFacts
  <2>1. CASE i = [bpos |-> w + 1, bi |-> NoBlock]
    <3>1. TableForward(t, i) = i
      BY <2>1, <2>a DEF TableForward
    <3> QED
      BY <3>1, <1>4
  <2>2. CASE i = At(w, q + 1)
    <3>1. i.bpos = w /\ Bi(i) = [pos |-> (q + 1) + 1, last |-> q + 1]
      BY <2>2 DEF At, Bi, NoBlock
    <3>2. BlockNext(t[w], Bi(i)) = [pos |-> (q + 1) + 2, last |-> (q + 1) + 1]
      <4>1. PICK d \in Nat : d = q + 1
        BY <2>b
      <4>2. d <= Len(t[w]) + 1
        BY <4>1, <2>b
      <4>3. BlockNext(t[w], [pos |-> d + 1, last |-> d]) = [pos |-> d + 2, last |-> d + 1]
        BY <4>2, <2>b, BlockSteps
      <4> QED
        BY <3>1, <4>1, <4>3
    <3>3. BlockPeek(t[w], BlockNext(t[w], Bi(i))) = None
      BY <3>2, <2>b DEF BlockPeek
    <3>4. TableForward(t, i) = [bpos |-> w + 1, bi |-> NoBlock]
      BY <3>1, <3>3, <2>a DEF TableForward
    <3> QED
      BY <3>4, <2>a DEF TableEnd
  <2> QED
    BY <1>4, <2>1, <2>2, <2>a, <2>b DEF TableEnd
<1> QED
  BY <1>2, <1>3, <1>4

(* prev *)
LEMMA TableBackIs ==
  ASSUME NEW t, TableOK(t)
  PROVE  /\ \A b \in DOMAIN t : \A e \in Nat : 1 <= e /\ e <= Len(t[b]) + 1 =>
              TableBack(t, At(b, e)) =
                IF b = 1 \/ e > 1 THEN At(b, e - 1) ELSE At(b - 1, Len(t[b - 1]))
         /\ TableBack(t, TableReset(t, TRUE)) = At(Len(t), Len(t[Len(t)]))
         /\ \A i : TableEnd(t, TRUE, i) => TableEnd(t, TRUE, TableBack(t, i))
<1>1. ASSUME NEW b \in DOMAIN t, NEW e \in Nat, 1 <= e, e <= Len(t[b]) + 1
      PROVE  TableBack(t, At(b, e)) =
                IF b = 1 \/ e > 1 THEN At(b, e - 1) ELSE At(b - 1, Len(t[b - 1]))
  <2>1. /\ b \in Nat /\ b >= 1 /\ b <= Len(t) /\ Len(t) \in Nat /\ Len(t[b]) \in Nat
        /\ DOMAIN t[b] = 1 .. Len(t[b])
    BY TableFacts
  <2>2. PICK i, p : i = At(b, e) /\ p = BlockPrev(t[i.bpos], i.bi)
    OBVIOUS
  <2>3. i.bpos = b /\ i.bi # NoBlock /\ i.bi = [pos |-> e + 1, last |-> e]
    BY <2>2, <1>1 DEF At, NoBlock
  <2>4. p = [pos |-> e, last |-> e - 1]
    BY <2>1, <2>2, <2>3, <1>1, BlockSteps
  <2>5. CASE b = 1 \/ e > 1
    <3>1. e > 1 => BlockPeek(t[b], p) # None
      <4>1. ASSUME e > 1 PROVE e - 1 \in DOMAIN t[b]
        BY <4>1, <2>1, <1>1
      <4> QED
        BY <4>1, <2>4, TableFacts DEF BlockPeek
    <3>2. TableBack(t, i) = [i EXCEPT !.bi = p]
      BY <3>1, <2>2, <2>3, <2>5 DEF TableBack
    <3> QED
      BY <3>2, <2>2, <2>4, <2>5 DEF At
  <2>6. CASE ~ (b = 1 \/ e > 1)
    <3>1. BlockPeek(t[b], p) = None
      BY <2>1, <2>4, <2>6 DEF BlockPeek
    <3>2. TableBack(t, i) = [bpos |-> b - 1, bi |-> BlockSeekToLast(t[b - 1])]
      BY <3>1, <2>2, <2>3, <2>6 DEF TableBack
    <3>3. b - 1 \in DOMAIN t
      BY <2>1, <2>6, TableFacts
    <3>4. BlockSeekToLast(t[b - 1]) = [pos |-> Len(t[b - 1]) + 1, last |-> Len(t[b - 1])]
      BY <3>3, TableFacts, BlockSteps
    <3> QED
      BY <3>2, <3>4, <2>2, <2>6 DEF At
  <2> QED
    BY <2>5, <2>6
<1>2. TableBack(t, TableReset(t, TRUE)) = At(Len(t), Len(t[Len(t)]))
  <2>1. PICK i : i = [bpos |-> Len(t), bi |-> NoBlock]
    OBVIOUS
  <2>2. TableReset(t, TRUE) = i
    BY <2>1 DEF TableReset
  <2>3. TableBack(t, i) = [i EXCEPT !.bi = BlockSeekToLast(t[Len(t)])]
    BY <2>1 DEF TableBack
  <2>a. Len(t) \in DOMAIN t /\ Len(t[Len(t)]) \in Nat /\ DOMAIN t[Len(t)] = 1 .. Len(t[Len(t)])
    BY TableFacts
  <2>4. BlockSeekToLast(t[Len(t)]) = [pos |-> Len(t[Len(t)]) + 1, last |-> Len(t[Len(t)])]
    BY <2>a, BlockSteps
  <2>5. PICK x : x = BlockSeekToLast(t[Len(t)])
    OBVIOUS
  <2>6. TableBack(t, i) = [bpos |-> Len(t), bi |-> x]
    BY <2>1, <2>3, <2>5
  <2> QED
    BY <2>2, <2>4, <2>5, <2>6, Zenon DEF At
<1>3. ASSUME NEW i, TableEnd(t, TRUE, i)
      PROVE  TableEnd(t, TRUE, TableBack(t, i))
  <2>1. i = [bpos |-> 1, bi |-> [pos |-> 1, last |-> 0]]
    BY <1>3 DEF TableEnd, At
  <2>a. Len(t[1]) \in Nat /\ DOMAIN t[1] = 1 .. Len(t[1])
    BY TableFacts
  <2>b. BlockPrev(t[1], [pos |-> 1, last |-> 0]) = [pos |-> 1, last |-> 0]
    BY <2>a, BlockSteps
  <2>2. i.bpos = 1 /\ i.bi # NoBlock /\ BlockPrev(t[1], i.bi) = i.bi
    BY <2>1, <2>b DEF NoBlock
  <2>3. TableBack(t, i) = i
    BY <2>1, <2>2 DEF TableBack
  <2> QED
    BY <2>3, <1>3
<1> QED
  BY <1>1, <1>2, <1>3

(* At the record with the first of the keys K of t, in the direction r, or past the end *)
TablePlaced(t, r, i, K) ==
  \/ K = {} /\ TableEnd(t, r, i)
  \/ \E b \in DOMAIN t : \E e \in DOMAIN t[b] : i = At(b, e) /\ K # {} /\ IsFirst(r, K, t[b][e])

(* next, from a record *)
LEMMA TableNextIs ==
  ASSUME NEW t, TableOK(t), NEW r \in BOOLEAN, NEW b \in DOMAIN t, NEW e \in DOMAIN t[b]
  PROVE  TablePlaced(t, r, TableNext(t, r, At(b, e)), Beyond(r, TableKeys(t), t[b][e]))
<1> DEFINE K == Beyond(r, TableKeys(t), t[b][e])
<1>1. /\ b \in Nat /\ b >= 1 /\ b <= Len(t) /\ Len(t) \in Nat /\ DOMAIN t = 1 .. Len(t)
      /\ e \in Nat /\ e >= 1 /\ e <= Len(t[b]) /\ Len(t[b]) \in Nat /\ DOMAIN t[b] = 1 .. Len(t[b])
      /\ t[b][e] \in Nat
  BY TableFacts
<1>2. ASSUME NEW c \in DOMAIN t, NEW d \in DOMAIN t[c],
             After(r, t[c][d], t[b][e]),
             \A x \in DOMAIN t : \A y \in DOMAIN t[x] :
               After(r, t[x][y], t[b][e]) => ~ After(r, t[c][d], t[x][y])
      PROVE  K # {} /\ IsFirst(r, K, t[c][d])
  <2>1. t[c][d] \in K
    BY <1>2, TableFacts DEF Beyond
  <2>2. ASSUME NEW k \in K PROVE ~ After(r, t[c][d], k)
    <3>1. k \in TableKeys(t) /\ After(r, k, t[b][e])
      BY DEF Beyond
    <3>2. PICK x \in DOMAIN t : \E y \in DOMAIN t[x] : k = t[x][y]
      BY <3>1, TableFacts
    <3> QED
      BY <3>1, <3>2, <1>2
  <2> QED
    BY <2>1, <2>2 DEF IsFirst
<1>3. ASSUME \A x \in DOMAIN t : \A y \in DOMAIN t[x] : ~ After(r, t[x][y], t[b][e])
      PROVE  K = {}
  BY <1>3, TableFacts DEF Beyond
<1>4. \A x \in DOMAIN t : \A y \in DOMAIN t[x] : x \in Nat /\ y \in Nat /\ x >= 1 /\ y >= 1
        /\ x <= Len(t) /\ y <= Len(t[x])
  BY TableFacts
<1> HIDE DEF K
<1>5. CASE ~ r
  <2>1. TableNext(t, r, At(b, e)) = TableForward(t, At(b, e))
    BY <1>5 DEF TableNext
  <2>2. \A x, z \in DOMAIN t : \A y \in DOMAIN t[x], w \in DOMAIN t[z] :
          After(r, t[x][y], t[z][w]) <=> z < x \/ (z = x /\ w < y)
    BY <1>5, EntryOrder DEF After
  <2>b. TableForward(t, At(b, e)) =
          IF e < Len(t[b]) THEN At(b, e + 1)
          ELSE IF b < Len(t) THEN At(b + 1, 1) ELSE [bpos |-> Len(t) + 1, bi |-> NoBlock]
    BY TableForwardIs
  <2>3. CASE e < Len(t[b])
    <3>1. e + 1 \in DOMAIN t[b] /\ TableForward(t, At(b, e)) = At(b, e + 1)
      BY <2>3, <2>b, <1>1
    <3>2. K # {} /\ IsFirst(r, K, t[b][e + 1])
      BY <3>1, <2>2, <1>1, <1>2, <1>4
    <3> QED
      BY <3>1, <3>2, <2>1 DEF TablePlaced, K
  <2>4. CASE e = Len(t[b]) /\ b < Len(t)
    <3>1. TableForward(t, At(b, e)) = At(b + 1, 1)
      BY <2>4, <2>b, <1>1
    <3>2. b + 1 \in DOMAIN t /\ 1 \in DOMAIN t[b + 1]
      BY <2>4, <1>1, TableFacts
    <3>3. K # {} /\ IsFirst(r, K, t[b + 1][1])
      <4>1. PICK c \in DOMAIN t : c = b + 1 /\ 1 \in DOMAIN t[c]
        BY <3>2
      <4>2. After(r, t[c][1], t[b][e])
        BY <4>1, <2>2, <1>1
      <4>3. ASSUME NEW x \in DOMAIN t, NEW y \in DOMAIN t[x], After(r, t[x][y], t[b][e])
            PROVE  ~ After(r, t[c][1], t[x][y])
        <5>1. b < x \/ (b = x /\ e < y)
          BY <4>3, <2>2
        <5>2. x \in Nat /\ y \in Nat /\ y >= 1 /\ y <= Len(t[x])
          BY <1>4
        <5>3. b < x
          BY <5>1, <5>2, <2>4, <1>1
        <5>4. ~ (x < c \/ (x = c /\ y < 1))
          BY <5>2, <5>3, <4>1, <1>1
        <5> QED
          BY <5>4, <4>1, <2>2
      <4>4. K # {} /\ IsFirst(r, K, t[c][1])
        BY <4>1, <4>2, <4>3, <1>2
      <4> QED
        BY <4>1, <4>4
    <3> QED
      BY <3>1, <3>2, <3>3, <2>1 DEF TablePlaced, K
  <2>5. CASE e = Len(t[b]) /\ b = Len(t)
    <3>1. TableForward(t, At(b, e)) = [bpos |-> Len(t) + 1, bi |-> NoBlock]
      BY <2>5, <2>b, <1>1
    <3>2. K = {}
      BY <2>2, <2>5, <1>1, <1>3, <1>4
    <3> QED
      BY <3>1, <3>2, <2>1, <1>5 DEF TablePlaced, TableEnd, K
  <2>6. \/ e < Len(t[b]) \/ (e = Len(t[b]) /\ b < Len(t)) \/ (e = Len(t[b]) /\ b = Len(t))
    <3>1. e \in Nat /\ e <= Len(t[b]) /\ Len(t[b]) \in Nat /\ b \in Nat /\ b <= Len(t) /\ Len(t) \in Nat
      BY <1>1, <1>4
    <3> QED
      BY <3>1
  <2> QED
    BY <2>3, <2>4, <2>5, <2>6, Zenon
<1>6. CASE r
  <2>1. TableNext(t, r, At(b, e)) = TableBack(t, At(b, e))
    BY <1>6 DEF TableNext
  <2>2. \A x, z \in DOMAIN t : \A y \in DOMAIN t[x], w \in DOMAIN t[z] :
          After(r, t[x][y], t[z][w]) <=> x < z \/ (z = x /\ y < w)
    BY <1>6, EntryOrder DEF After
  <2>a. 1 <= e /\ e <= Len(t[b]) + 1
    BY <1>1
  <2>b. TableBack(t, At(b, e)) =
          IF b = 1 \/ e > 1 THEN At(b, e - 1) ELSE At(b - 1, Len(t[b - 1]))
    BY <2>a, <1>1, TableBackIs
  <2>3. CASE e > 1
    <3>1. e - 1 \in DOMAIN t[b] /\ TableBack(t, At(b, e)) = At(b, e - 1)
      BY <2>3, <2>b, <1>1
    <3>2. K # {} /\ IsFirst(r, K, t[b][e - 1])
      <4>1. PICK d \in DOMAIN t[b] : d = e - 1
        BY <3>1
      <4>2. After(r, t[b][d], t[b][e])
        BY <4>1, <2>2, <1>1
      <4>3. ASSUME NEW x \in DOMAIN t, NEW y \in DOMAIN t[x], After(r, t[x][y], t[b][e])
            PROVE  ~ After(r, t[b][d], t[x][y])
        BY <4>1, <4>3, <2>2, <1>1, <1>4
      <4>4. K # {} /\ IsFirst(r, K, t[b][d])
        BY <4>2, <4>3, <1>2
      <4> QED
        BY <4>1, <4>4
    <3> QED
      BY <3>1, <3>2, <2>1 DEF TablePlaced, K
  <2>4. CASE e = 1 /\ b # 1
    <3>1. TableBack(t, At(b, e)) = At(b - 1, Len(t[b - 1]))
      BY <2>4, <2>b, <1>1
    <3>2. b - 1 \in DOMAIN t /\ Len(t[b - 1]) \in DOMAIN t[b - 1]
      BY <2>4, <1>1, TableFacts
    <3>3. K # {} /\ IsFirst(r, K, t[b - 1][Len(t[b - 1])])
      BY <3>2, <2>2, <2>4, <1>1, <1>2, <1>4, SMTT(20)
    <3> QED
      BY <3>1, <3>2, <3>3, <2>1 DEF TablePlaced, K
  <2>5. CASE e = 1 /\ b = 1
    <3>1. TableBack(t, At(b, e)) = At(b, e - 1) /\ e - 1 = 0
      BY <2>5, <2>b, <1>1
    <3>2. K = {}
      BY <2>2, <2>5, <1>1, <1>3, <1>4
    <3>3. TableEnd(t, r, At(b, e - 1))
      BY <3>1, <2>5, <1>6 DEF TableEnd
    <3> QED
      BY <3>1, <3>2, <3>3, <2>1 DEF TablePlaced, K
  <2> QED
    BY <2>3, <2>4, <2>5, <1>1
<1> QED
  BY <1>5, <1>6

(* The first or the last record *)
LEMMA TableStart ==
  ASSUME NEW t, TableOK(t), NEW r \in BOOLEAN
  PROVE  /\ TablePlaced(t, r, TableRewind(t, r), TableKeys(t))
         /\ TableNext(t, r, TableReset(t, r)) = TableRewind(t, r)
         /\ TableAt(t, TableRewind(t, r))
         /\ TableKeys(t) # {}
<1>1. PICK w \in DOMAIN t, x \in DOMAIN t : w = 1 /\ x = Len(t)
  BY TableFacts
<1>2. PICK d \in DOMAIN t[w] : d = 1
  BY TableFacts
<1>3. PICK e \in DOMAIN t[x] : e = Len(t[x])
  BY TableFacts
<1>4. t[w][d] \in TableKeys(t) /\ t[x][e] \in TableKeys(t) /\ t[w][d] \in Nat /\ t[x][e] \in Nat
  BY TableFacts
<1>5. ASSUME NEW k \in TableKeys(t)
      PROVE  k \in Nat /\ t[w][d] <= k /\ k <= t[x][e]
  <2>1. PICK b \in DOMAIN t : \E c \in DOMAIN t[b] : k = t[b][c]
    BY TableFacts
  <2>2. PICK c \in DOMAIN t[b] : k = t[b][c]
    BY <2>1
  <2>3. k \in Nat /\ b \in Nat /\ c \in Nat /\ b >= 1 /\ c >= 1 /\ b <= Len(t) /\ c <= Len(t[b])
        /\ Len(t) \in Nat /\ Len(t[b]) \in Nat
    <3>1. Len(t) \in Nat /\ DOMAIN t = 1 .. Len(t) /\ Len(t[b]) \in Nat /\ DOMAIN t[b] = 1 .. Len(t[b])
      BY <2>1, TableFacts
    <3>2. k \in Nat
      BY <2>2, TableFacts
    <3> QED
      BY <2>1, <2>2, <3>1, <3>2
  <2>4. ~ (b < w \/ (b = w /\ c < d)) /\ ~ (x < b \/ (b = x /\ e < c))
    BY <2>3, <1>1, <1>2, <1>3
  <2>5. ~ (k < t[w][d]) /\ ~ (t[x][e] < k)
    BY <2>2, <2>4, EntryOrder
  <2> QED
    BY <2>3, <2>5, <1>4
<1>6. CASE ~ r
  <2>1. TableRewind(t, r) = At(w, d)
    <3>1. BlockSeekToFirst(t[1]) = [pos |-> 2, last |-> 1]
      <4>1. Len(t[1]) \in Nat /\ DOMAIN t[1] = 1 .. Len(t[1])
        BY TableFacts
      <4> QED
        BY <4>1, BlockSteps
    <3> QED
      BY <3>1, <1>1, <1>2, <1>6 DEF TableRewind, At
  <2>2. TableNext(t, r, TableReset(t, r)) = At(w, d)
    BY <1>1, <1>2, <1>6, TableForwardIs DEF TableNext
  <2>3. IsFirst(r, TableKeys(t), t[w][d])
    BY <1>4, <1>5, <1>6 DEF IsFirst, After
  <2> QED
    BY <2>1, <2>2, <2>3, <1>4 DEF TablePlaced, TableAt
<1>7. CASE r
  <2>1. TableRewind(t, r) = At(x, e)
    <3>1. BlockSeekToLast(t[x]) = [pos |-> Len(t[x]) + 1, last |-> Len(t[x])]
      BY <1>1, TableFacts, BlockSteps
    <3>2. TableRewind(t, r) = [bpos |-> Len(t), bi |-> BlockSeekToLast(t[Len(t)])]
      BY <1>7 DEF TableRewind
    <3> QED
      BY <3>1, <3>2, <1>1, <1>3, Zenon DEF At
  <2>2. TableNext(t, r, TableReset(t, r)) = At(x, e)
    <3>1. TableReset(t, r) = TableReset(t, TRUE)
      BY <1>7 DEF TableReset
    <3>2. TableNext(t, r, TableReset(t, r)) = TableBack(t, TableReset(t, TRUE))
      BY <3>1, <1>7 DEF TableNext
    <3> QED
      BY <3>2, <1>1, <1>3, TableBackIs
  <2>3. IsFirst(r, TableKeys(t), t[x][e])
    BY <1>4, <1>5, <1>7 DEF IsFirst, After
  <2> QED
    BY <2>1, <2>2, <2>3, <1>4 DEF TablePlaced, TableAt
<1> QED
  BY <1>6, <1>7

(* BlockIterator::seek: the first entry that is not less *)
LEMMA BlockSeekIs ==
  ASSUME NEW t, TableOK(t), NEW b \in DOMAIN t, NEW k \in Nat
  PROVE  \E e \in 1 .. Len(t[b]) + 1 :
           /\ BlockSeek(t[b], k) = [pos |-> e + 1, last |-> e]
           /\ \A d \in DOMAIN t[b] : d < e <=> t[b][d] < k
<1>1. PICK n \in Nat : n = Len(t[b]) /\ DOMAIN t[b] = 1 .. n
  BY TableFacts
<1>2. PICK s : s = t[b]
  OBVIOUS
<1>3. \A d \in 1 .. n : s[d] \in Nat
  BY <1>1, <1>2, TableFacts
<1>4. \A d, f \in 1 .. n : d < f => s[d] < s[f]
  BY <1>1, <1>2 DEF TableOK
<1> DEFINE E == {d \in 1 .. n : s[d] >= k} \cup {n + 1}
<1>5. E \in SUBSET Int /\ IsFiniteSet(E) /\ E # {}
  <2>1. E \in SUBSET (1 .. n + 1) /\ IsFiniteSet(1 .. n + 1)
    BY FS_Interval
  <2> QED
    BY <2>1, FS_Subset
<1>6. PICK e \in E : e = Min(E) /\ \A d \in E : e <= d
  BY <1>5, MinMax
<1>7. e \in 1 .. n + 1
  OBVIOUS
<1>8. \A d \in 1 .. n : d < e <=> s[d] < k
  <2>1. ASSUME NEW d \in 1 .. n, d < e
        PROVE  s[d] < k
    <3>1. d \notin E
      BY <2>1, <1>6, <1>7
    <3> QED
      BY <3>1, <1>3
  <2>2. ASSUME NEW d \in 1 .. n, ~ (d < e)
        PROVE  ~ (s[d] < k)
    <3>1. e \in 1 .. n /\ s[e] >= k
      BY <2>2, <1>7
    <3>2. d = e \/ e < d
      BY <2>2, <1>7
    <3>3. d = e \/ s[e] < s[d]
      BY <3>1, <3>2, <1>4
    <3> QED
      BY <3>1, <3>3, <1>3
  <2> QED
    BY <2>1, <2>2
<1>9. BlockSeek(t[b], k) = [pos |-> e + 1, last |-> e]
  BY <1>1, <1>2, <1>6 DEF BlockSeek
<1> QED
  BY <1>1, <1>2, <1>7, <1>8, <1>9

(* seek_from: the first key from k on, or the dummy of the last block *)
SoughtAt(t, k, c, e) ==
  /\ c \in DOMAIN t /\ e \in 1 .. Len(t[c]) + 1
  /\ TableSeekFrom(t, k) = At(c, e)
  /\ e = Len(t[c]) + 1 => c = Len(t)
  /\ \A x \in DOMAIN t : \A y \in DOMAIN t[x] : t[x][y] < k <=> x < c \/ (x = c /\ y < e)

(* There is such an entry. *)
LEMMA TableSeekFromIs ==
  ASSUME NEW t, TableOK(t), NEW k \in Nat
  PROVE  \E c, e : SoughtAt(t, k, c, e)
<1>1. PICK n \in Nat : n = Len(t) /\ n >= 1 /\ DOMAIN t = 1 .. n
  BY TableFacts
<1> DEFINE S == {x \in DOMAIN t : IndexKey(t, x) <= k} \cup {1}
<1>2. S \in SUBSET Int /\ IsFiniteSet(S) /\ S # {}
  <2>1. S \in SUBSET (1 .. n)
    BY <1>1
  <2>2. IsFiniteSet(1 .. n)
    BY FS_Interval
  <2> QED
    BY <2>1, <2>2, FS_Subset
<1>3. PICK c \in S : c = Max(S) /\ \A x \in S : x <= c
  BY <1>2, MinMax
<1>4. c \in DOMAIN t /\ c \in 1 .. n
  BY <1>1
<1>a. \A x \in DOMAIN t : /\ 1 \in DOMAIN t[x] /\ t[x][1] \in Nat
                          /\ \A y \in DOMAIN t[x] : t[x][y] \in Nat /\ y \in Nat /\ y >= 1
  BY TableFacts
<1>5. \A x \in DOMAIN t : n # 1 => IndexKey(t, x) = t[x][1]
  BY <1>1 DEF IndexKey
<1>6. \A x \in DOMAIN t : \A y \in DOMAIN t[x] : c < x => t[x][y] > k
  <2>1. SUFFICES ASSUME NEW x \in DOMAIN t, NEW y \in DOMAIN t[x], c < x
                 PROVE  t[x][y] > k
    OBVIOUS
  <2>a. x \in Int /\ n # 1
    BY <2>1, <1>1, <1>4
  <2>b. x \notin S
    <3> HIDE DEF S
    <3> QED
      BY <2>1, <2>a, <1>3, <1>4
  <2>2. n # 1 /\ ~ (IndexKey(t, x) <= k)
    BY <2>a, <2>b
  <2>3. t[x][1] > k
    BY <2>2, <1>5, <1>a
  <2>4. ~ (t[x][y] < t[x][1])
    BY <1>a, EntryOrder
  <2> QED
    BY <2>3, <2>4, <1>a
<1>7. \A x \in DOMAIN t : \A y \in DOMAIN t[x] : x < c => t[x][y] < k
  <2>1. SUFFICES ASSUME NEW x \in DOMAIN t, NEW y \in DOMAIN t[x], x < c
                 PROVE  t[x][y] < k
    OBVIOUS
  <2>2. c # 1 /\ n # 1
    BY <2>1, <1>1, <1>4
  <2>3. t[c][1] <= k
    BY <2>2, <1>4, <1>5
  <2>4. t[x][y] < t[c][1]
    BY <2>1, <1>4, <1>a, EntryOrder
  <2> QED
    BY <2>3, <2>4, <1>4, <1>a
<1>8. PICK e \in 1 .. Len(t[c]) + 1 :
        /\ BlockSeek(t[c], k) = [pos |-> e + 1, last |-> e]
        /\ \A d \in DOMAIN t[c] : d < e <=> t[c][d] < k
  BY <1>4, BlockSeekIs
<1>9. PICK q \in Nat : q = Len(t[c]) /\ q >= 1 /\ DOMAIN t[c] = 1 .. q
  BY <1>4, TableFacts
<1>10. PICK found : found = At(c, e) /\ found = [bpos |-> c, bi |-> BlockSeek(t[c], k)]
  BY <1>8 DEF At
<1>11. TableSeekFrom(t, k) =
         IF TablePeek(t, found) # None \/ c = Len(t) \/ IndexKey(t, c) >= k
         THEN found ELSE [bpos |-> c + 1, bi |-> BlockSeek(t[c + 1], k)]
  BY <1>3, <1>10 DEF TableSeekFrom
<1>12. \A x \in DOMAIN t : \A y \in DOMAIN t[x] : t[x][y] < k <=> x < c \/ (x = c /\ y < e)
  <2>1. SUFFICES ASSUME NEW x \in DOMAIN t, NEW y \in DOMAIN t[x]
                 PROVE  t[x][y] < k <=> x < c \/ (x = c /\ y < e)
    OBVIOUS
  <2>2. x < c \/ x = c \/ c < x
    BY <1>1, <1>4
  <2>3. CASE c < x
    <3>1. ~ (x < c) /\ x # c
      BY <2>3, <1>1, <1>4
    <3> QED
      BY <3>1, <2>3, <1>6, <1>a
  <2>4. CASE x = c
    BY <2>4, <1>8, <1>4
  <2>5. CASE x < c
    BY <2>5, <1>7
  <2> QED
    BY <2>2, <2>3, <2>4, <2>5
<1>13. CASE e <= q
  <2>1. TablePeek(t, found) = t[c][e] /\ t[c][e] # None
    <3>1. e \in DOMAIN t[c]
      BY <1>9, <1>13
    <3>2. TablePeek(t, At(c, e)) = t[c][e]
      BY <3>1, <1>4, TablePeekIs
    <3>3. t[c][e] # None
      BY <3>1, <1>4, TableFacts
    <3> QED
      BY <3>2, <3>3, <1>10
  <2>2. TableSeekFrom(t, k) = At(c, e)
    BY <2>1, <1>10, <1>11
  <2> QED
    BY <2>2, <1>4, <1>9, <1>12, <1>13 DEF SoughtAt
<1>14. CASE e = q + 1 /\ c = n
  <2>1. TableSeekFrom(t, k) = At(c, e)
    BY <1>1, <1>10, <1>11, <1>14
  <2> QED
    BY <2>1, <1>1, <1>4, <1>12, <1>14 DEF SoughtAt
<1>15. CASE e = q + 1 /\ c # n
  <2>1. PICK f \in DOMAIN t : f = c + 1
    BY <1>1, <1>4, <1>15
  <2>2. TablePeek(t, found) = None
    <3>1. e \notin DOMAIN t[c]
      BY <1>9, <1>15
    <3> QED
      BY <3>1, <1>10 DEF TablePeek, BlockPeek, At
  <2>3. ~ (IndexKey(t, c) >= k)
    <3>1. n # 1
      BY <1>1, <1>4, <1>15
    <3>2. t[c][1] < k
      BY <1>8, <1>9, <1>15
    <3> QED
      BY <3>1, <3>2, <1>4, <1>5, <1>a
  <2>4. TableSeekFrom(t, k) = [bpos |-> f, bi |-> BlockSeek(t[f], k)]
    BY <2>1, <2>2, <2>3, <1>1, <1>11, <1>15
  <2>5. PICK g \in 1 .. Len(t[f]) + 1 :
          /\ BlockSeek(t[f], k) = [pos |-> g + 1, last |-> g]
          /\ \A d \in DOMAIN t[f] : d < g <=> t[f][d] < k
    BY BlockSeekIs
  <2>6. Len(t[f]) \in Nat /\ Len(t[f]) >= 1 /\ 1 \in DOMAIN t[f]
    BY TableFacts
  <2>7. g = 1
    <3>1. t[f][1] > k
      BY <2>1, <2>6, <1>4, <1>6
    <3>2. ~ (t[f][1] < k)
      BY <3>1, <1>a
    <3> QED
      BY <3>2, <2>5, <2>6
  <2>8. ASSUME NEW x \in DOMAIN t, NEW y \in DOMAIN t[x]
        PROVE  t[x][y] < k <=> x < f \/ (x = f /\ y < g)
    <3>1. x \in Nat /\ y \in Nat /\ y >= 1
      BY <1>1, <1>a
    <3>2. x = c => y < e
      BY <1>9, <1>15
    <3> QED
      BY <3>1, <3>2, <2>1, <2>7, <1>4, <1>12
  <2>9. TableSeekFrom(t, k) = At(f, g)
    BY <2>4, <2>5 DEF At
  <2> QED
    BY <2>6, <2>7, <2>8, <2>9 DEF SoughtAt
<1> QED
  BY <1>8, <1>9, <1>13, <1>14, <1>15

(* seek *)
LEMMA TableSeekIs ==
  ASSUME NEW t, TableOK(t), NEW r \in BOOLEAN, NEW k \in Nat \ {0}
  PROVE  TablePlaced(t, r, TableSeek(t, r, k), Onward(r, TableKeys(t), k))
<1> DEFINE K == Onward(r, TableKeys(t), k)
<1>b. k \in Nat
  OBVIOUS
<1>a. PICK c0, e0 : SoughtAt(t, k, c0, e0)
  BY <1>b, TableSeekFromIs, Zenon
<1>c. c0 \in DOMAIN t /\ e0 \in 1 .. Len(t[c0]) + 1
  BY <1>a DEF SoughtAt
<1>d. PICK c \in DOMAIN t : c = c0
  BY <1>c
<1>1. PICK e \in 1 .. Len(t[c]) + 1 : SoughtAt(t, k, c, e)
  BY <1>a, <1>c, <1>d
<1>2. /\ TableSeekFrom(t, k) = At(c, e)
      /\ e = Len(t[c]) + 1 => c = Len(t)
      /\ \A x \in DOMAIN t : \A y \in DOMAIN t[x] : t[x][y] < k <=> x < c \/ (x = c /\ y < e)
  BY <1>1 DEF SoughtAt
<1>3. /\ c \in Nat /\ c >= 1 /\ c <= Len(t) /\ Len(t) \in Nat /\ DOMAIN t = 1 .. Len(t)
      /\ Len(t[c]) \in Nat /\ DOMAIN t[c] = 1 .. Len(t[c]) /\ e \in Nat /\ e >= 1
      /\ e <= Len(t[c]) + 1
  BY <1>2, TableFacts
<1>4. \A x \in DOMAIN t : \A y \in DOMAIN t[x] :
        /\ x \in Nat /\ y \in Nat /\ x >= 1 /\ y >= 1 /\ x <= Len(t) /\ y <= Len(t[x])
        /\ t[x][y] \in Nat /\ t[x][y] \in TableKeys(t)
  BY TableFacts
<1>5. ASSUME NEW x \in DOMAIN t, NEW y \in DOMAIN t[x], ~ After(r, k, t[x][y]),
             \A z \in DOMAIN t : \A w \in DOMAIN t[z] :
               ~ After(r, k, t[z][w]) => ~ After(r, t[x][y], t[z][w])
      PROVE  K # {} /\ IsFirst(r, K, t[x][y])
  <2>1. t[x][y] \in K
    BY <1>4, <1>5 DEF Onward
  <2>2. ASSUME NEW j \in K PROVE ~ After(r, t[x][y], j)
    <3>1. j \in TableKeys(t) /\ ~ After(r, k, j)
      BY DEF Onward
    <3>2. PICK z \in DOMAIN t : \E w \in DOMAIN t[z] : j = t[z][w]
      BY <3>1, TableFacts
    <3> QED
      BY <3>1, <3>2, <1>5
  <2> QED
    BY <2>1, <2>2 DEF IsFirst
<1>6. ASSUME \A x \in DOMAIN t : \A y \in DOMAIN t[x] : After(r, k, t[x][y])
      PROVE  K = {}
  BY <1>6, TableFacts DEF Onward
<1> HIDE DEF K
<1>7. CASE ~ r
  <2>1. TableSeek(t, r, k) = At(c, e)
    BY <1>2, <1>7 DEF TableSeek
  <2>2. CASE e <= Len(t[c])
    <3>1. e \in DOMAIN t[c]
      BY <2>2, <1>3
    <3>2. ~ After(r, k, t[c][e])
      <4>1. ~ (t[c][e] < k)
        BY <3>1, <1>2, <1>3
      <4> QED
        BY <4>1, <3>1, <1>4, <1>7 DEF After
    <3>3. ASSUME NEW z \in DOMAIN t, NEW w \in DOMAIN t[z], ~ After(r, k, t[z][w])
          PROVE  ~ After(r, t[c][e], t[z][w])
      <4>1. ~ (t[z][w] < k)
        BY <3>3, <1>4, <1>7 DEF After
      <4>2. ~ (z < c \/ (z = c /\ w < e))
        BY <4>1, <1>2
      <4>3. ~ (t[z][w] < t[c][e])
        BY <4>2, <3>1, EntryOrder
      <4> QED
        BY <4>3, <3>1, <1>4, <1>7 DEF After
    <3>4. K # {} /\ IsFirst(r, K, t[c][e])
      BY <3>1, <3>2, <3>3, <1>5
    <3> QED
      BY <2>1, <3>1, <3>4 DEF TablePlaced, K
  <2>3. CASE e = Len(t[c]) + 1
    <3>1. K = {}
      <4>1. SUFFICES ASSUME NEW x \in DOMAIN t, NEW y \in DOMAIN t[x]
                     PROVE  After(r, k, t[x][y])
        BY <1>6
      <4>2. x < c \/ (x = c /\ y < e)
        BY <2>3, <1>2, <1>3, <1>4
      <4> QED
        BY <4>2, <1>2, <1>4, <1>7 DEF After
    <3>2. TableEnd(t, r, At(c, e))
      BY <2>3, <1>2, <1>7 DEF TableEnd
    <3> QED
      BY <2>1, <3>1, <3>2 DEF TablePlaced, K
  <2> QED
    BY <2>2, <2>3, <1>3
<1>8. CASE r
  <2>1. CASE e <= Len(t[c]) /\ t[c][e] = k
    <3>1. e \in DOMAIN t[c]
      BY <2>1, <1>3
    <3>2. TablePeek(t, At(c, e)) = k
      BY <3>1, <2>1, TablePeekIs
    <3>3. TableSeek(t, r, k) = At(c, e)
      BY <3>2, <1>2 DEF TableSeek
    <3>4. ~ After(r, k, t[c][e])
      BY <2>1, <1>8 DEF After
    <3>5. K # {} /\ IsFirst(r, K, t[c][e])
      BY <2>1, <3>1, <3>4, <1>5
    <3> QED
      BY <3>1, <3>3, <3>5 DEF TablePlaced, K
  <2>2. CASE ~ (e <= Len(t[c]) /\ t[c][e] = k)
    <3>1. TableSeek(t, r, k) = TableBack(t, At(c, e))
      <4>1. TablePeek(t, At(c, e)) # k
        <5>1. CASE e <= Len(t[c])
          <6>1. e \in DOMAIN t[c]
            BY <5>1, <1>3
          <6> QED
            BY <6>1, <5>1, <2>2, TablePeekIs
        <5>2. CASE e = Len(t[c]) + 1
          <6>1. At(c, e) = At(Len(t), Len(t[Len(t)]) + 1)
            BY <5>2, <1>2
          <6>2. TableEnd(t, FALSE, At(c, e))
            BY <6>1 DEF TableEnd
          <6>3. TablePeek(t, At(c, e)) = None
            BY <6>2, TablePeekIs
          <6> QED
            BY <6>3 DEF None
        <5> QED
          BY <5>1, <5>2, <1>3
      <4> QED
        BY <4>1, <1>2, <1>8 DEF TableSeek
    <3>2. ASSUME NEW x \in DOMAIN t, NEW y \in DOMAIN t[x]
          PROVE  ~ After(r, k, t[x][y]) <=> x < c \/ (x = c /\ y < e)
      <4>1. t[x][y] # k
        <5>1. SUFFICES ASSUME t[x][y] = k PROVE FALSE
          OBVIOUS
        <5>2. ~ (x < c \/ (x = c /\ y < e))
          BY <5>1, <1>2, <1>4
        <5>3. e <= Len(t[c])
          BY <5>2, <1>2, <1>3, <1>4
        <5>4. e \in DOMAIN t[c]
          BY <5>3, <1>3
        <5>5. ~ (t[c][e] < k)
          BY <5>4, <1>2, <1>3
        <5>6. ~ (t[x][y] < t[c][e])
          BY <5>2, <5>4, EntryOrder
        <5> QED
          BY <5>1, <5>3, <5>4, <5>5, <5>6, <1>4, <2>2
      <4>2. ~ After(r, k, t[x][y]) <=> t[x][y] < k
        BY <4>1, <1>4, <1>8 DEF After
      <4> QED
        BY <4>2, <1>2
    <3>3. ASSUME NEW x \in DOMAIN t, NEW y \in DOMAIN t[x], x < c \/ (x = c /\ y < e),
                 \A z \in DOMAIN t : \A w \in DOMAIN t[z] :
                   z < c \/ (z = c /\ w < e) => ~ (x < z \/ (x = z /\ y < w))
          PROVE  K # {} /\ IsFirst(r, K, t[x][y])
      <4>1. ~ After(r, k, t[x][y])
        BY <3>2, <3>3
      <4>2. ASSUME NEW z \in DOMAIN t, NEW w \in DOMAIN t[z], ~ After(r, k, t[z][w])
            PROVE  ~ After(r, t[x][y], t[z][w])
        <5>1. ~ (x < z \/ (x = z /\ y < w))
          BY <4>2, <3>2, <3>3
        <5>2. ~ (t[x][y] < t[z][w])
          BY <5>1, EntryOrder
        <5> QED
          BY <5>2, <1>8 DEF After
      <4> QED
        BY <4>1, <4>2, <1>5
    <3>4. TableBack(t, At(c, e)) =
            IF c = 1 \/ e > 1 THEN At(c, e - 1) ELSE At(c - 1, Len(t[c - 1]))
      <4>1. 1 <= e /\ e <= Len(t[c]) + 1
        BY <1>3
      <4> QED
        BY <4>1, <1>3, TableBackIs
    <3>5. CASE e > 1
      <4>1. PICK d \in DOMAIN t[c] : d = e - 1
        BY <3>5, <1>3
      <4>2. K # {} /\ IsFirst(r, K, t[c][d])
        <5>1. c = c /\ d < e
          BY <4>1, <1>3
        <5>2. ASSUME NEW z \in DOMAIN t, NEW w \in DOMAIN t[z], z < c \/ (z = c /\ w < e)
              PROVE  ~ (c < z \/ (c = z /\ d < w))
          BY <5>2, <4>1, <1>3, <1>4
        <5> QED
          BY <5>1, <5>2, <3>3
      <4> QED
        BY <3>1, <3>4, <3>5, <4>1, <4>2 DEF TablePlaced, K
    <3>6. CASE e = 1 /\ c # 1
      <4>1. PICK b \in DOMAIN t : b = c - 1
        BY <3>6, <1>3
      <4>2. PICK d \in DOMAIN t[b] : d = Len(t[b])
        BY TableFacts
      <4>3. K # {} /\ IsFirst(r, K, t[b][d])
        <5>1. b < c
          BY <4>1, <1>3
        <5>2. ASSUME NEW z \in DOMAIN t, NEW w \in DOMAIN t[z], z < c \/ (z = c /\ w < e)
              PROVE  ~ (b < z \/ (b = z /\ d < w))
          <6>1. z \in Nat /\ w \in Nat /\ w >= 1 /\ w <= Len(t[z])
            BY <1>4
          <6>2. z < c
            BY <6>1, <5>2, <3>6
          <6>3. ~ (b < z)
            BY <6>1, <6>2, <4>1, <1>3
          <6>4. b = z => ~ (d < w)
            BY <6>1, <4>1, <4>2, TableFacts
          <6> QED
            BY <6>3, <6>4
        <5> QED
          BY <5>1, <5>2, <3>3
      <4> QED
        BY <3>1, <3>4, <3>6, <4>1, <4>2, <4>3 DEF TablePlaced, K
    <3>7. CASE e = 1 /\ c = 1
      <4>1. K = {}
        BY <3>2, <3>7, <1>4, <1>6
      <4>2. TableEnd(t, r, TableSeek(t, r, k))
        BY <3>1, <3>4, <3>7, <1>8 DEF TableEnd
      <4> QED
        BY <4>1, <4>2 DEF TablePlaced, K
    <3> QED
      BY <3>5, <3>6, <3>7, <1>3
  <2> QED
    BY <2>1, <2>2
<1> QED
  BY <1>7, <1>8

-----------------------------------------------------------------------------
(***************************************************************************)
(* ConcatIterator                                                          *)
(***************************************************************************)

TablesOK(ts) ==
  /\ ts \in Seq(Seq(Seq(Nat \ {0})))
  /\ \A n \in DOMAIN ts : TableOK(ts[n])
  /\ \A n, p \in DOMAIN ts : n < p => \A j \in TableKeys(ts[n]), k \in TableKeys(ts[p]) : j < k

TablesKeys(ts) == UNION {TableKeys(ts[n]) : n \in DOMAIN ts}

(* Where index is when there is nothing left, and before the first call *)
Bound(ts, r) == IF r THEN 0 ELSE Len(ts) + 1
Origin(ts, r) == IF r THEN Len(ts) + 1 ELSE 0

ConcatShape(ts, i) ==
  i = [index |-> i.index, its |-> i.its] /\ i.its = [n \in DOMAIN ts |-> i.its[n]]

(* The tables before the x-th have ended, those after it were not touched. *)
ConcatFrom(ts, r, i, x) ==
  \A n \in DOMAIN ts : /\ After(r, x, n) => TableEnd(ts[n], r, i.its[n])
                       /\ After(r, n, x) => i.its[n] = TableReset(ts[n], r)

ConcatWalks(ts, r, i) ==
  ts # <<>> =>
    /\ i.index \in 0 .. Len(ts) + 1 /\ ConcatFrom(ts, r, i, i.index)
    /\ \/ i.index \in DOMAIN ts /\ TableAt(ts[i.index], i.its[i.index])
       \/ i.index = Bound(ts, r)

(* A sequence of tables, without sequences *)
LEMMA TablesFacts ==
  ASSUME NEW ts, TablesOK(ts)
  PROVE  /\ Len(ts) \in Nat /\ DOMAIN ts = 1 .. Len(ts) /\ (ts # <<>> <=> Len(ts) >= 1)
         /\ \A r \in BOOLEAN : Bound(ts, r) \notin DOMAIN ts /\ Bound(ts, r) \in 0 .. Len(ts) + 1
                               /\ Origin(ts, r) \notin DOMAIN ts /\ Origin(ts, r) \in 0 .. Len(ts) + 1
                               /\ \A n \in DOMAIN ts : After(r, Bound(ts, r), n) /\ After(r, n, Origin(ts, r))
<1>1. Len(ts) \in Nat /\ DOMAIN ts = 1 .. Len(ts) /\ (ts # <<>> <=> Len(ts) >= 1)
  BY DEF TablesOK
<1>2. ASSUME NEW r \in BOOLEAN
      PROVE  /\ Bound(ts, r) \notin DOMAIN ts /\ Bound(ts, r) \in 0 .. Len(ts) + 1
             /\ Origin(ts, r) \notin DOMAIN ts /\ Origin(ts, r) \in 0 .. Len(ts) + 1
  BY <1>1 DEF Bound, Origin
<1>3. ASSUME NEW r \in BOOLEAN, NEW n \in DOMAIN ts
      PROVE  After(r, Bound(ts, r), n) /\ After(r, n, Origin(ts, r))
  BY <1>1 DEF Bound, Origin, After
<1> QED
  BY <1>1, <1>2, <1>3

(* The order of indexes and of the keys of the tables *)
LEMMA AfterOrder ==
  ASSUME NEW r \in BOOLEAN
  PROVE  /\ \A x, y \in Int : After(r, x, y) \/ x = y \/ After(r, y, x)
         /\ \A x, y \in Int : ~ (After(r, x, y) /\ After(r, y, x)) /\ ~ After(r, x, x)
         /\ \A x, y, z \in Int : After(r, x, y) /\ After(r, y, z) => After(r, x, z)
BY DEF After

(* The keys of one table come after those of the other. *)
LEMMA TablesOrder ==
  ASSUME NEW ts, TablesOK(ts), NEW r \in BOOLEAN, NEW n \in DOMAIN ts, NEW p \in DOMAIN ts,
         After(r, n, p), NEW j \in TableKeys(ts[n]), NEW k \in TableKeys(ts[p])
  PROVE  After(r, j, k)
<1>1. CASE r
  BY <1>1 DEF After, TablesOK
<1>2. CASE ~ r
  <2>1. k < j
    BY <1>2 DEF After, TablesOK
  <2>2. j \in Nat /\ k \in Nat
    BY TableFacts DEF TablesOK
  <2> QED
    BY <2>1, <2>2, <1>2 DEF After
<1> QED
  BY <1>1, <1>2

(* The stop of next(): the first table that has not ended *)
ConcatStop(ts, r, i) ==
  LET moved == [n \in DOMAIN ts |-> TableNext(ts[n], r, i.its[n])]
      ended(n) == TablePeek(ts[n], moved[n]) = None
  IN  IF r THEN Max({n \in DOMAIN ts : ~ended(n)} \cup {0})
      ELSE Min({n \in DOMAIN ts : ~ended(n)} \cup {Len(ts) + 1})

Ended(ts, r, i, n) == TablePeek(ts[n], TableNext(ts[n], r, i.its[n])) = None

(* The tables up to y moved *)
ConcatMoved(ts, r, i, y) ==
  [index |-> y,
   its |-> [n \in DOMAIN ts |-> IF ~ After(r, n, y) THEN TableNext(ts[n], r, i.its[n]) ELSE i.its[n]]]

(* next() in parts *)
LEMMA ConcatNextIs ==
  ASSUME NEW ts, TablesOK(ts), ts # <<>>, NEW r \in BOOLEAN, NEW i
  PROVE  /\ ConcatStop(ts, r, i) \in 0 .. Len(ts) + 1
         /\ ConcatStop(ts, r, i) \in DOMAIN ts =>
              ~ Ended(ts, r, i, ConcatStop(ts, r, i))
         /\ ConcatStop(ts, r, i) \notin DOMAIN ts => ConcatStop(ts, r, i) = Bound(ts, r)
         /\ \A n \in DOMAIN ts : After(r, ConcatStop(ts, r, i), n) => Ended(ts, r, i, n)
         /\ ConcatNext(ts, r, i) = ConcatMoved(ts, r, i, ConcatStop(ts, r, i))
<1> DEFINE A == {n \in DOMAIN ts : ~ Ended(ts, r, i, n)}
           S == A \cup {Bound(ts, r)}
<1>1. PICK w \in Nat : w = Len(ts) /\ w >= 1 /\ DOMAIN ts = 1 .. w
  BY TablesFacts
<1>2. S \in SUBSET (0 .. w + 1)
  BY <1>1 DEF Bound
<1>3. S \in SUBSET Int /\ IsFiniteSet(S) /\ S # {}
  <2>1. IsFiniteSet(0 .. w + 1)
    BY FS_Interval
  <2>2. IsFiniteSet(S)
    BY <2>1, <1>2, FS_Subset
  <2> QED
    BY <2>2, <1>2
<1>4. PICK x : x = ConcatStop(ts, r, i)
  OBVIOUS
<1>5. x = IF r THEN Max(S) ELSE Min(S)
  <2>1. A = {n \in DOMAIN ts : ~ (TablePeek(ts[n], [q \in DOMAIN ts |-> TableNext(ts[q], r, i.its[q])][n]) = None)}
    BY DEF Ended
  <2> QED
    BY <2>1, <1>4 DEF ConcatStop, Bound
<1>6. x \in S /\ \A a \in S : ~ After(r, x, a)
  <2> HIDE DEF S
  <2>1. Min(S) \in S /\ Max(S) \in S /\ \A a \in S : Min(S) <= a /\ a <= Max(S)
    BY <1>3, MinMax
  <2>2. \A a \in S : a \in Int
    BY <1>3
  <2>3. CASE r
    BY <2>1, <2>2, <2>3, <1>5 DEF After
  <2>4. CASE ~ r
    BY <2>1, <2>2, <2>4, <1>5 DEF After
  <2> QED
    BY <2>3, <2>4
<1>7. x \in 0 .. w + 1
  BY <1>2, <1>6
<1>8. \A n \in DOMAIN ts : After(r, x, n) => Ended(ts, r, i, n)
  BY <1>6
<1>9. x \in DOMAIN ts => ~ Ended(ts, r, i, x)
  <2>1. Bound(ts, r) \notin DOMAIN ts
    BY TablesFacts
  <2> QED
    BY <2>1, <1>6
<1>10. x \notin DOMAIN ts => x = Bound(ts, r)
  BY <1>6
<1>11. ConcatNext(ts, r, i) = ConcatMoved(ts, r, i, x)
  <2>1. ConcatNext(ts, r, i) =
          [index |-> x,
           its |-> [n \in DOMAIN ts |-> IF (IF r THEN n >= x ELSE n <= x)
                      THEN [q \in DOMAIN ts |-> TableNext(ts[q], r, i.its[q])][n] ELSE i.its[n]]]
    BY <1>4, Zenon DEF ConcatNext, ConcatStop
  <2>2. \A n \in DOMAIN ts : (IF r THEN n >= x ELSE n <= x) <=> ~ After(r, n, x)
    BY <1>1, <1>7 DEF After
  <2>3. \A n \in DOMAIN ts : (IF (IF r THEN n >= x ELSE n <= x)
                      THEN [q \in DOMAIN ts |-> TableNext(ts[q], r, i.its[q])][n] ELSE i.its[n])
               = IF ~ After(r, n, x) THEN TableNext(ts[n], r, i.its[n]) ELSE i.its[n]
    BY <2>2
  <2> QED
    BY <2>1, <2>3 DEF ConcatMoved
<1> QED
  BY <1>1, <1>4, <1>7, <1>8, <1>9, <1>10, <1>11

(* What an iterator that is placed in a table shows *)
LEMMA PlacedShows ==
  ASSUME NEW t, TableOK(t), NEW r \in BOOLEAN, NEW i, NEW K, TablePlaced(t, r, i, K)
  PROVE  /\ IsFirst(r, K, TablePeek(t, i)) /\ (TablePeek(t, i) = None <=> K = {})
         /\ K = {} => TableEnd(t, r, i)
         /\ K # {} => TableAt(t, i)
<1>1. CASE K = {} /\ TableEnd(t, r, i)
  <2>1. TablePeek(t, i) = None
    BY <1>1, TablePeekIs
  <2> QED
    BY <1>1, <2>1 DEF IsFirst
<1>2. CASE K # {} /\ \E b \in DOMAIN t : \E e \in DOMAIN t[b] : i = At(b, e) /\ K # {} /\ IsFirst(r, K, t[b][e])
  <2>1. PICK b \in DOMAIN t : \E e \in DOMAIN t[b] : i = At(b, e) /\ IsFirst(r, K, t[b][e])
    BY <1>2
  <2>2. PICK e \in DOMAIN t[b] : i = At(b, e) /\ IsFirst(r, K, t[b][e])
    BY <2>1
  <2>3. TablePeek(t, i) = t[b][e]
    BY <2>2, TablePeekIs
  <2>4. t[b][e] # None
    BY TableFacts
  <2> QED
    BY <1>2, <2>2, <2>3, <2>4 DEF TableAt
<1> QED
  BY <1>1, <1>2 DEF TablePlaced

(* next in a table, from a record and from its end *)
LEMMA TableMoves ==
  ASSUME NEW t, TableOK(t), NEW r \in BOOLEAN, NEW i
  PROVE  /\ TableAt(t, i) => /\ TablePeek(t, i) \in TableKeys(t) /\ TablePeek(t, i) # None
                             /\ TablePlaced(t, r, TableNext(t, r, i), Beyond(r, TableKeys(t), TablePeek(t, i)))
         /\ TableEnd(t, r, i) => TableEnd(t, r, TableNext(t, r, i)) /\ TablePeek(t, i) = None
                                 /\ TablePeek(t, TableNext(t, r, i)) = None
<1>1. ASSUME TableAt(t, i)
      PROVE  /\ TablePeek(t, i) \in TableKeys(t) /\ TablePeek(t, i) # None
             /\ TablePlaced(t, r, TableNext(t, r, i), Beyond(r, TableKeys(t), TablePeek(t, i)))
  <2>1. PICK b \in DOMAIN t : \E e \in DOMAIN t[b] : i = At(b, e)
    BY <1>1 DEF TableAt
  <2>2. PICK e \in DOMAIN t[b] : i = At(b, e)
    BY <2>1
  <2>3. TablePeek(t, i) = t[b][e]
    BY <2>2, TablePeekIs
  <2>4. t[b][e] \in TableKeys(t) /\ t[b][e] # None
    BY TableFacts
  <2>5. TablePlaced(t, r, TableNext(t, r, At(b, e)), Beyond(r, TableKeys(t), t[b][e]))
    BY TableNextIs
  <2> QED
    BY <2>2, <2>3, <2>4, <2>5
<1>2. ASSUME TableEnd(t, r, i)
      PROVE  TableEnd(t, r, TableNext(t, r, i))
  <2>1. CASE r
    BY <1>2, <2>1, TableBackIs DEF TableNext
  <2>2. CASE ~ r
    BY <1>2, <2>2, TableForwardIs DEF TableNext
  <2> QED
    BY <2>1, <2>2
<1> QED
  BY <1>1, <1>2, TablePeekIs

(* The keys that are left when the iterator is in the x-th table *)
ConcatLeft(ts, r, i, x) ==
  {k \in TablesKeys(ts) : \E n \in DOMAIN ts :
     /\ k \in TableKeys(ts[n])
     /\ After(r, n, x) \/ (n = x /\ After(r, k, TablePeek(ts[x], i.its[x])))}

(* next goes to the first of them. *)
LEMMA ConcatGo ==
  ASSUME NEW ts, TablesOK(ts), ts # <<>>, NEW r \in BOOLEAN, NEW i, NEW x \in 0 .. Len(ts) + 1,
         ConcatFrom(ts, r, i, x), x \in DOMAIN ts => TableAt(ts[x], i.its[x])
  PROVE  /\ ConcatWalks(ts, r, ConcatNext(ts, r, i))
         /\ IsFirst(r, ConcatLeft(ts, r, i, x), ConcatPeek(ts, ConcatNext(ts, r, i)))
<1>1. PICK w \in Nat : w = Len(ts) /\ w >= 1 /\ DOMAIN ts = 1 .. w
  BY TablesFacts
<1>2. PICK y, j : y = ConcatStop(ts, r, i) /\ j = ConcatNext(ts, r, i)
  OBVIOUS
<1>3. /\ y \in 0 .. w + 1
      /\ y \in DOMAIN ts => ~ Ended(ts, r, i, y)
      /\ y \notin DOMAIN ts => y = Bound(ts, r)
      /\ \A n \in DOMAIN ts : After(r, y, n) => Ended(ts, r, i, n)
      /\ j = [index |-> y, its |-> [n \in DOMAIN ts |-> IF ~ After(r, n, y)
                                    THEN TableNext(ts[n], r, i.its[n]) ELSE i.its[n]]]
  <2>1. y \in 0 .. Len(ts) + 1
    BY <1>2, ConcatNextIs
  <2>2. y \in DOMAIN ts => ~ Ended(ts, r, i, y)
    BY <1>2, ConcatNextIs
  <2>3. y \notin DOMAIN ts => y = Bound(ts, r)
    BY <1>2, ConcatNextIs
  <2>4. \A n \in DOMAIN ts : After(r, y, n) => Ended(ts, r, i, n)
    BY <1>2, ConcatNextIs
  <2>5. j = [index |-> y, its |-> [n \in DOMAIN ts |-> IF ~ After(r, n, y)
                                   THEN TableNext(ts[n], r, i.its[n]) ELSE i.its[n]]]
    <3>1. j = ConcatMoved(ts, r, i, y)
      BY <1>2, ConcatNextIs
    <3> QED
      BY <3>1 DEF ConcatMoved
  <2> QED
    BY <2>1, <2>2, <2>3, <2>4, <2>5, <1>1
<1>4. ASSUME NEW n \in DOMAIN ts, After(r, n, x)
      PROVE  /\ ~ Ended(ts, r, i, n) /\ TableAt(ts[n], TableNext(ts[n], r, i.its[n]))
             /\ IsFirst(r, TableKeys(ts[n]), TablePeek(ts[n], TableNext(ts[n], r, i.its[n])))
             /\ TableKeys(ts[n]) # {}
  <2>1. TableOK(ts[n]) /\ i.its[n] = TableReset(ts[n], r)
    BY <1>4 DEF ConcatFrom, TablesOK
  <2>2. /\ TablePlaced(ts[n], r, TableRewind(ts[n], r), TableKeys(ts[n]))
        /\ TableNext(ts[n], r, i.its[n]) = TableRewind(ts[n], r)
        /\ TableKeys(ts[n]) # {}
    BY <2>1, TableStart
  <2>3. /\ IsFirst(r, TableKeys(ts[n]), TablePeek(ts[n], TableNext(ts[n], r, i.its[n])))
        /\ TablePeek(ts[n], TableNext(ts[n], r, i.its[n])) # None
        /\ TableAt(ts[n], TableNext(ts[n], r, i.its[n]))
    BY <2>1, <2>2, PlacedShows
  <2> QED
    BY <2>2, <2>3 DEF Ended
<1>5. ASSUME NEW n \in DOMAIN ts, After(r, x, n)
      PROVE  Ended(ts, r, i, n) /\ TableEnd(ts[n], r, TableNext(ts[n], r, i.its[n]))
  <2>1. TableOK(ts[n]) /\ TableEnd(ts[n], r, i.its[n])
    BY <1>5 DEF ConcatFrom, TablesOK
  <2> QED
    BY <2>1, TableMoves DEF Ended
<1> DEFINE B == Beyond(r, TableKeys(ts[x]), TablePeek(ts[x], i.its[x]))
           mv == TableNext(ts[x], r, i.its[x])
<1>6. ASSUME x \in DOMAIN ts
      PROVE  /\ TableOK(ts[x]) /\ (Ended(ts, r, i, x) <=> B = {})
             /\ IsFirst(r, B, TablePeek(ts[x], mv))
             /\ B = {} => TableEnd(ts[x], r, mv)
             /\ B # {} => TableAt(ts[x], mv)
  <2>1. TableOK(ts[x]) /\ TableAt(ts[x], i.its[x])
    BY <1>6 DEF TablesOK
  <2>2. TablePlaced(ts[x], r, mv, B)
    BY <2>1, TableMoves
  <2> QED
    BY <2>1, <2>2, PlacedShows DEF Ended
<1>7. \A n \in DOMAIN ts : n \in Int
  BY <1>1
<1>8. x \in Int /\ y \in Int
  BY <1>1, <1>3
<1>9. ~ After(r, x, y)
  <2>1. CASE y \in DOMAIN ts
    BY <2>1, <1>3, <1>5
  <2>2. CASE y = Bound(ts, r)
    BY <2>2, <1>1 DEF Bound, After
  <2> QED
    BY <2>1, <2>2, <1>3
<1>10. ConcatFrom(ts, r, j, y)
  <2>1. ASSUME NEW n \in DOMAIN ts, After(r, y, n)
        PROVE  TableEnd(ts[n], r, j.its[n])
    <3>1. j.its[n] = TableNext(ts[n], r, i.its[n])
      BY <2>1, <1>3, <1>7, <1>8, AfterOrder
    <3>2. Ended(ts, r, i, n)
      BY <2>1, <1>3
    <3>3. ~ After(r, n, x)
      BY <3>2, <1>4
    <3>4. CASE n = x
      BY <3>1, <3>2, <3>4, <1>6
    <3>5. CASE After(r, x, n)
      BY <3>1, <3>5, <1>5
    <3> QED
      BY <3>3, <3>4, <3>5, <1>7, <1>8, AfterOrder
  <2>2. ASSUME NEW n \in DOMAIN ts, After(r, n, y)
        PROVE  j.its[n] = TableReset(ts[n], r)
    <3>1. j.its[n] = i.its[n]
      BY <2>2, <1>3
    <3>2. After(r, n, x)
      BY <2>2, <1>7, <1>8, <1>9, AfterOrder
    <3> QED
      BY <3>1, <3>2 DEF ConcatFrom
  <2> QED
    BY <2>1, <2>2 DEF ConcatFrom
<1>11. ASSUME y \in DOMAIN ts
       PROVE  /\ j.its[y] = TableNext(ts[y], r, i.its[y]) /\ TableAt(ts[y], j.its[y])
              /\ ConcatPeek(ts, j) = TablePeek(ts[y], TableNext(ts[y], r, i.its[y]))
  <2>1. j.index = y /\ j.its[y] = TableNext(ts[y], r, i.its[y])
    BY <1>3, <1>8, <1>11, AfterOrder
  <2>2. ~ Ended(ts, r, i, y)
    BY <1>3, <1>11
  <2>3. CASE y = x
    BY <2>1, <2>2, <2>3, <1>6, <1>11 DEF ConcatPeek
  <2>4. CASE After(r, y, x)
    BY <2>1, <2>4, <1>4, <1>11 DEF ConcatPeek
  <2> QED
    BY <2>3, <2>4, <1>8, <1>9, AfterOrder
<1>12. ConcatWalks(ts, r, j)
  BY <1>1, <1>3, <1>10, <1>11 DEF ConcatWalks
<1> DEFINE L == ConcatLeft(ts, r, i, x)
<1>13. \A k \in L : \E n \in DOMAIN ts :
         /\ k \in TableKeys(ts[n])
         /\ After(r, n, x) \/ (n = x /\ k \in B)
  BY DEF ConcatLeft, Beyond
<1>14. \A n \in DOMAIN ts : \A k \in TableKeys(ts[n]) : k \in TablesKeys(ts) /\ k \in Nat
  BY TableFacts DEF TablesKeys, TablesOK
<1>15. CASE y \in DOMAIN ts /\ y = x
  <2>1. PICK k : k = TablePeek(ts[x], mv) /\ k = ConcatPeek(ts, j)
    BY <1>11, <1>15
  <2>2. k \in B /\ \A q \in B : ~ After(r, k, q)
    BY <2>1, <1>3, <1>6, <1>15 DEF IsFirst
  <2>3. k \in TableKeys(ts[x]) /\ k \in L
    BY <2>2, <1>14, <1>15 DEF ConcatLeft, Beyond
  <2>4. ASSUME NEW q \in L PROVE ~ After(r, k, q)
    <3>1. PICK n \in DOMAIN ts : q \in TableKeys(ts[n]) /\ (After(r, n, x) \/ (n = x /\ q \in B))
      BY <1>13
    <3>2. CASE After(r, n, x)
      <4>1. After(r, q, k)
        BY <3>1, <3>2, <2>3, <1>15, TablesOrder
      <4> QED
        BY <4>1, <3>1, <2>3, <1>14, <1>15, AfterOrder
    <3> QED
      BY <3>1, <3>2, <2>2
  <2> QED
    BY <2>1, <2>3, <2>4, <1>2, <1>12 DEF IsFirst
<1>16. CASE y \in DOMAIN ts /\ After(r, y, x)
  <2>1. PICK k : k = TablePeek(ts[y], TableNext(ts[y], r, i.its[y])) /\ k = ConcatPeek(ts, j)
    BY <1>11, <1>16
  <2>2. k \in TableKeys(ts[y]) /\ \A q \in TableKeys(ts[y]) : ~ After(r, k, q)
    BY <2>1, <1>4, <1>16 DEF IsFirst
  <2>3. k \in L
    BY <2>2, <1>14, <1>16 DEF ConcatLeft
  <2>4. ASSUME NEW q \in L PROVE ~ After(r, k, q)
    <3>1. PICK n \in DOMAIN ts : q \in TableKeys(ts[n]) /\ (After(r, n, x) \/ (n = x /\ q \in B))
      BY <1>13
    <3>2. n # x
      <4>1. x \in DOMAIN ts => B = {}
        BY <1>3, <1>6, <1>16
      <4>2. ~ After(r, x, x)
        BY <1>8, AfterOrder
      <4> QED
        BY <3>1, <4>1, <4>2
    <3>3. ~ After(r, y, n)
      BY <3>1, <3>2, <1>3, <1>4
    <3>4. CASE After(r, n, y)
      <4>1. After(r, q, k)
        BY <3>1, <3>4, <2>2, <1>16, TablesOrder
      <4> QED
        BY <4>1, <3>1, <2>2, <1>14, <1>16, AfterOrder
    <3>5. CASE n = y
      BY <3>1, <3>5, <2>2
    <3> QED
      BY <3>3, <3>4, <3>5, <1>7, <1>8, AfterOrder
  <2> QED
    BY <2>1, <2>3, <2>4, <1>2, <1>12 DEF IsFirst
<1>17. CASE y \notin DOMAIN ts
  <2>1. \A n \in DOMAIN ts : Ended(ts, r, i, n)
    BY <1>3, <1>17, TablesFacts
  <2>2. L = {}
    BY <2>1, <1>4, <1>6, <1>13
  <2>3. ConcatPeek(ts, j) = None
    BY <1>3, <1>17 DEF ConcatPeek
  <2> QED
    BY <2>2, <2>3, <1>2, <1>12 DEF IsFirst
<1> QED
  BY <1>8, <1>9, <1>15, <1>16, <1>17, AfterOrder

(* The keys at the two ends of a table *)
LEMMA TableExtremes ==
  ASSUME NEW t, TableOK(t)
  PROVE  /\ TableSmallest(t) \in TableKeys(t) /\ TableBiggest(t) \in TableKeys(t)
         /\ \A k \in TableKeys(t) : k \in Nat /\ TableSmallest(t) <= k /\ k <= TableBiggest(t)
<1>1. \A k \in TableKeys(t) : k \in Nat
  BY TableFacts
<1>2. PICK b \in DOMAIN t : b = Len(t) /\ 1 \in DOMAIN t
  BY TableFacts
<1>3. PICK e \in DOMAIN t[b] : e = Len(t[b]) /\ 1 \in DOMAIN t[1]
  BY <1>2, TableFacts
<1>4. t[1][1] \in TableKeys(t) /\ t[b][e] \in TableKeys(t)
  BY <1>2, <1>3, TableFacts
<1>5. ASSUME NEW k \in TableKeys(t)
      PROVE  ~ (k < t[1][1]) /\ ~ (t[b][e] < k)
  <2>1. PICK c \in DOMAIN t : \E d \in DOMAIN t[c] : k = t[c][d]
    BY TableFacts
  <2>2. PICK d \in DOMAIN t[c] : k = t[c][d]
    BY <2>1
  <2>3. /\ c \in Nat /\ c >= 1 /\ c <= Len(t) /\ Len(t) \in Nat
        /\ d \in Nat /\ d >= 1 /\ d <= Len(t[c]) /\ Len(t[c]) \in Nat
    BY TableFacts, SMTT(20)
  <2>4. ~ (c < 1 \/ (c = 1 /\ d < 1)) /\ ~ (b < c \/ (b = c /\ e < d))
    BY <2>3, <1>2, <1>3
  <2> QED
    BY <2>2, <2>4, <1>2, <1>3, EntryOrder
<1>6. TableSmallest(t) = t[1][1] /\ TableBiggest(t) = t[b][e]
  BY <1>2, <1>3 DEF TableSmallest, TableBiggest
<1> QED
  BY <1>1, <1>4, <1>5, <1>6

(* The tables that seek takes into account are those with a key from k on. *)
LEMMA TableHit ==
  ASSUME NEW t, TableOK(t), NEW r \in BOOLEAN, NEW k \in Nat
  PROVE  Onward(r, TableKeys(t), k) # {} <=> IF r THEN TableSmallest(t) <= k ELSE TableBiggest(t) >= k
<1>1. PICK a \in Nat, b \in Nat : a = TableSmallest(t) /\ b = TableBiggest(t)
  BY TableExtremes
<1>2. /\ a \in TableKeys(t) /\ b \in TableKeys(t)
      /\ \A j \in TableKeys(t) : j \in Nat /\ a <= j /\ j <= b
  BY <1>1, TableExtremes
<1>3. CASE r
  <2>1. ASSUME a <= k PROVE a \in Onward(r, TableKeys(t), k)
    BY <2>1, <1>2, <1>3 DEF Onward, After
  <2>2. ASSUME NEW j \in Onward(r, TableKeys(t), k) PROVE a <= k
    <3>1. j \in TableKeys(t) /\ ~ (k < j)
      BY <1>3 DEF Onward, After
    <3> QED
      BY <3>1, <1>2
  <2> QED
    BY <2>1, <2>2, <1>1, <1>3
<1>4. CASE ~ r
  <2>1. ASSUME b >= k PROVE b \in Onward(r, TableKeys(t), k)
    BY <2>1, <1>2, <1>4 DEF Onward, After
  <2>2. ASSUME NEW j \in Onward(r, TableKeys(t), k) PROVE b >= k
    <3>1. j \in TableKeys(t) /\ ~ (k > j)
      BY <1>4 DEF Onward, After
    <3> QED
      BY <3>1, <1>2
  <2> QED
    BY <2>1, <2>2, <1>1, <1>4
<1> QED
  BY <1>3, <1>4

(* seek *)
LEMMA ConcatSeekIs ==
  ASSUME NEW ts, TablesOK(ts), NEW r \in BOOLEAN, NEW k \in Nat \ {0}, NEW i, ConcatShape(ts, i)
  PROVE  /\ ConcatShape(ts, ConcatSeek(ts, r, k, i))
         /\ IsFirst(r, Onward(r, TablesKeys(ts), k), ConcatPeek(ts, ConcatSeek(ts, r, k, i)))
<1> DEFINE On(n) == Onward(r, TableKeys(ts[n]), k)
           H == {n \in DOMAIN ts : On(n) # {}}
           O == Onward(r, TablesKeys(ts), k)
           j == ConcatSeek(ts, r, k, i)
<1>1. PICK w \in Nat : w = Len(ts) /\ DOMAIN ts = 1 .. w /\ (ts = <<>> <=> w = 0)
  BY TablesFacts
<1>2. H = IF r THEN {n \in DOMAIN ts : TableSmallest(ts[n]) <= k}
          ELSE {n \in DOMAIN ts : TableBiggest(ts[n]) >= k}
  <2>1. \A n \in DOMAIN ts : On(n) # {} <=> IF r THEN TableSmallest(ts[n]) <= k ELSE TableBiggest(ts[n]) >= k
    BY TableHit DEF TablesOK
  <2> HIDE DEF On
  <2> QED
    BY <2>1
<1>3. \A q \in O : \E n \in H : q \in On(n)
  BY DEF Onward, TablesKeys
<1>4. \A n \in DOMAIN ts : \A q \in On(n) : q \in O /\ q \in TableKeys(ts[n]) /\ q \in Nat
  BY TableExtremes DEF Onward, TablesKeys, TablesOK
<1>5. CASE ts = <<>>
  <2>1. j = i /\ DOMAIN ts = {}
    BY <1>1, <1>5 DEF ConcatSeek
  <2>2. O = {} /\ ConcatPeek(ts, i) = None
    BY <2>1 DEF Onward, TablesKeys, ConcatPeek
  <2> QED
    BY <2>1, <2>2 DEF IsFirst
<1>6. CASE ts # <<>> /\ H = {}
  <2>1. j = [i EXCEPT !.index = 0]
    BY <1>2, <1>6 DEF ConcatSeek
  <2>2. ConcatShape(ts, j) /\ j.index = 0
    BY <2>1 DEF ConcatShape
  <2>3. ConcatPeek(ts, j) = None
    BY <2>2, <1>1 DEF ConcatPeek
  <2>4. O = {}
    BY <1>3, <1>6
  <2> QED
    BY <2>2, <2>3, <2>4 DEF IsFirst
<1>7. CASE ts # <<>> /\ H # {}
  <2>1. H \in SUBSET Int /\ IsFiniteSet(H)
    <3>1. IsFiniteSet(1 .. w) /\ H \in SUBSET (1 .. w)
      BY <1>1, FS_Interval
    <3>2. IsFiniteSet(H)
      BY <3>1, FS_Subset
    <3> QED
      BY <3>1, <3>2
  <2>2. PICK n : n = IF r THEN Max(H) ELSE Min(H)
    OBVIOUS
  <2>3. n \in H /\ \A p \in H : ~ After(r, n, p)
    <3> HIDE DEF H
    <3>1. Min(H) \in H /\ Max(H) \in H /\ \A a \in H : Min(H) <= a /\ a <= Max(H)
      BY <2>1, <1>7, MinMax
    <3>2. \A a \in H : a \in Int
      BY <2>1
    <3>3. CASE r
      BY <2>2, <3>1, <3>2, <3>3 DEF After
    <3>4. CASE ~ r
      BY <2>2, <3>1, <3>2, <3>4 DEF After
    <3> QED
      BY <3>3, <3>4
  <2>4. j = [i EXCEPT !.index = n, !.its[n] = TableSeek(ts[n], r, k)]
    <3> HIDE DEF H
    <3>1. PICK h : h = H
      OBVIOUS
    <3> QED
      BY <2>2, <1>2, <1>7 DEF ConcatSeek
  <2>5. n \in DOMAIN ts /\ TableOK(ts[n])
    BY <2>3 DEF TablesOK
  <2>6. ConcatShape(ts, j) /\ j.index = n /\ j.its[n] = TableSeek(ts[n], r, k)
    BY <2>4, <2>5 DEF ConcatShape
  <2>7. PICK q : q = TablePeek(ts[n], TableSeek(ts[n], r, k)) /\ q = ConcatPeek(ts, j)
    BY <2>5, <2>6 DEF ConcatPeek
  <2>8. q \in On(n) /\ \A a \in On(n) : ~ After(r, q, a)
    <3>1. TablePlaced(ts[n], r, TableSeek(ts[n], r, k), On(n))
      BY <2>5, TableSeekIs
    <3>2. IsFirst(r, On(n), q)
      BY <3>1, <2>5, <2>7, PlacedShows
    <3> QED
      BY <3>2, <2>3 DEF IsFirst
  <2>9. ASSUME NEW a \in O PROVE ~ After(r, q, a)
    <3>1. PICK p \in H : a \in On(p)
      BY <1>3
    <3>2. CASE p = n
      BY <3>1, <3>2, <2>8
    <3>3. CASE After(r, p, n)
      <4>1. After(r, a, q)
        BY <3>1, <3>3, <2>5, <2>8, <1>4, TablesOrder
      <4> QED
        BY <4>1, <3>1, <2>5, <2>8, <1>4, AfterOrder
    <3>4. p = n \/ After(r, p, n)
      BY <2>1, <2>3, AfterOrder
    <3> QED
      BY <3>2, <3>3, <3>4
  <2>10. q \in O
    BY <2>5, <2>8, <1>4
  <2> QED
    BY <2>6, <2>7, <2>9, <2>10 DEF IsFirst
<1> QED
  BY <1>5, <1>6, <1>7

(* A walk over the tables of a level *)
LEMMA ConcatMoves ==
  ASSUME NEW ts, TablesOK(ts), NEW r \in BOOLEAN, NEW i
  PROVE  /\ ConcatShape(ts, ConcatNew(ts, r))
         /\ ConcatShape(ts, i) => /\ ConcatShape(ts, ConcatNext(ts, r, i))
                                  /\ ConcatShape(ts, ConcatRewind(ts, r, i))
         /\ ConcatWalks(ts, r, ConcatRewind(ts, r, i))
         /\ IsFirst(r, TablesKeys(ts), ConcatPeek(ts, ConcatRewind(ts, r, i)))
         /\ ConcatWalks(ts, r, ConcatNext(ts, r, ConcatNew(ts, r)))
         /\ IsFirst(r, TablesKeys(ts), ConcatPeek(ts, ConcatNext(ts, r, ConcatNew(ts, r))))
         /\ ConcatWalks(ts, r, i) =>
              /\ ConcatPeek(ts, i) \in TablesKeys(ts) \cup {None}
              /\ ConcatWalks(ts, r, ConcatNext(ts, r, i))
              /\ IsFirst(r, IF ConcatPeek(ts, i) = None THEN {} ELSE Beyond(r, TablesKeys(ts), ConcatPeek(ts, i)),
                         ConcatPeek(ts, ConcatNext(ts, r, i)))
<1>1. PICK w \in Nat : w = Len(ts) /\ DOMAIN ts = 1 .. w /\ (ts = <<>> <=> w = 0)
  BY TablesFacts
<1>2. ConcatShape(ts, ConcatNew(ts, r))
  BY DEF ConcatShape, ConcatNew
<1>3. ASSUME ConcatShape(ts, i) PROVE ConcatShape(ts, ConcatNext(ts, r, i))
  <2>1. CASE ts = <<>>
    BY <1>3, <2>1 DEF ConcatNext
  <2>2. CASE ts # <<>>
    <3>1. PICK y : ConcatNext(ts, r, i) = ConcatMoved(ts, r, i, y)
      BY <2>2, ConcatNextIs
    <3> QED
      BY <3>1 DEF ConcatMoved, ConcatShape
  <2> QED
    BY <2>1, <2>2
<1>4. ASSUME ConcatShape(ts, i) PROVE ConcatShape(ts, ConcatRewind(ts, r, i))
  BY <1>4 DEF ConcatShape, ConcatRewind
<1>5. \A n \in DOMAIN ts : \A k \in TableKeys(ts[n]) : k \in TablesKeys(ts) /\ k \in Nat /\ n \in Int
  BY <1>1, TableFacts DEF TablesKeys, TablesOK
<1>6. CASE ts = <<>>
  <2>1. DOMAIN ts = {}
    BY <1>1, <1>6
  <2>2. TablesKeys(ts) = {} /\ \A q : ConcatPeek(ts, q) = None
    BY <2>1 DEF TablesKeys, ConcatPeek
  <2>3. \A q : ConcatWalks(ts, r, q)
    BY <1>6 DEF ConcatWalks
  <2>4. IsFirst(r, {}, None) /\ TablesKeys(ts) = {}
    BY <2>2 DEF IsFirst
  <2> QED
    BY <2>2, <2>3, <2>4, <1>2, <1>3, <1>4
<1>7. CASE ts # <<>>
  <2>1. /\ ConcatWalks(ts, r, ConcatRewind(ts, r, i))
        /\ IsFirst(r, TablesKeys(ts), ConcatPeek(ts, ConcatRewind(ts, r, i)))
    <3>1. PICK x, j : x = (IF r THEN Len(ts) ELSE 1) /\ j = ConcatRewind(ts, r, i)
      OBVIOUS
    <3>2. x \in DOMAIN ts
      BY <3>1, <1>1, <1>7
    <3>3. j = [index |-> x, its |-> [n \in DOMAIN ts |-> IF n = x THEN TableRewind(ts[n], r)
                                                         ELSE TableReset(ts[n], r)]]
      BY <3>1, <1>7 DEF ConcatRewind
    <3>4. \A n \in DOMAIN ts : n = x \/ After(r, n, x)
      BY <3>1, <1>1 DEF After
    <3>5. TableOK(ts[x]) /\ j.index = x /\ j.its[x] = TableRewind(ts[x], r)
      BY <3>2, <3>3 DEF TablesOK
    <3>6. TablePlaced(ts[x], r, j.its[x], TableKeys(ts[x])) /\ TableAt(ts[x], j.its[x]) /\ TableKeys(ts[x]) # {}
      BY <3>5, TableStart
    <3>7. ConcatFrom(ts, r, j, x)
      <4>1. \A n \in DOMAIN ts : ~ After(r, x, n)
        BY <3>2, <3>4, <1>1 DEF After
      <4>2. ~ After(r, x, x)
        BY <3>2, <1>1 DEF After
      <4> QED
        BY <4>1, <4>2, <3>3 DEF ConcatFrom
    <3>8. PICK k : k = TablePeek(ts[x], j.its[x]) /\ k = ConcatPeek(ts, j)
      BY <3>2, <3>5 DEF ConcatPeek
    <3>9. k \in TableKeys(ts[x]) /\ \A q \in TableKeys(ts[x]) : ~ After(r, k, q)
      <4>1. IsFirst(r, TableKeys(ts[x]), k)
        BY <3>5, <3>6, <3>8, PlacedShows, ZenonT(20)
      <4> QED
        BY <4>1, <3>6 DEF IsFirst
    <3>10. ASSUME NEW q \in TablesKeys(ts) PROVE ~ After(r, k, q)
      <4>1. PICK n \in DOMAIN ts : q \in TableKeys(ts[n])
        BY DEF TablesKeys
      <4>2. CASE After(r, n, x)
        <5>1. After(r, q, k)
          BY <4>1, <4>2, <3>2, <3>9, TablesOrder
        <5> QED
          BY <5>1, <4>1, <3>2, <3>9, <1>5, AfterOrder
      <4> QED
        BY <4>1, <4>2, <3>4, <3>9
    <3>11. IsFirst(r, TablesKeys(ts), k)
      BY <3>2, <3>9, <3>10, <1>5 DEF IsFirst
    <3>12. x \in 0 .. Len(ts) + 1
      BY <3>2, <1>1
    <3> QED
      BY <3>1, <3>2, <3>5, <3>6, <3>7, <3>8, <3>11, <3>12 DEF ConcatWalks
  <2>2. /\ ConcatWalks(ts, r, ConcatNext(ts, r, ConcatNew(ts, r)))
        /\ IsFirst(r, TablesKeys(ts), ConcatPeek(ts, ConcatNext(ts, r, ConcatNew(ts, r))))
    <3>1. PICK x \in 0 .. Len(ts) + 1 : x = Origin(ts, r) /\ x \notin DOMAIN ts /\ \A n \in DOMAIN ts : After(r, n, x)
      BY TablesFacts
    <3>2. PICK j : j = ConcatNew(ts, r)
      OBVIOUS
    <3>3. ConcatFrom(ts, r, j, x)
      <4>1. \A n \in DOMAIN ts : ~ After(r, x, n)
        BY <3>1, <1>1 DEF After
      <4> QED
        BY <3>2, <4>1 DEF ConcatFrom, ConcatNew
    <3>4. TablesKeys(ts) = ConcatLeft(ts, r, j, x)
      BY <3>1 DEF TablesKeys, ConcatLeft
    <3> QED
      BY <3>1, <3>2, <3>3, <3>4, <1>7, ConcatGo
  <2>3. ASSUME ConcatWalks(ts, r, i)
        PROVE  /\ ConcatPeek(ts, i) \in TablesKeys(ts) \cup {None}
               /\ ConcatWalks(ts, r, ConcatNext(ts, r, i))
               /\ IsFirst(r, IF ConcatPeek(ts, i) = None THEN {} ELSE Beyond(r, TablesKeys(ts), ConcatPeek(ts, i)),
                          ConcatPeek(ts, ConcatNext(ts, r, i)))
    <3>1. PICK x \in 0 .. Len(ts) + 1 : x = i.index
      BY <2>3, <1>7 DEF ConcatWalks
    <3>2. /\ ConcatFrom(ts, r, i, x)
          /\ (x \in DOMAIN ts /\ TableAt(ts[x], i.its[x])) \/ x = Bound(ts, r)
      BY <2>3, <3>1, <1>7 DEF ConcatWalks
    <3>3. x \in DOMAIN ts => TableAt(ts[x], i.its[x])
      BY <3>2, TablesFacts
    <3>4. /\ ConcatWalks(ts, r, ConcatNext(ts, r, i))
          /\ IsFirst(r, ConcatLeft(ts, r, i, x), ConcatPeek(ts, ConcatNext(ts, r, i)))
      BY <3>2, <3>3, <1>7, ConcatGo
    <3>5. CASE x = Bound(ts, r)
      <4>1. x \notin DOMAIN ts /\ \A n \in DOMAIN ts : After(r, x, n)
        BY <3>5, TablesFacts
      <4>2. ConcatPeek(ts, i) = None
        BY <3>1, <4>1 DEF ConcatPeek
      <4>3. \A n \in DOMAIN ts : ~ After(r, n, x)
        BY <4>1, <1>1 DEF After
      <4>4. ConcatLeft(ts, r, i, x) = {}
        BY <4>1, <4>3 DEF ConcatLeft
      <4> QED
        BY <4>2, <4>4, <3>4
    <3>6. CASE x \in DOMAIN ts
      <4>1. PICK k : k = TablePeek(ts[x], i.its[x]) /\ k = ConcatPeek(ts, i)
        BY <3>1, <3>6 DEF ConcatPeek
      <4>2. TableOK(ts[x]) /\ TableAt(ts[x], i.its[x])
        BY <3>3, <3>6 DEF TablesOK
      <4>3. k \in TableKeys(ts[x]) /\ k # None /\ k \in Nat
        BY <4>1, <4>2, <3>6, <1>5, TableMoves
      <4>4. ConcatLeft(ts, r, i, x) = Beyond(r, TablesKeys(ts), k)
        <5>1. ASSUME NEW q \in ConcatLeft(ts, r, i, x)
              PROVE  q \in Beyond(r, TablesKeys(ts), k)
          <6>1. PICK n \in DOMAIN ts : /\ q \in TableKeys(ts[n])
                                       /\ After(r, n, x) \/ (n = x /\ After(r, q, k))
            BY <4>1 DEF ConcatLeft
          <6>2. After(r, n, x) => After(r, q, k)
            BY <6>1, <4>3, <3>6, TablesOrder
          <6> QED
            BY <6>1, <6>2, <1>5 DEF Beyond
        <5>2. ASSUME NEW q \in Beyond(r, TablesKeys(ts), k)
              PROVE  q \in ConcatLeft(ts, r, i, x)
          <6>1. q \in TablesKeys(ts) /\ After(r, q, k)
            BY DEF Beyond
          <6>2. PICK n \in DOMAIN ts : q \in TableKeys(ts[n])
            BY <6>1 DEF TablesKeys
          <6>3. ~ After(r, x, n)
            <7>1. SUFFICES ASSUME After(r, x, n) PROVE FALSE
              OBVIOUS
            <7>2. After(r, k, q)
              BY <7>1, <6>2, <4>3, <3>6, TablesOrder
            <7> QED
              BY <7>2, <6>1, <6>2, <4>3, <1>5, AfterOrder
          <6>4. n = x \/ After(r, n, x)
            BY <6>2, <6>3, <3>6, <1>1, AfterOrder
          <6> QED
            BY <6>1, <6>2, <6>4, <4>1 DEF ConcatLeft
        <5> QED
          BY <5>1, <5>2
      <4>5. k \in TablesKeys(ts)
        BY <4>3, <3>6, <1>5
      <4> QED
        BY <4>1, <4>3, <4>4, <4>5, <3>4
    <3> QED
      BY <3>2, <3>5, <3>6
  <2> QED
    BY <2>1, <2>2, <2>3, <1>2, <1>3, <1>4
<1> QED
  BY <1>6, <1>7

-----------------------------------------------------------------------------
(***************************************************************************)
(* The iterator of a memtable                                              *)
(***************************************************************************)

(* The key that find_near returns, or the default *)
LEMMA NearIs ==
  ASSUME NEW S \in SUBSET Nat, IsFiniteSet(S), NEW k \in Int, NEW dflt
  PROVE  /\ Above(S, k, dflt) \in S \cup {dflt} /\ Below(S, k, dflt) \in S \cup {dflt}
         /\ (\A j \in S : j < k) => Above(S, k, dflt) = dflt
         /\ (\E j \in S : j >= k) => /\ Above(S, k, dflt) \in S /\ Above(S, k, dflt) >= k
                                     /\ \A j \in S : j >= k => Above(S, k, dflt) <= j
         /\ (\A j \in S : j > k) => Below(S, k, dflt) = dflt
         /\ (\E j \in S : j <= k) => /\ Below(S, k, dflt) \in S /\ Below(S, k, dflt) <= k
                                     /\ \A j \in S : j <= k => Below(S, k, dflt) >= j
<1> DEFINE A == {n \in S : n >= k}
           B == {n \in S : n <= k}
<1>0. \A j \in S : j \in Int
  OBVIOUS
<1>1. A \in SUBSET Int /\ B \in SUBSET Int
  BY <1>0
<1>2. IsFiniteSet(A) /\ IsFiniteSet(B)
  BY FS_Subset
<1>3. Above(S, k, dflt) = IF A = {} THEN dflt ELSE Min(A)
  BY DEF Above
<1>4. Below(S, k, dflt) = IF B = {} THEN dflt ELSE Max(B)
  BY DEF Below
<1>5. A # {} => Min(A) \in A /\ \A j \in A : Min(A) <= j
  BY <1>1, <1>2, MinMax
<1>6. B # {} => Max(B) \in B /\ \A j \in B : j <= Max(B)
  BY <1>1, <1>2, MinMax
<1>7. ASSUME \A j \in S : j < k PROVE A = {}
  <2>1. \A j \in S : ~ (j >= k)
    BY <1>0, <1>7
  <2> QED
    BY <2>1
<1>8. ASSUME \A j \in S : j > k PROVE B = {}
  <2>1. \A j \in S : ~ (j <= k)
    BY <1>0, <1>8
  <2> QED
    BY <2>1
<1>9. ASSUME A # {} PROVE /\ Above(S, k, dflt) \in S /\ Above(S, k, dflt) >= k
                          /\ \A j \in S : j >= k => Above(S, k, dflt) <= j
  BY <1>3, <1>5, <1>9
<1>10. ASSUME B # {} PROVE /\ Below(S, k, dflt) \in S /\ Below(S, k, dflt) <= k
                           /\ \A j \in S : j <= k => Below(S, k, dflt) >= j
  BY <1>4, <1>6, <1>10
<1>11. (\E j \in S : j >= k) => A # {}
  OBVIOUS
<1>12. (\E j \in S : j <= k) => B # {}
  OBVIOUS
<1> HIDE DEF A, B
<1> QED
  BY <1>3, <1>4, <1>7, <1>8, <1>9, <1>10, <1>11, <1>12

MemWalks(S, i) == i \in S \cup {ListHead, Null}

(* A walk over a memtable *)
LEMMA MemMoves ==
  ASSUME NEW S \in SUBSET (Nat \ {0}), IsFiniteSet(S), NEW r \in BOOLEAN
  PROVE  /\ ~ MemRewindPanics(S, r) => MemWalks(S, MemRewind(S, r)) /\ IsFirst(r, S, MemPeek(MemRewind(S, r)))
         /\ MemWalks(S, MemNext(S, r, MemNew(r))) /\ IsFirst(r, S, MemPeek(MemNext(S, r, MemNew(r))))
         /\ \A k \in Nat \ {0} : /\ MemWalks(S, MemSeek(S, r, k))
                                 /\ IsFirst(r, Onward(r, S, k), MemPeek(MemSeek(S, r, k)))
         /\ \A i : MemWalks(S, i) =>
              /\ MemPeek(i) \in S \cup {None}
              /\ MemPeek(i) # None => /\ MemWalks(S, MemNext(S, r, i))
                                      /\ IsFirst(r, Beyond(r, S, MemPeek(i)), MemPeek(MemNext(S, r, i)))
<1>1. S \in SUBSET Nat /\ S \in SUBSET Int /\ \A j \in S : j \in Nat /\ j # 0
  OBVIOUS
<1>2. \A j \in S : MemPeek(j) = j /\ j # None /\ j # ListHead /\ j # Null
  BY <1>1 DEF MemPeek, None, ListHead, Null
<1>3. MemPeek(ListHead) = None /\ MemPeek(Null) = None
  BY DEF MemPeek, ListHead, Null
<1>4. S # {} => /\ Min(S) \in S /\ Max(S) \in S /\ \A j \in S : Min(S) <= j /\ j <= Max(S)
  BY <1>1, MinMax
<1>a. S # {} => IsFirst(r, S, IF r THEN Max(S) ELSE Min(S))
  <2>1. ASSUME NEW j \in S PROVE ~ After(r, IF r THEN Max(S) ELSE Min(S), j)
    <3>1. j \in Int /\ Min(S) \in Int /\ Max(S) \in Int /\ Min(S) <= j /\ j <= Max(S)
      BY <1>1, <1>4
    <3> QED
      BY <3>1 DEF After
  <2>2. S # {} => (IF r THEN Max(S) ELSE Min(S)) \in S
    BY <1>4
  <2> QED
    BY <2>1, <2>2 DEF IsFirst
<1>b. IsFirst(r, {}, None)
  BY DEF IsFirst
<1>c. MemWalks(S, SeekToLast(S)) /\ (r => IsFirst(r, S, MemPeek(SeekToLast(S))))
  BY <1>2, <1>3, <1>4, <1>a, <1>b DEF SeekToLast, MemWalks
<1>5. ASSUME ~ MemRewindPanics(S, r)
      PROVE  MemWalks(S, MemRewind(S, r)) /\ IsFirst(r, S, MemPeek(MemRewind(S, r)))
  <2>1. CASE r
    BY <2>1, <1>c DEF MemRewind
  <2>2. CASE ~ r
    BY <2>2, <1>5, <1>2, <1>4, <1>a DEF MemRewind, MemRewindPanics, MemWalks
  <2> QED
    BY <2>1, <2>2
<1>6. ASSUME NEW k \in Int, NEW d \in {ListHead, Null}, NEW W, r,
             W \subseteq S, \A j \in S : j \in W <=> j <= k
      PROVE  /\ MemWalks(S, Below(S, k, d)) /\ IsFirst(r, W, MemPeek(Below(S, k, d)))
  <2>1. MemWalks(S, Below(S, k, d))
    BY <1>1, NearIs DEF MemWalks
  <2>2. CASE W = {}
    <3>1. \A j \in S : j > k
      BY <2>2, <1>1, <1>6
    <3>2. Below(S, k, d) = d
      BY <3>1, <1>1, NearIs
    <3> QED
      BY <2>1, <2>2, <3>2, <1>3, <1>b
  <2>3. CASE W # {}
    <3>1. \E j \in S : j <= k
      BY <2>3, <1>6
    <3>a. /\ Below(S, k, d) \in S /\ Below(S, k, d) <= k
          /\ \A j \in S : j <= k => Below(S, k, d) >= j
      BY <3>1, <1>1, NearIs
    <3>2. PICK q \in S : q = Below(S, k, d) /\ q <= k /\ \A j \in S : j <= k => q >= j
      BY <3>a
    <3>3. q \in W /\ \A j \in W : ~ After(r, q, j)
      BY <3>2, <1>1, <1>6 DEF After
    <3> QED
      BY <2>1, <2>3, <3>2, <3>3, <1>2 DEF IsFirst
  <2> QED
    BY <2>2, <2>3
<1>7. ASSUME NEW k \in Int, NEW d \in {ListHead, Null}, NEW W, ~ r,
             W \subseteq S, \A j \in S : j \in W <=> j >= k
      PROVE  /\ MemWalks(S, Above(S, k, d)) /\ IsFirst(r, W, MemPeek(Above(S, k, d)))
  <2>1. MemWalks(S, Above(S, k, d))
    BY <1>1, NearIs DEF MemWalks
  <2>2. CASE W = {}
    <3>1. \A j \in S : j < k
      BY <2>2, <1>1, <1>7
    <3>2. Above(S, k, d) = d
      BY <3>1, <1>1, NearIs
    <3> QED
      BY <2>1, <2>2, <3>2, <1>3, <1>b
  <2>3. CASE W # {}
    <3>1. \E j \in S : j >= k
      BY <2>3, <1>7
    <3>a. /\ Above(S, k, d) \in S /\ Above(S, k, d) >= k
          /\ \A j \in S : j >= k => Above(S, k, d) <= j
      BY <3>1, <1>1, NearIs
    <3>2. PICK q \in S : q = Above(S, k, d) /\ q >= k /\ \A j \in S : j >= k => q <= j
      BY <3>a
    <3>3. q \in W /\ \A j \in W : ~ After(r, q, j)
      BY <3>2, <1>1, <1>7 DEF After
    <3> QED
      BY <2>1, <2>3, <3>2, <3>3, <1>2 DEF IsFirst
  <2> QED
    BY <2>2, <2>3
<1>8. /\ MemWalks(S, MemNext(S, r, MemNew(r))) /\ IsFirst(r, S, MemPeek(MemNext(S, r, MemNew(r))))
  <2>1. CASE r
    <3>1. MemNext(S, r, MemNew(r)) = SeekToLast(S)
      <4>1. MemNew(r) = Null
        BY <2>1 DEF MemNew
      <4> QED
        BY <4>1, <2>1 DEF MemNext, Null, ListHead
    <3> QED
      BY <3>1, <2>1, <1>c
  <2>2. CASE ~ r
    <3>1. MemNext(S, r, MemNew(r)) = Above(S, 0, Null)
      BY <2>2 DEF MemNext, MemNew, ListHead, Null
    <3>2. S \subseteq S /\ \A j \in S : j \in S <=> j >= 0
      BY <1>1
    <3> QED
      BY <3>1, <3>2, <2>2, <1>7
  <2> QED
    BY <2>1, <2>2
<1>9. ASSUME NEW k \in Nat \ {0}
      PROVE  MemWalks(S, MemSeek(S, r, k)) /\ IsFirst(r, Onward(r, S, k), MemPeek(MemSeek(S, r, k)))
  <2>1. CASE r
    <3>1. MemSeek(S, r, k) = Below(S, k, ListHead)
      BY <2>1 DEF MemSeek
    <3>2. Onward(r, S, k) \subseteq S /\ \A j \in S : j \in Onward(r, S, k) <=> j <= k
      BY <2>1, <1>1 DEF Onward, After
    <3>3. k \in Int
      OBVIOUS
    <3> QED
      BY <3>1, <3>2, <3>3, <2>1, <1>6
  <2>2. CASE ~ r
    <3>1. MemSeek(S, r, k) = Above(S, k, ListHead)
      BY <2>2 DEF MemSeek
    <3>2. Onward(r, S, k) \subseteq S /\ \A j \in S : j \in Onward(r, S, k) <=> j >= k
      BY <2>2, <1>1 DEF Onward, After
    <3> QED
      BY <3>1, <3>2, <2>2, <1>7
  <2> QED
    BY <2>1, <2>2
<1>10. ASSUME NEW i \in S
       PROVE  /\ MemWalks(S, MemNext(S, r, i))
              /\ IsFirst(r, Beyond(r, S, i), MemPeek(MemNext(S, r, i)))
  <2>a. i \in Nat /\ i # ListHead /\ i # Null
    BY <1>1, <1>2
  <2>1. CASE r
    <3>1. MemNext(S, r, i) = Below(S, i - 1, ListHead) /\ i - 1 \in Int
      BY <2>1, <2>a DEF MemNext
    <3>2. Beyond(r, S, i) \subseteq S /\ \A j \in S : j \in Beyond(r, S, i) <=> j <= i - 1
      BY <2>1, <2>a, <1>1 DEF Beyond, After
    <3> QED
      BY <3>1, <3>2, <2>1, <1>6
  <2>2. CASE ~ r
    <3>1. MemNext(S, r, i) = Above(S, i + 1, Null) /\ i + 1 \in Int
      BY <2>2, <2>a DEF MemNext
    <3>2. Beyond(r, S, i) \subseteq S /\ \A j \in S : j \in Beyond(r, S, i) <=> j >= i + 1
      BY <2>2, <2>a, <1>1 DEF Beyond, After
    <3> QED
      BY <3>1, <3>2, <2>2, <1>7
  <2> QED
    BY <2>1, <2>2
<1>11. ASSUME NEW i, MemWalks(S, i)
       PROVE  /\ MemPeek(i) \in S \cup {None}
              /\ MemPeek(i) # None => i \in S /\ MemPeek(i) = i
  BY <1>11, <1>2, <1>3 DEF MemWalks
<1> QED
  BY <1>5, <1>8, <1>9, <1>10, <1>11

-----------------------------------------------------------------------------
(***************************************************************************)
(* The trait Xiterator                                                     *)
(***************************************************************************)

ItShape(c, i) == c.kind = "concat" => ConcatShape(c.tables, i)

(* Positioned: at a key or past the last one *)
ItWalks(c, r, i) ==
  CASE c.kind = "table" -> TableAt(c.tables[1], i) \/ TableEnd(c.tables[1], r, i)
    [] c.kind = "concat" -> ConcatWalks(c.tables, r, i)
    [] c.kind = "memtable" -> MemWalks(SourceKeys(c), i)

(* Positioned at the first of the keys K *)
Reaches(c, r, i, K) == ItWalks(c, r, i) /\ IsFirst(r, K, ItPeek(c, i))

(* What an iterator does, step by step *)
NewGood(c, r) == ItShape(c, ItNew(c, r)) /\ Reaches(c, r, ItNext(c, r, ItNew(c, r)), SourceKeys(c))
RewindGood(c, r, i) ==
  /\ ItShape(c, i) => ItShape(c, ItRewind(c, r, i))
  /\ ~ ItRewindPanics(c, r) => Reaches(c, r, ItRewind(c, r, i), SourceKeys(c))
SeekGood(c, r, k, i) ==
  /\ ItShape(c, i) => ItShape(c, ItSeek(c, r, k, i))
  /\ ItShape(c, i) => IsFirst(r, Onward(r, SourceKeys(c), k), ItPeek(c, ItSeek(c, r, k, i)))
  /\ c.kind # "concat" => ItWalks(c, r, ItSeek(c, r, k, i))
NextGood(c, r, i) ==
  /\ ItShape(c, i) => ItShape(c, ItNext(c, r, i))
  /\ ItWalks(c, r, i) =>
       /\ ItPeek(c, i) \in SourceKeys(c) \cup {None}
       /\ ItPeek(c, i) # None => Reaches(c, r, ItNext(c, r, i), Beyond(r, SourceKeys(c), ItPeek(c, i)))
       /\ ItPeek(c, i) = None /\ c.kind # "memtable" => Reaches(c, r, ItNext(c, r, i), {})

(* A table *)
LEMMA TableIsSource ==
  ASSUME NEW c, SourceOK(c), c.kind = "table", NEW r \in BOOLEAN
  PROVE  /\ NewGood(c, r)
         /\ \A i : RewindGood(c, r, i) /\ NextGood(c, r, i)
         /\ \A i : \A k \in Nat \ {0} : SeekGood(c, r, k, i)
<1>1. PICK t : t = c.tables[1]
  OBVIOUS
<1>2. TableOK(t) /\ SourceKeys(c) = TableKeys(t)
  BY <1>1 DEF SourceOK
<1>3. \A i : ItShape(c, i) /\ (ItWalks(c, r, i) <=> TableAt(t, i) \/ TableEnd(t, r, i)) /\ ItPeek(c, i) = TablePeek(t, i)
  BY <1>1 DEF ItShape, ItWalks, ItPeek
<1>4. ASSUME NEW i, NEW K, TablePlaced(t, r, i, K) PROVE Reaches(c, r, i, K)
  BY <1>2, <1>3, <1>4, PlacedShows DEF Reaches
<1>5. NewGood(c, r)
  <2>1. ItNext(c, r, ItNew(c, r)) = TableNext(t, r, TableReset(t, r))
    BY <1>1 DEF ItNext, ItNew
  <2>2. TablePlaced(t, r, TableNext(t, r, TableReset(t, r)), TableKeys(t))
    BY <1>2, TableStart
  <2> QED
    BY <2>1, <2>2, <1>2, <1>3, <1>4 DEF NewGood
<1>6. ASSUME NEW i PROVE RewindGood(c, r, i)
  <2>1. ItRewind(c, r, i) = TableRewind(t, r)
    BY <1>1 DEF ItRewind
  <2>2. TablePlaced(t, r, TableRewind(t, r), TableKeys(t))
    BY <1>2, TableStart
  <2> QED
    BY <2>1, <2>2, <1>2, <1>3, <1>4 DEF RewindGood
<1>7. ASSUME NEW i, NEW k \in Nat \ {0} PROVE SeekGood(c, r, k, i)
  <2>1. ItSeek(c, r, k, i) = TableSeek(t, r, k)
    BY <1>1 DEF ItSeek
  <2>2. TablePlaced(t, r, TableSeek(t, r, k), Onward(r, TableKeys(t), k))
    BY <1>2, TableSeekIs
  <2>3. Reaches(c, r, ItSeek(c, r, k, i), Onward(r, SourceKeys(c), k))
    BY <2>1, <2>2, <1>2, <1>4
  <2> QED
    BY <2>3, <1>3 DEF SeekGood, Reaches
<1>8. ASSUME NEW i PROVE NextGood(c, r, i)
  <2>1. ItNext(c, r, i) = TableNext(t, r, i)
    BY <1>1 DEF ItNext
  <2>2. CASE TableAt(t, i)
    <3>1. /\ TablePeek(t, i) \in TableKeys(t) /\ TablePeek(t, i) # None
          /\ TablePlaced(t, r, TableNext(t, r, i), Beyond(r, TableKeys(t), TablePeek(t, i)))
      BY <2>2, <1>2, TableMoves
    <3> QED
      BY <2>1, <3>1, <1>2, <1>3, <1>4 DEF NextGood
  <2>3. CASE TableEnd(t, r, i)
    <3>1. TableEnd(t, r, TableNext(t, r, i)) /\ TablePeek(t, i) = None
          /\ TablePeek(t, TableNext(t, r, i)) = None
      BY <2>3, <1>2, TableMoves
    <3>2. Reaches(c, r, ItNext(c, r, i), {})
      BY <2>1, <3>1, <1>3 DEF Reaches, IsFirst
    <3> QED
      BY <2>1, <3>1, <3>2, <1>3 DEF NextGood
  <2> QED
    BY <2>2, <2>3, <1>3 DEF NextGood
<1> QED
  BY <1>5, <1>6, <1>7, <1>8

(* The tables of a level *)
LEMMA ConcatIsSource ==
  ASSUME NEW c, SourceOK(c), c.kind = "concat", NEW r \in BOOLEAN
  PROVE  /\ NewGood(c, r)
         /\ \A i : RewindGood(c, r, i) /\ NextGood(c, r, i)
         /\ \A i : \A k \in Nat \ {0} : SeekGood(c, r, k, i)
<1>1. PICK ts : ts = c.tables
  OBVIOUS
<1>2. TablesOK(ts) /\ SourceKeys(c) = TablesKeys(ts)
  BY <1>1 DEF SourceOK, TablesOK, TablesKeys
<1>3. \A i : /\ (ItShape(c, i) <=> ConcatShape(ts, i)) /\ (ItWalks(c, r, i) <=> ConcatWalks(ts, r, i))
             /\ ItPeek(c, i) = ConcatPeek(ts, i) /\ ItNext(c, r, i) = ConcatNext(ts, r, i)
             /\ ItRewind(c, r, i) = ConcatRewind(ts, r, i)
  BY <1>1 DEF ItShape, ItWalks, ItPeek, ItNext, ItRewind
<1>4. ItNew(c, r) = ConcatNew(ts, r)
  BY <1>1 DEF ItNew
<1>5. NewGood(c, r)
  BY <1>2, <1>3, <1>4, ConcatMoves DEF NewGood, Reaches
<1>6. ASSUME NEW i PROVE RewindGood(c, r, i)
  BY <1>2, <1>3, ConcatMoves DEF RewindGood, Reaches
<1>7. ASSUME NEW i, NEW k \in Nat \ {0} PROVE SeekGood(c, r, k, i)
  <2>1. ItSeek(c, r, k, i) = ConcatSeek(ts, r, k, i)
    BY <1>1 DEF ItSeek
  <2>2. ConcatShape(ts, i) =>
          /\ ConcatShape(ts, ConcatSeek(ts, r, k, i))
          /\ IsFirst(r, Onward(r, TablesKeys(ts), k), ConcatPeek(ts, ConcatSeek(ts, r, k, i)))
    BY <1>2, ConcatSeekIs
  <2> QED
    BY <2>1, <2>2, <1>2, <1>3 DEF SeekGood
<1>8. ASSUME NEW i PROVE NextGood(c, r, i)
  <2>1. ConcatShape(ts, i) => ConcatShape(ts, ConcatNext(ts, r, i))
    BY <1>2, ConcatMoves
  <2>2. ConcatWalks(ts, r, i) =>
              /\ ConcatPeek(ts, i) \in TablesKeys(ts) \cup {None}
              /\ ConcatWalks(ts, r, ConcatNext(ts, r, i))
              /\ IsFirst(r, IF ConcatPeek(ts, i) = None THEN {} ELSE Beyond(r, TablesKeys(ts), ConcatPeek(ts, i)),
                         ConcatPeek(ts, ConcatNext(ts, r, i)))
    BY <1>2, ConcatMoves
  <2> QED
    BY <2>1, <2>2, <1>2, <1>3 DEF NextGood, Reaches
<1> QED
  BY <1>5, <1>6, <1>7, <1>8

(* A memtable *)
LEMMA MemIsSource ==
  ASSUME NEW c, SourceOK(c), c.kind = "memtable", NEW r \in BOOLEAN
  PROVE  /\ NewGood(c, r)
         /\ \A i : RewindGood(c, r, i) /\ NextGood(c, r, i)
         /\ \A i : \A k \in Nat \ {0} : SeekGood(c, r, k, i)
<1>1. PICK S : S = SourceKeys(c)
  OBVIOUS
<1>2. S \in SUBSET (Nat \ {0}) /\ IsFiniteSet(S)
  BY <1>1 DEF SourceOK
<1>3. \A i : /\ ItShape(c, i) /\ (ItWalks(c, r, i) <=> MemWalks(S, i))
             /\ ItPeek(c, i) = MemPeek(i) /\ ItNext(c, r, i) = MemNext(S, r, i)
             /\ ItRewind(c, r, i) = MemRewind(S, r)
  BY <1>1 DEF ItShape, ItWalks, ItPeek, ItNext, ItRewind
<1>4. ItNew(c, r) = MemNew(r) /\ (ItRewindPanics(c, r) <=> MemRewindPanics(S, r))
  BY <1>1 DEF ItNew, ItRewindPanics
<1>5. NewGood(c, r)
  BY <1>1, <1>2, <1>3, <1>4, MemMoves DEF NewGood, Reaches
<1>6. ASSUME NEW i PROVE RewindGood(c, r, i)
  BY <1>1, <1>2, <1>3, <1>4, MemMoves DEF RewindGood, Reaches
<1>7. ASSUME NEW i, NEW k \in Nat \ {0} PROVE SeekGood(c, r, k, i)
  <2>1. ItSeek(c, r, k, i) = MemSeek(S, r, k)
    BY <1>1 DEF ItSeek
  <2>2. MemWalks(S, MemSeek(S, r, k)) /\ IsFirst(r, Onward(r, S, k), MemPeek(MemSeek(S, r, k)))
    BY <1>2, MemMoves
  <2> QED
    BY <2>1, <2>2, <1>1, <1>3 DEF SeekGood
<1>8. ASSUME NEW i PROVE NextGood(c, r, i)
  <2>1. MemWalks(S, i) =>
              /\ MemPeek(i) \in S \cup {None}
              /\ MemPeek(i) # None => /\ MemWalks(S, MemNext(S, r, i))
                                      /\ IsFirst(r, Beyond(r, S, MemPeek(i)), MemPeek(MemNext(S, r, i)))
    BY <1>2, MemMoves
  <2> QED
    BY <2>1, <1>1, <1>3 DEF NextGood, Reaches
<1> QED
  BY <1>5, <1>6, <1>7, <1>8

(* Whatever the source is *)
LEMMA SourceMoves ==
  ASSUME NEW c, SourceOK(c), NEW r \in BOOLEAN
  PROVE  /\ NewGood(c, r)
         /\ \A i : RewindGood(c, r, i) /\ NextGood(c, r, i)
         /\ \A i : \A k \in Nat \ {0} : SeekGood(c, r, k, i)
<1>1. c.kind \in {"table", "concat", "memtable"}
  BY DEF SourceOK
<1> QED
  BY <1>1, TableIsSource, ConcatIsSource, MemIsSource

-----------------------------------------------------------------------------
(***************************************************************************)
(* MergeIterator                                                           *)
(***************************************************************************)

Items == [key : Nat, ver : Nat, del : BOOLEAN]

SourcesOK(cs) == Len(cs) \in Nat /\ DOMAIN cs = 1 .. Len(cs) /\ \A n \in DOMAIN cs : SourceOK(cs[n])

(* The keys from somewhere on *)
Ray(r, R) == R \in SUBSET Nat /\ \A a \in R : \A b \in Nat : After(r, b, a) => b \in R

(***************************************************************************)
(* A source c in a merge that has the keys R ahead of it: its item h in    *)
(* the heap is the one its iterator is at, and none of the keys W that are *)
(* owed has been passed, but for the internal one.                         *)
(***************************************************************************)
HeapAt(c, r, i, h, R, W) ==
  /\ ItShape(c, i) /\ ItWalks(c, r, i)
  /\ h \in Items /\ h.key = ItPeek(c, i) /\ (h.key = None => h = NoItem)
  /\ h.key # None => h.key \in R
  /\ \A k \in W \cap R : k # HeadKey => h.key # None /\ ~ After(r, h.key, k)

MergeShape(cs, x) ==
  /\ x = [its |-> x.its, heap |-> x.heap, cur |-> x.cur, panics |-> x.panics]
  /\ x.its = [n \in DOMAIN cs |-> x.its[n]] /\ x.heap = [n \in DOMAIN cs |-> x.heap[n]]

MergeAt(cs, r, x, R, D) ==
  \A n \in DOMAIN cs : HeapAt(cs[n], r, x.its[n], x.heap[n], R, D[n])

Owes(cs, D) == \A n \in DOMAIN cs : D[n] \subseteq SourceKeys(cs[n])

(* An item in the heap *)
LEMMA ItemIs ==
  ASSUME NEW c, SourceOK(c), NEW r \in BOOLEAN, NEW i, ItWalks(c, r, i)
  PROVE  /\ ItemAt(c, i) \in Items /\ ItemAt(c, i).key = ItPeek(c, i)
         /\ ItemAt(c, i).key = None => ItemAt(c, i) = NoItem
         /\ ItemAt(c, i).key # None => /\ ItemAt(c, i).key \in SourceKeys(c)
                                       /\ ItemAt(c, i).ver = c.recs[ItPeek(c, i)].ver
                                       /\ ItemAt(c, i).del = c.recs[ItPeek(c, i)].del
<1>1. PICK k : k = ItPeek(c, i)
  OBVIOUS
<1>2. k \in SourceKeys(c) \cup {None}
  BY <1>1, SourceMoves DEF NextGood
<1>3. ASSUME k \in SourceKeys(c) PROVE k \in Nat /\ c.recs[k].ver \in Nat /\ c.recs[k].del \in BOOLEAN
  <2>1. SourceKeys(c) \subseteq Nat /\ c.recs \in [SourceKeys(c) -> [ver : Nat, del : BOOLEAN]]
    BY DEF SourceOK
  <2>2. c.recs[k] \in [ver : Nat, del : BOOLEAN]
    BY <1>3, <2>1
  <2> QED
    BY <1>3, <2>1, <2>2
<1>4. CASE k = None
  BY <1>1, <1>4 DEF ItemAt, NoItem, Items, None
<1>5. CASE k # None
  <2>1. ItemAt(c, i) = [key |-> k, ver |-> c.recs[k].ver, del |-> c.recs[k].del]
    BY <1>1, <1>5 DEF ItemAt
  <2>2. k \in Nat /\ c.recs[k].ver \in Nat /\ c.recs[k].del \in BOOLEAN /\ k \in SourceKeys(c)
    BY <1>2, <1>3, <1>5
  <2> QED
    BY <2>1, <2>2, <1>1, <1>5 DEF Items
<1> QED
  BY <1>4, <1>5

(* IterRef::cmp: the top is a first key, of the first source that has it. *)
LEMMA HeapTopIs ==
  ASSUME NEW w \in Nat, NEW heap, DOMAIN heap = 1 .. w, NEW r \in BOOLEAN,
         \A n \in 1 .. w : heap[n] \in Items /\ (heap[n].key = None => heap[n] = NoItem),
         NEW p \in 1 .. w, heap[p] # NoItem
  PROVE  \E t \in 1 .. w :
           /\ HeapTop(heap, r) = t /\ heap[t].key # None
           /\ \A n \in 1 .. w : heap[n].key # None => ~ After(r, heap[t].key, heap[n].key)
           /\ \A n \in 1 .. w : heap[n].key = heap[t].key => t <= n
<1> DEFINE full == {n \in DOMAIN heap : heap[n] # NoItem}
           keys == {heap[n].key : n \in full}
           k == IF r THEN Max(keys) ELSE Min(keys)
           S == {n \in full : heap[n].key = k}
<1>1. IsFiniteSet(1 .. w)
  BY FS_Interval
<1>2. IsFiniteSet(full)
  BY <1>1, FS_Subset
<1>3. IsFiniteSet(keys)
  <2>1. [n \in full |-> heap[n].key] \in Surjection(full, keys)
    BY DEF Surjection
  <2> QED
    BY <2>1, <1>2, FS_Surjection DEF ExistsSurjection
<1>4. \A n \in 1 .. w : n \in full <=> heap[n].key # None
  BY DEF NoItem
<1>5. keys \in SUBSET Nat /\ keys \in SUBSET Int
  BY DEF Items
<1>6. keys # {}
  OBVIOUS
<1>7. k \in keys /\ \A j \in keys : ~ After(r, k, j)
  <2> HIDE DEF keys
  <2>1. Min(keys) \in keys /\ Max(keys) \in keys /\ \A a \in keys : Min(keys) <= a /\ a <= Max(keys)
    BY <1>3, <1>5, <1>6, MinMax
  <2>2. \A a \in keys : a \in Int
    BY <1>5
  <2>3. CASE r
    BY <2>1, <2>2, <2>3 DEF After
  <2>4. CASE ~ r
    BY <2>1, <2>2, <2>4 DEF After
  <2> QED
    BY <2>3, <2>4
<1>8. S # {}
  BY <1>7
<1>9. S \in SUBSET Int /\ IsFiniteSet(S) /\ S \in SUBSET (1 .. w)
  <2>1. S \in SUBSET full
    OBVIOUS
  <2>2. IsFiniteSet(S)
    BY <2>1, <1>2, FS_Subset
  <2> QED
    BY <2>2
<1>10. PICK t \in S : t = Min(S) /\ \A n \in S : t <= n
  <2> HIDE DEF S
  <2> QED
    BY <1>8, <1>9, MinMax
<1>11. HeapTop(heap, r) = t
  BY <1>10 DEF HeapTop
<1>12. t \in 1 .. w /\ heap[t].key = k /\ heap[t].key # None
  BY <1>4, <1>9
<1>13. \A n \in 1 .. w : heap[n].key # None => ~ After(r, heap[t].key, heap[n].key)
  BY <1>4, <1>7, <1>12
<1>14. \A n \in 1 .. w : heap[n].key = heap[t].key => t <= n
  <2>1. SUFFICES ASSUME NEW n \in 1 .. w, heap[n].key = heap[t].key PROVE t <= n
    OBVIOUS
  <2>2. n \in S
    BY <2>1, <1>4, <1>12
  <2> QED
    BY <2>2, <1>10
<1> QED
  BY <1>11, <1>12, <1>13, <1>14

(* The three outcomes of _next: nothing left, the internal key on top, an item *)
MergeEnds(cs, r, x, y, R, D) ==
  /\ y = [x EXCEPT !.cur = NoItem]
  /\ \A n \in DOMAIN cs : x.heap[n] = NoItem
  /\ MergeAt(cs, r, y, {}, D)
  /\ \A n \in DOMAIN cs : \A k \in D[n] \cap R : k = HeadKey

MergePanics(cs, x, y) == y = [x EXCEPT !.panics = TRUE] /\ \E n \in DOMAIN cs : x.heap[n].key = HeadKey

MergeTakes(cs, r, x, y, R, D, t) ==
  /\ y.cur = x.heap[t] /\ y.cur # NoItem /\ y.cur.key \in R \cap SourceKeys(cs[t]) /\ y.cur.key # HeadKey
  /\ y.panics = FALSE
  /\ MergeAt(cs, r, y, Beyond(r, Nat, y.cur.key), D)
  /\ \A n \in DOMAIN cs : \A k \in D[n] \cap R : k # HeadKey => ~ After(r, y.cur.key, k)
  /\ \A n \in DOMAIN cs : x.heap[n].key = y.cur.key => t <= n
  /\ \A n \in DOMAIN cs : y.heap[n] = IF x.heap[n].key = y.cur.key THEN ItemAt(cs[n], y.its[n]) ELSE x.heap[n]

(* A source that is popped *)
LEMMA HeapPopped ==
  ASSUME NEW c, SourceOK(c), NEW r \in BOOLEAN, NEW i, NEW h, NEW R, NEW W, HeapAt(c, r, i, h, R, W),
         W \subseteq SourceKeys(c), h.key # None
  PROVE  HeapAt(c, r, ItNext(c, r, i), ItemAt(c, ItNext(c, r, i)), Beyond(r, Nat, h.key), W)
<1>1. PICK j, q, k : j = ItNext(c, r, i) /\ q = ItemAt(c, j) /\ k = h.key
  OBVIOUS
<1>2. ItShape(c, i) /\ ItWalks(c, r, i) /\ k = ItPeek(c, i) /\ k # None
  BY <1>1 DEF HeapAt
<1>3. NextGood(c, r, i)
  BY SourceMoves
<1>4. ItShape(c, j) /\ ItWalks(c, r, j) /\ IsFirst(r, Beyond(r, SourceKeys(c), k), ItPeek(c, j))
  BY <1>1, <1>2, <1>3 DEF NextGood, Reaches
<1>5. q \in Items /\ q.key = ItPeek(c, j) /\ (q.key = None => q = NoItem)
  BY <1>1, <1>4, ItemIs
<1>6. SourceKeys(c) \subseteq Nat \ {None}
  BY DEF SourceOK, None
<1>7. ASSUME q.key # None PROVE q.key \in Beyond(r, Nat, k)
  <2>1. q.key \in Beyond(r, SourceKeys(c), k)
    BY <1>4, <1>5, <1>7 DEF IsFirst
  <2> QED
    BY <2>1, <1>6 DEF Beyond
<1>8. ASSUME NEW z \in W \cap Beyond(r, Nat, k) PROVE q.key # None /\ ~ After(r, q.key, z)
  <2>1. z \in Beyond(r, SourceKeys(c), k)
    BY DEF Beyond
  <2>2. q.key \in Beyond(r, SourceKeys(c), k) /\ ~ After(r, q.key, z)
    BY <2>1, <1>4, <1>5 DEF IsFirst
  <2>3. q.key # None
    BY <2>2, <1>6 DEF Beyond
  <2> QED
    BY <2>2, <2>3
<1> QED
  BY <1>1, <1>4, <1>5, <1>7, <1>8 DEF HeapAt

(* A source that is not *)
LEMMA HeapKept ==
  ASSUME NEW c, SourceOK(c), NEW r \in BOOLEAN, NEW i, NEW h, NEW R, NEW W, HeapAt(c, r, i, h, R, W),
         W \subseteq SourceKeys(c), Ray(r, R), NEW k \in R, h.key # None => After(r, h.key, k)
  PROVE  HeapAt(c, r, i, h, Beyond(r, Nat, k), W)
<1>1. \A z \in Beyond(r, Nat, k) : z \in R
  BY DEF Beyond, Ray
<1>2. h.key # None => h.key \in Beyond(r, Nat, k)
  BY DEF HeapAt, Ray, Beyond
<1> QED
  BY <1>1, <1>2 DEF HeapAt

(* _next *)
LEMMA MergeNextIs ==
  ASSUME NEW cs, SourcesOK(cs), NEW r \in BOOLEAN, NEW R, Ray(r, R), NEW D, Owes(cs, D),
         NEW x, MergeShape(cs, x), MergeAt(cs, r, x, R, D), x.panics = FALSE
  PROVE  /\ MergeShape(cs, MergeNext(cs, r, x))
         /\ \/ MergeEnds(cs, r, x, MergeNext(cs, r, x), R, D)
            \/ MergePanics(cs, x, MergeNext(cs, r, x))
            \/ \E t \in DOMAIN cs : MergeTakes(cs, r, x, MergeNext(cs, r, x), R, D, t)
<1>1. PICK w \in Nat : w = Len(cs) /\ DOMAIN cs = 1 .. w
  BY DEF SourcesOK
<1>2. \A n \in DOMAIN cs : HeapAt(cs[n], r, x.its[n], x.heap[n], R, D[n])
  BY DEF MergeAt
<1>3. PICK y : y = MergeNext(cs, r, x)
  OBVIOUS
<1>4. CASE \A n \in DOMAIN cs : x.heap[n] = NoItem
  <2>1. y = [x EXCEPT !.cur = NoItem]
    BY <1>3, <1>4 DEF MergeNext
  <2>2. MergeShape(cs, y) /\ y.its = x.its /\ y.heap = x.heap
    BY <2>1 DEF MergeShape
  <2>3. NoItem.key = None
    BY DEF NoItem
  <2>4. ASSUME NEW n \in DOMAIN cs, NEW k \in D[n] \cap R PROVE k = HeadKey
    BY <2>3, <1>2, <1>4 DEF HeapAt
  <2>5. MergeAt(cs, r, y, {}, D)
    BY <2>2, <2>3, <1>2, <1>4 DEF MergeAt, HeapAt
  <2> QED
    BY <2>1, <2>2, <2>4, <2>5, <1>3, <1>4 DEF MergeEnds
<1>5. CASE ~ \A n \in DOMAIN cs : x.heap[n] = NoItem
  <2>1. PICK p \in 1 .. w : x.heap[p] # NoItem
    BY <1>1, <1>5
  <2>2. DOMAIN x.heap = 1 .. w
    BY <1>1 DEF MergeShape
  <2>3. \A n \in 1 .. w : x.heap[n] \in Items /\ (x.heap[n].key = None => x.heap[n] = NoItem)
    BY <1>1, <1>2 DEF HeapAt
  <2>4. PICK t \in 1 .. w :
           /\ HeapTop(x.heap, r) = t /\ x.heap[t].key # None
           /\ \A n \in 1 .. w : x.heap[n].key # None => ~ After(r, x.heap[t].key, x.heap[n].key)
           /\ \A n \in 1 .. w : x.heap[n].key = x.heap[t].key => t <= n
    <3>1. PICK hp : hp = x.heap
      OBVIOUS
    <3>2. DOMAIN hp = 1 .. w /\ hp[p] # NoItem
          /\ \A n \in 1 .. w : hp[n] \in Items /\ (hp[n].key = None => hp[n] = NoItem)
      BY <3>1, <2>1, <2>2, <2>3
    <3>3. \E t \in 1 .. w :
           /\ HeapTop(hp, r) = t /\ hp[t].key # None
           /\ \A n \in 1 .. w : hp[n].key # None => ~ After(r, hp[t].key, hp[n].key)
           /\ \A n \in 1 .. w : hp[n].key = hp[t].key => t <= n
      BY <3>2, HeapTopIs
    <3> QED
      BY <3>1, <3>3
  <2>5. PICK c : c = x.heap[t]
    OBVIOUS
  <2>a. t \in DOMAIN cs /\ c.key # None
    BY <2>4, <2>5, <1>1
  <2>6. PICK its : its = [n \in DOMAIN cs |-> IF n \in {q \in DOMAIN cs : x.heap[q].key = c.key}
                                              THEN ItNext(cs[n], r, x.its[n]) ELSE x.its[n]]
    OBVIOUS
  <2>7. y = IF c.key = HeadKey THEN [x EXCEPT !.panics = TRUE]
            ELSE [x EXCEPT !.its = its, !.cur = c,
                    !.heap = [n \in DOMAIN cs |-> IF n \in {q \in DOMAIN cs : x.heap[q].key = c.key}
                                                  THEN ItemAt(cs[n], its[n]) ELSE @[n]]]
    BY <1>3, <1>5, <2>4, <2>5, <2>6, Zenon DEF MergeNext
  <2>8. CASE c.key = HeadKey
    <3>1. y = [x EXCEPT !.panics = TRUE]
      BY <2>7, <2>8
    <3>2. MergeShape(cs, y)
      BY <3>1 DEF MergeShape
    <3> QED
      BY <3>1, <3>2, <2>5, <2>8, <2>a, <1>3 DEF MergePanics
  <2>9. CASE c.key # HeadKey
    <3>1. /\ y.cur = c /\ y.its = its /\ y.panics = FALSE /\ MergeShape(cs, y)
          /\ \A n \in DOMAIN cs : y.heap[n] = IF x.heap[n].key = c.key THEN ItemAt(cs[n], its[n]) ELSE x.heap[n]
      <4>1. PICK hp : hp = [n \in DOMAIN cs |-> IF n \in {q \in DOMAIN cs : x.heap[q].key = c.key}
                                                  THEN ItemAt(cs[n], its[n]) ELSE x.heap[n]]
        OBVIOUS
      <4>2. y = [its |-> its, heap |-> hp, cur |-> c, panics |-> x.panics]
        BY <4>1, <2>7, <2>9 DEF MergeShape
      <4> QED
        BY <4>1, <4>2, <2>6 DEF MergeShape
    <3>2. c.key \in R /\ c.key \in SourceKeys(cs[t]) /\ c # NoItem
      <4>1. HeapAt(cs[t], r, x.its[t], c, R, D[t]) /\ SourceOK(cs[t])
        BY <2>5, <2>a, <1>2 DEF SourcesOK
      <4>2. c.key \in SourceKeys(cs[t])
        <5>1. NextGood(cs[t], r, x.its[t])
          BY <4>1, SourceMoves
        <5> QED
          BY <5>1, <4>1, <2>a DEF HeapAt, NextGood
      <4> QED
        BY <4>1, <4>2, <2>a DEF HeapAt, NoItem
    <3>3. ASSUME NEW n \in DOMAIN cs
          PROVE  HeapAt(cs[n], r, y.its[n], y.heap[n], Beyond(r, Nat, c.key), D[n])
      <4>1. HeapAt(cs[n], r, x.its[n], x.heap[n], R, D[n]) /\ SourceOK(cs[n]) /\ D[n] \subseteq SourceKeys(cs[n])
        BY <1>2 DEF SourcesOK, Owes
      <4>2. CASE x.heap[n].key = c.key
        <5>1. y.its[n] = ItNext(cs[n], r, x.its[n]) /\ y.heap[n] = ItemAt(cs[n], y.its[n])
          BY <4>2, <3>1, <2>6
        <5>2. HeapAt(cs[n], r, ItNext(cs[n], r, x.its[n]), ItemAt(cs[n], ItNext(cs[n], r, x.its[n])),
                     Beyond(r, Nat, x.heap[n].key), D[n])
          BY <4>1, <4>2, <2>a, HeapPopped
        <5> QED
          BY <5>1, <5>2, <4>2
      <4>3. CASE x.heap[n].key # c.key
        <5>1. y.its[n] = x.its[n] /\ y.heap[n] = x.heap[n]
          BY <4>3, <3>1, <2>6
        <5>2. x.heap[n].key # None => After(r, x.heap[n].key, c.key)
          <6>1. ASSUME x.heap[n].key # None PROVE ~ After(r, c.key, x.heap[n].key)
            BY <6>1, <2>4, <2>5, <1>1
          <6>2. x.heap[n].key \in Int /\ c.key \in Int
            BY <2>3, <2>4, <2>5, <1>1 DEF Items
          <6> QED
            BY <6>1, <6>2, <4>3, AfterOrder
        <5> QED
          BY <5>1, <5>2, <4>1, <3>2, HeapKept
      <4> QED
        BY <4>2, <4>3
    <3>4. MergeAt(cs, r, y, Beyond(r, Nat, c.key), D)
      BY <3>3 DEF MergeAt
    <3>5. ASSUME NEW n \in DOMAIN cs, NEW k \in D[n] \cap R, k # HeadKey
          PROVE  ~ After(r, c.key, k)
      <4>1. x.heap[n].key # None /\ ~ After(r, x.heap[n].key, k)
        BY <3>5, <1>2 DEF HeapAt
      <4>2. ~ After(r, c.key, x.heap[n].key)
        BY <4>1, <2>4, <2>5, <1>1
      <4>3. x.heap[n].key \in Int /\ c.key \in Int /\ k \in Int
        BY <2>3, <2>4, <2>5, <1>1 DEF Items, Ray
      <4> QED
        BY <4>1, <4>2, <4>3, AfterOrder
    <3>6. \A n \in DOMAIN cs : x.heap[n].key = c.key => t <= n
      BY <2>4, <2>5, <1>1
    <3>7. MergeTakes(cs, r, x, y, R, D, t)
      BY <2>5, <2>9, <3>1, <3>2, <3>4, <3>5, <3>6 DEF MergeTakes
    <3> QED
      BY <3>1, <3>7, <2>a, <1>3
  <2> QED
    BY <2>8, <2>9
<1> QED
  BY <1>4, <1>5

ShapesOK(cs, x) == \A n \in DOMAIN cs : ItShape(cs[n], x.its[n])

(* The heap as it was filled from the iterators *)
Filled(cs, r, f, R, D) ==
  /\ MergeShape(cs, f) /\ MergeAt(cs, r, f, R, D) /\ f.panics = FALSE /\ f.cur = NoItem
  /\ \A n \in DOMAIN cs : f.heap[n] = ItemAt(cs[n], f.its[n])

(* A source, moved to the first of its keys R but perhaps over the internal one *)
LEMMA HeapFilled ==
  ASSUME NEW c, SourceOK(c), NEW r \in BOOLEAN, NEW i, NEW R, NEW W, W \subseteq SourceKeys(c),
         ItShape(c, i), ItWalks(c, r, i),
         ItPeek(c, i) # None => ItPeek(c, i) \in R,
         \A k \in W \cap R : k # HeadKey => ItPeek(c, i) # None /\ ~ After(r, ItPeek(c, i), k)
  PROVE  HeapAt(c, r, i, ItemAt(c, i), R, W)
<1>1. /\ ItemAt(c, i) \in Items /\ ItemAt(c, i).key = ItPeek(c, i)
      /\ ItemAt(c, i).key = None => ItemAt(c, i) = NoItem
  BY ItemIs
<1> QED
  BY <1>1 DEF HeapAt

(* rewind *)
LEMMA MergeRewindIs ==
  ASSUME NEW cs, SourcesOK(cs), NEW r \in BOOLEAN, NEW D, Owes(cs, D), NEW x, ShapesOK(cs, x),
         \A n \in DOMAIN cs : ~ ItRewindPanics(cs[n], r)
  PROVE  \E f : /\ MergeRewind(cs, r, x) = MergeNext(cs, r, f)
                /\ Filled(cs, r, f, Nat, D)
                /\ \A n \in DOMAIN cs : f.heap[n].key # HeadKey
<1> DEFINE start(n) == ItRewind(cs[n], r, x.its[n])
           on(n) == IF ItPeek(cs[n], start(n)) = HeadKey THEN ItNext(cs[n], r, start(n)) ELSE start(n)
<1>1. PICK f : f = [its |-> [n \in DOMAIN cs |-> on(n)], heap |-> [n \in DOMAIN cs |-> ItemAt(cs[n], on(n))],
                    cur |-> NoItem, panics |-> FALSE]
  OBVIOUS
<1>2. MergeRewind(cs, r, x) = MergeNext(cs, r, f)
  <2>1. MergeFill(cs, [n \in DOMAIN cs |-> on(n)]) = f
    <3>1. PICK its : its = [n \in DOMAIN cs |-> on(n)]
      OBVIOUS
    <3>2. \A n \in DOMAIN cs : its[n] = on(n)
      BY <3>1
    <3>3. [n \in DOMAIN cs |-> ItemAt(cs[n], its[n])] = [n \in DOMAIN cs |-> ItemAt(cs[n], on(n))]
      BY <3>2
    <3>4. MergeFill(cs, its) = f
      BY <3>1, <3>3, <1>1 DEF MergeFill
    <3> QED
      BY <3>1, <3>4
  <2>2. MergeRewind(cs, r, x) = MergeNext(cs, r, MergeFill(cs, [n \in DOMAIN cs |-> on(n)]))
    BY Zenon DEF MergeRewind
  <2> QED
    BY <2>1, <2>2
<1>3. HeadKey # None /\ HeadKey \in Nat
  BY HeadAssumption DEF None
<1>4. ASSUME NEW n \in DOMAIN cs
      PROVE  HeapAt(cs[n], r, on(n), ItemAt(cs[n], on(n)), Nat, D[n]) /\ ItPeek(cs[n], on(n)) # HeadKey
  <2>1. PICK c, i, S : c = cs[n] /\ i = start(n) /\ S = SourceKeys(cs[n])
    OBVIOUS
  <2>2. SourceOK(c) /\ ItShape(c, x.its[n]) /\ ~ ItRewindPanics(c, r) /\ S = SourceKeys(c) /\ D[n] \subseteq S
    BY <2>1 DEF SourcesOK, ShapesOK, Owes
  <2>3. ItShape(c, i) /\ Reaches(c, r, i, S)
    <3>1. RewindGood(c, r, x.its[n])
      BY <2>2, SourceMoves
    <3> QED
      BY <3>1, <2>1, <2>2 DEF RewindGood
  <2>4. NextGood(c, r, i)
    BY <2>2, SourceMoves
  <2>5. S \subseteq Nat /\ \A k \in S : k # None /\ k \in Int
    BY <2>2 DEF SourceOK, None
  <2>6. CASE ItPeek(c, i) # HeadKey
    <3>1. on(n) = i /\ ItPeek(c, i) \in S \cup {None}
      BY <2>1, <2>3, <2>4, <2>6, <2>2 DEF NextGood, Reaches
    <3>2. \A k \in S : ItPeek(c, i) # None /\ ~ After(r, ItPeek(c, i), k)
      BY <2>3, <2>5 DEF Reaches, IsFirst
    <3>3. ItWalks(c, r, i) /\ (ItPeek(c, i) # None => ItPeek(c, i) \in Nat)
      BY <2>3, <2>5, <3>1 DEF Reaches
    <3>4. HeapAt(c, r, i, ItemAt(c, i), Nat, D[n])
      BY <2>2, <2>3, <3>2, <3>3, HeapFilled
    <3> QED
      BY <3>1, <3>4, <2>1, <2>6
  <2>7. CASE ItPeek(c, i) = HeadKey
    <3>1. PICK j : j = ItNext(c, r, i)
      OBVIOUS
    <3>2. on(n) = j
      BY <2>1, <2>7, <3>1
    <3>3. ItShape(c, j) /\ Reaches(c, r, j, Beyond(r, S, HeadKey))
      BY <2>2, <2>3, <2>4, <2>7, <3>1, <1>3 DEF NextGood, Reaches
    <3>4. \A k \in S : ~ After(r, HeadKey, k)
      BY <2>3, <2>7 DEF Reaches, IsFirst
    <3>5. \A k \in S : k # HeadKey => k \in Beyond(r, S, HeadKey)
      BY <3>4, <2>5, <1>3, AfterOrder DEF Beyond
    <3>6. \A k \in S : k # HeadKey => ItPeek(c, j) \in S /\ ItPeek(c, j) # None /\ ~ After(r, ItPeek(c, j), k)
      <4>1. \A k \in Beyond(r, S, HeadKey) : ItPeek(c, j) \in Beyond(r, S, HeadKey) /\ ~ After(r, ItPeek(c, j), k)
        BY <3>3 DEF Reaches, IsFirst
      <4> QED
        BY <4>1, <3>5, <2>5 DEF Beyond
    <3>7. ItPeek(c, j) # None => ItPeek(c, j) \in Beyond(r, S, HeadKey)
      BY <3>3 DEF Reaches, IsFirst
    <3>8. ItPeek(c, j) # HeadKey /\ (ItPeek(c, j) # None => ItPeek(c, j) \in Nat)
      BY <3>7, <2>5, <1>3, AfterOrder DEF Beyond
    <3>9. ItWalks(c, r, j)
      BY <3>3 DEF Reaches
    <3>10. HeapAt(c, r, j, ItemAt(c, j), Nat, D[n])
      BY <2>2, <3>3, <3>6, <3>8, <3>9, HeapFilled
    <3> QED
      BY <3>2, <3>8, <3>10, <2>1
  <2> QED
    BY <2>6, <2>7
<1> HIDE DEF on, start
<1>5. MergeShape(cs, f) /\ f.panics = FALSE /\ f.cur = NoItem
      /\ \A n \in DOMAIN cs : f.its[n] = on(n) /\ f.heap[n] = ItemAt(cs[n], on(n))
  BY <1>1 DEF MergeShape
<1>6. MergeAt(cs, r, f, Nat, D)
  BY <1>4, <1>5 DEF MergeAt
<1>7. \A n \in DOMAIN cs : f.heap[n].key # HeadKey
  BY <1>4, <1>5 DEF HeapAt
<1> QED
  BY <1>2, <1>5, <1>6, <1>7 DEF Filled

(* seek *)
LEMMA MergeSeekIs ==
  ASSUME NEW cs, SourcesOK(cs), NEW r \in BOOLEAN, NEW D, Owes(cs, D), NEW x, ShapesOK(cs, x),
         NEW k \in Nat \ {0}, \A n \in DOMAIN cs : cs[n].kind # "concat"
  PROVE  \E f : /\ MergeSeek(cs, r, k, x) = MergeNext(cs, r, f)
                /\ Filled(cs, r, f, Onward(r, Nat, k), D)
<1> DEFINE on(n) == ItSeek(cs[n], r, k, x.its[n])
<1>1. PICK f : f = [its |-> [n \in DOMAIN cs |-> on(n)], heap |-> [n \in DOMAIN cs |-> ItemAt(cs[n], on(n))],
                    cur |-> NoItem, panics |-> FALSE]
  OBVIOUS
<1>2. MergeSeek(cs, r, k, x) = MergeNext(cs, r, f)
  <2>1. MergeFill(cs, [n \in DOMAIN cs |-> on(n)]) = f
    <3>1. PICK its : its = [n \in DOMAIN cs |-> on(n)]
      OBVIOUS
    <3>2. \A n \in DOMAIN cs : its[n] = on(n)
      BY <3>1
    <3>3. [n \in DOMAIN cs |-> ItemAt(cs[n], its[n])] = [n \in DOMAIN cs |-> ItemAt(cs[n], on(n))]
      BY <3>2
    <3>4. MergeFill(cs, its) = f
      BY <3>1, <3>3, <1>1 DEF MergeFill
    <3> QED
      BY <3>1, <3>4
  <2>2. MergeSeek(cs, r, k, x) = MergeNext(cs, r, MergeFill(cs, [n \in DOMAIN cs |-> on(n)]))
    BY Zenon DEF MergeSeek
  <2> QED
    BY <2>1, <2>2
<1>3. ASSUME NEW n \in DOMAIN cs
      PROVE  HeapAt(cs[n], r, on(n), ItemAt(cs[n], on(n)), Onward(r, Nat, k), D[n])
  <2>1. PICK c, i, S : c = cs[n] /\ i = on(n) /\ S = SourceKeys(cs[n])
    OBVIOUS
  <2>2. SourceOK(c) /\ ItShape(c, x.its[n]) /\ c.kind # "concat" /\ S = SourceKeys(c) /\ D[n] \subseteq S
    BY <2>1 DEF SourcesOK, ShapesOK, Owes
  <2>3. ItShape(c, i) /\ ItWalks(c, r, i) /\ IsFirst(r, Onward(r, S, k), ItPeek(c, i))
    <3>1. SeekGood(c, r, k, x.its[n])
      BY <2>2, SourceMoves
    <3> QED
      BY <3>1, <2>1, <2>2 DEF SeekGood
  <2>4. S \subseteq Nat /\ \A j \in S : j # None
    BY <2>2 DEF SourceOK, None
  <2>5. ItPeek(c, i) # None => ItPeek(c, i) \in Onward(r, Nat, k)
    BY <2>3, <2>4 DEF IsFirst, Onward
  <2>6. ASSUME NEW j \in D[n] \cap Onward(r, Nat, k) PROVE ItPeek(c, i) # None /\ ~ After(r, ItPeek(c, i), j)
    <3>1. j \in Onward(r, S, k)
      BY <2>2 DEF Onward
    <3>2. ItPeek(c, i) \in Onward(r, S, k) /\ ~ After(r, ItPeek(c, i), j)
      BY <3>1, <2>3 DEF IsFirst
    <3> QED
      BY <3>2, <2>4 DEF Onward
  <2>7. HeapAt(c, r, i, ItemAt(c, i), Onward(r, Nat, k), D[n])
    BY <2>2, <2>3, <2>5, <2>6, HeapFilled
  <2> QED
    BY <2>1, <2>7
<1> HIDE DEF on
<1>4. MergeShape(cs, f) /\ f.panics = FALSE /\ f.cur = NoItem
      /\ \A n \in DOMAIN cs : f.its[n] = on(n) /\ f.heap[n] = ItemAt(cs[n], on(n))
  BY <1>1 DEF MergeShape
<1>5. MergeAt(cs, r, f, Onward(r, Nat, k), D)
  BY <1>3, <1>4 DEF MergeAt
<1> QED
  BY <1>2, <1>4, <1>5 DEF Filled

(* The rays of a scan *)
LEMMA Rays ==
  ASSUME NEW r \in BOOLEAN
  PROVE  Ray(r, Nat) /\ Ray(r, {}) /\ \A k \in Nat : Ray(r, Onward(r, Nat, k)) /\ Ray(r, Beyond(r, Nat, k))
<1>1. ASSUME NEW k \in Nat PROVE Ray(r, Onward(r, Nat, k))
  BY AfterOrder DEF Ray, Onward, After
<1>2. ASSUME NEW k \in Nat PROVE Ray(r, Beyond(r, Nat, k))
  BY AfterOrder DEF Ray, Beyond, After
<1> QED
  BY <1>1, <1>2 DEF Ray

-----------------------------------------------------------------------------
(***************************************************************************)
(* The iterators of the store but KV::new_iterator's.                      *)
(***************************************************************************)

CallOK(c) == c = RewindCall \/ \E k \in Nat \ {0} : c = SeekCall(k)

(* All keys are owed. *)
Owed == [n \in DOMAIN src |-> SourceKeys(src[n])]

(* The keys that are left for the merge *)
Ahead(x) == IF x.cur = NoItem THEN {} ELSE Beyond(rev, Nat, x.cur.key)

(* The internal key is on the heap only where HeadReached says it may be. *)
HeadInv(x, c) ==
  \A n \in DOMAIN src : x.heap[n].key # None =>
    /\ x.heap[n].key = HeadKey => HeadReached(n, c)
    /\ c.call = "seek" /\ ~ rev => x.heap[n].key >= c.key

MergeGood(x, c) ==
  /\ MergeAt(src, rev, x, Ahead(x), Owed)
  /\ x.cur \in Items /\ (x.cur.key = None => x.cur = NoItem)
  /\ x.cur # NoItem => x.cur.key \in Keys(src) \ {HeadKey}
  /\ HeadInv(x, c)

SingleAt ==
  IF last = NoCall THEN m.its[1] = ItNew(src[1], rev)
  ELSE /\ ItPeek(src[1], m.its[1]) \in SourceKeys(src[1]) \cup {None}
       /\ (kind = "concat" /\ last.call = "seek") \/ ItWalks(src[1], rev, m.its[1])

CursorInv ==
  kind # "kv" =>
    /\ rev \in BOOLEAN /\ kind \in {"table", "concat", "memtable", "merge"}
    /\ SourcesOK(src) /\ (Single => Len(src) = 1 /\ src[1].kind = kind)
    /\ MergeShape(src, m) /\ m.panics = FALSE /\ ShapesOK(src, m)
    /\ last = NoCall \/ CallOK(last)
    /\ Single => SingleAt
    /\ kind = "merge" /\ last # NoCall => MergeGood(m, last)
    /\ ReplaceAsserts

(* The keys a source shows are its own. *)
LEMMA HeapKeys ==
  ASSUME NEW c, SourceOK(c), NEW r \in BOOLEAN, NEW i, NEW h, NEW R, NEW W, HeapAt(c, r, i, h, R, W)
  PROVE  h.key # None => h.key \in SourceKeys(c) /\ h.key \in Nat
<1>1. NextGood(c, r, i)
  BY SourceMoves
<1>2. ItWalks(c, r, i) /\ h.key = ItPeek(c, i) /\ h.key \in Nat
  BY DEF HeapAt, Items
<1> QED
  BY <1>1, <1>2 DEF NextGood

(* Taking an item keeps the internal key explained. *)
LEMMA HeadTakes ==
  ASSUME SourcesOK(src), rev \in BOOLEAN, NEW x, NEW y, NEW R, NEW D, NEW t \in DOMAIN src,
         MergeAt(src, rev, x, R, D), MergeTakes(src, rev, x, y, R, D, t),
         NEW c, CallOK(c), HeadInv(x, c)
  PROVE  HeadInv(y, c)
<1>1. SUFFICES ASSUME NEW n \in DOMAIN src, y.heap[n].key # None
               PROVE  /\ y.heap[n].key = HeadKey => HeadReached(n, c)
                      /\ c.call = "seek" /\ ~ rev => y.heap[n].key >= c.key
  BY DEF HeadInv
<1>2. PICK k : k = y.cur.key
  OBVIOUS
<1>3. y.heap[n] = IF x.heap[n].key = k THEN ItemAt(src[n], y.its[n]) ELSE x.heap[n]
  BY <1>2 DEF MergeTakes
<1>4. CASE x.heap[n].key # k
  BY <1>1, <1>3, <1>4 DEF HeadInv
<1>5. CASE x.heap[n].key = k
  <2>1. SourceOK(src[n]) /\ SourceOK(src[t])
    BY DEF SourcesOK
  <2>2. HeapAt(src[n], rev, x.its[n], x.heap[n], R, D[n]) /\ HeapAt(src[t], rev, x.its[t], x.heap[t], R, D[t])
    BY DEF MergeAt
  <2>3. HeapAt(src[n], rev, y.its[n], y.heap[n], Beyond(rev, Nat, k), D[n])
    BY <1>2 DEF MergeTakes, MergeAt
  <2>4. k \in SourceKeys(src[t])
    BY <1>2 DEF MergeTakes
  <2>5. k # None /\ k \in Nat
    BY <2>1, <2>4 DEF SourceOK, None
  <2>6. k \in SourceKeys(src[n])
    BY <2>1, <2>2, <2>5, <1>5, HeapKeys
  <2>7. y.heap[n].key \in SourceKeys(src[n]) /\ y.heap[n].key \in Nat
    BY <2>1, <2>3, <1>1, HeapKeys
  <2>8. After(rev, y.heap[n].key, k)
    BY <2>3, <1>1 DEF HeapAt, Beyond
  <2>9. c.call = "seek" /\ ~ rev => k >= c.key
    BY <2>5, <1>5 DEF HeadInv
  <2>10. c.call = "rewind" \/ (c.call = "seek" /\ c.key \in Nat)
    BY DEF CallOK, RewindCall, SeekCall
  <2>11. c.call = "seek" /\ ~ rev => y.heap[n].key >= c.key
    BY <2>5, <2>7, <2>8, <2>9, <2>10 DEF After
  <2>12. ASSUME y.heap[n].key = HeadKey PROVE HeadReached(n, c)
    <3>1. HeadKey \in SourceKeys(src[n]) /\ HeadKey \in Nat
      BY <2>7, <2>12
    <3>2. CASE c.call = "seek"
      BY <3>1, <3>2, <2>10, <2>11, <2>12 DEF HeadReached
    <3>3. CASE c.call = "rewind"
      <4>1. IF rev THEN k > HeadKey ELSE k < HeadKey
        BY <2>5, <2>8, <2>12, <3>1 DEF After
      <4> QED
        BY <4>1, <3>1, <3>3, <2>6 DEF HeadReached
    <3> QED
      BY <3>2, <3>3, <2>10
  <2> QED
    BY <2>11, <2>12
<1> QED
  BY <1>4, <1>5

(* A heap that was just filled *)
LEMMA HeadFilled ==
  ASSUME SourcesOK(src), rev \in BOOLEAN, NEW x, NEW D
  PROVE  /\ (\A n \in DOMAIN src : x.heap[n].key # HeadKey) => HeadInv(x, RewindCall)
         /\ \A k \in Nat \ {0} : MergeAt(src, rev, x, Onward(rev, Nat, k), D) => HeadInv(x, SeekCall(k))
<1>1. RewindCall.call = "rewind"
  BY DEF RewindCall
<1>2. ASSUME NEW k \in Nat \ {0}, MergeAt(src, rev, x, Onward(rev, Nat, k), D), NEW n \in DOMAIN src,
             x.heap[n].key # None
      PROVE  /\ x.heap[n].key = HeadKey => HeadReached(n, SeekCall(k))
             /\ ~ rev => x.heap[n].key >= k
  <2>1. HeapAt(src[n], rev, x.its[n], x.heap[n], Onward(rev, Nat, k), D[n]) /\ SourceOK(src[n])
    BY <1>2 DEF MergeAt, SourcesOK
  <2>2. x.heap[n].key \in SourceKeys(src[n]) /\ x.heap[n].key \in Nat
    BY <2>1, <1>2, HeapKeys
  <2>3. ~ After(rev, k, x.heap[n].key)
    BY <2>1, <1>2 DEF HeapAt, Onward
  <2>4. ~ rev => x.heap[n].key >= k
    BY <2>2, <2>3 DEF After
  <2> QED
    BY <2>2, <2>4 DEF HeadReached, SeekCall
<1> QED
  BY <1>1, <1>2 DEF HeadInv, SeekCall

(* A step of a merge that owes all its keys *)
LEMMA MergeGo ==
  ASSUME SourcesOK(src), rev \in BOOLEAN, NEW x, NEW R, Ray(rev, R), MergeShape(src, x),
         MergeAt(src, rev, x, R, Owed), x.panics = FALSE, NEW c, CallOK(c), HeadInv(x, c)
  PROVE  /\ MergeShape(src, MergeNext(src, rev, x))
         /\ MergeNext(src, rev, x).panics => \E n \in DOMAIN src : HeadReached(n, c)
         /\ ~ MergeNext(src, rev, x).panics =>
              /\ MergeNext(src, rev, x).panics = FALSE
              /\ MergeGood(MergeNext(src, rev, x), c)
              /\ ShapesOK(src, MergeNext(src, rev, x))
              /\ IsFirst(rev, (Keys(src) \ {HeadKey}) \cap R, MergeNext(src, rev, x).cur.key)
<1>1. PICK y : y = MergeNext(src, rev, x)
  OBVIOUS
<1>2. Owes(src, Owed)
  BY DEF Owes, Owed
<1>3. /\ MergeShape(src, y)
      /\ \/ MergeEnds(src, rev, x, y, R, Owed) \/ MergePanics(src, x, y)
         \/ \E t \in DOMAIN src : MergeTakes(src, rev, x, y, R, Owed, t)
  BY <1>1, <1>2, MergeNextIs
<1>4. \A n \in DOMAIN src : Owed[n] = SourceKeys(src[n]) /\ SourceOK(src[n])
  BY DEF Owed, SourcesOK
<1>5. HeadKey # None /\ NoItem.key = None
  BY HeadAssumption DEF None, NoItem
<1>6. CASE MergePanics(src, x, y)
  <2>1. y.panics = TRUE
    BY <1>6 DEF MergePanics, MergeShape
  <2>2. \E n \in DOMAIN src : HeadReached(n, c)
    BY <1>5, <1>6 DEF MergePanics, HeadInv
  <2> QED
    BY <2>1, <2>2, <1>1, <1>3
<1>7. CASE MergeEnds(src, rev, x, y, R, Owed)
  <2>1. y.panics = FALSE /\ y.cur = NoItem /\ y.heap = x.heap /\ MergeAt(src, rev, y, {}, Owed)
    BY <1>7 DEF MergeEnds, MergeShape
  <2>2. HeadInv(y, c)
    BY <2>1 DEF HeadInv
  <2>3. NoItem \in Items
    BY DEF NoItem, Items, None
  <2>4. MergeGood(y, c)
    BY <2>1, <2>2, <2>3 DEF MergeGood, Ahead
  <2>5. ShapesOK(src, y)
    BY <2>1 DEF ShapesOK, MergeAt, HeapAt
  <2>6. (Keys(src) \ {HeadKey}) \cap R = {}
    BY <1>4, <1>7 DEF MergeEnds, Keys
  <2> QED
    BY <2>1, <2>4, <2>5, <2>6, <1>1, <1>3, <1>5 DEF IsFirst
<1>8. ASSUME NEW t \in DOMAIN src, MergeTakes(src, rev, x, y, R, Owed, t)
      PROVE  /\ y.panics = FALSE /\ MergeGood(y, c) /\ ShapesOK(src, y)
             /\ IsFirst(rev, (Keys(src) \ {HeadKey}) \cap R, y.cur.key)
  <2>1. /\ y.cur = x.heap[t] /\ y.cur # NoItem /\ y.cur.key \in R \cap SourceKeys(src[t])
        /\ y.cur.key # HeadKey /\ y.panics = FALSE
        /\ MergeAt(src, rev, y, Beyond(rev, Nat, y.cur.key), Owed)
    BY <1>8 DEF MergeTakes
  <2>2. HeadInv(y, c)
    BY <1>8, HeadTakes
  <2>3. HeapAt(src[t], rev, x.its[t], x.heap[t], R, Owed[t])
    BY DEF MergeAt
  <2>4. y.cur \in Items /\ (y.cur.key = None => y.cur = NoItem)
    BY <2>1, <2>3 DEF HeapAt
  <2>5. y.cur.key \in Keys(src) \ {HeadKey}
    BY <2>1 DEF Keys
  <2>6. MergeGood(y, c)
    BY <2>1, <2>2, <2>4, <2>5 DEF MergeGood, Ahead
  <2>7. ShapesOK(src, y)
    BY <2>1 DEF ShapesOK, MergeAt, HeapAt
  <2>8. ASSUME NEW k \in (Keys(src) \ {HeadKey}) \cap R PROVE ~ After(rev, y.cur.key, k)
    <3>1. PICK n \in DOMAIN src : k \in Owed[n] \cap R
      BY <1>4 DEF Keys
    <3> QED
      BY <3>1, <1>8 DEF MergeTakes
  <2> QED
    BY <2>1, <2>5, <2>6, <2>7, <2>8 DEF IsFirst
<1> QED
  BY <1>1, <1>3, <1>6, <1>7, <1>8

(* What the cursor of SortedCursor walks, and where it is *)
Contents == IF kind = "merge" THEN Keys(src) \ {HeadKey} ELSE Keys(src)

(* A call that positions the iterator at the first of K *)
Lands(K) == last' # NoCall /\ IsFirst(rev, K, Peek') /\ UNCHANGED <<kind, rev, src>>

Stays == UNCHANGED <<kind, rev, src, m, last>>

(* Initially *)
LEMMA CursorInit == Init => CursorInv
<1>1. SUFFICES ASSUME Init, kind # "kv" PROVE CursorInv
  BY DEF CursorInv
<1>2. PICK s \in Stores : kind = s.kind /\ rev = s.rev /\ src = s.src
  BY <1>1 DEF Init
<1>3. StoreOK(s)
  BY StoresAssumption
<1>4. /\ rev \in BOOLEAN /\ kind \in {"table", "concat", "memtable", "merge"}
      /\ Single => Len(src) = 1 /\ src[1].kind = kind
  BY <1>1, <1>2, <1>3 DEF StoreOK, Single
<1>5. SourcesOK(src)
  BY <1>2, <1>3 DEF StoreOK, SourcesOK
<1>6. m = MergeNew(src, rev) /\ last = NoCall /\ panicked = NoCall
  BY <1>1 DEF Init
<1>7. /\ MergeShape(src, m) /\ m.panics = FALSE
      /\ \A n \in DOMAIN src : m.its[n] = ItNew(src[n], rev)
  BY <1>6 DEF MergeNew, MergeShape
<1>8. ShapesOK(src, m)
  <2>1. \A n \in DOMAIN src : NewGood(src[n], rev)
    BY <1>4, <1>5, SourceMoves DEF SourcesOK
  <2> QED
    BY <2>1, <1>7 DEF ShapesOK, NewGood
<1>9. Single => SingleAt
  <2>1. Single => 1 \in DOMAIN src
    BY <1>4, <1>5 DEF SourcesOK
  <2> QED
    BY <2>1, <1>6, <1>7 DEF SingleAt
<1>10. ReplaceAsserts
  BY <1>6 DEF ReplaceAsserts
<1> QED
  BY <1>4, <1>5, <1>6, <1>7, <1>8, <1>9, <1>10 DEF CursorInv

(* A call is not "none". *)
LEMMA CallIs ==
  ASSUME NEW c, CallOK(c)
  PROVE  c # NoCall /\ c.call \in {"rewind", "seek"}
BY DEF CallOK, NoCall, RewindCall, SeekCall

(* A step of an iterator over one source *)
LEMMA SingleStays ==
  ASSUME CursorInv, Single, panicked = NoCall, NEW c, CallOK(c), NEW i, SingleStep(c, i),
         ItShape(src[1], i), ItPeek(src[1], i) \in SourceKeys(src[1]) \cup {None},
         (kind = "concat" /\ c.call = "seek") \/ ItWalks(src[1], rev, i)
  PROVE  CursorInv' /\ Peek' = ItPeek(src[1], i) /\ last' = c /\ UNCHANGED <<kind, rev, src>>
<1>1. /\ rev \in BOOLEAN /\ kind \in {"table", "concat", "memtable"} /\ kind # "kv" /\ kind # "merge"
      /\ SourcesOK(src) /\ Len(src) = 1 /\ src[1].kind = kind
      /\ MergeShape(src, m) /\ m.panics = FALSE /\ ShapesOK(src, m)
  BY DEF CursorInv, Single
<1>2. DOMAIN src = {1}
  BY <1>1 DEF SourcesOK
<1>3. m' = [m EXCEPT !.its[1] = i] /\ last' = c /\ UNCHANGED <<kind, rev, src, panicked>>
  BY DEF SingleStep, sourceVars
<1>4. PICK its, hp, cr : m = [its |-> its, heap |-> hp, cur |-> cr, panics |-> FALSE]
      /\ its = [n \in DOMAIN src |-> its[n]] /\ hp = [n \in DOMAIN src |-> hp[n]]
  BY <1>1 DEF MergeShape
<1>5. PICK jts : jts = [its EXCEPT ![1] = i]
  OBVIOUS
<1>6. jts = [n \in DOMAIN src |-> jts[n]] /\ jts[1] = i
  BY <1>2, <1>4, <1>5
<1>7. m' = [its |-> jts, heap |-> hp, cur |-> cr, panics |-> FALSE]
  BY <1>3, <1>4, <1>5
<1>8. MergeShape(src, m)' /\ m'.panics = FALSE /\ m'.its[1] = i
  <2>1. m'.its = jts /\ m'.heap = hp /\ m'.cur = cr /\ m'.panics = FALSE
    BY <1>7
  <2>2. m' = [its |-> m'.its, heap |-> m'.heap, cur |-> m'.cur, panics |-> m'.panics]
    BY <2>1, <1>7
  <2>3. m'.its = [n \in DOMAIN src |-> m'.its[n]] /\ m'.heap = [n \in DOMAIN src |-> m'.heap[n]]
    BY <2>1, <1>4, <1>6, Zenon
  <2> QED
    BY <2>1, <2>2, <2>3, <1>3, <1>6 DEF MergeShape
<1>9. ShapesOK(src, m)'
  BY <1>2, <1>3, <1>8 DEF ShapesOK
<1>10. SingleAt'
  BY <1>3, <1>8, CallIs DEF SingleAt
<1>11. ReplaceAsserts'
  BY <1>3 DEF ReplaceAsserts
<1>12. Single' /\ Peek' = ItPeek(src[1], i)
  BY <1>1, <1>3, <1>8 DEF Single, Peek
<1> QED
  BY <1>1, <1>3, <1>8, <1>9, <1>10, <1>11, <1>12 DEF CursorInv

(* A panic leaves the iterator where it is. *)
LEMMA CursorPanics ==
  ASSUME CursorInv, kind # "kv", NEW c, Panic(c),
         \/ /\ c.call = "rewind" /\ ~ rev
            /\ \E n \in DOMAIN src : src[n].kind = "memtable" /\ SourceKeys(src[n]) = {}
         \/ \E n \in DOMAIN src : HeadReached(n, c)
  PROVE  CursorInv' /\ Stays
<1>1. Stays /\ panicked' = c
  BY DEF Panic, Stays, sourceVars
<1>2. ReplaceAsserts'
  BY <1>1 DEF ReplaceAsserts, UnwrapsNothing, HeadReached, Stays
<1>3. /\ Single' <=> Single
      /\ SingleAt' <=> SingleAt
      /\ MergeGood(m, last)' <=> MergeGood(m, last)
  BY <1>1 DEF Stays, Single, SingleAt, MergeGood, Ahead, Owed, HeadInv, HeadReached
<1> QED
  BY <1>1, <1>2, <1>3 DEF CursorInv, Stays

(* A step of a merge *)
LEMMA MergeStays ==
  ASSUME CursorInv, kind = "merge", panicked = NoCall, NEW c, CallOK(c), NEW y, MergeStep(c, y),
         y.panics => \/ /\ c.call = "rewind" /\ ~ rev
                        /\ \E n \in DOMAIN src : src[n].kind = "memtable" /\ SourceKeys(src[n]) = {}
                     \/ \E n \in DOMAIN src : HeadReached(n, c),
         ~ y.panics => /\ y.panics = FALSE /\ MergeShape(src, y)
                       /\ MergeGood(y, c) /\ ShapesOK(src, y)
  PROVE  /\ CursorInv'
         /\ \/ Stays
            \/ ~ y.panics /\ last' = c /\ Peek' = y.cur.key /\ UNCHANGED <<kind, rev, src>>
<1>1. CASE y.panics
  <2>1. Panic(c)
    BY <1>1 DEF MergeStep
  <2> QED
    BY <2>1, <1>1, CursorPanics
<1>2. CASE ~ y.panics
  <2>1. m' = y /\ last' = c /\ UNCHANGED <<kind, rev, src, panicked>>
    BY <1>2 DEF MergeStep, sourceVars
  <2>2. ~ Single' /\ ~ Single
    BY <2>1 DEF Single
  <2>3. Peek' = y.cur.key
    BY <2>1, <2>2 DEF Peek
  <2>4. MergeGood(m, last)'
    BY <2>1, <1>2 DEF MergeGood, Ahead, Owed, HeadInv, HeadReached, Keys
  <2>5. ReplaceAsserts'
    BY <2>1 DEF ReplaceAsserts
  <2>6. MergeShape(src, m)' /\ ShapesOK(src, m)' /\ m'.panics = FALSE
    BY <2>1, <1>2
  <2> QED
    BY <2>1, <2>2, <2>3, <2>4, <2>5, <2>6, <1>2 DEF CursorInv
<1> QED
  BY <1>1, <1>2

(* rewind, seek and next of an iterator over one source *)
LEMMA SingleSteps ==
  ASSUME CursorInv, Single, panicked = NoCall
  PROVE  /\ RewindSource => CursorInv' /\ (Stays \/ Lands(Contents))
         /\ \A k \in Nat \ {0} : SeekSource(k) => CursorInv' /\ Lands(Onward(rev, Contents, k))
         /\ NextInSource => CursorInv' /\ Lands(IF last = NoCall THEN Contents
              ELSE IF Peek = None THEN {} ELSE Beyond(rev, Contents, Peek))
<1>1. /\ rev \in BOOLEAN /\ kind \in {"table", "concat", "memtable"} /\ kind # "kv" /\ kind # "merge"
      /\ SourcesOK(src) /\ Len(src) = 1 /\ src[1].kind = kind
      /\ ShapesOK(src, m) /\ SingleAt /\ (last = NoCall \/ CallOK(last))
  BY DEF CursorInv, Single
<1>2. DOMAIN src = {1} /\ SourceOK(src[1]) /\ ItShape(src[1], m.its[1])
  BY <1>1 DEF SourcesOK, ShapesOK
<1>3. PICK c, i : c = src[1] /\ i = m.its[1]
  OBVIOUS
<1>4. Contents = SourceKeys(c) /\ Peek = ItPeek(c, i)
  BY <1>1, <1>2, <1>3 DEF Contents, Keys, Peek, Single
<1>5. NewGood(c, rev) /\ RewindGood(c, rev, i) /\ NextGood(c, rev, i)
  BY <1>1, <1>2, <1>3, SourceMoves
<1>6. ASSUME NEW j, NEW K, K \subseteq SourceKeys(c), IsFirst(rev, K, ItPeek(c, j))
      PROVE  ItPeek(c, j) \in SourceKeys(c) \cup {None}
  BY <1>6 DEF IsFirst
<1>7. ASSUME RewindSource PROVE CursorInv' /\ (Stays \/ Lands(Contents))
  <2>1. CASE ItRewindPanics(c, rev)
    <3>1. Panic(RewindCall)
      BY <2>1, <1>3, <1>7 DEF RewindSource
    <3>2. ~ rev /\ c.kind = "memtable" /\ SourceKeys(c) = {} /\ RewindCall.call = "rewind"
      BY <2>1 DEF ItRewindPanics, MemRewindPanics, RewindCall
    <3> QED
      BY <3>1, <3>2, <1>1, <1>2, <1>3, CursorPanics
  <2>2. CASE ~ ItRewindPanics(c, rev)
    <3>1. PICK j : j = ItRewind(c, rev, i)
      OBVIOUS
    <3>2. SingleStep(RewindCall, j)
      BY <2>2, <3>1, <1>3, <1>7 DEF RewindSource
    <3>3. ItShape(c, j) /\ ItWalks(c, rev, j) /\ IsFirst(rev, SourceKeys(c), ItPeek(c, j))
      BY <2>2, <3>1, <1>2, <1>3, <1>5 DEF RewindGood, Reaches
    <3>4. CallOK(RewindCall)
      BY DEF CallOK
    <3>5. CursorInv' /\ Peek' = ItPeek(c, j) /\ last' = RewindCall /\ UNCHANGED <<kind, rev, src>>
      BY <3>2, <3>3, <3>4, <1>3, <1>6, SingleStays
    <3> QED
      BY <3>3, <3>4, <3>5, <1>4, CallIs DEF Lands
  <2> QED
    BY <2>1, <2>2
<1>8. ASSUME NEW k \in Nat \ {0}, SeekSource(k) PROVE CursorInv' /\ Lands(Onward(rev, Contents, k))
  <2>1. PICK j : j = ItSeek(c, rev, k, i)
    OBVIOUS
  <2>2. SingleStep(SeekCall(k), j)
    BY <2>1, <1>3, <1>8 DEF SeekSource
  <2>3. SeekGood(c, rev, k, i)
    BY <1>1, <1>2, <1>3, SourceMoves
  <2>4. /\ ItShape(c, j) /\ (kind # "concat" => ItWalks(c, rev, j))
        /\ IsFirst(rev, Onward(rev, SourceKeys(c), k), ItPeek(c, j))
    BY <2>1, <2>3, <1>1, <1>2, <1>3 DEF SeekGood
  <2>5. CallOK(SeekCall(k)) /\ SeekCall(k).call = "seek"
    BY DEF CallOK, SeekCall
  <2>6. ItPeek(c, j) \in SourceKeys(c) \cup {None}
    <3>1. Onward(rev, SourceKeys(c), k) \subseteq SourceKeys(c)
      BY DEF Onward
    <3> QED
      BY <3>1, <2>4, <1>6
  <2>7. CursorInv' /\ Peek' = ItPeek(c, j) /\ last' = SeekCall(k) /\ UNCHANGED <<kind, rev, src>>
    BY <2>2, <2>4, <2>5, <2>6, <1>3, SingleStays
  <2> QED
    BY <2>4, <2>5, <2>7, <1>4, CallIs DEF Lands
<1>9. ASSUME NextInSource
      PROVE  CursorInv' /\ Lands(IF last = NoCall THEN Contents
              ELSE IF Peek = None THEN {} ELSE Beyond(rev, Contents, Peek))
  <2>1. PICK j, d : j = ItNext(c, rev, i) /\ d = IF last = NoCall THEN RewindCall ELSE last
    OBVIOUS
  <2>2. SingleStep(d, j)
    BY <2>1, <1>3, <1>9 DEF NextInSource
  <2>3. CallOK(d)
    BY <2>1, <1>1 DEF CallOK
  <2>4. ItShape(c, j)
    BY <2>1, <1>2, <1>3, <1>5 DEF NextGood
  <2>5. ASSUME NEW K, Reaches(c, rev, j, K), K \subseteq SourceKeys(c)
        PROVE  CursorInv' /\ Lands(K)
    <3>1. ItWalks(c, rev, j) /\ IsFirst(rev, K, ItPeek(c, j)) /\ ItPeek(c, j) \in SourceKeys(c) \cup {None}
      BY <2>5, <1>6 DEF Reaches
    <3>2. CursorInv' /\ Peek' = ItPeek(c, j) /\ last' = d /\ UNCHANGED <<kind, rev, src>>
      BY <2>2, <2>3, <2>4, <3>1, <1>3, SingleStays
    <3> QED
      BY <2>3, <3>1, <3>2, CallIs DEF Lands
  <2>6. CASE last = NoCall
    <3>1. i = ItNew(c, rev)
      BY <2>6, <1>1, <1>3 DEF SingleAt
    <3>2. Reaches(c, rev, j, SourceKeys(c))
      BY <3>1, <2>1, <1>5 DEF NewGood
    <3> QED
      BY <3>2, <2>5, <2>6, <1>4
  <2>7. CASE last # NoCall
    <3>1. ItWalks(c, rev, i)
      BY <2>7, <1>1, <1>3, <1>9 DEF SingleAt, NextInSource
    <3>2. CASE ItPeek(c, i) = None
      <4>1. c.kind # "memtable"
        BY <2>7, <3>2, <1>1, <1>3, <1>9 DEF NextInSource
      <4>2. Reaches(c, rev, j, {})
        BY <3>1, <3>2, <4>1, <2>1, <1>5 DEF NextGood
      <4> QED
        BY <4>2, <2>5, <2>7, <3>2, <1>4
    <3>3. CASE ItPeek(c, i) # None
      <4>1. Reaches(c, rev, j, Beyond(rev, SourceKeys(c), ItPeek(c, i)))
        BY <3>1, <3>3, <2>1, <1>5 DEF NextGood
      <4>2. Beyond(rev, SourceKeys(c), ItPeek(c, i)) \subseteq SourceKeys(c)
        BY DEF Beyond
      <4> QED
        BY <4>1, <4>2, <2>5, <2>7, <3>3, <1>4
    <3> QED
      BY <3>2, <3>3
  <2> QED
    BY <2>6, <2>7
<1> QED
  BY <1>7, <1>8, <1>9

(* rewind, seek and next of a merge *)
LEMMA MergeSteps ==
  ASSUME CursorInv, kind = "merge", panicked = NoCall
  PROVE  /\ RewindMerge => CursorInv' /\ (Stays \/ Lands(Contents))
         /\ \A k \in Nat \ {0} : SeekMerge(k) => CursorInv' /\ (Stays \/ Lands(Onward(rev, Contents, k)))
         /\ NextInMerge => CursorInv' /\ (Stays \/ Lands(IF Peek = None THEN {} ELSE Beyond(rev, Contents, Peek)))
<1>1. /\ rev \in BOOLEAN /\ SourcesOK(src) /\ MergeShape(src, m) /\ m.panics = FALSE /\ ShapesOK(src, m)
      /\ last = NoCall \/ CallOK(last)
      /\ last # NoCall => MergeGood(m, last)
  BY DEF CursorInv
<1>2. Contents = Keys(src) \ {HeadKey} /\ Peek = m.cur.key
  BY DEF Contents, Peek, Single
<1>3. Owes(src, Owed)
  BY DEF Owes, Owed
<1>4. Contents \subseteq Nat
  BY <1>1, <1>2 DEF Keys, SourcesOK, SourceOK
<1>5. ASSUME NEW x, NEW R, Ray(rev, R), MergeShape(src, x), MergeAt(src, rev, x, R, Owed), x.panics = FALSE,
             NEW c, CallOK(c), HeadInv(x, c), MergeStep(c, MergeNext(src, rev, x))
      PROVE  CursorInv' /\ (Stays \/ Lands(Contents \cap R))
  <2>1. PICK y : y = MergeNext(src, rev, x)
    OBVIOUS
  <2>2. /\ MergeShape(src, y)
        /\ y.panics => \E n \in DOMAIN src : HeadReached(n, c)
        /\ ~ y.panics => /\ y.panics = FALSE /\ MergeGood(y, c) /\ ShapesOK(src, y)
                         /\ IsFirst(rev, Contents \cap R, y.cur.key)
    BY <2>1, <1>1, <1>2, <1>5, MergeGo
  <2>3. MergeStep(c, y)
    BY <2>1, <1>5
  <2>4. /\ CursorInv'
        /\ \/ Stays
           \/ ~ y.panics /\ last' = c /\ Peek' = y.cur.key /\ UNCHANGED <<kind, rev, src>>
    BY <2>2, <2>3, <1>5, MergeStays
  <2> QED
    BY <2>2, <2>4, <1>5, CallIs DEF Lands
<1>6. CallOK(RewindCall) /\ RewindCall.call = "rewind" /\ \A k \in Nat \ {0} : CallOK(SeekCall(k))
  BY DEF CallOK, RewindCall
<1>7. ASSUME RewindMerge PROVE CursorInv' /\ (Stays \/ Lands(Contents))
  <2>1. CASE \E n \in DOMAIN src : ItRewindPanics(src[n], rev)
    <3>1. PICK y : y = MergeRewind(src, rev, m)
      OBVIOUS
    <3>2. y.panics = TRUE
      BY <2>1, <3>1, <1>1 DEF MergeRewind, MergeShape
    <3>3. MergeStep(RewindCall, y)
      BY <3>1, <1>7 DEF RewindMerge
    <3>4. ~ rev /\ \E n \in DOMAIN src : src[n].kind = "memtable" /\ SourceKeys(src[n]) = {}
      BY <2>1 DEF ItRewindPanics, MemRewindPanics
    <3>5. Panic(RewindCall)
      BY <3>2, <3>3 DEF MergeStep
    <3> QED
      BY <3>4, <3>5, <1>6, CursorPanics
  <2>2. CASE \A n \in DOMAIN src : ~ ItRewindPanics(src[n], rev)
    <3>1. PICK f : /\ MergeRewind(src, rev, m) = MergeNext(src, rev, f)
                   /\ Filled(src, rev, f, Nat, Owed)
                   /\ \A n \in DOMAIN src : f.heap[n].key # HeadKey
      BY <2>2, <1>1, <1>3, MergeRewindIs
    <3>2. HeadInv(f, RewindCall)
      BY <3>1, <1>1, HeadFilled
    <3>3. MergeStep(RewindCall, MergeNext(src, rev, f))
      BY <3>1, <1>7 DEF RewindMerge
    <3>4. Ray(rev, Nat) /\ MergeShape(src, f) /\ MergeAt(src, rev, f, Nat, Owed) /\ f.panics = FALSE
      BY <3>1, <1>1, Rays DEF Filled
    <3>5. Contents \cap Nat = Contents
      BY <1>4
    <3>6. CursorInv' /\ (Stays \/ Lands(Contents \cap Nat))
      BY <3>2, <3>3, <3>4, <1>5, <1>6
    <3> QED
      BY <3>5, <3>6
  <2> QED
    BY <2>1, <2>2
<1>8. ASSUME NEW k \in Nat \ {0}, SeekMerge(k)
      PROVE  CursorInv' /\ (Stays \/ Lands(Onward(rev, Contents, k)))
  <2>1. PICK f : /\ MergeSeek(src, rev, k, m) = MergeNext(src, rev, f)
                 /\ Filled(src, rev, f, Onward(rev, Nat, k), Owed)
    <3>1. \A n \in DOMAIN src : src[n].kind # "concat"
      BY <1>8 DEF SeekMerge
    <3> QED
      BY <3>1, <1>1, <1>3, MergeSeekIs
  <2>2. /\ MergeShape(src, f) /\ MergeAt(src, rev, f, Onward(rev, Nat, k), Owed) /\ f.panics = FALSE
    BY <2>1 DEF Filled
  <2>3. HeadInv(f, SeekCall(k))
    BY <2>2, <1>1, HeadFilled
  <2>4. MergeStep(SeekCall(k), MergeNext(src, rev, f))
    BY <2>1, <1>8 DEF SeekMerge
  <2>5. Ray(rev, Onward(rev, Nat, k))
    BY <1>1, Rays
  <2>6. Contents \cap Onward(rev, Nat, k) = Onward(rev, Contents, k)
    BY <1>4 DEF Onward
  <2>7. CursorInv' /\ (Stays \/ Lands(Contents \cap Onward(rev, Nat, k)))
    BY <2>2, <2>3, <2>4, <2>5, <1>5, <1>6
  <2> QED
    BY <2>6, <2>7
<1>9. ASSUME NextInMerge
      PROVE  CursorInv' /\ (Stays \/ Lands(IF Peek = None THEN {} ELSE Beyond(rev, Contents, Peek)))
  <2>1. last # NoCall /\ CallOK(last) /\ MergeGood(m, last) /\ MergeStep(last, MergeNext(src, rev, m))
    BY <1>1, <1>9 DEF NextInMerge
  <2>2. /\ MergeAt(src, rev, m, Ahead(m), Owed) /\ HeadInv(m, last)
        /\ m.cur \in Items /\ (m.cur.key = None => m.cur = NoItem)
    BY <2>1 DEF MergeGood
  <2>3. NoItem.key = None
    BY DEF NoItem
  <2>4. Ray(rev, Ahead(m))
    BY <2>2, <1>1, Rays DEF Ahead, Items
  <2>5. Contents \cap Ahead(m) = IF Peek = None THEN {} ELSE Beyond(rev, Contents, Peek)
    <3>1. CASE m.cur = NoItem
      BY <3>1, <2>3, <1>2 DEF Ahead
    <3>2. CASE m.cur # NoItem
      <4>1. Ahead(m) = Beyond(rev, Nat, Peek) /\ Peek # None
        BY <3>2, <2>2, <1>2 DEF Ahead
      <4>2. Contents \cap Beyond(rev, Nat, Peek) = Beyond(rev, Contents, Peek)
        BY <1>4 DEF Beyond
      <4> QED
        BY <4>1, <4>2
    <3> QED
      BY <3>1, <3>2
  <2>6. CursorInv' /\ (Stays \/ Lands(Contents \cap Ahead(m)))
    BY <2>1, <2>2, <2>4, <1>1, <1>5
  <2> QED
    BY <2>5, <2>6
<1> QED
  BY <1>7, <1>8, <1>9

(* Every step but those of KV::new_iterator's iterator *)
LEMMA CursorNext ==
  ASSUME CursorInv, Next, kind # "kv"
  PROVE  /\ CursorInv'
         /\ \/ Stays
            \/ Lands(Contents)
            \/ \E k \in Targets : Lands(Onward(rev, Contents, k))
            \/ last # NoCall /\ Lands(IF Peek = None THEN {} ELSE Beyond(rev, Contents, Peek))
<1>1. panicked = NoCall
  BY DEF Next
<1>2. CASE RewindSource
  BY <1>1, <1>2, SingleSteps DEF RewindSource
<1>3. CASE NextInSource
  <2>1. Single
    BY <1>3 DEF NextInSource
  <2>2. CursorInv' /\ Lands(IF last = NoCall THEN Contents
                            ELSE IF Peek = None THEN {} ELSE Beyond(rev, Contents, Peek))
    BY <2>1, <1>1, <1>3, SingleSteps
  <2>3. CASE last = NoCall
    BY <2>2, <2>3
  <2>4. CASE last # NoCall
    BY <2>2, <2>4
  <2> QED
    BY <2>3, <2>4
<1>4. CASE RewindMerge
  BY <1>1, <1>4, MergeSteps DEF RewindMerge
<1>5. CASE NextInMerge
  <2>1. kind = "merge" /\ last # NoCall
    BY <1>5 DEF NextInMerge
  <2> QED
    BY <2>1, <1>1, <1>5, MergeSteps
<1>6. ASSUME NEW k \in Targets, SeekSource(k)
      PROVE  CursorInv' /\ Lands(Onward(rev, Contents, k))
  <2>1. k \in Nat \ {0} /\ Single
    BY <1>6, TargetsAssumption DEF SeekSource
  <2> QED
    BY <2>1, <1>1, <1>6, SingleSteps
<1>7. ASSUME NEW k \in Targets, SeekMerge(k)
      PROVE  CursorInv' /\ (Stays \/ Lands(Onward(rev, Contents, k)))
  <2>1. k \in Nat \ {0} /\ kind = "merge"
    BY <1>7, TargetsAssumption DEF SeekMerge
  <2> QED
    BY <2>1, <1>1, <1>7, MergeSteps
<1>8. \/ RewindSource \/ NextInSource \/ RewindMerge \/ NextInMerge
      \/ \E k \in Targets : SeekSource(k) \/ SeekMerge(k)
  BY DEF Next, Rewind, NextItem, Seek, Put
<1> QED
  BY <1>2, <1>3, <1>4, <1>5, <1>6, <1>7, <1>8

(* The iterator stays of its kind. *)
LEMMA KindStays ==
  ASSUME [Next]_vars
  PROVE  kind' = kind
<1>1. CASE Next
  BY <1>1 DEF Next, RewindSource, NextInSource, SeekSource, SingleStep, RewindMerge, NextInMerge, SeekMerge,
              MergeStep, Rewind, NextItem, Seek, Position, Put, Panic, sourceVars
<1> QED
  BY <1>1 DEF vars

(* CursorInv is inductive. *)
LEMMA CursorStep ==
  ASSUME CursorInv, [Next]_vars
  PROVE  CursorInv'
<1>1. CASE kind = "kv"
  BY <1>1, KindStays DEF CursorInv
<1>2. CASE kind # "kv" /\ Next
  BY <1>2, CursorNext
<1>3. CASE UNCHANGED vars
  BY <1>3 DEF vars, CursorInv, Single, SingleAt, MergeGood, Ahead, Owed, HeadInv, HeadReached, ReplaceAsserts, UnwrapsNothing, Keys
<1> QED
  BY <1>1, <1>2, <1>3

(* First of SortedCursor is what IsFirst says. *)
LEMMA FirstIs ==
  ASSUME rev \in BOOLEAN, NEW S, S \subseteq Nat \ {None}, NEW k, IsFirst(rev, S, k)
  PROVE  SC!First(S) = IF k = None THEN End ELSE k
<1>1. CASE S = {}
  BY <1>1 DEF IsFirst, SC!First
<1>2. CASE S # {} /\ rev
  <2>a. k \in S /\ \A j \in S : ~ After(rev, k, j)
    BY <1>2 DEF IsFirst
  <2>b. k \in Nat /\ k # None /\ \A j \in S : j \in Nat
    BY <2>a
  <2>1. k \in S /\ k \in Nat /\ k # None /\ \A j \in S : j \in Nat /\ k >= j
    BY <2>a, <2>b, <1>2 DEF After
  <2>2. PICK w : w = SC!Max(S)
    OBVIOUS
  <2>3. w \in S /\ \A j \in S : w >= j
    BY <2>1, <2>2 DEF SC!Max
  <2>4. w = k
    BY <2>1, <2>3
  <2> QED
    BY <2>1, <2>2, <2>4, <1>2 DEF SC!First
<1>3. CASE S # {} /\ ~ rev
  <2>a. k \in S /\ \A j \in S : ~ After(rev, k, j)
    BY <1>3 DEF IsFirst
  <2>b. k \in Nat /\ k # None /\ \A j \in S : j \in Nat
    BY <2>a
  <2>1. k \in S /\ k \in Nat /\ k # None /\ \A j \in S : j \in Nat /\ k <= j
    BY <2>a, <2>b, <1>3 DEF After
  <2>2. PICK w : w = SC!Min(S)
    OBVIOUS
  <2>3. w \in S /\ \A j \in S : w <= j
    BY <2>1, <2>2 DEF SC!Min
  <2>4. w = k
    BY <2>1, <2>3
  <2> QED
    BY <2>1, <2>2, <2>4, <1>3 DEF SC!First
<1> QED
  BY <1>1, <1>2, <1>3

(* The variables of SortedCursor *)
Walked == CASE kind = "kv" -> {}
            [] kind = "merge" -> Keys(src) \ {HeadKey}
            [] OTHER -> Keys(src)
Spot == IF kind = "kv" \/ last = NoCall THEN Start
        ELSE IF Peek = None THEN End ELSE Peek

SpotGood ==
  /\ Walked = Contents
  /\ last = NoCall => Spot = Start
  /\ last # NoCall /\ Peek = None => Spot = End
  /\ last # NoCall /\ Peek # None => Spot = Peek

(* What they are *)
LEMMA SpotIs == kind # "kv" => SpotGood
<1> SUFFICES ASSUME kind # "kv" PROVE SpotGood
  OBVIOUS
<1>1. Walked = Contents
  BY DEF Walked, Contents
<1>2. /\ last = NoCall => Spot = Start
      /\ last # NoCall /\ Peek = None => Spot = End
      /\ last # NoCall /\ Peek # None => Spot = Peek
  BY DEF Spot
<1> QED
  BY <1>1, <1>2 DEF SpotGood

(* After a step *)
LEMMA SpotIsNext == kind' # "kv" => SpotGood'
<1>1. (kind # "kv" => SpotGood)'
  BY SpotIs, PTL
<1> QED
  BY <1>1

(* The steps of SortedCursor, on these variables *)
LEMMA CursorMaps ==
  /\ SC!Init <=> Spot = Start
  /\ UNCHANGED <<Walked, rev, Spot>> => UNCHANGED SC!vars
  /\ UNCHANGED <<Walked, rev>> /\ Spot' = SC!First(Walked) => SC!Step
  /\ \A k \in Targets : UNCHANGED <<Walked, rev>>
       /\ Spot' = SC!First({j \in Walked : IF rev THEN j <= k ELSE j >= k}) => SC!Step
  /\ UNCHANGED <<Walked, rev>> /\ Spot = End /\ Spot' = End => SC!Step
  /\ UNCHANGED <<Walked, rev>> /\ Spot # Start /\ Spot # End
       /\ Spot' = SC!First({j \in Walked : IF rev THEN j <= Spot ELSE j >= Spot} \ {Spot}) => SC!Step
<1>1. SC!Init <=> Spot = Start
  BY Zenon DEF SC!Init, Spot
<1>2. UNCHANGED <<Walked, rev, Spot>> => UNCHANGED SC!vars
  BY Zenon DEF SC!vars, Spot, Walked
<1>3. ASSUME UNCHANGED <<Walked, rev>>, Spot' = SC!First(Walked) PROVE SC!Step
  BY <1>3, Zenon DEF SC!Step, SC!Rewind, Spot, Walked
<1>4. ASSUME NEW k \in Targets, UNCHANGED <<Walked, rev>>,
             Spot' = SC!First({j \in Walked : IF rev THEN j <= k ELSE j >= k})
      PROVE SC!Step
  BY <1>4, Zenon DEF SC!Step, SC!Seek, SC!From, Spot, Walked
<1>5. ASSUME UNCHANGED <<Walked, rev>>, Spot = End, Spot' = End PROVE SC!Step
  <2>1. Start # End
    BY DEF Start, End
  <2>2. PICK X : X = SC!First(Walked)
    OBVIOUS
  <2>3. PICK Y : Y = SC!First({j \in Walked : IF rev THEN j <= Spot ELSE j >= Spot} \ {Spot})
    OBVIOUS
  <2>4. SC!Next <=> Spot' = CASE Spot = Start -> X [] Spot = End -> End [] OTHER -> Y
    BY <2>2, <2>3, Zenon DEF SC!Next, SC!From, Spot, Walked
  <2>5. PICK a, b : a = Spot /\ b = Spot'
    OBVIOUS
  <2>6. b = CASE a = Start -> X [] a = End -> End [] OTHER -> Y
    BY <1>5, <2>1, <2>5
  <2>7. SC!Next
    BY <2>4, <2>5, <2>6, Zenon
  <2> QED
    BY <2>7, <1>5, Zenon DEF SC!Step, Walked
<1>6. ASSUME UNCHANGED <<Walked, rev>>, Spot # Start, Spot # End,
             Spot' = SC!First({j \in Walked : IF rev THEN j <= Spot ELSE j >= Spot} \ {Spot})
      PROVE SC!Step
  BY <1>6, Zenon DEF SC!Step, SC!Next, SC!From, Spot, Walked
<1> QED
  BY <1>1, <1>2, <1>3, <1>4, <1>5, <1>6

(* The direction stays. *)
LEMMA RevStays ==
  ASSUME [Next]_vars
  PROVE  rev' = rev
<1>1. CASE Next
  BY <1>1 DEF Next, RewindSource, NextInSource, SeekSource, SingleStep, RewindMerge, NextInMerge, SeekMerge,
              MergeStep, Rewind, NextItem, Seek, Position, Put, Panic, sourceVars
<1> QED
  BY <1>1 DEF vars

(* The keys that are walked are numbers, and None is none of them. *)
LEMMA ContentsAre ==
  ASSUME CursorInv, kind # "kv"
  PROVE  rev \in BOOLEAN /\ Contents \subseteq Nat \ {None} /\ (last # NoCall => Peek \in Contents \cup {None})
<1>1. rev \in BOOLEAN /\ SourcesOK(src) /\ kind \in {"table", "concat", "memtable", "merge"}
  BY DEF CursorInv
<1>2. Contents \subseteq Nat \ {None}
  BY <1>1 DEF Contents, Keys, SourcesOK, SourceOK, None
<1>3. CASE Single
  <2>1. Len(src) = 1 /\ SingleAt /\ kind # "merge"
    BY <1>3 DEF CursorInv, Single
  <2>2. DOMAIN src = {1}
    BY <1>1, <2>1 DEF SourcesOK
  <2>3. Contents = SourceKeys(src[1]) /\ Peek = ItPeek(src[1], m.its[1])
    BY <2>1, <2>2, <1>3 DEF Contents, Keys, Peek
  <2> QED
    BY <2>1, <2>3, <1>1, <1>2 DEF SingleAt
<1>4. CASE kind = "merge"
  <2>1. last # NoCall => MergeGood(m, last)
    BY <1>4 DEF CursorInv
  <2>2. Contents = Keys(src) \ {HeadKey} /\ Peek = m.cur.key /\ NoItem.key = None
    BY <1>4 DEF Contents, Peek, Single, NoItem
  <2>3. MergeGood(m, last) => Peek \in Contents \cup {None}
    BY <2>2 DEF MergeGood
  <2> QED
    BY <2>1, <2>3, <1>1, <1>2
<1> QED
  BY <1>1, <1>3, <1>4 DEF Single

(* Every step is a step of SortedCursor, or none. *)
LEMMA CursorSimulates ==
  ASSUME CursorInv, [Next]_vars
  PROVE  [SC!Step]_SC!vars
<1>1. kind' = kind /\ rev' = rev
  BY KindStays, RevStays
<1>2. CASE kind = "kv"
  <2>1. UNCHANGED <<Walked, rev, Spot>>
    BY <1>1, <1>2 DEF Walked, Spot
  <2> QED
    BY <2>1, CursorMaps
<1>3. CASE UNCHANGED vars
  <2>1. UNCHANGED <<Walked, rev, Spot>>
    BY <1>3 DEF vars, Walked, Spot, Keys, Peek, Single
  <2> QED
    BY <2>1, CursorMaps
<1>4. CASE kind # "kv" /\ Next
  <2>1. SpotGood /\ SpotGood'
    BY <1>1, <1>4, SpotIs, SpotIsNext
  <2>2. rev \in BOOLEAN /\ Contents \subseteq Nat \ {None} /\ (last # NoCall => Peek \in Contents \cup {None})
    BY <1>4, ContentsAre
  <2>3. CASE Stays
    <3>1. UNCHANGED <<Walked, rev, Spot>>
      BY <2>3 DEF Stays, Walked, Spot, Keys, Peek, Single
    <3> QED
      BY <3>1, CursorMaps
  <2>4. ASSUME NEW K, K \subseteq Contents, Lands(K)
        PROVE  /\ UNCHANGED <<Walked, rev>> /\ Walked = Contents
               /\ K = {} => Spot' = End
               /\ Spot' = SC!First(K)
    <3>1. PICK k : k = Peek'
      OBVIOUS
    <3>2. last' # NoCall /\ IsFirst(rev, K, k) /\ UNCHANGED <<kind, rev, src>>
      BY <3>1, <2>4 DEF Lands
    <3>3. UNCHANGED <<Walked, rev>> /\ Walked = Contents
      BY <3>2, <2>1 DEF Walked, Keys, SpotGood
    <3>4. K \subseteq Nat \ {None}
      BY <2>2, <2>4
    <3>5. SC!First(K) = IF k = None THEN End ELSE k
      BY <3>2, <3>4, <2>2, FirstIs
    <3>6. Spot' = IF k = None THEN End ELSE k
      BY <3>1, <3>2, <2>1 DEF SpotGood
    <3>7. K = {} => Spot' = End
      BY <3>2, <3>6 DEF IsFirst
    <3> QED
      BY <3>3, <3>5, <3>6, <3>7
  <2>5. CASE Lands(Contents)
    <3>1. UNCHANGED <<Walked, rev>> /\ Spot' = SC!First(Walked)
      BY <2>4, <2>5
    <3> QED
      BY <3>1, CursorMaps
  <2>6. ASSUME NEW k \in Targets, Lands(Onward(rev, Contents, k)) PROVE SC!Step
    <3>1. Onward(rev, Contents, k) = {j \in Contents : IF rev THEN j <= k ELSE j >= k}
      <4>1. k \in Nat /\ \A j \in Contents : j \in Nat
        BY <2>2, TargetsAssumption
      <4>2. ASSUME NEW j \in Contents PROVE ~ After(rev, k, j) <=> (IF rev THEN j <= k ELSE j >= k)
        BY <4>1, <4>2, <2>2 DEF After
      <4> QED
        BY <4>2 DEF Onward
    <3>2. PICK K : K = Onward(rev, Contents, k)
      OBVIOUS
    <3>3. K \subseteq Contents
      BY <3>1, <3>2
    <3>4. UNCHANGED <<Walked, rev>> /\ Spot' = SC!First(K) /\ Walked = Contents
      BY <3>2, <3>3, <2>4, <2>6
    <3>5. Spot' = SC!First({j \in Walked : IF rev THEN j <= k ELSE j >= k})
      BY <3>1, <3>2, <3>4
    <3> QED
      BY <3>4, <3>5, <2>6, CursorMaps
  <2>7. ASSUME last # NoCall, Lands(IF Peek = None THEN {} ELSE Beyond(rev, Contents, Peek)) PROVE SC!Step
    <3>1. CASE Peek = None
      <4>1. Lands({}) /\ Spot = End
        BY <3>1, <2>7, <2>1 DEF SpotGood
      <4>2. UNCHANGED <<Walked, rev>> /\ Spot' = End
        BY <4>1, <2>4
      <4> QED
        BY <4>1, <4>2, CursorMaps
    <3>2. CASE Peek # None
      <4>1. PICK k : k = Peek
        OBVIOUS
      <4>2. Spot = k /\ Lands(Beyond(rev, Contents, k)) /\ k \in Nat
        BY <4>1, <3>2, <2>7, <2>1, <2>2 DEF SpotGood
      <4>3. Spot # Start /\ Spot # End
        BY <4>2 DEF Start, End
      <4>4. Beyond(rev, Contents, k) = {j \in Contents : IF rev THEN j <= k ELSE j >= k} \ {k}
        <5>1. \A j \in Contents : j \in Nat
          BY <2>2
        <5>2. ASSUME NEW j \in Contents
              PROVE After(rev, j, k) <=> (IF rev THEN j <= k ELSE j >= k) /\ j # k
          BY <4>2, <5>1, <5>2, <2>2 DEF After
        <5> QED
          BY <5>2 DEF Beyond
      <4>5. PICK K : K = Beyond(rev, Contents, k)
        OBVIOUS
      <4>6. K \subseteq Contents
        BY <4>4, <4>5
      <4>7. UNCHANGED <<Walked, rev>> /\ Spot' = SC!First(K) /\ Walked = Contents
        BY <4>2, <4>5, <4>6, <2>4
      <4>8. Spot' = SC!First({j \in Walked : IF rev THEN j <= Spot ELSE j >= Spot} \ {Spot})
        BY <4>2, <4>4, <4>5, <4>7
      <4> QED
        BY <4>3, <4>7, <4>8, CursorMaps
    <3> QED
      BY <3>1, <3>2
  <2> QED
    BY <2>3, <2>5, <2>6, <2>7, <1>4, CursorNext
<1> QED
  BY <1>2, <1>3, <1>4

(* CursorInv is an invariant. *)
LEMMA CursorInvariant == Spec => []CursorInv
<1>1. CursorInv /\ [Next]_vars => CursorInv'
  BY CursorStep
<1> QED
  BY <1>1, CursorInit, PTL DEF Spec

(***************************************************************************)
(* Every iterator of the store but KV::new_iterator's implements           *)
(* SortedCursor: over any tables, levels, memtables and merges of them, in *)
(* both directions, rewind, seek and next land on the key they should.     *)
(***************************************************************************)
THEOREM SpecCursor == Spec => CursorRefined
<1>1. Init => SC!Init
  <2>1. Init => Spot = Start
    BY DEF Init, Spot
  <2> QED
    BY <2>1, CursorMaps
<1>2. CursorInv /\ [Next]_vars => [SC!Step]_SC!vars
  BY CursorSimulates
<1> QED
  BY <1>1, <1>2, CursorInvariant, PTL DEF Spec, SC!Spec, CursorRefined

-----------------------------------------------------------------------------
(***************************************************************************)
(* KV::new_iterator.                                                       *)
(***************************************************************************)

(* What the iterator of a table or a memtable can be, and a merge of them *)
Spots == Int \cup [bpos : Nat, bi : [pos : Nat, last : Nat]]
MergeStates == [its : [DOMAIN src -> Spots], heap : [DOMAIN src -> Items], cur : Items, panics : BOOLEAN]

(***************************************************************************)
(* b is what every key was when the scan was positioned and g the keys     *)
(* that were deleted since.  A record with version v of key k in source n  *)
(* is as new as b if a source from n on owes k, and if it is as new as b   *)
(* and deleted, then the key was deleted in b or since.                    *)
(***************************************************************************)
RecFresh(n, k, v, d, D, b, g) ==
  k \in DOMAIN b =>
    /\ \A p \in DOMAIN src : p >= n /\ k \in D[p] => v >= b[k].ver
    /\ v >= b[k].ver /\ d => b[k].del \/ k \in g

(* The sources still have what was there, and some source owes it. *)
SourceFresh(D, b, g) ==
  /\ Owes(src, D) /\ DOMAIN b \subseteq Nat
  /\ \A k \in DOMAIN b : b[k].ver \in Nat /\ b[k].del \in BOOLEAN /\ \E n \in DOMAIN src : k \in D[n]
  /\ \A n \in DOMAIN src : \A k \in SourceKeys(src[n]) :
       RecFresh(n, k, src[n].recs[k].ver, src[n].recs[k].del, D, b, g)

(* A merge that has the keys R ahead, in a scan positioned by c *)
KvAt(x, R, D, b, g, c) ==
  /\ x \in MergeStates /\ x.panics = FALSE
  /\ MergeAt(src, FALSE, x, R, D)
  /\ \A n \in DOMAIN src : x.heap[n].key # None =>
       RecFresh(n, x.heap[n].key, x.heap[n].ver, x.heap[n].del, D, b, g)
  /\ HeadInv(x, c)

(* An item that a scan may meet *)
ItemGood(q, b, g) ==
  /\ q \in Items /\ q.key # None /\ q.key # HeadKey
  /\ q.key \in DOMAIN b => q.ver >= b[q.key].ver /\ (q.del => b[q.key].del \/ q.key \in g)

CurGood(x, b, g) == x.cur # NoItem => ItemGood(x.cur, b, g) /\ x.cur.key \in Keys(src)

(* The keys a scan must show *)
Wanted(b, g, c) == {k \in DOMAIN b \ (g \cup {HeadKey}) : k >= c.key /\ ~ b[k].del}
Shows(s, k) == \E i \in DOMAIN s : s[i].key = k

(* What was shown, s, and what is queued, q *)
QueueGood(s, q, b, g) ==
  /\ s \in Seq(Items) /\ q \in Seq(Items)
  /\ \A i, j \in DOMAIN s : i < j => s[i].key < s[j].key
  /\ \A i, j \in DOMAIN q : i < j => q[i].key < q[j].key
  /\ \A i \in DOMAIN s : \A j \in DOMAIN q : s[i].key < q[j].key
  /\ \A i \in DOMAIN s : ItemGood(s[i], b, g) /\ ~ s[i].del
  /\ \A i \in DOMAIN q : ItemGood(q[i], b, g) /\ ~ q[i].del

(* The merge's item is still to be queued *)
Pending(s, q, x, b, g, c) ==
  /\ x.cur # NoItem => /\ \A i \in DOMAIN s : s[i].key < x.cur.key
                       /\ \A i \in DOMAIN q : q[i].key < x.cur.key
  /\ \A k \in Wanted(b, g, c) : Shows(s, k) \/ Shows(q, k) \/ (x.cur # NoItem /\ k >= x.cur.key)

(* or is no longer *)
Settled(s, q, x, b, g, c) ==
  /\ x.cur # NoItem => /\ \A i \in DOMAIN s : s[i].key <= x.cur.key
                       /\ \A i \in DOMAIN q : q[i].key <= x.cur.key
  /\ \A k \in Wanted(b, g, c) : Shows(s, k) \/ Shows(q, k) \/ (x.cur # NoItem /\ k > x.cur.key)

(* The keys ahead of a merge, upwards *)
Rest(x) == IF x.cur = NoItem THEN {} ELSE Beyond(FALSE, Nat, x.cur.key)

Scan(D) ==
  /\ SourceFresh(D, base, removed)
  /\ KvAt(m, Rest(m), D, base, removed, last) /\ CurGood(m, base, removed)
  /\ QueueGood(shown, data, base, removed)
  /\ Settled(shown, data, m, base, removed, last)
  /\ data = <<>> => m.cur = NoItem
  /\ item = NoItem => data = <<>>

KvSources ==
  /\ rev = FALSE /\ SourcesOK(src) /\ src = [n \in DOMAIN src |-> src[n]]
  /\ Len(src) > 0 /\ src[1].kind = "memtable" /\ \A n \in DOMAIN src : src[n].kind # "concat"
  /\ puts \in Nat /\ VersionsOK(src, Len(src) + puts)

KvInv ==
  IF kind # "kv" THEN shown = <<>>
  ELSE /\ KvSources
       /\ m \in MergeStates /\ m.panics = FALSE
       /\ item \in Items /\ (item # NoItem => item.key # None)
       /\ last = NoCall => shown = <<>>
       /\ last # NoCall => CallOK(last) /\ \E D : Scan(D)
       /\ ReplaceAsserts

(* An iterator that is at a key or past them is one of Spots. *)
LEMMA SpotsAre ==
  ASSUME NEW c, SourceOK(c), c.kind # "concat", NEW r \in BOOLEAN
  PROVE  ItNew(c, r) \in Spots /\ \A i : ItWalks(c, r, i) => i \in Spots
<1>1. CASE c.kind = "table"
  <2>1. PICK t : t = c.tables[1]
    OBVIOUS
  <2>2. TableOK(t)
    BY <1>1, <2>1 DEF SourceOK
  <2>3. /\ Len(t) \in Nat /\ Len(t) >= 1 /\ DOMAIN t = 1 .. Len(t)
        /\ \A b \in DOMAIN t : Len(t[b]) \in Nat /\ DOMAIN t[b] = 1 .. Len(t[b])
    BY <2>2, TableFacts
  <2>4. ItNew(c, r) \in Spots
    <3>1. ItNew(c, r) = TableReset(t, r)
      BY <1>1, <2>1 DEF ItNew
    <3>2. TableReset(t, r) \in [bpos : Nat, bi : [pos : Nat, last : Nat]]
      BY <2>3 DEF TableReset, NoBlock
    <3> QED
      BY <3>1, <3>2 DEF Spots
  <2>5. ASSUME NEW b \in Nat, NEW e \in Nat PROVE At(b, e) \in Spots
    <3>1. At(b, e) \in [bpos : Nat, bi : [pos : Nat, last : Nat]]
      BY <2>5 DEF At
    <3> QED
      BY <3>1 DEF Spots
  <2>6. ASSUME NEW i, ItWalks(c, r, i) PROVE i \in Spots
    <3>1. TableAt(t, i) \/ TableEnd(t, r, i)
      BY <1>1, <2>1, <2>6 DEF ItWalks
    <3>2. CASE TableAt(t, i)
      <4>1. PICK b \in DOMAIN t : \E e \in DOMAIN t[b] : i = At(b, e)
        BY <3>2 DEF TableAt
      <4>3. PICK e \in DOMAIN t[b] : i = At(b, e)
        BY <4>1
      <4>2. b \in Nat /\ e \in Nat
        BY <2>3
      <4> QED
        BY <4>3, <4>2, <2>5
    <3>3. CASE TableEnd(t, r, i)
      <4>1. Len(t) \in DOMAIN t
        BY <2>3
      <4>2. Len(t[Len(t)]) + 1 \in Nat /\ Len(t) \in Nat /\ Len(t) + 1 \in Nat
        BY <2>3, <4>1
      <4>3. [bpos |-> Len(t) + 1, bi |-> NoBlock] \in Spots
        <5>1. NoBlock \in [pos : Nat, last : Nat]
          BY DEF NoBlock
        <5>2. [bpos |-> Len(t) + 1, bi |-> NoBlock] \in [bpos : Nat, bi : [pos : Nat, last : Nat]]
          BY <4>2, <5>1
        <5> QED
          BY <5>2 DEF Spots
      <4>4. At(Len(t), Len(t[Len(t)]) + 1) \in Spots /\ At(1, 0) \in Spots
        BY <4>2, <2>5
      <4> QED
        BY <3>3, <4>3, <4>4 DEF TableEnd
    <3> QED
      BY <3>1, <3>2, <3>3
  <2> QED
    BY <2>4, <2>6
<1>2. CASE c.kind = "memtable"
  <2>1. ItNew(c, r) \in Int
    BY <1>2 DEF ItNew, MemNew, Null, ListHead
  <2>2. SourceKeys(c) \subseteq Nat
    BY DEF SourceOK
  <2>3. ASSUME NEW i, ItWalks(c, r, i) PROVE i \in Int
    <3>1. i \in SourceKeys(c) \cup {ListHead, Null}
      BY <1>2, <2>3 DEF ItWalks, MemWalks
    <3> QED
      BY <3>1, <2>2 DEF ListHead, Null
  <2> QED
    BY <2>1, <2>3 DEF Spots
<1> QED
  BY <1>1, <1>2 DEF SourceOK

(* The values a merge can have *)
LEMMA StatesAre ==
  ASSUME KvSources
  PROVE  /\ \A x \in MergeStates : /\ MergeShape(src, x) /\ ShapesOK(src, x)
                                   /\ [x EXCEPT !.panics = TRUE] \in MergeStates
         /\ \A y, R, D : MergeShape(src, y) /\ MergeAt(src, FALSE, y, R, D) /\ y.cur \in Items /\ y.panics = FALSE
                         => y \in MergeStates
<1>1. ASSUME NEW x \in MergeStates
      PROVE  MergeShape(src, x) /\ ShapesOK(src, x) /\ [x EXCEPT !.panics = TRUE] \in MergeStates
  <2>1. MergeShape(src, x)
    BY DEF MergeShape, MergeStates
  <2>2. ShapesOK(src, x)
    BY DEF ShapesOK, ItShape, KvSources
  <2>3. [x EXCEPT !.panics = TRUE] \in MergeStates
    BY DEF MergeStates
  <2> QED
    BY <2>1, <2>2, <2>3
<1>2. ASSUME NEW y, NEW R, NEW D, MergeShape(src, y), MergeAt(src, FALSE, y, R, D), y.cur \in Items, y.panics = FALSE
      PROVE  y \in MergeStates
  <2>1. ASSUME NEW n \in DOMAIN src PROVE y.its[n] \in Spots /\ y.heap[n] \in Items
    <3>1. SourceOK(src[n]) /\ src[n].kind # "concat"
      BY DEF KvSources, SourcesOK
    <3>2. HeapAt(src[n], FALSE, y.its[n], y.heap[n], R, D[n])
      BY <1>2, <2>1 DEF MergeAt
    <3>3. ItWalks(src[n], FALSE, y.its[n]) /\ y.heap[n] \in Items
      BY <3>2 DEF HeapAt
    <3> QED
      BY <3>1, <3>3, SpotsAre
  <2>2. y.its \in [DOMAIN src -> Spots] /\ y.heap \in [DOMAIN src -> Items]
    BY <2>1, <1>2 DEF MergeShape
  <2> QED
    BY <2>2, <1>2 DEF MergeShape, MergeStates
<1> QED
  BY <1>1, <1>2

(* An item that is taken from a source *)
LEMMA ItemFresh ==
  ASSUME KvSources, NEW D, NEW b, NEW g, SourceFresh(D, b, g),
         NEW n \in DOMAIN src, NEW i, ItWalks(src[n], FALSE, i), ItemAt(src[n], i).key # None
  PROVE  RecFresh(n, ItemAt(src[n], i).key, ItemAt(src[n], i).ver, ItemAt(src[n], i).del, D, b, g)
<1>1. PICK h : h = ItemAt(src[n], i)
  OBVIOUS
<1>2. SourceOK(src[n])
  BY DEF KvSources, SourcesOK
<1>3. /\ ItemAt(src[n], i).key = ItPeek(src[n], i)
      /\ ItemAt(src[n], i).key # None =>
           /\ ItemAt(src[n], i).key \in SourceKeys(src[n])
           /\ ItemAt(src[n], i).ver = src[n].recs[ItPeek(src[n], i)].ver
           /\ ItemAt(src[n], i).del = src[n].recs[ItPeek(src[n], i)].del
  BY <1>2, ItemIs
<1>4. h.key \in SourceKeys(src[n]) /\ h.ver = src[n].recs[h.key].ver /\ h.del = src[n].recs[h.key].del
  BY <1>1, <1>3, Zenon
<1>5. RecFresh(n, h.key, src[n].recs[h.key].ver, src[n].recs[h.key].del, D, b, g)
  BY <1>4 DEF SourceFresh
<1>6. RecFresh(n, h.key, h.ver, h.del, D, b, g)
  BY <1>4, <1>5, Zenon
<1> QED
  BY <1>1, <1>6

(* What a step of the merge leads to, if it does not panic *)
KvMoved(y, R, D, b, g, c) ==
  /\ KvAt(y, Rest(y), D, b, g, c) /\ CurGood(y, b, g)
  /\ y.cur # NoItem => y.cur.key \in R
  /\ \A k \in DOMAIN b \cap R : k # HeadKey => y.cur # NoItem /\ k >= y.cur.key

(* A step of the merge in a scan *)
LEMMA KvGo ==
  ASSUME KvSources, NEW c, CallOK(c), NEW D, NEW b, NEW g, SourceFresh(D, b, g),
         NEW R, Ray(FALSE, R), NEW x, KvAt(x, R, D, b, g, c)
  PROVE  /\ MergeNext(src, FALSE, x) \in MergeStates
         /\ \/ MergeNext(src, FALSE, x).panics = TRUE /\ \E n \in DOMAIN src : HeadReached(n, c)
            \/ MergeNext(src, FALSE, x).panics = FALSE /\ KvMoved(MergeNext(src, FALSE, x), R, D, b, g, c)
<1>1. PICK y : y = MergeNext(src, FALSE, x)
  OBVIOUS
<1>2. rev = FALSE /\ SourcesOK(src) /\ (\A n \in DOMAIN src : SourceOK(src[n])) /\ DOMAIN src = 1 .. Len(src) /\ Len(src) \in Nat
  BY DEF KvSources, SourcesOK
<1>3. x \in MergeStates /\ x.panics = FALSE /\ MergeAt(src, FALSE, x, R, D) /\ HeadInv(x, c) /\ MergeShape(src, x)
  BY StatesAre DEF KvAt
<1>4. Owes(src, D)
  BY DEF SourceFresh
<1>5. /\ MergeShape(src, y)
      /\ \/ MergeEnds(src, FALSE, x, y, R, D) \/ MergePanics(src, x, y)
         \/ \E t \in DOMAIN src : MergeTakes(src, FALSE, x, y, R, D, t)
  BY <1>1, <1>2, <1>3, <1>4, MergeNextIs
<1>6. HeadKey # None /\ NoItem.key = None /\ NoItem \in Items
  BY HeadAssumption DEF None, NoItem, Items
<1>7. CASE MergePanics(src, x, y)
  <2>1. y = [x EXCEPT !.panics = TRUE] /\ \E n \in DOMAIN src : x.heap[n].key = HeadKey
    BY <1>7 DEF MergePanics
  <2>2. y.panics = TRUE /\ y \in MergeStates
    BY <2>1, <1>3, StatesAre DEF MergeShape
  <2>3. \E n \in DOMAIN src : HeadReached(n, c)
    BY <2>1, <1>3, <1>6 DEF HeadInv
  <2> QED
    BY <2>2, <2>3, <1>1
<1>8. CASE MergeEnds(src, FALSE, x, y, R, D)
  <2>1. y.panics = FALSE /\ y.cur = NoItem /\ y.heap = x.heap /\ MergeAt(src, FALSE, y, {}, D)
    BY <1>3, <1>8 DEF MergeEnds, MergeShape
  <2>2. HeadInv(y, c)
    BY <2>1, <1>3 DEF HeadInv
  <2>3. y \in MergeStates
    BY <2>1, <1>5, <1>6, StatesAre
  <2>4. KvAt(y, Rest(y), D, b, g, c)
    BY <2>1, <2>2, <2>3 DEF KvAt, Rest
  <2>5. ASSUME NEW k \in DOMAIN b \cap R PROVE k = HeadKey
    <3>1. PICK n \in DOMAIN src : k \in D[n]
      BY <2>5 DEF SourceFresh
    <3> QED
      BY <3>1, <1>8 DEF MergeEnds
  <2>6. KvMoved(y, R, D, b, g, c)
    BY <2>1, <2>4, <2>5 DEF KvMoved, CurGood
  <2> QED
    BY <2>1, <2>3, <2>6, <1>1
<1>9. ASSUME NEW t \in DOMAIN src, MergeTakes(src, FALSE, x, y, R, D, t)
      PROVE  y \in MergeStates /\ y.panics = FALSE /\ KvMoved(y, R, D, b, g, c)
  <2>1. PICK q, k : q = y.cur /\ k = q.key
    OBVIOUS
  <2>2. /\ q = x.heap[t] /\ q # NoItem /\ k \in R \cap SourceKeys(src[t]) /\ k # HeadKey
        /\ y.panics = FALSE
        /\ MergeAt(src, FALSE, y, Beyond(FALSE, Nat, k), D)
    BY <1>9, <2>1 DEF MergeTakes
  <2>3. /\ \A n \in DOMAIN src : \A j \in D[n] \cap R : j # HeadKey => ~ After(FALSE, k, j)
        /\ \A n \in DOMAIN src : x.heap[n].key = k => t <= n
        /\ \A n \in DOMAIN src : y.heap[n] = IF x.heap[n].key = k THEN ItemAt(src[n], y.its[n]) ELSE x.heap[n]
    BY <1>9, <2>1 DEF MergeTakes
  <2>4. HeadInv(y, c)
    <3>1. MergeAt(src, rev, x, R, D) /\ MergeTakes(src, rev, x, y, R, D, t) /\ rev \in BOOLEAN
      BY <1>2, <1>3, <1>9
    <3> QED
      BY <3>1, <1>2, <1>3, HeadTakes
  <2>5. HeapAt(src[t], FALSE, x.its[t], x.heap[t], R, D[t])
    BY <1>3 DEF MergeAt
  <2>6. q \in Items /\ k # None /\ k \in Nat
    BY <2>1, <2>2, <2>5, <1>6 DEF HeapAt, Items
  <2>7. y \in MergeStates
    BY <2>1, <2>2, <2>6, <1>5, StatesAre
  <2>8. ASSUME NEW n \in DOMAIN src, y.heap[n].key # None
        PROVE  RecFresh(n, y.heap[n].key, y.heap[n].ver, y.heap[n].del, D, b, g)
    <3>1. CASE x.heap[n].key # k
      <4>1. y.heap[n] = x.heap[n]
        BY <3>1, <2>3
      <4> QED
        BY <4>1, <2>8 DEF KvAt
    <3>2. CASE x.heap[n].key = k
      <4>1. PICK i : i = y.its[n]
        OBVIOUS
      <4>2. y.heap[n] = ItemAt(src[n], i)
        BY <4>1, <3>2, <2>3
      <4>3. ItWalks(src[n], FALSE, i)
        BY <4>1, <2>2 DEF MergeAt, HeapAt
      <4> QED
        BY <4>2, <4>3, <2>8, ItemFresh
    <3> QED
      BY <3>1, <3>2
  <2>9. Rest(y) = Beyond(FALSE, Nat, k)
    BY <2>1, <2>2 DEF Rest
  <2>10. KvAt(y, Rest(y), D, b, g, c)
    BY <2>2, <2>4, <2>7, <2>8, <2>9 DEF KvAt
  <2>11. ASSUME k \in DOMAIN b
         PROVE  q.ver >= b[k].ver /\ (q.del => b[k].del \/ k \in g)
    <3>1. PICK p \in DOMAIN src : k \in D[p]
      BY <2>11 DEF SourceFresh
    <3>2. HeapAt(src[p], FALSE, x.its[p], x.heap[p], R, D[p])
      BY <1>3 DEF MergeAt
    <3>3. x.heap[p].key # None /\ ~ After(FALSE, x.heap[p].key, k) /\ x.heap[p].key \in Nat
      BY <3>1, <3>2, <2>2 DEF HeapAt, Items
    <3>4. x.heap[p].key = k
      <4>1. SUFFICES ASSUME x.heap[p].key # k PROVE FALSE
        OBVIOUS
      <4>2. y.heap[p] = x.heap[p]
        BY <4>1, <2>3
      <4>3. HeapAt(src[p], FALSE, y.its[p], y.heap[p], Beyond(FALSE, Nat, k), D[p])
        BY <2>2 DEF MergeAt
      <4>4. x.heap[p].key \in Beyond(FALSE, Nat, k)
        BY <4>2, <4>3, <3>3 DEF HeapAt
      <4> QED
        BY <4>4, <3>3, <2>6 DEF Beyond, After
    <3>5. t <= p
      BY <3>4, <2>3
    <3>6. RecFresh(t, k, q.ver, q.del, D, b, g)
      BY <2>1, <2>2, <2>6 DEF KvAt
    <3>7. q.ver >= b[k].ver
      BY <3>1, <3>5, <3>6, <2>11, <1>2 DEF RecFresh
    <3> QED
      BY <3>6, <3>7, <2>11 DEF RecFresh
  <2>12. ItemGood(q, b, g) /\ k \in Keys(src)
    BY <2>1, <2>2, <2>6, <2>11 DEF ItemGood, Keys
  <2>13. ASSUME NEW j \in DOMAIN b \cap R, j # HeadKey PROVE j >= k
    <3>1. PICK n \in DOMAIN src : j \in D[n]
      BY <2>13 DEF SourceFresh
    <3>2. ~ After(FALSE, k, j)
      BY <3>1, <2>3, <2>13
    <3>3. j \in Nat
      BY <2>13 DEF SourceFresh
    <3> QED
      BY <3>2, <3>3, <2>6 DEF After
  <2>14. KvMoved(y, R, D, b, g, c)
    BY <2>1, <2>2, <2>10, <2>12, <2>13 DEF KvMoved, CurGood
  <2> QED
    BY <2>2, <2>7, <2>14
<1> QED
  BY <1>1, <1>5, <1>7, <1>8, <1>9

(* rewind and seek of the merge in a scan *)
LEMMA KvFilled ==
  ASSUME KvSources, NEW c, CallOK(c), NEW D, NEW b, NEW g, SourceFresh(D, b, g),
         NEW R, Ray(FALSE, R), NEW f, Filled(src, FALSE, f, R, D), HeadInv(f, c)
  PROVE  KvAt(f, R, D, b, g, c)
<1>1. /\ MergeShape(src, f) /\ MergeAt(src, FALSE, f, R, D) /\ f.panics = FALSE /\ f.cur = NoItem
      /\ \A n \in DOMAIN src : f.heap[n] = ItemAt(src[n], f.its[n])
  BY DEF Filled
<1>2. f \in MergeStates
  <2>1. NoItem \in Items
    BY DEF NoItem, Items, None
  <2> QED
    BY <2>1, <1>1, StatesAre
<1>3. ASSUME NEW n \in DOMAIN src, f.heap[n].key # None
      PROVE  RecFresh(n, f.heap[n].key, f.heap[n].ver, f.heap[n].del, D, b, g)
  <2>1. ItWalks(src[n], FALSE, f.its[n])
    BY <1>1 DEF MergeAt, HeapAt
  <2>2. f.heap[n] = ItemAt(src[n], f.its[n])
    BY <1>1
  <2> QED
    BY <2>1, <2>2, <1>3, ItemFresh
<1> QED
  BY <1>1, <1>2, <1>3 DEF KvAt

(* Where a merge is that was positioned to the keys R *)
Positioned(y, R, D, b, g, c) ==
  /\ y \in MergeStates
  /\ \/ y.panics = TRUE /\ \E n \in DOMAIN src : HeadReached(n, c)
     \/ y.panics = FALSE /\ KvMoved(y, R, D, b, g, c)

(* rewind of the merge: a memtable is empty, or the merge is at its first record. *)
LEMMA KvRewound ==
  ASSUME KvSources, NEW D, NEW b, NEW g, SourceFresh(D, b, g), NEW x \in MergeStates
  PROVE  \/ /\ MergeRewind(src, FALSE, x) \in MergeStates /\ MergeRewind(src, FALSE, x).panics = TRUE
            /\ \E n \in DOMAIN src : src[n].kind = "memtable" /\ SourceKeys(src[n]) = {}
         \/ Positioned(MergeRewind(src, FALSE, x), Nat, D, b, g, RewindCall)
<1>1. MergeShape(src, x) /\ ShapesOK(src, x) /\ [x EXCEPT !.panics = TRUE] \in MergeStates
  BY StatesAre
<1>2. rev = FALSE /\ rev \in BOOLEAN /\ SourcesOK(src) /\ Owes(src, D) /\ CallOK(RewindCall)
  BY DEF KvSources, SourceFresh, CallOK
<1>3. CASE \E n \in DOMAIN src : ItRewindPanics(src[n], FALSE)
  <2>1. MergeRewind(src, FALSE, x) = [x EXCEPT !.panics = TRUE]
    BY <1>3 DEF MergeRewind
  <2>2. \E n \in DOMAIN src : src[n].kind = "memtable" /\ SourceKeys(src[n]) = {}
    BY <1>3 DEF ItRewindPanics, MemRewindPanics
  <2>3. [x EXCEPT !.panics = TRUE].panics = TRUE
    BY <1>1 DEF MergeShape
  <2> QED
    BY <2>1, <2>2, <2>3, <1>1
<1>4. CASE \A n \in DOMAIN src : ~ ItRewindPanics(src[n], FALSE)
  <2>1. PICK f : /\ MergeRewind(src, FALSE, x) = MergeNext(src, FALSE, f)
                 /\ Filled(src, FALSE, f, Nat, D)
                 /\ \A n \in DOMAIN src : f.heap[n].key # HeadKey
    <3>1. PICK r \in BOOLEAN : r = FALSE
      OBVIOUS
    <3>2. \A n \in DOMAIN src : ~ ItRewindPanics(src[n], r)
      BY <3>1, <1>4
    <3>3. \E f : /\ MergeRewind(src, r, x) = MergeNext(src, r, f)
                 /\ Filled(src, r, f, Nat, D)
                 /\ \A n \in DOMAIN src : f.heap[n].key # HeadKey
      BY <3>2, <1>1, <1>2, MergeRewindIs
    <3> QED
      BY <3>1, <3>3
  <2>2. HeadInv(f, RewindCall)
    BY <2>1, <1>2, HeadFilled
  <2>3. Ray(FALSE, Nat)
    BY Rays
  <2>4. KvAt(f, Nat, D, b, g, RewindCall)
    BY <2>1, <2>2, <2>3, <1>2, KvFilled
  <2>5. Positioned(MergeNext(src, FALSE, f), Nat, D, b, g, RewindCall)
    BY <2>3, <2>4, <1>2, KvGo DEF Positioned
  <2> QED
    BY <2>1, <2>5
<1> QED
  BY <1>3, <1>4

(* seek of the merge *)
LEMMA KvSought ==
  ASSUME KvSources, NEW D, NEW b, NEW g, SourceFresh(D, b, g), NEW x \in MergeStates, NEW k \in Nat \ {0}
  PROVE  Positioned(MergeSeek(src, FALSE, k, x), Onward(FALSE, Nat, k), D, b, g, SeekCall(k))
<1>1. MergeShape(src, x) /\ ShapesOK(src, x)
  BY StatesAre
<1>2. /\ rev = FALSE /\ rev \in BOOLEAN /\ SourcesOK(src) /\ Owes(src, D) /\ CallOK(SeekCall(k))
      /\ \A n \in DOMAIN src : src[n].kind # "concat"
  BY DEF KvSources, SourceFresh, CallOK
<1>3. PICK f : /\ MergeSeek(src, FALSE, k, x) = MergeNext(src, FALSE, f)
               /\ Filled(src, FALSE, f, Onward(FALSE, Nat, k), D)
  BY <1>1, <1>2, MergeSeekIs
<1>4. HeadInv(f, SeekCall(k))
  <2>1. MergeAt(src, rev, f, Onward(rev, Nat, k), D)
    BY <1>2, <1>3 DEF Filled
  <2> QED
    BY <2>1, <1>2, HeadFilled
<1>5. Ray(FALSE, Onward(FALSE, Nat, k))
  BY Rays
<1>6. KvAt(f, Onward(FALSE, Nat, k), D, b, g, SeekCall(k))
  BY <1>3, <1>4, <1>5, <1>2, KvFilled
<1>7. Positioned(MergeNext(src, FALSE, f), Onward(FALSE, Nat, k), D, b, g, SeekCall(k))
  BY <1>5, <1>6, <1>2, KvGo DEF Positioned
<1> QED
  BY <1>3, <1>7

(* The keys of a queue *)
LEMMA KeysAre ==
  ASSUME NEW s \in Seq(Items)
  PROVE  \A i \in DOMAIN s : s[i].key \in Nat
<1>1. \A i \in DOMAIN s : s[i] \in Items
  OBVIOUS
<1> QED
  BY <1>1 DEF Items

(* The merge's item joins the queue. *)
LEMMA ItemQueued ==
  ASSUME NEW b, NEW g, NEW c, NEW s, NEW q, NEW x, QueueGood(s, q, b, g), Pending(s, q, x, b, g, c),
         x.cur # NoItem, ItemGood(x.cur, b, g), ~ x.cur.del, DOMAIN b \subseteq Nat
  PROVE  /\ QueueGood(s, Append(q, x.cur), b, g) /\ Settled(s, Append(q, x.cur), x, b, g, c)
         /\ Len(Append(q, x.cur)) = Len(q) + 1 /\ Append(q, x.cur) # <<>>
<1>1. PICK e : e = x.cur
  OBVIOUS
<1>2. s \in Seq(Items) /\ q \in Seq(Items) /\ e \in Items /\ e.key \in Nat /\ Len(q) \in Nat
  BY <1>1 DEF QueueGood, ItemGood, Items
<1>3. PICK u : u = Append(q, e)
  OBVIOUS
<1>4. /\ u \in Seq(Items) /\ Len(u) = Len(q) + 1 /\ u # <<>> /\ DOMAIN u = 1 .. Len(q) + 1
      /\ \A i \in 1 .. Len(q) + 1 : u[i] = IF i = Len(q) + 1 THEN e ELSE q[i]
  BY <1>2, <1>3
<1>5. DOMAIN q = 1 .. Len(q)
  BY <1>2
<1>6. \A i \in DOMAIN q : q[i].key \in Nat
  BY <1>2, KeysAre
<1>7. \A i \in DOMAIN s : s[i].key \in Nat
  BY <1>2, KeysAre
<1>8. (\A i \in DOMAIN s : s[i].key < e.key) /\ (\A i \in DOMAIN q : q[i].key < e.key)
  BY <1>1 DEF Pending
<1>9. QueueGood(s, u, b, g)
  <2>1. ASSUME NEW i \in DOMAIN u, NEW j \in DOMAIN u, i < j PROVE u[i].key < u[j].key
    <3>1. i \in DOMAIN q /\ u[i] = q[i]
      BY <2>1, <1>2, <1>4, <1>5
    <3>2. CASE j = Len(q) + 1
      BY <3>1, <3>2, <1>4, <1>8
    <3>3. CASE j # Len(q) + 1
      <4>1. j \in DOMAIN q /\ u[j] = q[j]
        BY <3>3, <1>2, <1>4, <1>5
      <4> QED
        BY <3>1, <4>1, <2>1 DEF QueueGood
    <3> QED
      BY <3>2, <3>3
  <2>2. ASSUME NEW j \in DOMAIN u
        PROVE (\A i \in DOMAIN s : s[i].key < u[j].key) /\ ItemGood(u[j], b, g) /\ ~ u[j].del
    <3>2. CASE j = Len(q) + 1
      BY <3>2, <1>1, <1>4, <1>8
    <3>3. CASE j # Len(q) + 1
      <4>1. j \in DOMAIN q /\ u[j] = q[j]
        BY <3>3, <1>2, <1>4, <1>5
      <4> QED
        BY <4>1 DEF QueueGood
    <3> QED
      BY <3>2, <3>3
  <2> QED
    BY <2>1, <2>2, <1>4 DEF QueueGood
<1>10. Settled(s, u, x, b, g, c)
  <2>1. \A i \in DOMAIN s : s[i].key <= e.key
    BY <1>2, <1>7, <1>8
  <2>2. ASSUME NEW i \in DOMAIN u PROVE u[i].key <= e.key
    <3>2. CASE i = Len(q) + 1
      BY <3>2, <1>2, <1>4
    <3>3. CASE i # Len(q) + 1
      <4>1. i \in DOMAIN q /\ u[i] = q[i]
        BY <3>3, <1>2, <1>4, <1>5
      <4> QED
        BY <4>1, <1>2, <1>6, <1>8
    <3> QED
      BY <3>2, <3>3
  <2>3. ASSUME NEW k \in Wanted(b, g, c)
        PROVE  Shows(s, k) \/ Shows(u, k) \/ (x.cur # NoItem /\ k > x.cur.key)
    <3>1. k \in Nat
      BY DEF Wanted
    <3>2. Shows(s, k) \/ Shows(q, k) \/ k >= e.key
      BY <1>1 DEF Pending
    <3>3. Shows(q, k) => Shows(u, k)
      <4>1. \A i \in DOMAIN q : i \in DOMAIN u /\ u[i] = q[i]
        BY <1>2, <1>4, <1>5
      <4> QED
        BY <4>1 DEF Shows
    <3>4. k = e.key => Shows(u, k)
      <4>1. Len(q) + 1 \in DOMAIN u /\ u[Len(q) + 1] = e
        BY <1>2, <1>4
      <4> QED
        BY <4>1 DEF Shows
    <3> QED
      BY <3>1, <3>2, <3>3, <3>4, <1>1, <1>2
  <2> QED
    BY <2>1, <2>2, <2>3, <1>1 DEF Settled
<1> QED
  BY <1>1, <1>3, <1>4, <1>9, <1>10

(* The merge's item is the first one that is shown. *)
LEMMA ItemShown ==
  ASSUME NEW b, NEW g, NEW c, NEW x, Pending(<<>>, <<>>, x, b, g, c),
         x.cur # NoItem, ItemGood(x.cur, b, g), ~ x.cur.del, DOMAIN b \subseteq Nat
  PROVE  QueueGood(<<x.cur>>, <<>>, b, g) /\ Settled(<<x.cur>>, <<>>, x, b, g, c)
<1>1. PICK e : e = x.cur
  OBVIOUS
<1>2. e \in Items /\ e.key \in Nat
  BY <1>1 DEF ItemGood, Items
<1>3. PICK u, z : u = <<e>> /\ z = << >>
  OBVIOUS
<1>4. u \in Seq(Items) /\ DOMAIN u = {1} /\ u[1] = e /\ z \in Seq(Items) /\ DOMAIN z = {}
  BY <1>2, <1>3
<1>5. QueueGood(u, z, b, g)
  BY <1>1, <1>4 DEF QueueGood
<1>6. ASSUME NEW k \in Wanted(b, g, c) PROVE Shows(u, k) \/ k > e.key
  <2>1. k \in Nat
    BY DEF Wanted
  <2>2. k >= e.key
    BY <1>1 DEF Pending, Shows
  <2>3. k = e.key => Shows(u, k)
    BY <1>4 DEF Shows
  <2> QED
    BY <2>1, <2>2, <2>3, <1>2
<1>7. Settled(u, z, x, b, g, c)
  BY <1>1, <1>2, <1>4, <1>6 DEF Settled
<1> QED
  BY <1>1, <1>3, <1>5, <1>7

(* The merge's item is deleted, or there is none. *)
LEMMA ItemPassed ==
  ASSUME NEW b, NEW g, NEW c, NEW s, NEW q, NEW x, QueueGood(s, q, b, g), Pending(s, q, x, b, g, c),
         x.cur # NoItem => ItemGood(x.cur, b, g) /\ x.cur.del, DOMAIN b \subseteq Nat
  PROVE  Settled(s, q, x, b, g, c)
<1>1. CASE x.cur = NoItem
  BY <1>1 DEF Pending, Settled
<1>2. CASE x.cur # NoItem
  <2>1. PICK e : e = x.cur
    OBVIOUS
  <2>2. /\ s \in Seq(Items) /\ q \in Seq(Items) /\ e.key \in Nat
        /\ \A i \in DOMAIN s : s[i].key \in Nat
        /\ \A i \in DOMAIN q : q[i].key \in Nat
    BY <2>1, <1>2 DEF QueueGood, ItemGood, Items
  <2>3. (\A i \in DOMAIN s : s[i].key <= e.key) /\ (\A i \in DOMAIN q : q[i].key <= e.key)
    BY <2>1, <2>2, <1>2 DEF Pending
  <2>4. ASSUME NEW k \in Wanted(b, g, c) PROVE Shows(s, k) \/ Shows(q, k) \/ k > e.key
    <3>1. k \in Nat /\ k \in DOMAIN b /\ k \notin g /\ ~ b[k].del
      BY DEF Wanted
    <3>2. k # e.key
      BY <3>1, <2>1, <1>2 DEF ItemGood
    <3>3. Shows(s, k) \/ Shows(q, k) \/ k >= e.key
      BY <2>1 DEF Pending
    <3> QED
      BY <3>1, <3>2, <3>3, <2>2
  <2> QED
    BY <2>1, <2>3, <2>4, <1>2 DEF Settled
<1> QED
  BY <1>1, <1>2

(* The merge moves on. *)
LEMMA MergeMoves ==
  ASSUME NEW D, NEW b, NEW g, NEW c, NEW s, NEW q, NEW x, NEW y, QueueGood(s, q, b, g), Settled(s, q, x, b, g, c),
         x.cur \in Items, KvMoved(y, Rest(x), D, b, g, c), DOMAIN b \subseteq Nat
  PROVE  Pending(s, q, y, b, g, c) /\ (y.cur # NoItem => x.cur # NoItem /\ y.cur.key > x.cur.key)
<1>1. ASSUME y.cur # NoItem
      PROVE  x.cur # NoItem /\ y.cur.key \in Nat /\ x.cur.key \in Nat /\ y.cur.key > x.cur.key
  <2>1. y.cur.key \in Rest(x)
    BY <1>1 DEF KvMoved
  <2> QED
    BY <2>1 DEF Rest, Beyond, After, Items
<1>2. s \in Seq(Items) /\ q \in Seq(Items)
  BY DEF QueueGood
<1>3. (\A i \in DOMAIN s : s[i].key \in Nat) /\ (\A i \in DOMAIN q : q[i].key \in Nat)
  BY <1>2, KeysAre
<1>4. ASSUME y.cur # NoItem
      PROVE  (\A i \in DOMAIN s : s[i].key < y.cur.key) /\ (\A i \in DOMAIN q : q[i].key < y.cur.key)
  BY <1>1, <1>3, <1>4 DEF Settled
<1>5. ASSUME NEW k \in Wanted(b, g, c), x.cur # NoItem, k > x.cur.key
      PROVE  y.cur # NoItem /\ k >= y.cur.key
  <2>1. k \in Nat /\ k \in DOMAIN b /\ k # HeadKey /\ x.cur.key \in Nat
    BY DEF Wanted, Items
  <2>2. k \in Rest(x)
    BY <2>1, <1>5 DEF Rest, Beyond, After
  <2> QED
    BY <2>1, <2>2 DEF KvMoved
<1>6. \A k \in Wanted(b, g, c) : Shows(s, k) \/ Shows(q, k) \/ (y.cur # NoItem /\ k >= y.cur.key)
  BY <1>5 DEF Settled
<1> QED
  BY <1>1, <1>4, <1>6 DEF Pending

(* The merge was positioned. *)
LEMMA QueueBegins ==
  ASSUME NEW D, NEW b, NEW g, NEW c, NEW y, NEW R, KvMoved(y, R, D, b, g, c), DOMAIN b \subseteq Nat,
         \A k \in Nat : k >= c.key => k \in R
  PROVE  QueueGood(<<>>, <<>>, b, g) /\ Pending(<<>>, <<>>, y, b, g, c)
<1>1. PICK z : z = << >>
  OBVIOUS
<1>2. z \in Seq(Items) /\ DOMAIN z = {}
  BY <1>1
<1>3. QueueGood(z, z, b, g)
  BY <1>2 DEF QueueGood
<1>4. ASSUME NEW k \in Wanted(b, g, c) PROVE y.cur # NoItem /\ k >= y.cur.key
  BY <1>4 DEF Wanted, KvMoved
<1>5. Pending(z, z, y, b, g, c)
  BY <1>2, <1>4 DEF Pending
<1> QED
  BY <1>1, <1>3, <1>5

-----------------------------------------------------------------------------
(* The keys of a finite set from a later one on are fewer. *)
LEMMA LeftShrinks ==
  ASSUME NEW K, IsFiniteSet(K), K \subseteq Nat, NEW a \in K, NEW z \in K, a < z
  PROVE  /\ Cardinality({k \in K : k >= z}) \in Nat /\ Cardinality({k \in K : k >= a}) \in Nat
         /\ Cardinality({k \in K : k >= z}) < Cardinality({k \in K : k >= a})
<1> DEFINE A == {k \in K : k >= a}
           Z == {k \in K : k >= z}
<1>1. Z \subseteq A /\ A \subseteq K /\ a \in A /\ a \notin Z
  <2>1. a \in Nat /\ z \in Nat /\ \A k \in K : k \in Nat
    OBVIOUS
  <2>2. a >= a /\ ~ (a >= z) /\ \A k \in K : k >= z => k >= a
    BY <2>1
  <2> QED
    BY <2>2
<1>2. IsFiniteSet(A)
  BY <1>1, FS_Subset
<1>3. IsFiniteSet(Z) /\ Cardinality(Z) <= Cardinality(A) /\ (Cardinality(A) = Cardinality(Z) => A = Z)
  BY <1>1, <1>2, FS_Subset
<1>4. Cardinality(A) \in Nat /\ Cardinality(Z) \in Nat
  BY <1>2, <1>3, FS_CardinalityType
<1> QED
  BY <1>1, <1>3, <1>4

(* A loop that goes up through the keys of K, or stops at None, stops. *)
LEMMA LoopStops ==
  ASSUME NEW K, IsFiniteSet(K), K \subseteq Nat, NEW v, NEW w \in Nat, w = Cardinality(K) + 1,
         \A i \in 0 .. w : v[i] \in K \cup {None},
         \A i \in 1 .. w : v[i] # None => v[i - 1] # None /\ v[i - 1] < v[i]
  PROVE  v[w] = None
<1> DEFINE Left(i) == Cardinality({k \in K : k >= v[i]})
           S == {i \in Nat : i <= w => (v[i] # None => Left(i) + i <= Cardinality(K))}
<1>1. Cardinality(K) \in Nat
  BY FS_CardinalityType
<1>2. ASSUME NEW i PROVE Left(i) \in Nat /\ Left(i) <= Cardinality(K)
  <2>1. {k \in K : k >= v[i]} \subseteq K
    OBVIOUS
  <2>2. IsFiniteSet({k \in K : k >= v[i]}) /\ Cardinality({k \in K : k >= v[i]}) <= Cardinality(K)
    BY <2>1, FS_Subset
  <2> QED
    BY <2>2, FS_CardinalityType
<1>3. 0 \in S
  BY <1>1, <1>2
<1>4. ASSUME NEW i \in S PROVE i + 1 \in S
  <2>1. i \in Nat /\ i + 1 \in Nat
    OBVIOUS
  <2>2. SUFFICES ASSUME i + 1 <= w, v[i + 1] # None PROVE Left(i + 1) + (i + 1) <= Cardinality(K)
    BY <2>1
  <2>3. i + 1 \in 1 .. w /\ i \in 0 .. w /\ i + 1 \in 0 .. w /\ (i + 1) - 1 = i /\ i <= w
    BY <2>1, <2>2
  <2>4. v[i] # None /\ v[i] < v[i + 1]
    BY <2>2, <2>3
  <2>5. v[i] \in K /\ v[i + 1] \in K
    BY <2>2, <2>3, <2>4
  <2>6. Left(i + 1) < Left(i)
    BY <2>4, <2>5, LeftShrinks
  <2>7. Left(i) + i <= Cardinality(K)
    BY <2>3, <2>4
  <2>8. Left(i) \in Nat /\ Left(i + 1) \in Nat
    BY <1>2
  <2> HIDE DEF Left
  <2> QED
    BY <2>1, <2>6, <2>7, <2>8, <1>1
<1>5. S \in SUBSET Nat /\ \A i \in S : i + 1 \in S
  BY <1>4
<1>6. w \in S
  <2> HIDE DEF S
  <2> QED
    BY <1>3, <1>5, SetInduction
<1>7. v[w] # None => Left(w) + w <= Cardinality(K)
  BY <1>6
<1>8. Left(w) \in Nat
  BY <1>2
<1> HIDE DEF Left
<1> QED
  BY <1>1, <1>7, <1>8

(* The steps of pre_fetch *)
Enough(z) == z.n = PreFetchSize \/ z.m.cur = NoItem
StepOn(z) == [z EXCEPT !.m = MergeNext(src, rev, @)]
Fill(z) == IF z.item = NoItem THEN [z EXCEPT !.n = @ + 1, !.item = z.m.cur]
           ELSE [z EXCEPT !.n = @ + 1, !.data = Append(@, z.m.cur)]
PreStep(z) == IF Enough(z) THEN z
              ELSE IF z.m.cur.del THEN StepOn(z)
              ELSE IF Enough(Fill(z)) THEN Fill(z)
              ELSE StepOn(Fill(z))

Rounds == Cardinality(Keys(src)) + 1

(* pre_fetch is such a loop. *)
LEMMA PreFetchRuns ==
  ASSUME Rounds \in Nat, NEW M, NEW x \in M, \A z \in M : PreStep(z) \in M
  PROVE  \E f : /\ \A i \in 0 .. Rounds : f[i] \in M
                /\ f[0] = x
                /\ \A i \in 1 .. Rounds : f[i] = PreStep(f[i - 1])
                /\ PreFetch(x) = f[Rounds]
<1> DEFINE w == Rounds
           step == [i \in 1 .. w |-> [a \in M |-> PreStep(a)]]
           Run(f) == [i \in 0 .. w |-> IF i = 0 THEN x ELSE PreStep(f[i - 1])]
<1>2. step \in [1 .. w -> [M -> M]]
  OBVIOUS
<1>3. \A i \in 1 .. w : \A a \in M : step[i][a] = PreStep(a)
  OBVIOUS
<1>4. w \in Nat
  OBVIOUS
<1> HIDE DEF step
<1>5. PICK f : f \in [0 .. w -> M] /\ f[0] = x /\ \A i \in 1 .. w : f[i] = step[i][f[i - 1]]
  <2> HIDE DEF w
  <2>1. \E f : Steps(f, w, M, x, step)
    BY <1>2, <1>4, RecursionExists
  <2> QED
    BY <2>1 DEF Steps
<1>6. \A i \in 1 .. w : f[i] = PreStep(f[i - 1])
  <2> SUFFICES ASSUME NEW i \in 1 .. w PROVE f[i] = PreStep(f[i - 1])
    OBVIOUS
  <2>1. f[i - 1] \in M
    BY <1>4, <1>5
  <2> QED
    BY <2>1, <1>3, <1>5
<1>7. f = Run(f)
  <2>1. \A i \in 0 .. w : f[i] = Run(f)[i]
    <3> SUFFICES ASSUME NEW i \in 0 .. w
                 PROVE  f[i] = IF i = 0 THEN x ELSE PreStep(f[i - 1])
      OBVIOUS
    <3>1. i # 0 => i \in 1 .. w
      BY <1>4
    <3> QED
      BY <3>1, <1>5, <1>6
  <2>2. f = [i \in 0 .. w |-> f[i]]
    BY <1>5
  <2>3. Run(f) = [i \in 0 .. w |-> Run(f)[i]]
    OBVIOUS
  <2> HIDE DEF Run
  <2> QED
    BY <2>1, <2>2, <2>3, Zenon
<1> DEFINE done == CHOOSE h : h = Run(h)
<1>8. done = Run(done)
  BY <1>7, Zenon
<1>9. PreFetch(x) = done[w]
  BY DEF PreFetch, Repeat, PreStep, Enough, StepOn, Fill, Rounds
<1>10. done[0] = x /\ \A i \in 1 .. w : done[i] = PreStep(done[i - 1])
  <2> HIDE DEF done
  <2>1. \A i \in 0 .. w : Run(done)[i] = IF i = 0 THEN x ELSE PreStep(done[i - 1])
    OBVIOUS
  <2> HIDE DEF Run
  <2>2. \A i \in 0 .. w : done[i] = IF i = 0 THEN x ELSE PreStep(done[i - 1])
    BY <2>1, <1>8, Zenon
  <2>3. 0 \in 0 .. w /\ \A i \in 1 .. w : i \in 0 .. w /\ i # 0
    BY <1>4
  <2> QED
    BY <2>2, <2>3
<1> HIDE DEF done, Run, w
<1>11. done[w] = f[w]
  <2> DEFINE S == {i \in Nat : i <= w => done[i] = f[i]}
  <2>1. 0 \in S
    BY <1>5, <1>10
  <2>2. ASSUME NEW i \in S PROVE i + 1 \in S
    <3>1. i \in Nat /\ i + 1 \in Nat
      OBVIOUS
    <3>2. SUFFICES ASSUME i + 1 <= w PROVE done[i + 1] = f[i + 1]
      BY <3>1
    <3>3. i + 1 \in 1 .. w /\ (i + 1) - 1 = i /\ i <= w
      BY <3>1, <3>2, <1>4
    <3>4. done[i] = f[i]
      BY <3>3
    <3> QED
      BY <3>3, <3>4, <1>6, <1>10
  <2>3. S \in SUBSET Nat /\ \A i \in S : i + 1 \in S
    BY <2>2
  <2>4. w \in S
    <3> HIDE DEF S
    <3> QED
      BY <2>1, <2>3, <1>4, SetInduction
  <2> QED
    BY <2>4, <1>4
<1> QED
  BY <1>5, <1>6, <1>9, <1>11 DEF w

(* The states of pre_fetch; e says whether its item is shown by the call. *)
PreStates == [m : MergeStates, item : Items, data : Seq(Items), n : Nat]
ShownBy(e, z) == IF e /\ z.item # NoItem THEN <<z.item>> ELSE <<>>

(* A panic in call c that ReplaceAsserts allows *)
Explained(c) ==
  \/ /\ c.call = "rewind" /\ ~ rev
     /\ \E n \in DOMAIN src : src[n].kind = "memtable" /\ SourceKeys(src[n]) = {}
  \/ \E n \in DOMAIN src : HeadReached(n, c)

(* What holds in every round *)
PreKept(z, e, D, b, g, c) ==
  /\ z.m.panics = FALSE
  /\ KvAt(z.m, Rest(z.m), D, b, g, c) /\ CurGood(z.m, b, g)
  /\ QueueGood(ShownBy(e, z), z.data, b, g)
  /\ z.item = NoItem => e /\ z.data = <<>> /\ z.n = 0
  /\ z.item # NoItem => z.item.key # None
  /\ z.n <= PreFetchSize /\ z.n <= Len(z.data) + 1

PreInv(z, e, D, b, g, c) ==
  \/ z.m.panics = TRUE /\ Explained(c)
  \/ /\ PreKept(z, e, D, b, g, c)
     /\ z.n # PreFetchSize => Pending(ShownBy(e, z), z.data, z.m, b, g, c)
     /\ z.n = PreFetchSize => Settled(ShownBy(e, z), z.data, z.m, b, g, c)

(* The key the loop is at, None when it stops *)
LoopKey(z) == IF z.m.panics = TRUE \/ Enough(z) THEN None ELSE z.m.cur.key

(* The values after fill and after a step of the merge *)
LEMMA FillIs ==
  ASSUME NEW z \in PreStates
  PROVE  /\ Fill(z) \in PreStates /\ Fill(z).m = z.m /\ Fill(z).n = z.n + 1
         /\ z.item = NoItem => Fill(z).item = z.m.cur /\ Fill(z).data = z.data
         /\ z.item # NoItem => Fill(z).item = z.item /\ Fill(z).data = Append(z.data, z.m.cur)
<1>1. PICK x, p, q, w : x = z.m /\ p = z.item /\ q = z.data /\ w = z.n
  OBVIOUS
<1>2. x \in MergeStates /\ p \in Items /\ q \in Seq(Items) /\ w \in Nat /\ z = [m |-> x, item |-> p, data |-> q, n |-> w]
  BY <1>1 DEF PreStates
<1>3. PICK h : h = x.cur
  OBVIOUS
<1>4. h \in Items
  BY <1>2, <1>3 DEF MergeStates
<1>5. w + 1 \in Nat
  BY <1>2
<1>6. PICK u : u = Append(q, h)
  OBVIOUS
<1>7. u \in Seq(Items)
  BY <1>2, <1>4, <1>6
<1>8. CASE p = NoItem
  <2>1. Fill(z) = [m |-> x, item |-> h, data |-> q, n |-> w + 1]
    BY <1>1, <1>2, <1>3, <1>8 DEF Fill
  <2> QED
    BY <2>1, <1>1, <1>2, <1>3, <1>4, <1>5, <1>8 DEF PreStates
<1>9. CASE p # NoItem
  <2>1. Fill(z) = [m |-> x, item |-> p, data |-> u, n |-> w + 1]
    BY <1>1, <1>2, <1>3, <1>6, <1>9 DEF Fill
  <2> QED
    BY <2>1, <1>1, <1>2, <1>3, <1>5, <1>6, <1>7, <1>9 DEF PreStates
<1> QED
  BY <1>8, <1>9

(* A step of the merge *)
LEMMA StepOnIs ==
  ASSUME NEW z \in PreStates, MergeNext(src, rev, z.m) \in MergeStates
  PROVE  /\ StepOn(z) \in PreStates /\ StepOn(z).m = MergeNext(src, rev, z.m)
         /\ StepOn(z).item = z.item /\ StepOn(z).data = z.data /\ StepOn(z).n = z.n
<1>1. PICK x, p, q, w, y : x = z.m /\ p = z.item /\ q = z.data /\ w = z.n /\ y = MergeNext(src, rev, z.m)
  OBVIOUS
<1>2. p \in Items /\ q \in Seq(Items) /\ w \in Nat /\ z = [m |-> x, item |-> p, data |-> q, n |-> w]
  BY <1>1 DEF PreStates
<1>3. StepOn(z) = [m |-> y, item |-> p, data |-> q, n |-> w]
  BY <1>1, <1>2 DEF StepOn
<1> QED
  BY <1>1, <1>2, <1>3 DEF PreStates

(* A merge that has panicked stays where it is. *)
LEMMA PanicStays ==
  ASSUME NEW z \in PreStates, z.m.panics = TRUE
  PROVE  PreStep(z) \in PreStates /\ PreStep(z).m = z.m
<1>1. z.m \in MergeStates
  BY DEF PreStates
<1>2. ASSUME NEW u \in PreStates, u.m = z.m PROVE StepOn(u) \in PreStates /\ StepOn(u).m = z.m
  <2>1. MergeNext(src, rev, u.m) = u.m
    BY <1>2 DEF MergeNext
  <2> QED
    BY <2>1, <1>1, <1>2, StepOnIs
<1>3. Fill(z) \in PreStates /\ Fill(z).m = z.m
  BY FillIs
<1>4. StepOn(z) \in PreStates /\ StepOn(z).m = z.m /\ StepOn(Fill(z)) \in PreStates /\ StepOn(Fill(z)).m = z.m
  BY <1>2, <1>3
<1> QED
  BY <1>3, <1>4 DEF PreStep

(* A step of the merge after its item was queued or passed *)
LEMMA StepOnGood ==
  ASSUME KvSources, NEW c, CallOK(c), NEW D, NEW b, NEW g, SourceFresh(D, b, g), NEW e \in BOOLEAN,
         NEW z \in PreStates, PreKept(z, e, D, b, g, c), z.n # PreFetchSize,
         Settled(ShownBy(e, z), z.data, z.m, b, g, c)
  PROVE  /\ StepOn(z) \in PreStates /\ PreInv(StepOn(z), e, D, b, g, c)
         /\ LoopKey(StepOn(z)) # None => LoopKey(StepOn(z)) > z.m.cur.key
<1>1. PICK x, y : x = z.m /\ y = MergeNext(src, rev, x)
  OBVIOUS
<1>2. rev = FALSE
  BY DEF KvSources
<1>3. x \in MergeStates /\ x.cur \in Items /\ x.panics = FALSE /\ KvAt(x, Rest(x), D, b, g, c)
  BY <1>1 DEF PreStates, MergeStates, PreKept
<1>4. Ray(FALSE, Rest(x))
  <2>1. x.cur.key \in Nat
    BY <1>3 DEF Items
  <2> QED
    BY <2>1, Rays DEF Rest
<1>5. /\ y \in MergeStates
      /\ \/ y.panics = TRUE /\ \E n \in DOMAIN src : HeadReached(n, c)
         \/ y.panics = FALSE /\ KvMoved(y, Rest(x), D, b, g, c)
  BY <1>1, <1>2, <1>3, <1>4, KvGo
<1>6. PICK u : u = StepOn(z)
  OBVIOUS
<1>7. u \in PreStates /\ u.m = y /\ u.item = z.item /\ u.data = z.data /\ u.n = z.n
  BY <1>1, <1>5, <1>6, StepOnIs
<1>8. ShownBy(e, u) = ShownBy(e, z)
  BY <1>7 DEF ShownBy
<1>9. CASE y.panics = TRUE
  <2>1. PreInv(u, e, D, b, g, c)
    BY <1>5, <1>7, <1>9 DEF PreInv, Explained
  <2>2. LoopKey(u) = None
    BY <1>7, <1>9 DEF LoopKey
  <2> QED
    BY <2>1, <2>2, <1>6, <1>7
<1>10. CASE y.panics = FALSE
  <2>1. KvMoved(y, Rest(x), D, b, g, c)
    BY <1>5, <1>10
  <2>2. DOMAIN b \subseteq Nat
    BY DEF SourceFresh
  <2>3. QueueGood(ShownBy(e, z), z.data, b, g)
    BY DEF PreKept
  <2>4. /\ Pending(ShownBy(e, z), z.data, y, b, g, c)
        /\ y.cur # NoItem => x.cur # NoItem /\ y.cur.key > x.cur.key
    BY <2>1, <2>2, <2>3, <1>1, <1>3, MergeMoves
  <2>5. KvAt(y, Rest(y), D, b, g, c) /\ CurGood(y, b, g)
    BY <2>1 DEF KvMoved
  <2>6. PreKept(u, e, D, b, g, c)
    BY <2>5, <1>7, <1>8, <1>10 DEF PreKept
  <2>7. PreInv(u, e, D, b, g, c)
    BY <2>4, <2>6, <1>7, <1>8 DEF PreInv
  <2>8. LoopKey(u) # None => LoopKey(u) > x.cur.key
    BY <2>4, <1>7 DEF LoopKey, Enough
  <2> QED
    BY <2>7, <2>8, <1>1, <1>6, <1>7
<1> QED
  BY <1>5, <1>9, <1>10

(* A round of pre_fetch *)
LEMMA PreStepGood ==
  ASSUME KvSources, NEW c, CallOK(c), NEW D, NEW b, NEW g, SourceFresh(D, b, g), NEW e \in BOOLEAN,
         NEW z \in PreStates, PreInv(z, e, D, b, g, c)
  PROVE  /\ PreStep(z) \in PreStates /\ PreInv(PreStep(z), e, D, b, g, c)
         /\ LoopKey(z) \in Keys(src) \cup {None}
         /\ LoopKey(PreStep(z)) # None => LoopKey(z) # None /\ LoopKey(z) < LoopKey(PreStep(z))
<1>1. CASE z.m.panics = TRUE
  <2>1. PreStep(z) \in PreStates /\ PreStep(z).m = z.m
    BY <1>1, PanicStays
  <2>2. Explained(c)
    BY <1>1 DEF PreInv, PreKept
  <2> QED
    BY <2>1, <2>2, <1>1 DEF PreInv, LoopKey
<1>2. CASE z.m.panics # TRUE
  <2>1. /\ PreKept(z, e, D, b, g, c)
        /\ z.n # PreFetchSize => Pending(ShownBy(e, z), z.data, z.m, b, g, c)
    BY <1>2 DEF PreInv
  <2>2. CASE Enough(z)
    BY <2>2 DEF PreStep, LoopKey
  <2>3. CASE ~ Enough(z)
    <3>1. PICK x, s, q : x = z.m /\ s = ShownBy(e, z) /\ q = z.data
      OBVIOUS
    <3>2. /\ z.n # PreFetchSize /\ x.cur # NoItem /\ x.panics = FALSE /\ x \in MergeStates
          /\ z.n \in Nat /\ z.item \in Items /\ q \in Seq(Items)
      BY <2>1, <2>3, <3>1 DEF Enough, PreKept, PreStates
    <3>3. /\ KvAt(x, Rest(x), D, b, g, c) /\ CurGood(x, b, g) /\ QueueGood(s, q, b, g)
          /\ Pending(s, q, x, b, g, c)
          /\ z.item = NoItem => e /\ q = <<>> /\ z.n = 0
          /\ z.item # NoItem => z.item.key # None
          /\ z.n <= PreFetchSize /\ z.n <= Len(q) + 1
      BY <2>1, <3>1, <3>2 DEF PreKept
    <3>4. ItemGood(x.cur, b, g) /\ x.cur.key \in Keys(src) /\ DOMAIN b \subseteq Nat
      BY <3>2, <3>3 DEF CurGood, SourceFresh
    <3>5. LoopKey(z) = x.cur.key /\ x.cur.key # None
      BY <2>3, <3>1, <3>4, <1>2 DEF LoopKey, ItemGood
    <3>6. CASE x.cur.del
      <4>1. Settled(s, q, x, b, g, c)
        BY <3>3, <3>4, <3>6, ItemPassed
      <4>2. PreStep(z) = StepOn(z)
        BY <2>3, <3>1, <3>6 DEF PreStep
      <4>3. /\ StepOn(z) \in PreStates /\ PreInv(StepOn(z), e, D, b, g, c)
            /\ LoopKey(StepOn(z)) # None => LoopKey(StepOn(z)) > z.m.cur.key
        BY <4>1, <2>1, <3>1, <3>2, StepOnGood
      <4>4. LoopKey(StepOn(z)) # None => LoopKey(z) < LoopKey(StepOn(z))
        BY <4>3, <3>1, <3>5
      <4> QED
        BY <4>2, <4>3, <4>4, <3>4, <3>5
    <3>7. CASE ~ x.cur.del
      <4>1. PICK u : u = Fill(z)
        OBVIOUS
      <4>2. /\ u \in PreStates /\ u.m = x /\ u.n = z.n + 1
            /\ z.item = NoItem => u.item = x.cur /\ u.data = q
            /\ z.item # NoItem => u.item = z.item /\ u.data = Append(q, x.cur)
        BY <4>1, <3>1, FillIs
      <4>3. /\ QueueGood(ShownBy(e, u), u.data, b, g) /\ Settled(ShownBy(e, u), u.data, x, b, g, c)
            /\ u.n <= Len(u.data) + 1
            /\ u.item # NoItem /\ u.item.key # None
        <5>1. CASE z.item = NoItem
          <6>1. e = TRUE /\ q = <<>> /\ s = <<>> /\ u.item = x.cur /\ u.data = <<>>
            BY <5>1, <4>2, <3>1, <3>3 DEF ShownBy
          <6>2. ShownBy(e, u) = <<x.cur>>
            BY <6>1, <3>2 DEF ShownBy
          <6>3. QueueGood(<<x.cur>>, <<>>, b, g) /\ Settled(<<x.cur>>, <<>>, x, b, g, c)
            BY <6>1, <3>2, <3>3, <3>4, <3>7, ItemShown
          <6>4. Len(u.data) = 0 /\ Len(q) = 0
            BY <6>1
          <6>5. u.n <= Len(u.data) + 1
            <7>1. z.n = 0
              BY <5>1, <3>3
            <7> QED
              BY <7>1, <6>4, <4>2
          <6> QED
            BY <6>1, <6>2, <6>3, <6>5, <3>2, <3>4 DEF ItemGood
        <5>2. CASE z.item # NoItem
          <6>1. u.item = z.item /\ u.data = Append(q, x.cur) /\ ShownBy(e, u) = s
            BY <5>2, <4>2, <3>1 DEF ShownBy
          <6>2. /\ QueueGood(s, Append(q, x.cur), b, g) /\ Settled(s, Append(q, x.cur), x, b, g, c)
                /\ Len(Append(q, x.cur)) = Len(q) + 1
            BY <3>2, <3>3, <3>4, <3>7, ItemQueued
          <6>3. Len(q) \in Nat
            BY <3>2
          <6>4. u.n <= Len(u.data) + 1
            BY <6>1, <6>2, <6>3, <4>2, <3>2, <3>3
          <6> QED
            BY <6>1, <6>2, <6>4, <5>2, <3>3
        <5> QED
          BY <5>1, <5>2
      <4>4. u.n <= PreFetchSize
        BY <4>2, <3>2, <3>3, PreFetchAssumption
      <4>5. PreKept(u, e, D, b, g, c)
        BY <4>2, <4>3, <4>4, <3>2, <3>3 DEF PreKept
      <4>6. CASE Enough(u)
        <5>1. u.n = PreFetchSize
          BY <4>6, <4>2, <3>2 DEF Enough
        <5>2. PreInv(u, e, D, b, g, c)
          BY <5>1, <4>2, <4>3, <4>5 DEF PreInv
        <5>3. PreStep(z) = u
          BY <4>1, <4>6, <2>3, <3>1, <3>7 DEF PreStep
        <5>4. LoopKey(u) = None
          BY <4>6 DEF LoopKey
        <5> QED
          BY <5>2, <5>3, <5>4, <4>2, <3>4, <3>5
      <4>7. CASE ~ Enough(u)
        <5>1. u.n # PreFetchSize
          BY <4>7 DEF Enough
        <5>2. PreStep(z) = StepOn(u)
          BY <4>1, <4>7, <2>3, <3>1, <3>7 DEF PreStep
        <5>3. /\ StepOn(u) \in PreStates /\ PreInv(StepOn(u), e, D, b, g, c)
              /\ LoopKey(StepOn(u)) # None => LoopKey(StepOn(u)) > u.m.cur.key
          BY <5>1, <4>2, <4>3, <4>5, StepOnGood
        <5>4. LoopKey(StepOn(u)) # None => LoopKey(z) < LoopKey(StepOn(u))
          BY <5>3, <4>2, <3>5
        <5> QED
          BY <5>2, <5>3, <5>4, <3>4, <3>5
      <4> QED
        BY <4>6, <4>7
    <3> QED
      BY <3>6, <3>7
  <2> QED
    BY <2>2, <2>3
<1> QED
  BY <1>1, <1>2

(* The keys of the store *)
LEMMA KeysFinite ==
  ASSUME KvSources
  PROVE  IsFiniteSet(Keys(src)) /\ Keys(src) \subseteq Nat \ {None} /\ Rounds \in Nat
<1>1. /\ DOMAIN src = 1 .. Len(src) /\ Len(src) \in Nat
      /\ \A n \in DOMAIN src : IsFiniteSet(SourceKeys(src[n])) /\ SourceKeys(src[n]) \subseteq Nat \ {None}
  BY DEF KvSources, SourcesOK, SourceOK, None
<1> DEFINE sets == {SourceKeys(src[n]) : n \in DOMAIN src}
<1>2. IsFiniteSet(DOMAIN src)
  BY <1>1, FS_Interval
<1>3. IsFiniteSet(sets)
  <2>1. [n \in DOMAIN src |-> SourceKeys(src[n])] \in Surjection(DOMAIN src, sets)
    BY DEF Surjection
  <2> QED
    BY <2>1, <1>2, FS_Surjection DEF ExistsSurjection
<1>4. \A s \in sets : IsFiniteSet(s)
  BY <1>1
<1>5. IsFiniteSet(UNION sets)
  BY <1>3, <1>4, FS_UNION
<1>6. Keys(src) = UNION sets
  BY DEF Keys
<1>7. Cardinality(Keys(src)) \in Nat
  BY <1>5, <1>6, FS_CardinalityType
<1>8. Keys(src) \subseteq Nat \ {None}
  BY <1>1, <1>6
<1> QED
  BY <1>5, <1>6, <1>7, <1>8 DEF Rounds

(* What pre_fetch returns *)
LEMMA PreFetchGood ==
  ASSUME KvSources, NEW c, CallOK(c), NEW D, NEW b, NEW g, SourceFresh(D, b, g), NEW e \in BOOLEAN,
         NEW x \in PreStates, PreInv(x, e, D, b, g, c)
  PROVE  /\ PreFetch(x) \in PreStates /\ PreInv(PreFetch(x), e, D, b, g, c)
         /\ PreFetch(x).m.panics = TRUE \/ Enough(PreFetch(x))
<1> DEFINE M == {z \in PreStates : PreInv(z, e, D, b, g, c)}
<1>1. \A z \in M : /\ PreStep(z) \in M /\ LoopKey(z) \in Keys(src) \cup {None}
                   /\ LoopKey(PreStep(z)) # None => LoopKey(z) # None /\ LoopKey(z) < LoopKey(PreStep(z))
  BY PreStepGood
<1>2. x \in M
  OBVIOUS
<1>3. IsFiniteSet(Keys(src)) /\ Keys(src) \subseteq Nat \ {None} /\ Rounds \in Nat
  BY KeysFinite
<1> HIDE DEF M
<1>4. PICK f : /\ \A i \in 0 .. Rounds : f[i] \in M
               /\ f[0] = x
               /\ \A i \in 1 .. Rounds : f[i] = PreStep(f[i - 1])
               /\ PreFetch(x) = f[Rounds]
  BY <1>1, <1>2, <1>3, PreFetchRuns
<1>5. PICK v : v = [i \in 0 .. Rounds |-> LoopKey(f[i])]
  OBVIOUS
<1>6. \A i \in 0 .. Rounds : v[i] = LoopKey(f[i]) /\ v[i] \in Keys(src) \cup {None}
  BY <1>1, <1>4, <1>5
<1>7. ASSUME NEW i \in 1 .. Rounds, v[i] # None PROVE v[i - 1] # None /\ v[i - 1] < v[i]
  <2>1. i \in 0 .. Rounds /\ i - 1 \in 0 .. Rounds
    BY <1>3
  <2>2. f[i] = PreStep(f[i - 1]) /\ f[i - 1] \in M
    BY <2>1, <1>4
  <2> QED
    BY <2>1, <2>2, <1>1, <1>6, <1>7
<1>8. v[Rounds] = None
  <2>1. Keys(src) \subseteq Nat /\ Rounds = Cardinality(Keys(src)) + 1
    BY <1>3 DEF Rounds
  <2> QED
    BY <2>1, <1>3, <1>6, <1>7, LoopStops
<1>9. Rounds \in 0 .. Rounds
  BY <1>3
<1>10. LoopKey(PreFetch(x)) = None /\ PreFetch(x) \in M
  BY <1>4, <1>6, <1>8, <1>9
<1>11. PreFetch(x) \in PreStates /\ PreInv(PreFetch(x), e, D, b, g, c)
  BY <1>10 DEF M
<1>12. PreFetch(x).m.panics = TRUE \/ Enough(PreFetch(x))
  <2>1. SUFFICES ASSUME PreFetch(x).m.panics # TRUE, ~ Enough(PreFetch(x)) PROVE FALSE
    OBVIOUS
  <2>2. PreFetch(x).m.cur.key = None
    BY <2>1, <1>10 DEF LoopKey
  <2>3. CurGood(PreFetch(x).m, b, g) /\ PreFetch(x).m.cur # NoItem
    BY <2>1, <1>11 DEF PreInv, PreKept, Enough
  <2> QED
    BY <2>2, <2>3 DEF CurGood, ItemGood
<1> QED
  BY <1>11, <1>12

(* The loop of next that passes deleted records *)
LiveStep(x) == IF x.cur.del THEN MergeNext(src, rev, x) ELSE x

(* It is such a loop. *)
LEMMA NextLiveRuns ==
  ASSUME Rounds \in Nat, NEW M, NEW x \in M, x = MergeNext(src, rev, m), \A z \in M : LiveStep(z) \in M
  PROVE  \E f : /\ \A i \in 0 .. Rounds : f[i] \in M
                /\ f[0] = x
                /\ \A i \in 1 .. Rounds : f[i] = LiveStep(f[i - 1])
                /\ NextLive = f[Rounds]
<1> DEFINE w == Rounds
           step == [i \in 1 .. w |-> [a \in M |-> LiveStep(a)]]
           Run(f) == [i \in 0 .. w |-> IF i = 0 THEN x ELSE LiveStep(f[i - 1])]
<1>2. step \in [1 .. w -> [M -> M]]
  OBVIOUS
<1>3. \A i \in 1 .. w : \A a \in M : step[i][a] = LiveStep(a)
  OBVIOUS
<1>4. w \in Nat
  OBVIOUS
<1> HIDE DEF step
<1>5. PICK f : f \in [0 .. w -> M] /\ f[0] = x /\ \A i \in 1 .. w : f[i] = step[i][f[i - 1]]
  <2> HIDE DEF w
  <2>1. \E f : Steps(f, w, M, x, step)
    BY <1>2, <1>4, RecursionExists
  <2> QED
    BY <2>1 DEF Steps
<1>6. \A i \in 1 .. w : f[i] = LiveStep(f[i - 1])
  <2> SUFFICES ASSUME NEW i \in 1 .. w PROVE f[i] = LiveStep(f[i - 1])
    OBVIOUS
  <2>1. f[i - 1] \in M
    BY <1>4, <1>5
  <2> QED
    BY <2>1, <1>3, <1>5
<1>7. f = Run(f)
  <2>1. \A i \in 0 .. w : f[i] = Run(f)[i]
    <3> SUFFICES ASSUME NEW i \in 0 .. w
                 PROVE  f[i] = IF i = 0 THEN x ELSE LiveStep(f[i - 1])
      OBVIOUS
    <3>1. i # 0 => i \in 1 .. w
      BY <1>4
    <3> QED
      BY <3>1, <1>5, <1>6
  <2>2. f = [i \in 0 .. w |-> f[i]]
    BY <1>5
  <2>3. Run(f) = [i \in 0 .. w |-> Run(f)[i]]
    OBVIOUS
  <2> HIDE DEF Run
  <2> QED
    BY <2>1, <2>2, <2>3, Zenon
<1> DEFINE done == CHOOSE h : h = Run(h)
<1>8. done = Run(done)
  BY <1>7, Zenon
<1>9. NextLive = done[w]
  BY DEF NextLive, Repeat, LiveStep, Rounds
<1>10. done[0] = x /\ \A i \in 1 .. w : done[i] = LiveStep(done[i - 1])
  <2> HIDE DEF done
  <2>1. \A i \in 0 .. w : Run(done)[i] = IF i = 0 THEN x ELSE LiveStep(done[i - 1])
    OBVIOUS
  <2> HIDE DEF Run
  <2>2. \A i \in 0 .. w : done[i] = IF i = 0 THEN x ELSE LiveStep(done[i - 1])
    BY <2>1, <1>8, Zenon
  <2>3. 0 \in 0 .. w /\ \A i \in 1 .. w : i \in 0 .. w /\ i # 0
    BY <1>4
  <2> QED
    BY <2>2, <2>3
<1> HIDE DEF done, Run, w
<1>11. done[w] = f[w]
  <2> DEFINE S == {i \in Nat : i <= w => done[i] = f[i]}
  <2>1. 0 \in S
    BY <1>5, <1>10
  <2>2. ASSUME NEW i \in S PROVE i + 1 \in S
    <3>1. i \in Nat /\ i + 1 \in Nat
      OBVIOUS
    <3>2. SUFFICES ASSUME i + 1 <= w PROVE done[i + 1] = f[i + 1]
      BY <3>1
    <3>3. i + 1 \in 1 .. w /\ (i + 1) - 1 = i /\ i <= w
      BY <3>1, <3>2, <1>4
    <3>4. done[i] = f[i]
      BY <3>3
    <3> QED
      BY <3>3, <3>4, <1>6, <1>10
  <2>3. S \in SUBSET Nat /\ \A i \in S : i + 1 \in S
    BY <2>2
  <2>4. w \in S
    <3> HIDE DEF S
    <3> QED
      BY <2>1, <2>3, <1>4, SetInduction
  <2> QED
    BY <2>4, <1>4
<1> QED
  BY <1>5, <1>6, <1>9, <1>11 DEF w

LiveInv(x, s, q, D, b, g, c) ==
  \/ x.panics = TRUE /\ Explained(c)
  \/ x.panics = FALSE /\ KvAt(x, Rest(x), D, b, g, c) /\ CurGood(x, b, g) /\ Pending(s, q, x, b, g, c)

LiveKey(x) == IF x.panics = TRUE \/ ~ x.cur.del THEN None ELSE x.cur.key

(* A step of the merge in next *)
LEMMA LiveMoves ==
  ASSUME KvSources, NEW c, CallOK(c), NEW D, NEW b, NEW g, SourceFresh(D, b, g),
         NEW s, NEW q, QueueGood(s, q, b, g), NEW x \in MergeStates, KvAt(x, Rest(x), D, b, g, c),
         Settled(s, q, x, b, g, c)
  PROVE  /\ MergeNext(src, rev, x) \in MergeStates /\ LiveInv(MergeNext(src, rev, x), s, q, D, b, g, c)
         /\ x.cur = NoItem /\ MergeNext(src, rev, x).panics = FALSE => MergeNext(src, rev, x).cur = NoItem
         /\ LiveKey(MergeNext(src, rev, x)) # None => LiveKey(MergeNext(src, rev, x)) > x.cur.key
<1>1. PICK y : y = MergeNext(src, rev, x)
  OBVIOUS
<1>2. rev = FALSE /\ x.cur \in Items /\ DOMAIN b \subseteq Nat
  BY DEF KvSources, MergeStates, SourceFresh
<1>3. Ray(FALSE, Rest(x))
  <2>1. x.cur.key \in Nat
    BY <1>2 DEF Items
  <2> QED
    BY <2>1, Rays DEF Rest
<1>4. /\ y \in MergeStates
      /\ \/ y.panics = TRUE /\ \E n \in DOMAIN src : HeadReached(n, c)
         \/ y.panics = FALSE /\ KvMoved(y, Rest(x), D, b, g, c)
  BY <1>1, <1>2, <1>3, KvGo
<1>5. CASE y.panics = TRUE
  <2>1. LiveInv(y, s, q, D, b, g, c)
    BY <1>4, <1>5 DEF LiveInv, Explained
  <2>2. LiveKey(y) = None
    BY <1>5 DEF LiveKey
  <2> QED
    BY <2>1, <2>2, <1>1, <1>4, <1>5
<1>6. CASE y.panics = FALSE
  <2>1. KvMoved(y, Rest(x), D, b, g, c)
    BY <1>4, <1>6
  <2>2. /\ Pending(s, q, y, b, g, c)
        /\ y.cur # NoItem => x.cur # NoItem /\ y.cur.key > x.cur.key
    BY <2>1, <1>2, MergeMoves
  <2>3. LiveInv(y, s, q, D, b, g, c)
    BY <2>1, <2>2, <1>6 DEF LiveInv, KvMoved
  <2>4. ~ NoItem.del
    BY DEF NoItem
  <2>5. LiveKey(y) # None => LiveKey(y) > x.cur.key
    BY <2>2, <2>4 DEF LiveKey
  <2> QED
    BY <2>2, <2>3, <2>5, <1>1, <1>4, <1>6
<1> QED
  BY <1>4, <1>5, <1>6

(* A round of next *)
LEMMA LiveStepGood ==
  ASSUME KvSources, NEW c, CallOK(c), NEW D, NEW b, NEW g, SourceFresh(D, b, g),
         NEW s, NEW q, QueueGood(s, q, b, g), NEW x \in MergeStates, LiveInv(x, s, q, D, b, g, c)
  PROVE  /\ LiveStep(x) \in MergeStates /\ LiveInv(LiveStep(x), s, q, D, b, g, c)
         /\ x.cur = NoItem => LiveStep(x) = x
         /\ LiveKey(x) \in Keys(src) \cup {None}
         /\ LiveKey(LiveStep(x)) # None => LiveKey(x) # None /\ LiveKey(x) < LiveKey(LiveStep(x))
<1>1. ~ NoItem.del
  BY DEF NoItem
<1>2. CASE ~ x.cur.del
  <2>1. LiveStep(x) = x /\ LiveKey(x) = None
    BY <1>2 DEF LiveStep, LiveKey
  <2> QED
    BY <2>1
<1>3. CASE x.cur.del /\ x.panics = TRUE
  <2>1. MergeNext(src, rev, x) = x
    BY <1>3 DEF MergeNext
  <2>2. LiveStep(x) = x /\ LiveKey(x) = None
    BY <2>1, <1>3 DEF LiveStep, LiveKey
  <2> QED
    BY <2>2
<1>4. CASE x.cur.del /\ x.panics # TRUE
  <2>1. KvAt(x, Rest(x), D, b, g, c) /\ CurGood(x, b, g) /\ Pending(s, q, x, b, g, c) /\ x.cur # NoItem
    BY <1>1, <1>4 DEF LiveInv
  <2>2. ItemGood(x.cur, b, g) /\ x.cur.key \in Keys(src) /\ x.cur.key # None /\ DOMAIN b \subseteq Nat
    BY <2>1 DEF CurGood, ItemGood, SourceFresh
  <2>3. Settled(s, q, x, b, g, c)
    BY <2>1, <2>2, <1>4, ItemPassed
  <2>4. LiveKey(x) = x.cur.key /\ LiveStep(x) = MergeNext(src, rev, x)
    BY <1>4 DEF LiveKey, LiveStep
  <2>5. /\ MergeNext(src, rev, x) \in MergeStates /\ LiveInv(MergeNext(src, rev, x), s, q, D, b, g, c)
        /\ LiveKey(MergeNext(src, rev, x)) # None => LiveKey(MergeNext(src, rev, x)) > x.cur.key
    BY <2>1, <2>3, LiveMoves
  <2> QED
    BY <2>1, <2>2, <2>4, <2>5
<1> QED
  BY <1>2, <1>3, <1>4

(* What next finds: the first record ahead that is not deleted, or none *)
LEMMA NextLiveGood ==
  ASSUME KvSources, NEW c, CallOK(c), NEW D, NEW b, NEW g, SourceFresh(D, b, g),
         NEW s, NEW q, QueueGood(s, q, b, g), m \in MergeStates, KvAt(m, Rest(m), D, b, g, c),
         Settled(s, q, m, b, g, c)
  PROVE  /\ NextLive \in MergeStates /\ LiveInv(NextLive, s, q, D, b, g, c)
         /\ NextLive.panics = TRUE \/ ~ NextLive.cur.del
         /\ m.cur = NoItem => NextLive.panics = TRUE \/ NextLive.cur = NoItem
<1> DEFINE M == {z \in MergeStates : /\ LiveInv(z, s, q, D, b, g, c)
                                     /\ m.cur = NoItem => z.panics = TRUE \/ z.cur = NoItem}
<1>1. \A z \in M : /\ LiveStep(z) \in M /\ LiveKey(z) \in Keys(src) \cup {None}
                   /\ LiveKey(LiveStep(z)) # None => LiveKey(z) # None /\ LiveKey(z) < LiveKey(LiveStep(z))
  <2>1. SUFFICES ASSUME NEW z \in M
                 PROVE  /\ LiveStep(z) \in M /\ LiveKey(z) \in Keys(src) \cup {None}
                        /\ LiveKey(LiveStep(z)) # None => LiveKey(z) # None /\ LiveKey(z) < LiveKey(LiveStep(z))
    OBVIOUS
  <2>2. /\ LiveStep(z) \in MergeStates /\ LiveInv(LiveStep(z), s, q, D, b, g, c)
        /\ z.cur = NoItem => LiveStep(z) = z
        /\ LiveKey(z) \in Keys(src) \cup {None}
        /\ LiveKey(LiveStep(z)) # None => LiveKey(z) # None /\ LiveKey(z) < LiveKey(LiveStep(z))
    BY LiveStepGood
  <2>3. ASSUME z.panics = TRUE PROVE LiveStep(z) = z
    BY <2>3 DEF LiveStep, MergeNext
  <2>4. m.cur = NoItem => LiveStep(z).panics = TRUE \/ LiveStep(z).cur = NoItem
    BY <2>2, <2>3
  <2> QED
    BY <2>2, <2>4
<1>2. PICK x : x = MergeNext(src, rev, m)
  OBVIOUS
<1>3. x \in M
  <2>1. /\ x \in MergeStates /\ LiveInv(x, s, q, D, b, g, c)
        /\ m.cur = NoItem /\ x.panics = FALSE => x.cur = NoItem
    BY <1>2, LiveMoves
  <2>2. x.panics \in BOOLEAN
    BY <2>1 DEF MergeStates
  <2> QED
    BY <2>1, <2>2
<1>4. IsFiniteSet(Keys(src)) /\ Keys(src) \subseteq Nat \ {None} /\ Rounds \in Nat
  BY KeysFinite
<1> HIDE DEF M
<1>5. PICK f : /\ \A i \in 0 .. Rounds : f[i] \in M
               /\ f[0] = x
               /\ \A i \in 1 .. Rounds : f[i] = LiveStep(f[i - 1])
               /\ NextLive = f[Rounds]
  BY <1>1, <1>2, <1>3, <1>4, NextLiveRuns
<1>6. PICK v : v = [i \in 0 .. Rounds |-> LiveKey(f[i])]
  OBVIOUS
<1>7. \A i \in 0 .. Rounds : v[i] = LiveKey(f[i]) /\ v[i] \in Keys(src) \cup {None}
  BY <1>1, <1>5, <1>6
<1>8. ASSUME NEW i \in 1 .. Rounds, v[i] # None PROVE v[i - 1] # None /\ v[i - 1] < v[i]
  <2>1. i \in 0 .. Rounds /\ i - 1 \in 0 .. Rounds
    BY <1>4
  <2>2. f[i] = LiveStep(f[i - 1]) /\ f[i - 1] \in M
    BY <2>1, <1>5
  <2> QED
    BY <2>1, <2>2, <1>1, <1>7, <1>8
<1>9. v[Rounds] = None
  <2>1. Keys(src) \subseteq Nat /\ Rounds = Cardinality(Keys(src)) + 1
    BY <1>4 DEF Rounds
  <2> QED
    BY <2>1, <1>4, <1>7, <1>8, LoopStops
<1>10. Rounds \in 0 .. Rounds
  BY <1>4
<1>11. LiveKey(NextLive) = None /\ NextLive \in M
  BY <1>5, <1>7, <1>9, <1>10
<1>12. /\ NextLive \in MergeStates /\ LiveInv(NextLive, s, q, D, b, g, c)
       /\ m.cur = NoItem => NextLive.panics = TRUE \/ NextLive.cur = NoItem
  BY <1>11 DEF M
<1>13. NextLive.panics = TRUE \/ ~ NextLive.cur.del
  <2>1. SUFFICES ASSUME NextLive.panics # TRUE, NextLive.cur.del PROVE FALSE
    OBVIOUS
  <2>4. ~ NoItem.del
    BY DEF NoItem
  <2>5. PICK x0 : x0 = NextLive
    OBVIOUS
  <2>6. x0.cur.key = None /\ x0.cur # NoItem
    BY <2>1, <2>4, <2>5, <1>11 DEF LiveKey
  <2>2. NextLive.cur.key = None /\ NextLive.cur # NoItem
    BY <2>5, <2>6
  <2>3. CurGood(NextLive, b, g)
    BY <2>1, <1>12 DEF LiveInv
  <2> QED
    BY <2>2, <2>3 DEF CurGood, ItemGood
<1> QED
  BY <1>12, <1>13

-----------------------------------------------------------------------------
(* The newest record of a key is the one of the first source that has it. *)
LEMMA NewestIs ==
  ASSUME KvSources
  PROVE  /\ DOMAIN Newest(src) = Keys(src)
         /\ \A k \in Keys(src) : \E n \in DOMAIN src :
              /\ k \in SourceKeys(src[n]) /\ \A p \in DOMAIN src : k \in SourceKeys(src[p]) => n <= p
              /\ Newest(src)[k] = src[n].recs[k]
<1>1. DOMAIN Newest(src) = Keys(src)
  BY DEF Newest
<1>2. ASSUME NEW k \in Keys(src)
      PROVE  \E n \in DOMAIN src :
              /\ k \in SourceKeys(src[n]) /\ \A p \in DOMAIN src : k \in SourceKeys(src[p]) => n <= p
              /\ Newest(src)[k] = src[n].recs[k]
  <2> DEFINE has == {i \in DOMAIN src : k \in SourceKeys(src[i])}
             versions == {src[n].recs[k] : n \in has}
  <2>1. DOMAIN src = 1 .. Len(src) /\ Len(src) \in Nat /\ VersionsOK(src, Len(src) + puts)
    BY DEF KvSources, SourcesOK
  <2>2. has # {}
    BY DEF Keys
  <2>3. IsFiniteSet(has) /\ has \in SUBSET Int
    <3>1. IsFiniteSet(1 .. Len(src)) /\ has \subseteq 1 .. Len(src)
      BY <2>1, FS_Interval
    <3> QED
      BY <3>1, FS_Subset
  <2>4. PICK n \in has : \A p \in has : n <= p
    <3> HIDE DEF has
    <3> QED
      BY <2>2, <2>3, MinMax
  <2>5. ASSUME NEW p \in has, p # n PROVE src[p].recs[k].ver < src[n].recs[k].ver
    <3>1. n < p /\ n \in DOMAIN src /\ p \in DOMAIN src /\ k \in SourceKeys(src[n]) /\ k \in SourceKeys(src[p])
      BY <2>1, <2>4, <2>5
    <3> QED
      BY <3>1, <2>1 DEF VersionsOK
  <2>6. ASSUME NEW p \in has PROVE src[p].recs[k].ver \in Nat
    <3>1. SourceOK(src[p]) /\ k \in SourceKeys(src[p])
      BY DEF KvSources, SourcesOK
    <3>2. src[p].recs[k] \in [ver : Nat, del : BOOLEAN]
      BY <3>1 DEF SourceOK
    <3> QED
      BY <3>2
  <2>7. PICK r : r = src[n].recs[k]
    OBVIOUS
  <2>8. r \in versions /\ \A s \in versions : r.ver >= s.ver
    <3>1. ASSUME NEW p \in has PROVE r.ver >= src[p].recs[k].ver
      BY <2>5, <2>6, <2>7
    <3> QED
      BY <3>1, <2>7
  <2>9. \A s \in versions : (\A t \in versions : s.ver >= t.ver) => s = r
    <3>1. SUFFICES ASSUME NEW p \in has, src[p].recs[k].ver >= r.ver PROVE src[p].recs[k] = r
      BY <2>8
    <3> QED
      BY <3>1, <2>5, <2>6, <2>7
  <2>10. Newest(src)[k] = CHOOSE s \in versions : \A t \in versions : s.ver >= t.ver
    BY DEF Newest
  <2>11. Newest(src)[k] = r
    <3> HIDE DEF versions
    <3> QED
      BY <2>8, <2>9, <2>10
  <2> QED
    BY <2>4, <2>7, <2>11
<1> QED
  BY <1>1, <1>2

(* When a scan is positioned, the first source that has a key owes it. *)
LEMMA ScanBased ==
  ASSUME KvSources
  PROVE  \E D : SourceFresh(D, Newest(src), {})
<1> DEFINE b == Newest(src)
           D == [n \in DOMAIN src |->
                   {k \in SourceKeys(src[n]) : \A p \in DOMAIN src : k \in SourceKeys(src[p]) => n <= p}]
<1>1. DOMAIN src = 1 .. Len(src) /\ Len(src) \in Nat /\ VersionsOK(src, Len(src) + puts)
  BY DEF KvSources, SourcesOK
<1>2. DOMAIN b = Keys(src)
  BY NewestIs
<1>3. Keys(src) \subseteq Nat
  BY KeysFinite
<1>4. ASSUME NEW n \in DOMAIN src, NEW k \in SourceKeys(src[n])
      PROVE  src[n].recs[k].ver \in Nat /\ src[n].recs[k].del \in BOOLEAN /\ k \in Keys(src)
  <2>1. SourceOK(src[n])
    BY DEF KvSources, SourcesOK
  <2>2. src[n].recs[k] \in [ver : Nat, del : BOOLEAN]
    BY <2>1 DEF SourceOK
  <2> QED
    BY <2>2 DEF Keys
<1>5. Owes(src, D)
  BY DEF Owes
<1>6. ASSUME NEW k \in Keys(src)
      PROVE  /\ b[k].ver \in Nat /\ b[k].del \in BOOLEAN /\ \E n \in DOMAIN src : k \in D[n]
             /\ \A n \in DOMAIN src : k \in SourceKeys(src[n]) =>
                  RecFresh(n, k, src[n].recs[k].ver, src[n].recs[k].del, D, b, {})
  <2>1. PICK p \in DOMAIN src :
              /\ k \in SourceKeys(src[p]) /\ \A q \in DOMAIN src : k \in SourceKeys(src[q]) => p <= q
              /\ b[k] = src[p].recs[k]
    BY <1>6, NewestIs
  <2>2. b[k].ver \in Nat /\ b[k].del \in BOOLEAN
    BY <2>1, <1>4
  <2>3. k \in D[p]
    BY <2>1
  <2>4. ASSUME NEW n \in DOMAIN src, k \in SourceKeys(src[n])
        PROVE  RecFresh(n, k, src[n].recs[k].ver, src[n].recs[k].del, D, b, {})
    <3>1. p <= n
      BY <2>1, <2>4
    <3>2. CASE n = p
      BY <3>2, <2>1, <2>2 DEF RecFresh
    <3>3. CASE n # p
      <4>1. p < n
        BY <3>1, <3>3, <1>1
      <4>2. src[n].recs[k].ver < b[k].ver
        BY <4>1, <2>1, <2>4, <1>1 DEF VersionsOK
      <4>3. src[n].recs[k].ver \in Nat
        BY <1>4, <2>4
      <4>4. ~ (src[n].recs[k].ver >= b[k].ver)
        BY <4>2, <4>3, <2>2
      <4>5. ASSUME NEW q \in DOMAIN src, q >= n PROVE k \notin D[q]
        BY <4>1, <4>5, <2>1, <1>1
      <4> QED
        BY <4>4, <4>5 DEF RecFresh
    <3> QED
      BY <3>2, <3>3
  <2> QED
    BY <2>2, <2>3, <2>4
<1>7. SourceFresh(D, b, {})
  <2> HIDE DEF D, b
  <2>1. ASSUME NEW n \in DOMAIN src, NEW k \in SourceKeys(src[n])
        PROVE  RecFresh(n, k, src[n].recs[k].ver, src[n].recs[k].del, D, b, {})
    BY <1>4, <1>6
  <2> QED
    BY <2>1, <1>2, <1>3, <1>5, <1>6 DEF SourceFresh
<1> QED
  BY <1>7

(* A panic that is explained *)
LEMMA KvPanics ==
  ASSUME KvInv, kind = "kv", NEW c, Explained(c), Panic(c)
  PROVE  KvInv'
<1>1. panicked' = c /\ UNCHANGED <<kind, rev, src, puts, m, last, item, data, shown, base, removed>>
  BY DEF Panic, sourceVars, scanVars
<1>2. ReplaceAsserts'
  BY <1>1 DEF ReplaceAsserts, UnwrapsNothing, Explained, HeadReached
<1>3. KvSources /\ KvSources'
  BY <1>1 DEF KvInv, KvSources
<1>4. ASSUME NEW D, Scan(D) PROVE Scan(D)'
  BY <1>1, <1>4 DEF Scan, SourceFresh, RecFresh, KvAt, MergeStates, HeadInv, HeadReached, CurGood, Keys
<1>5. m \in MergeStates /\ m' \in MergeStates'
  BY <1>1 DEF KvInv, MergeStates
<1> QED
  BY <1>1, <1>2, <1>3, <1>4, <1>5 DEF KvInv

(* rewind and seek, once pre_fetch is done *)
LEMMA KvPositions ==
  ASSUME KvInv, kind = "kv", panicked = NoCall, NEW c, CallOK(c), NEW D, SourceFresh(D, Newest(src), {}),
         NEW p, NEW e \in BOOLEAN, e <=> p = NoItem,
         NEW x \in PreStates, PreInv(x, e, D, Newest(src), {}, c), Position(c, PreFetch(x), p)
  PROVE  KvInv'
<1>1. PICK z, b : z = PreFetch(x) /\ b = Newest(src)
  OBVIOUS
<1>2. KvSources /\ ReplaceAsserts
  BY DEF KvInv
<1>3. z \in PreStates /\ PreInv(z, e, D, b, {}, c) /\ (z.m.panics = TRUE \/ Enough(z)) /\ SourceFresh(D, b, {})
  BY <1>1, <1>2, PreFetchGood
<1>4. CASE z.m.panics = TRUE
  <2>1. Panic(c) /\ Explained(c)
    BY <1>1, <1>3, <1>4 DEF Position, PreInv, PreKept
  <2> QED
    BY <2>1, KvPanics
<1>5. CASE z.m.panics # TRUE
  <2>1. PICK x1 : x1 = z.m
    OBVIOUS
  <2>2. /\ x1 \in MergeStates /\ z.item \in Items /\ x1.panics = FALSE /\ ~ x1.panics
        /\ KvAt(x1, Rest(x1), D, b, {}, c) /\ CurGood(x1, b, {})
        /\ QueueGood(ShownBy(e, z), z.data, b, {})
        /\ z.item = NoItem => z.data = <<>>
        /\ z.item # NoItem => z.item.key # None
        /\ z.n <= Len(z.data) + 1
    BY <1>3, <1>5, <2>1 DEF PreStates, PreInv, PreKept
  <2>3. Settled(ShownBy(e, z), z.data, x1, b, {}, c)
    <3>1. CASE z.n = PreFetchSize
      BY <3>1, <2>1, <1>3, <1>5 DEF PreInv
    <3>2. CASE z.n # PreFetchSize
      <4>1. x1.cur = NoItem /\ Pending(ShownBy(e, z), z.data, x1, b, {}, c)
        BY <3>2, <2>1, <1>3, <1>5 DEF PreInv, Enough
      <4>2. DOMAIN b \subseteq Nat
        BY <1>3 DEF SourceFresh
      <4> QED
        BY <4>1, <4>2, <2>2, ItemPassed
    <3> QED
      BY <3>1, <3>2
  <2>4. z.data = <<>> => x1.cur = NoItem
    <3>1. ASSUME z.data = <<>>, x1.cur # NoItem PROVE FALSE
      <4>1. z.n = PreFetchSize
        BY <3>1, <2>1, <1>3, <1>5 DEF Enough
      <4>2. Len(z.data) = 0
        BY <3>1
      <4>3. z.n <= 1
        BY <4>2, <2>2
      <4> QED
        BY <4>1, <4>3, PreFetchAssumption
    <3> QED
      BY <3>1
  <2>5. /\ last' = c /\ m' = x1 /\ item' = z.item /\ data' = z.data
        /\ shown' = ShownBy(e, z) /\ base' = b /\ removed' = {}
        /\ UNCHANGED <<kind, rev, src, puts, panicked>>
    BY <1>1, <2>1, <2>2 DEF Position, ShownBy, sourceVars
  <2>6. KvSources'
    BY <1>2, <2>5 DEF KvSources
  <2>7. ReplaceAsserts'
    BY <2>5 DEF ReplaceAsserts
  <2>8. SourceFresh(D, base, removed)'
    BY <1>3, <2>5 DEF SourceFresh, RecFresh
  <2>9. KvAt(m, Rest(m), D, base, removed, last)'
    BY <2>2, <2>5 DEF KvAt, Rest, MergeStates, RecFresh, HeadInv, HeadReached
  <2>10. CurGood(m, base, removed)'
    BY <2>2, <2>5 DEF CurGood, Keys
  <2>11. Scan(D)'
    BY <2>2, <2>3, <2>4, <2>5, <2>8, <2>9, <2>10 DEF Scan
  <2>12. m' \in MergeStates' /\ m'.panics = FALSE
    BY <2>2, <2>5 DEF MergeStates
  <2>13. c # NoCall
    BY CallIs
  <2> QED
    BY <2>2, <2>5, <2>6, <2>7, <2>11, <2>12, <2>13 DEF KvInv
<1> QED
  BY <1>4, <1>5

(* pre_fetch starts from a merge that was positioned. *)
LEMMA KvBegins ==
  ASSUME KvSources, NEW c, NEW D, NEW b, SourceFresh(D, b, {}), NEW y, NEW R, Positioned(y, R, D, b, {}, c),
         \A k \in Nat : k >= c.key => k \in R,
         NEW p \in Items, p # NoItem => p.key # None, NEW e \in BOOLEAN, e <=> p = NoItem,
         NEW x, x = [m |-> y, item |-> p, data |-> <<>>, n |-> 0]
  PROVE  x \in PreStates /\ PreInv(x, e, D, b, {}, c)
<1>1. PICK q : q = << >>
  OBVIOUS
<1>2. q \in Seq(Items) /\ Len(q) = 0 /\ y \in MergeStates
  BY <1>1 DEF Positioned
<1>3. x.m = y /\ x.item = p /\ x.data = q /\ x.n = 0 /\ x \in PreStates
  BY <1>1, <1>2 DEF PreStates
<1>4. ShownBy(e, x) = q
  BY <1>1, <1>3 DEF ShownBy
<1>5. CASE y.panics = TRUE /\ \E n \in DOMAIN src : HeadReached(n, c)
  BY <1>3, <1>5 DEF PreInv, Explained
<1>6. CASE y.panics = FALSE /\ KvMoved(y, R, D, b, {}, c)
  <2>1. KvAt(y, Rest(y), D, b, {}, c) /\ CurGood(y, b, {}) /\ y.panics = FALSE
    BY <1>6 DEF KvMoved
  <2>2. DOMAIN b \subseteq Nat
    BY DEF SourceFresh
  <2>3. QueueGood(q, q, b, {}) /\ Pending(q, q, y, b, {}, c)
    BY <1>1, <1>6, <2>2, QueueBegins
  <2>4. x.n <= PreFetchSize /\ x.n <= Len(q) + 1 /\ x.n # PreFetchSize
    BY <1>2, <1>3, PreFetchAssumption
  <2>5. PreKept(x, e, D, b, {}, c)
    BY <2>1, <2>3, <2>4, <1>1, <1>3, <1>4 DEF PreKept
  <2> QED
    BY <2>3, <2>4, <2>5, <1>3, <1>4 DEF PreInv
<1> QED
  BY <1>5, <1>6 DEF Positioned

(* rewind of IteratorExt *)
LEMMA KvRewinds ==
  ASSUME KvInv, kind = "kv", panicked = NoCall, Rewind
  PROVE  KvInv'
<1>1. KvSources /\ m \in MergeStates /\ rev = FALSE
  BY DEF KvInv, KvSources
<1>2. PICK D : SourceFresh(D, Newest(src), {})
  BY <1>1, ScanBased
<1>3. PICK y, b, p : y = MergeRewind(src, rev, m) /\ b = Newest(src) /\ p = NoItem
  OBVIOUS
<1>4. PICK x : x = [m |-> y, item |-> p, data |-> <<>>, n |-> 0]
  OBVIOUS
<1>5. p \in Items /\ RewindCall.key = 0 /\ RewindCall.call = "rewind" /\ CallOK(RewindCall)
  BY <1>3 DEF NoItem, Items, None, RewindCall, CallOK
<1>6. \/ /\ y \in MergeStates /\ y.panics = TRUE
         /\ \E n \in DOMAIN src : src[n].kind = "memtable" /\ SourceKeys(src[n]) = {}
      \/ Positioned(y, Nat, D, b, {}, RewindCall)
  BY <1>1, <1>2, <1>3, KvRewound
<1>7. x \in PreStates /\ PreInv(x, TRUE, D, b, {}, RewindCall)
  <2>1. CASE Positioned(y, Nat, D, b, {}, RewindCall)
    <3>1. PICK e \in BOOLEAN : e = TRUE
      OBVIOUS
    <3>2. e <=> p = NoItem
      BY <3>1, <1>3
    <3>3. x \in PreStates /\ PreInv(x, e, D, b, {}, RewindCall)
      BY <2>1, <3>2, <1>1, <1>2, <1>3, <1>4, <1>5, KvBegins
    <3> QED
      BY <3>1, <3>3
  <2>2. CASE /\ y \in MergeStates /\ y.panics = TRUE
             /\ \E n \in DOMAIN src : src[n].kind = "memtable" /\ SourceKeys(src[n]) = {}
    <3>1. Explained(RewindCall)
      BY <2>2, <1>1, <1>5 DEF Explained
    <3>2. x.m = y
      BY <1>4
    <3>3. x \in PreStates
      <4>1. PICK q : q = << >>
        OBVIOUS
      <4>2. q \in Seq(Items)
        BY <4>1
      <4> QED
        BY <2>2, <4>1, <4>2, <1>4, <1>5 DEF PreStates
    <3> QED
      BY <2>2, <3>1, <3>2, <3>3 DEF PreInv
  <2> QED
    BY <2>1, <2>2, <1>6
<1>8. Position(RewindCall, PreFetch(x), p)
  BY <1>3, <1>4 DEF Rewind
<1>9. PICK e \in BOOLEAN : e = TRUE /\ (e <=> p = NoItem)
  BY <1>3
<1>10. PreInv(x, e, D, Newest(src), {}, RewindCall)
  BY <1>3, <1>7, <1>9
<1> QED
  BY <1>2, <1>5, <1>7, <1>8, <1>9, <1>10, KvPositions

(* seek of IteratorExt *)
LEMMA KvSeeks ==
  ASSUME KvInv, kind = "kv", panicked = NoCall, NEW k \in Nat \ {0}, Seek(k)
  PROVE  KvInv'
<1>1. KvSources /\ m \in MergeStates /\ rev = FALSE /\ item \in Items /\ (item # NoItem => item.key # None)
  BY DEF KvInv, KvSources
<1>2. PICK D : SourceFresh(D, Newest(src), {})
  BY <1>1, ScanBased
<1>3. PICK y, b, p, c : y = MergeSeek(src, rev, k, m) /\ b = Newest(src) /\ p = item /\ c = SeekCall(k)
  OBVIOUS
<1>4. PICK x : x = [m |-> y, item |-> p, data |-> <<>>, n |-> 0]
  OBVIOUS
<1>5. c.key = k /\ CallOK(c)
  BY <1>3 DEF SeekCall, CallOK
<1>6. Positioned(y, Onward(FALSE, Nat, k), D, b, {}, c)
  BY <1>1, <1>2, <1>3, KvSought
<1>7. \A j \in Nat : j >= c.key => j \in Onward(FALSE, Nat, k)
  BY <1>5 DEF Onward, After
<1>8. PICK e \in BOOLEAN : e <=> p = NoItem
  OBVIOUS
<1>9. x \in PreStates /\ PreInv(x, e, D, b, {}, c)
  BY <1>1, <1>2, <1>3, <1>4, <1>6, <1>7, <1>8, KvBegins
<1>10. Position(c, PreFetch(x), p)
  BY <1>3, <1>4 DEF Seek
<1>11. PreInv(x, e, D, Newest(src), {}, c)
  BY <1>3, <1>9
<1> QED
  BY <1>2, <1>5, <1>8, <1>9, <1>10, <1>11, KvPositions

(* The head of the queue is shown. *)
LEMMA HeadShown ==
  ASSUME NEW b, NEW g, NEW c, NEW s, NEW q, NEW x, QueueGood(s, q, b, g), Settled(s, q, x, b, g, c), q # <<>>
  PROVE  /\ Head(q) \in Items /\ Head(q) # NoItem /\ Head(q).key # None
         /\ QueueGood(Append(s, Head(q)), Tail(q), b, g)
         /\ Settled(Append(s, Head(q)), Tail(q), x, b, g, c)
<1>1. PICK h, u, t : h = Head(q) /\ u = Append(s, h) /\ t = Tail(q)
  OBVIOUS
<1>2. s \in Seq(Items) /\ q \in Seq(Items) /\ Len(s) \in Nat /\ Len(q) \in Nat /\ Len(q) >= 1
  BY DEF QueueGood
<1>3. h = q[1] /\ 1 \in DOMAIN q /\ h \in Items
  BY <1>1, <1>2
<1>4. ItemGood(h, b, g) /\ ~ h.del /\ h.key # None /\ h # NoItem
  <2>1. ItemGood(h, b, g) /\ ~ h.del
    BY <1>3 DEF QueueGood
  <2> QED
    BY <2>1 DEF ItemGood, NoItem
<1>5. /\ u \in Seq(Items) /\ DOMAIN u = 1 .. Len(s) + 1 /\ DOMAIN s = 1 .. Len(s)
      /\ \A i \in 1 .. Len(s) + 1 : u[i] = IF i = Len(s) + 1 THEN h ELSE s[i]
  BY <1>1, <1>2, <1>3
<1>6. /\ t \in Seq(Items) /\ DOMAIN t = 1 .. Len(q) - 1 /\ DOMAIN q = 1 .. Len(q)
      /\ \A i \in 1 .. Len(q) - 1 : t[i] = q[i + 1]
  BY <1>1, <1>2
<1>7. ASSUME NEW i \in DOMAIN u
      PROVE  (i = Len(s) + 1 /\ u[i] = h) \/ (i \in DOMAIN s /\ i # Len(s) + 1 /\ u[i] = s[i])
  BY <1>2, <1>5, <1>7
<1>8. ASSUME NEW i \in DOMAIN t PROVE i + 1 \in DOMAIN q /\ 1 < i + 1 /\ t[i] = q[i + 1]
  BY <1>2, <1>6, <1>8
<1>9. QueueGood(u, t, b, g)
  <2>1. ASSUME NEW i \in DOMAIN u, NEW j \in DOMAIN u, i < j PROVE u[i].key < u[j].key
    <3>1. i \in DOMAIN s /\ u[i] = s[i]
      BY <2>1, <1>2, <1>5, <1>7
    <3>2. CASE j = Len(s) + 1
      <4>1. u[j] = h
        BY <3>2, <1>5, <1>7
      <4> QED
        BY <3>1, <4>1, <1>3 DEF QueueGood
    <3>3. CASE j # Len(s) + 1
      <4>1. j \in DOMAIN s /\ u[j] = s[j]
        BY <3>3, <1>7
      <4> QED
        BY <3>1, <4>1, <2>1 DEF QueueGood
    <3> QED
      BY <3>2, <3>3
  <2>2. ASSUME NEW i \in DOMAIN t, NEW j \in DOMAIN t, i < j PROVE t[i].key < t[j].key
    <3>1. i + 1 \in DOMAIN q /\ j + 1 \in DOMAIN q /\ t[i] = q[i + 1] /\ t[j] = q[j + 1]
      BY <1>8
    <3>2. i + 1 < j + 1
      BY <2>2, <1>6
    <3> QED
      BY <3>1, <3>2 DEF QueueGood
  <2>3. ASSUME NEW i \in DOMAIN u, NEW j \in DOMAIN t PROVE u[i].key < t[j].key
    <3>1. j + 1 \in DOMAIN q /\ 1 < j + 1 /\ t[j] = q[j + 1]
      BY <1>8
    <3>2. h.key < t[j].key
      BY <3>1, <1>3 DEF QueueGood
    <3>3. \A p \in DOMAIN s : s[p].key < t[j].key
      BY <3>1 DEF QueueGood
    <3> QED
      BY <3>2, <3>3, <1>7
  <2>4. ASSUME NEW i \in DOMAIN u PROVE ItemGood(u[i], b, g) /\ ~ u[i].del
    BY <1>4, <1>7 DEF QueueGood
  <2>5. ASSUME NEW i \in DOMAIN t PROVE ItemGood(t[i], b, g) /\ ~ t[i].del
    BY <1>8 DEF QueueGood
  <2> QED
    BY <2>1, <2>2, <2>3, <2>4, <2>5, <1>5, <1>6 DEF QueueGood
<1>10. Settled(u, t, x, b, g, c)
  <2>1. ASSUME x.cur # NoItem
        PROVE  (\A i \in DOMAIN u : u[i].key <= x.cur.key) /\ (\A i \in DOMAIN t : t[i].key <= x.cur.key)
    <3>1. /\ \A i \in DOMAIN s : s[i].key <= x.cur.key
          /\ \A i \in DOMAIN q : q[i].key <= x.cur.key
      BY <2>1 DEF Settled
    <3> QED
      BY <3>1, <1>3, <1>7, <1>8
  <2>2. ASSUME NEW k, Shows(s, k) PROVE Shows(u, k)
    <3>1. PICK i \in DOMAIN s : s[i].key = k
      BY <2>2 DEF Shows
    <3>2. i \in DOMAIN u /\ i # Len(s) + 1
      BY <1>2, <1>5
    <3>3. u[i] = s[i]
      BY <3>2, <1>7
    <3> QED
      BY <3>1, <3>2, <3>3 DEF Shows
  <2>3. ASSUME NEW k, Shows(q, k) PROVE Shows(u, k) \/ Shows(t, k)
    <3>1. PICK i \in DOMAIN q : q[i].key = k
      BY <2>3 DEF Shows
    <3>2. CASE i = 1
      <4>1. Len(s) + 1 \in DOMAIN u
        BY <1>2, <1>5
      <4>2. u[Len(s) + 1] = h
        BY <4>1, <1>5
      <4> QED
        BY <4>1, <4>2, <3>1, <3>2, <1>3 DEF Shows
    <3>3. CASE i # 1
      <4>1. i - 1 \in DOMAIN t /\ (i - 1) + 1 = i
        BY <3>3, <1>2, <1>6
      <4>2. t[i - 1] = q[i]
        BY <4>1, <1>8
      <4> QED
        BY <4>1, <4>2, <3>1 DEF Shows
    <3> QED
      BY <3>2, <3>3
  <2> QED
    BY <2>1, <2>2, <2>3 DEF Settled
<1> QED
  BY <1>1, <1>3, <1>4, <1>9, <1>10

(* The tail of a queue that an item has joined *)
LEMMA TailAppends ==
  ASSUME NEW q \in Seq(Items), q # <<>>
  PROVE  /\ Tail(q) \o <<>> = Tail(q)
         /\ \A h \in Items : /\ Tail(q) \o <<h>> = Tail(Append(q, h)) /\ Head(Append(q, h)) = Head(q)
                             /\ Tail(Append(q, h)) # <<>>
<1>1. Len(q) \in Nat /\ Len(q) >= 1 /\ Tail(q) \in Seq(Items) /\ Len(Tail(q)) = Len(q) - 1
  OBVIOUS
<1>2. Tail(q) \o <<>> = Tail(q)
  BY <1>1, ConcatEmptySeq
<1>3. ASSUME NEW h \in Items
      PROVE  /\ Tail(q) \o <<h>> = Tail(Append(q, h)) /\ Head(Append(q, h)) = Head(q)
             /\ Tail(Append(q, h)) # <<>>
  <2>1. Head(Append(q, h)) = Head(q) /\ Tail(Append(q, h)) = Append(Tail(q), h)
    BY HeadTailAppend
  <2>2. Append(Tail(q), h) = Tail(q) \o <<h>> /\ Append(Tail(q), h) # <<>>
    BY <1>1, AppendIsConcat, AppendProperties, ZenonT(20)
  <2> QED
    BY <2>1, <2>2
<1> QED
  BY <1>2, <1>3

(* next of IteratorExt *)
LEMMA KvNexts ==
  ASSUME KvInv, kind = "kv", panicked = NoCall, NextItem
  PROVE  KvInv'
<1>1. last # NoCall
  BY DEF NextItem
<1>2. KvSources /\ m \in MergeStates /\ CallOK(last) /\ \E D : Scan(D)
  BY <1>1 DEF KvInv
<1>3. PICK D : Scan(D)
  BY <1>2
<1>4. PICK y, s, q, b, g, c : y = NextLive /\ s = shown /\ q = data /\ b = base /\ g = removed /\ c = last
  OBVIOUS
<1>5. /\ SourceFresh(D, b, g) /\ KvAt(m, Rest(m), D, b, g, c) /\ QueueGood(s, q, b, g)
      /\ Settled(s, q, m, b, g, c) /\ (q = <<>> => m.cur = NoItem) /\ DOMAIN b \subseteq Nat
  BY <1>3, <1>4 DEF Scan, SourceFresh
<1>6. /\ y \in MergeStates /\ LiveInv(y, s, q, D, b, g, c)
      /\ y.panics = TRUE \/ ~ y.cur.del
      /\ m.cur = NoItem => y.panics = TRUE \/ y.cur = NoItem
  BY <1>2, <1>4, <1>5, NextLiveGood
<1>7. CASE y.panics = TRUE
  <2>1. Panic(last) /\ Explained(last)
    BY <1>4, <1>6, <1>7 DEF NextItem, LiveInv
  <2> QED
    BY <2>1, KvPanics
<1>8. CASE y.panics # TRUE
  <2>1. /\ y.panics = FALSE /\ ~ y.panics /\ KvAt(y, Rest(y), D, b, g, c) /\ CurGood(y, b, g)
        /\ Pending(s, q, y, b, g, c) /\ y.cur \in Items
    BY <1>6, <1>8 DEF LiveInv, MergeStates
  <2>2. PICK add : add = IF y.cur = NoItem THEN <<>> ELSE <<y.cur>>
    OBVIOUS
  <2>3. /\ m' = y
        /\ item' = IF q = <<>> THEN NoItem ELSE Head(q)
        /\ data' = (IF q = <<>> THEN <<>> ELSE Tail(q)) \o add
        /\ shown' = IF item' = NoItem THEN s ELSE Append(s, item')
        /\ last' = c /\ base' = b /\ removed' = g
        /\ UNCHANGED <<kind, rev, src, puts, panicked>>
    BY <2>1, <2>2, <1>4 DEF NextItem, sourceVars
  <2>4. PICK u : /\ QueueGood(s, u, b, g) /\ Settled(s, u, y, b, g, c)
                 /\ q = <<>> => u = <<>> /\ y.cur = NoItem /\ <<>> \o add = <<>>
                 /\ q # <<>> => u # <<>> /\ Head(u) = Head(q) /\ Tail(q) \o add = Tail(u)
                 /\ q # <<>> /\ y.cur # NoItem => Tail(u) # <<>>
    <3>1. q \in Seq(Items)
      BY <1>5 DEF QueueGood
    <3>2. CASE y.cur = NoItem
      <4>1. add = <<>> /\ <<>> \o add = <<>>
        BY <2>2, <3>2
      <4>2. Settled(s, q, y, b, g, c)
        BY <2>1, <3>2, <1>5, ItemPassed
      <4>3. q # <<>> => Tail(q) \o add = Tail(q)
        BY <3>1, <4>1, TailAppends
      <4> QED
        BY <4>1, <4>2, <4>3, <3>2, <1>5
    <3>3. CASE y.cur # NoItem
      <4>1. q # <<>> /\ ItemGood(y.cur, b, g) /\ ~ y.cur.del /\ add = <<y.cur>>
        BY <2>1, <2>2, <3>3, <1>5, <1>6 DEF CurGood
      <4>2. PICK u : u = Append(q, y.cur)
        OBVIOUS
      <4>3. QueueGood(s, u, b, g) /\ Settled(s, u, y, b, g, c) /\ u # <<>>
        BY <4>1, <4>2, <2>1, <3>3, <1>5, ItemQueued
      <4>4. Head(u) = Head(q) /\ Tail(q) \o add = Tail(u) /\ Tail(u) # <<>>
        BY <4>1, <4>2, <3>1, <2>1, TailAppends
      <4> QED
        BY <4>1, <4>3, <4>4
    <3> QED
      BY <3>2, <3>3
  <2>5. /\ QueueGood(shown', data', b, g) /\ Settled(shown', data', y, b, g, c)
        /\ data' = <<>> => y.cur = NoItem
        /\ item' = NoItem => data' = <<>>
        /\ item' \in Items /\ (item' # NoItem => item'.key # None)
    <3>1. CASE q = <<>>
      <4>1. item' = NoItem /\ data' = <<>> /\ shown' = s /\ NoItem \in Items
        BY <2>3, <2>4, <3>1 DEF NoItem, Items, None
      <4> QED
        BY <4>1, <2>4, <3>1
    <3>2. CASE q # <<>>
      <4>1. /\ Head(u) \in Items /\ Head(u) # NoItem /\ Head(u).key # None
            /\ QueueGood(Append(s, Head(u)), Tail(u), b, g)
            /\ Settled(Append(s, Head(u)), Tail(u), y, b, g, c)
        BY <2>4, <3>2, HeadShown
      <4>2. item' = Head(u) /\ data' = Tail(u) /\ shown' = Append(s, Head(u))
        BY <4>1, <2>3, <2>4, <3>2
      <4>3. data' = <<>> => y.cur = NoItem
        BY <4>2, <2>4, <3>2
      <4> QED
        BY <4>1, <4>2, <4>3
    <3> QED
      BY <3>1, <3>2
  <2>6. KvSources'
    BY <1>2, <2>3 DEF KvSources
  <2>7. ReplaceAsserts'
    BY <2>3 DEF ReplaceAsserts
  <2>8. SourceFresh(D, base, removed)'
    BY <1>5, <2>3 DEF SourceFresh, RecFresh
  <2>9. KvAt(m, Rest(m), D, base, removed, last)'
    BY <2>1, <2>3 DEF KvAt, Rest, MergeStates, RecFresh, HeadInv, HeadReached
  <2>10. CurGood(m, base, removed)'
    BY <2>1, <2>3 DEF CurGood, Keys
  <2>11. Scan(D)'
    BY <2>3, <2>5, <2>8, <2>9, <2>10 DEF Scan
  <2>12. m' \in MergeStates' /\ m'.panics = FALSE
    BY <1>6, <2>1, <2>3 DEF MergeStates
  <2> QED
    BY <1>1, <1>2, <1>4, <2>3, <2>5, <2>6, <2>7, <2>11, <2>12 DEF KvInv
<1> QED
  BY <1>7, <1>8

(* The length of a list *)
LEMMA LenIs ==
  ASSUME NEW w \in Nat, NEW f, DOMAIN f = 1 .. w, f = [n \in DOMAIN f |-> f[n]]
  PROVE  Len(f) = w
<1> DEFINE S == {f[n] : n \in 1 .. w}
<1>1. f \in [1 .. w -> S]
  OBVIOUS
<1>2. f \in Seq(S)
  BY <1>1, SeqDef
<1>3. Len(f) \in Nat /\ DOMAIN f = 1 .. Len(f)
  BY <1>2, LenProperties
<1> QED
  BY <1>3

(* What a put leaves of the sources *)
PutTo(cs, k, r) ==
  /\ cs = [n \in DOMAIN cs |-> cs[n]] /\ DOMAIN cs = DOMAIN src /\ Len(cs) = Len(src)
  /\ \A n \in DOMAIN src : n # 1 => cs[n] = src[n]
  /\ cs[1].kind = "memtable" /\ SourceOK(cs[1]) /\ SourceKeys(cs[1]) = SourceKeys(src[1]) \cup {k}
  /\ cs[1].recs[k] = r
  /\ \A j \in SourceKeys(src[1]) : j # k => cs[1].recs[j] = src[1].recs[j]

(* A put *)
LEMMA PutIs ==
  ASSUME KvSources, NEW k \in Nat \ {0}, NEW del \in BOOLEAN, Put(k, del)
  PROVE  PutTo(src', k, [ver |-> Len(src) + puts + 1, del |-> del])
<1>1. PICK c, r, w : c = src[1] /\ r = [ver |-> Len(src) + puts + 1, del |-> del] /\ w = Len(src)
  OBVIOUS
<1>2. w \in Nat /\ DOMAIN src = 1 .. w /\ 1 \in DOMAIN src /\ puts \in Nat /\ src = [n \in DOMAIN src |-> src[n]]
  BY <1>1 DEF KvSources, SourcesOK
<1>3. SourceOK(c) /\ c.kind = "memtable"
  BY <1>1, <1>2 DEF KvSources, SourcesOK
<1>4. c = [kind |-> c.kind, tables |-> c.tables, recs |-> c.recs]
  BY <1>3 DEF SourceOK
<1>5. /\ c.recs \in [SourceKeys(c) -> [ver : Nat, del : BOOLEAN]]
      /\ IsFiniteSet(SourceKeys(c)) /\ SourceKeys(c) \subseteq Nat \ {0}
  BY <1>3 DEF SourceOK
<1>6. PICK f : f = [j \in SourceKeys(c) \cup {k} |-> IF j = k THEN r ELSE c.recs[j]]
  OBVIOUS
<1>7. PICK c1 : c1 = [kind |-> c.kind, tables |-> c.tables, recs |-> f]
  OBVIOUS
<1>8. src' = [src EXCEPT ![1] = c1]
  <2>1. src' = [src EXCEPT ![1].recs =
                  [j \in SourceKeys(src[1]) \cup {k} |-> IF j = k THEN r ELSE @[j]]]
    BY <1>1 DEF Put
  <2>2. [c EXCEPT !.recs = f] = c1
    BY <1>4, <1>7
  <2> QED
    BY <2>1, <2>2, <1>1, <1>2, <1>6
<1>9. PICK cs : cs = [src EXCEPT ![1] = c1]
  OBVIOUS
<1>10. /\ cs = [n \in DOMAIN cs |-> cs[n]] /\ DOMAIN cs = DOMAIN src /\ cs[1] = c1
       /\ \A n \in DOMAIN src : n # 1 => cs[n] = src[n]
  BY <1>2, <1>9
<1>11. Len(cs) = Len(src)
  BY <1>1, <1>2, <1>10, LenIs
<1>12. /\ c1.kind = "memtable" /\ c1.recs = f /\ SourceKeys(c1) = SourceKeys(c) \cup {k} /\ f[k] = r
       /\ \A j \in SourceKeys(c) : j # k => f[j] = c.recs[j]
  BY <1>3, <1>6, <1>7 DEF SourceKeys
<1>13. SourceOK(c1)
  <2>1. r \in [ver : Nat, del : BOOLEAN]
    BY <1>1, <1>2
  <2>2. f \in [SourceKeys(c) \cup {k} -> [ver : Nat, del : BOOLEAN]]
    BY <2>1, <1>5, <1>6
  <2>3. IsFiniteSet(SourceKeys(c) \cup {k})
    BY <1>5, FS_AddElement
  <2>4. SourceKeys(c) \cup {k} \subseteq Nat \ {0}
    BY <1>5
  <2>5. c1 = [kind |-> c1.kind, tables |-> c1.tables, recs |-> c1.recs]
    BY <1>7
  <2> QED
    BY <2>2, <2>3, <2>4, <2>5, <1>12 DEF SourceOK
<1> QED
  BY <1>1, <1>8, <1>9, <1>10, <1>11, <1>12, <1>13 DEF PutTo

(* A put leaves the sources in order: its record is the newest one. *)
LEMMA PutSources ==
  ASSUME KvSources, NEW k \in Nat \ {0}, NEW del \in BOOLEAN, Put(k, del)
  PROVE  KvSources'
<1>1. PICK cs, w, r : cs = src' /\ w = Len(src) /\ r = [ver |-> Len(src) + puts + 1, del |-> del]
  OBVIOUS
<1>2. PutTo(cs, k, r)
  BY <1>1, PutIs
<1>3. w \in Nat /\ w > 0 /\ DOMAIN src = 1 .. w /\ puts \in Nat /\ 1 \in DOMAIN src
  BY <1>1 DEF KvSources, SourcesOK
<1>4. r.ver = w + puts + 1
  BY <1>1
<1>5. /\ cs = [n \in DOMAIN cs |-> cs[n]] /\ DOMAIN cs = DOMAIN src /\ Len(cs) = w
      /\ cs[1].kind = "memtable" /\ SourceOK(cs[1]) /\ \A n \in DOMAIN src : n # 1 => cs[n] = src[n]
  BY <1>1, <1>2 DEF PutTo
<1>6. SourcesOK(cs) /\ \A n \in DOMAIN cs : cs[n].kind # "concat"
  BY <1>3, <1>5 DEF KvSources, SourcesOK
<1>7. VersionsOK(cs, w + puts + 1)
  <2>1. SUFFICES ASSUME NEW n \in DOMAIN src, NEW j \in SourceKeys(cs[n])
                 PROVE  /\ cs[n].recs[j].ver <= w + puts + 1
                        /\ \A p \in DOMAIN src : n < p /\ j \in SourceKeys(cs[p]) =>
                             cs[p].recs[j].ver < cs[n].recs[j].ver
    BY <1>5 DEF VersionsOK
  <2>2. ASSUME NEW p \in DOMAIN src, j \in SourceKeys(src[p])
        PROVE  src[p].recs[j].ver \in Nat /\ src[p].recs[j].ver <= w + puts
    <3>1. SourceOK(src[p]) /\ VersionsOK(src, w + puts)
      BY <1>1 DEF KvSources, SourcesOK
    <3>2. src[p].recs[j] \in [ver : Nat, del : BOOLEAN]
      BY <3>1, <2>2 DEF SourceOK
    <3> QED
      BY <3>1, <3>2, <2>2 DEF VersionsOK
  <2>3. CASE n = 1 /\ j = k
    <3>1. cs[n].recs[j].ver = w + puts + 1
      BY <2>3, <1>2, <1>4 DEF PutTo
    <3>2. ASSUME NEW p \in DOMAIN src, n < p, j \in SourceKeys(cs[p])
          PROVE  cs[p].recs[j].ver < cs[n].recs[j].ver
      <4>1. cs[p] = src[p]
        BY <2>3, <3>2, <1>3, <1>5
      <4>2. src[p].recs[j].ver \in Nat /\ src[p].recs[j].ver <= w + puts
        BY <4>1, <3>2, <2>2
      <4> QED
        BY <4>1, <4>2, <3>1, <1>3
    <3> QED
      BY <3>1, <3>2, <1>3
  <2>4. CASE ~ (n = 1 /\ j = k)
    <3>1. j \in SourceKeys(src[n]) /\ cs[n].recs[j] = src[n].recs[j]
      <4>1. CASE n = 1
        BY <4>1, <2>1, <2>4, <1>2 DEF PutTo
      <4>2. CASE n # 1
        BY <4>2, <2>1, <1>5
      <4> QED
        BY <4>1, <4>2
    <3>2. src[n].recs[j].ver \in Nat /\ src[n].recs[j].ver <= w + puts
      BY <3>1, <2>2
    <3>3. ASSUME NEW p \in DOMAIN src, n < p, j \in SourceKeys(cs[p])
          PROVE  cs[p].recs[j].ver < cs[n].recs[j].ver
      <4>1. cs[p] = src[p]
        BY <3>3, <1>3, <1>5
      <4> QED
        BY <4>1, <3>1, <3>3 DEF KvSources, VersionsOK
    <3> QED
      BY <3>1, <3>2, <3>3, <1>3
  <2> QED
    BY <2>3, <2>4
<1>8. rev' = rev /\ puts' = puts + 1 /\ puts' \in Nat
  BY <1>3 DEF Put
<1>9. Len(cs) + puts' = w + puts + 1
  BY <1>3, <1>5, <1>8
<1>10. VersionsOK(cs, Len(cs) + puts')
  BY <1>7, <1>9, Zenon
<1> QED
  BY <1>1, <1>3, <1>5, <1>6, <1>8, <1>10 DEF KvSources

(* What is as new as it was stays so while keys are deleted. *)
LEMMA RecGrows ==
  ASSUME DOMAIN src' = DOMAIN src, NEW n, NEW k, NEW v, NEW d, NEW D, NEW b, NEW g, NEW h, g \subseteq h,
         RecFresh(n, k, v, d, D, b, g)
  PROVE  RecFresh(n, k, v, d, D, b, h)'
BY DEF RecFresh

(* A put is as new as what was there, and counts as a deletion if it is one. *)
LEMMA PutFresh ==
  ASSUME KvSources, NEW k \in Nat \ {0}, NEW del \in BOOLEAN, Put(k, del), NEW D,
         SourceFresh(D, base, removed)
  PROVE  SourceFresh(D, base, removed)'
<1>1. PICK cs, w, r : cs = src' /\ w = Len(src) /\ r = [ver |-> Len(src) + puts + 1, del |-> del]
  OBVIOUS
<1>2. PutTo(cs, k, r)
  BY <1>1, PutIs
<1>3. PICK b, g, h : b = base /\ g = removed /\ h = removed'
  OBVIOUS
<1>4. base' = b /\ g \subseteq h /\ (del => k \in h) /\ puts \in Nat /\ w \in Nat /\ DOMAIN src = 1 .. w
  BY <1>1, <1>3 DEF Put, KvSources, SourcesOK
<1>5. SourceFresh(D, b, g)
  BY <1>3
<1>6. r.ver = w + puts + 1 /\ r.del = del
  BY <1>1
<1>7. DOMAIN cs = DOMAIN src /\ 1 \in DOMAIN src
  BY <1>2 DEF PutTo, KvSources, SourcesOK
<1>8. ASSUME NEW n \in DOMAIN src
      PROVE  D[n] \subseteq SourceKeys(cs[n])
  <2>1. D[n] \subseteq SourceKeys(src[n])
    BY <1>5 DEF SourceFresh, Owes
  <2> QED
    BY <2>1, <1>2 DEF PutTo
<1>9. ASSUME NEW n \in DOMAIN src, NEW j \in SourceKeys(cs[n])
      PROVE  RecFresh(n, j, cs[n].recs[j].ver, cs[n].recs[j].del, D, b, h)'
  <2>1. CASE n = 1 /\ j = k
    <3>1. cs[n].recs[j].ver = w + puts + 1 /\ cs[n].recs[j].del = del
      BY <2>1, <1>2, <1>6 DEF PutTo
    <3>2. ASSUME k \in DOMAIN b PROVE w + puts + 1 >= b[k].ver
      <4>1. b[k].ver \in Nat
        BY <3>2, <1>5 DEF SourceFresh
      <4>2. PICK p \in DOMAIN src : k \in D[p]
        BY <3>2, <1>5 DEF SourceFresh
      <4>3. k \in SourceKeys(src[p])
        BY <4>2, <1>5 DEF SourceFresh, Owes
      <4>4. RecFresh(p, k, src[p].recs[k].ver, src[p].recs[k].del, D, b, g)
        BY <4>3, <1>5 DEF SourceFresh
      <4>5. p \in Int /\ p >= p
        BY <1>4
      <4>6. src[p].recs[k].ver >= b[k].ver
        BY <4>2, <4>4, <4>5, <3>2 DEF RecFresh
      <4>7. src[p].recs[k] \in [ver : Nat, del : BOOLEAN] /\ src[p].recs[k].ver <= w + puts
        <5>1. SourceOK(src[p]) /\ VersionsOK(src, w + puts)
          BY <1>1 DEF KvSources, SourcesOK
        <5> QED
          BY <5>1, <4>3 DEF SourceOK, VersionsOK
      <4>8. src[p].recs[k].ver \in Nat
        BY <4>7
      <4> QED
        BY <4>1, <4>6, <4>7, <4>8, <1>4
    <3> QED
      BY <3>1, <3>2, <2>1, <1>4 DEF RecFresh
  <2>2. CASE ~ (n = 1 /\ j = k)
    <3>1. j \in SourceKeys(src[n]) /\ cs[n].recs[j] = src[n].recs[j]
      <4>1. CASE n = 1
        BY <4>1, <1>9, <2>2, <1>2 DEF PutTo
      <4>2. CASE n # 1
        BY <4>2, <1>9, <1>2 DEF PutTo
      <4> QED
        BY <4>1, <4>2
    <3>2. RecFresh(n, j, src[n].recs[j].ver, src[n].recs[j].del, D, b, g)
      BY <3>1, <1>5 DEF SourceFresh
    <3>3. PICK v, d : v = src[n].recs[j].ver /\ d = src[n].recs[j].del
      OBVIOUS
    <3>4. RecFresh(n, j, v, d, D, b, h)'
      BY <3>2, <3>3, <1>1, <1>4, <1>7, RecGrows
    <3> QED
      BY <3>1, <3>3, <3>4
  <2> QED
    BY <2>1, <2>2
<1>10. Owes(cs, D)
  BY <1>7, <1>8 DEF Owes
<1>11. DOMAIN b \subseteq Nat /\ \A j \in DOMAIN b : b[j].ver \in Nat /\ b[j].del \in BOOLEAN /\ \E n \in DOMAIN cs : j \in D[n]
  BY <1>5, <1>7 DEF SourceFresh
<1> QED
  BY <1>1, <1>3, <1>4, <1>7, <1>9, <1>10, <1>11 DEF SourceFresh

(* A put does not move the iterators. *)
LEMMA PutMoves ==
  ASSUME KvSources, NEW k \in Nat \ {0}, NEW del \in BOOLEAN, Put(k, del), NEW D,
         KvAt(m, Rest(m), D, base, removed, last)
  PROVE  KvAt(m, Rest(m), D, base, removed, last)'
<1>1. PICK cs, r : cs = src' /\ r = [ver |-> Len(src) + puts + 1, del |-> del]
  OBVIOUS
<1>2. PutTo(cs, k, r)
  BY <1>1, PutIs
<1>3. PICK b, g, h, x, R, c : b = base /\ g = removed /\ h = removed' /\ x = m /\ R = Rest(m) /\ c = last
  OBVIOUS
<1>4. base' = b /\ g \subseteq h /\ m' = x /\ Rest(m)' = R /\ last' = c /\ rev' = rev
  BY <1>3 DEF Put, Rest
<1>5. KvAt(x, R, D, b, g, c)
  BY <1>3
<1>6. DOMAIN cs = DOMAIN src /\ cs[1].kind = "memtable" /\ src[1].kind = "memtable"
  BY <1>2 DEF PutTo, KvSources
<1>7. ASSUME NEW n \in DOMAIN src
      PROVE  SourceKeys(src[n]) \subseteq SourceKeys(cs[n])
  BY <1>2 DEF PutTo
<1>8. ASSUME NEW n \in DOMAIN src
      PROVE  HeapAt(cs[n], FALSE, x.its[n], x.heap[n], R, D[n])
  <2>1. HeapAt(src[n], FALSE, x.its[n], x.heap[n], R, D[n])
    BY <1>5 DEF KvAt, MergeAt
  <2>2. CASE n # 1
    BY <2>1, <2>2, <1>2 DEF PutTo
  <2>3. CASE n = 1
    <3>1. PICK i : i = x.its[n]
      OBVIOUS
    <3>2. ItShape(cs[n], i)
      BY <2>3, <1>6 DEF ItShape
    <3>3. ItWalks(cs[n], FALSE, i)
      <4>1. MemWalks(SourceKeys(src[n]), i)
        BY <2>1, <2>3, <3>1, <1>6 DEF HeapAt, ItWalks
      <4>2. MemWalks(SourceKeys(cs[n]), i)
        BY <4>1, <1>7 DEF MemWalks
      <4> QED
        BY <4>2, <2>3, <1>6 DEF ItWalks
    <3>4. ItPeek(cs[n], i) = ItPeek(src[n], i)
      BY <2>3, <1>6 DEF ItPeek
    <3> QED
      BY <2>1, <3>1, <3>2, <3>3, <3>4 DEF HeapAt
  <2> QED
    BY <2>2, <2>3
<1>9. MergeAt(cs, FALSE, x, R, D)
  BY <1>6, <1>8 DEF MergeAt
<1>10. ASSUME NEW n \in DOMAIN src, x.heap[n].key # None
       PROVE  RecFresh(n, x.heap[n].key, x.heap[n].ver, x.heap[n].del, D, b, h)'
  <2>1. PICK j, v, d : j = x.heap[n].key /\ v = x.heap[n].ver /\ d = x.heap[n].del
    OBVIOUS
  <2>2. RecFresh(n, j, v, d, D, b, g)
    BY <2>1, <1>5, <1>10 DEF KvAt
  <2>3. RecFresh(n, j, v, d, D, b, h)'
    BY <2>2, <1>1, <1>4, <1>6, RecGrows
  <2> QED
    BY <2>1, <2>3
<1>11. ASSUME NEW n \in DOMAIN src, HeadReached(n, c)
       PROVE  HeadReached(n, c)'
  BY <1>1, <1>4, <1>7, <1>11 DEF HeadReached
<1>12. HeadInv(x, c)'
  <2>1. HeadInv(x, c)
    BY <1>5 DEF KvAt
  <2> QED
    BY <2>1, <1>1, <1>4, <1>6, <1>11 DEF HeadInv
<1>13. x \in MergeStates' /\ x.panics = FALSE
  BY <1>1, <1>5, <1>6 DEF KvAt, MergeStates
<1> QED
  BY <1>1, <1>3, <1>4, <1>6, <1>9, <1>10, <1>12, <1>13 DEF KvAt

(* A put on a scan: what was queued and shown stays right. *)
LEMMA KvPuts ==
  ASSUME KvInv, kind = "kv", panicked = NoCall, NEW k \in Nat \ {0}, NEW del \in BOOLEAN, Put(k, del)
  PROVE  KvInv'
<1>1. KvSources /\ KvSources'
  BY PutSources DEF KvInv
<1>2. PICK cs, r : cs = src' /\ r = [ver |-> Len(src) + puts + 1, del |-> del]
  OBVIOUS
<1>3. PutTo(cs, k, r)
  BY <1>1, <1>2, PutIs
<1>4. DOMAIN cs = DOMAIN src /\ \A n \in DOMAIN src : SourceKeys(src[n]) \subseteq SourceKeys(cs[n])
  BY <1>3 DEF PutTo
<1>5. PICK b, g, h : b = base /\ g = removed /\ h = removed'
  OBVIOUS
<1>6. g \subseteq h /\ last # NoCall /\ UNCHANGED <<kind, m, last, item, data, shown, base, panicked>>
  BY <1>5 DEF Put
<1>7. PICK D : Scan(D)
  BY <1>6 DEF KvInv
<1>8. SourceFresh(D, base, removed)' /\ KvAt(m, Rest(m), D, base, removed, last)'
  BY <1>1, <1>7, PutFresh, PutMoves DEF Scan
<1>9. \A q : ItemGood(q, b, g) => ItemGood(q, b, h)
  BY <1>6 DEF ItemGood
<1>10. CurGood(m, base, removed)'
  <2>1. Keys(src) \subseteq Keys(cs)
    BY <1>4 DEF Keys
  <2>2. CurGood(m, b, g)
    BY <1>5, <1>7 DEF Scan
  <2>3. Keys(src') = Keys(cs)
    BY <1>2
  <2> QED
    BY <2>1, <2>2, <2>3, <1>5, <1>6, <1>9 DEF CurGood
<1>11. QueueGood(shown, data, base, removed)'
  <2>1. QueueGood(shown, data, b, g)
    BY <1>5, <1>7 DEF Scan
  <2>2. QueueGood(shown, data, b, h)
    BY <2>1, <1>9 DEF QueueGood
  <2> QED
    BY <2>2, <1>5, <1>6
<1>12. Settled(shown, data, m, base, removed, last)'
  <2>1. Settled(shown, data, m, b, g, last)
    BY <1>5, <1>7 DEF Scan
  <2>2. Wanted(b, h, last) \subseteq Wanted(b, g, last)
    BY <1>6 DEF Wanted
  <2>3. Settled(shown, data, m, b, h, last)
    BY <2>1, <2>2 DEF Settled
  <2> QED
    BY <2>3, <1>5, <1>6
<1>13. Scan(D)'
  BY <1>6, <1>7, <1>8, <1>10, <1>11, <1>12 DEF Scan
<1>14. m' \in MergeStates' /\ m'.panics = FALSE
  BY <1>8 DEF KvAt
<1>15. ReplaceAsserts'
  BY <1>6 DEF ReplaceAsserts
<1>16. CallOK(last) /\ item \in Items /\ (item # NoItem => item.key # None)
  BY <1>6 DEF KvInv
<1> QED
  BY <1>1, <1>6, <1>13, <1>14, <1>15, <1>16 DEF KvInv

(* Initially *)
LEMMA KvInit == Init => KvInv
<1>1. SUFFICES ASSUME Init, kind = "kv" PROVE KvInv
  BY DEF KvInv, Init
<1>2. PICK s \in Stores : kind = s.kind /\ rev = s.rev /\ src = s.src
  BY <1>1 DEF Init
<1>3. StoreOK(s)
  BY StoresAssumption
<1>4. PICK cs, w : cs = s.src /\ w = Len(cs)
  OBVIOUS
<1>5. /\ w \in Nat /\ w > 0 /\ cs = [n \in 1 .. w |-> cs[n]] /\ \A n \in DOMAIN cs : SourceOK(cs[n])
      /\ s.rev = FALSE /\ cs[1].kind = "memtable" /\ \A n \in DOMAIN cs : cs[n].kind # "concat"
      /\ VersionsOK(cs, w)
  BY <1>1, <1>2, <1>3, <1>4 DEF StoreOK
<1>6. DOMAIN cs = 1 .. w
  BY <1>5
<1>7. puts = 0 /\ w + puts = w
  BY <1>1, <1>5 DEF Init
<1>8. VersionsOK(cs, w + puts)
  BY <1>5, <1>7
<1>9. cs = [n \in DOMAIN cs |-> cs[n]]
  BY <1>5, <1>6
<1>10. KvSources
  BY <1>2, <1>4, <1>5, <1>6, <1>7, <1>8, <1>9 DEF KvSources, SourcesOK
<1>11. m = MergeNew(cs, FALSE) /\ src = cs
  BY <1>1, <1>2, <1>4, <1>5 DEF Init
<1>12. NoItem \in Items /\ NoItem.key = None
  BY DEF NoItem, Items, None
<1>13. m \in MergeStates /\ m.panics = FALSE
  <2>1. \A n \in DOMAIN cs : ItNew(cs[n], FALSE) \in Spots
    BY <1>5, SpotsAre
  <2>2. PICK f, e : f = [n \in DOMAIN cs |-> ItNew(cs[n], FALSE)] /\ e = [n \in DOMAIN cs |-> NoItem]
    OBVIOUS
  <2>3. f \in [DOMAIN cs -> Spots] /\ e \in [DOMAIN cs -> Items]
    BY <2>1, <2>2, <1>12
  <2>4. m = [its |-> f, heap |-> e, cur |-> NoItem, panics |-> FALSE]
    BY <2>2, <1>11 DEF MergeNew
  <2> QED
    BY <2>3, <2>4, <1>11, <1>12 DEF MergeStates
<1>14. last = NoCall /\ shown = << >> /\ item = NoItem /\ panicked = NoCall
  BY <1>1 DEF Init
<1>15. ReplaceAsserts
  BY <1>14 DEF ReplaceAsserts
<1> QED
  BY <1>1, <1>10, <1>12, <1>13, <1>14, <1>15 DEF KvInv

(* KvInv is inductive. *)
LEMMA KvStep ==
  ASSUME KvInv, [Next]_vars
  PROVE  KvInv'
<1>1. kind' = kind
  BY KindStays
<1>2. CASE UNCHANGED vars
  <2>1. UNCHANGED <<kind, rev, src, m, last, item, data, shown, base, removed, puts, panicked>>
    BY <1>2 DEF vars
  <2>2. CASE kind # "kv"
    BY <2>1, <2>2 DEF KvInv
  <2>3. CASE kind = "kv"
    <3>1. ReplaceAsserts'
      BY <2>1, <2>3 DEF KvInv, ReplaceAsserts, UnwrapsNothing, HeadReached
    <3>2. KvSources /\ KvSources'
      BY <2>1, <2>3 DEF KvInv, KvSources
    <3>3. ASSUME NEW D, Scan(D) PROVE Scan(D)'
      BY <2>1, <3>3 DEF Scan, SourceFresh, RecFresh, KvAt, MergeStates, HeadInv, HeadReached, CurGood, Keys
    <3>4. m \in MergeStates /\ m' \in MergeStates'
      BY <2>1, <2>3 DEF KvInv, MergeStates
    <3> QED
      BY <2>1, <2>3, <3>1, <3>2, <3>3, <3>4 DEF KvInv
  <2> QED
    BY <2>2, <2>3
<1>3. CASE Next /\ kind # "kv"
  <2>1. shown' = shown
    BY <1>3 DEF Next, RewindSource, NextInSource, SeekSource, SingleStep, RewindMerge, NextInMerge, SeekMerge,
                MergeStep, Rewind, NextItem, Seek, Put, Panic, scanVars
  <2> QED
    BY <2>1, <1>1, <1>3 DEF KvInv
<1>4. CASE Next /\ kind = "kv"
  <2>1. panicked = NoCall
    BY <1>4 DEF Next
  <2>2. \/ Rewind \/ NextItem
        \/ \E k \in Targets : Seek(k) \/ \E del \in BOOLEAN : Put(k, del)
    BY <1>4 DEF Next, RewindSource, NextInSource, SeekSource, RewindMerge, NextInMerge, SeekMerge, Single
  <2>3. ASSUME NEW k \in Targets, Seek(k) PROVE KvInv'
    <3>1. k \in Nat \ {0}
      BY <2>3, TargetsAssumption
    <3> QED
      BY <3>1, <2>1, <2>3, <1>4, KvSeeks
  <2>4. ASSUME NEW k \in Targets, NEW del \in BOOLEAN, Put(k, del) PROVE KvInv'
    <3>1. k \in Nat \ {0}
      BY <2>4, TargetsAssumption
    <3> QED
      BY <3>1, <2>1, <2>4, <1>4, KvPuts
  <2> QED
    BY <2>1, <2>2, <2>3, <2>4, <1>4, KvRewinds, KvNexts
<1> QED
  BY <1>2, <1>3, <1>4

(* KvInv is an invariant. *)
LEMMA KvInvariant == Spec => []KvInv
<1>1. KvInv /\ [Next]_vars => KvInv'
  BY KvStep
<1> QED
  BY <1>1, KvInit, PTL DEF Spec

(* Only a seek keeps an item, and only KV::new_iterator's iterator has one. *)
KeptInv == kept # NoItem => kind = "kv" /\ last.call = "seek"

(* KeptInv is an invariant. *)
LEMMA KeptInvariant == Spec => []KeptInv
<1>1. Init => KeptInv
  BY DEF Init, KeptInv
<1>2. ASSUME KeptInv, [Next]_vars PROVE KeptInv'
  <2>1. kind' = kind
    BY <1>2, KindStays
  <2>2. CASE UNCHANGED vars
    BY <2>2, <1>2 DEF vars, KeptInv
  <2>3. CASE Next /\ kind # "kv"
    <3>1. kept' = kept
      BY <2>3 DEF Next, RewindSource, NextInSource, SeekSource, SingleStep, RewindMerge, NextInMerge, SeekMerge,
                  MergeStep, Rewind, NextItem, Seek, Put, Panic, scanVars
    <3> QED
      BY <3>1, <2>3, <1>2 DEF KeptInv
  <2>4. CASE Next /\ kind = "kv"
    <3>1. \/ Rewind \/ NextItem
          \/ \E k \in Targets : Seek(k) \/ \E del \in BOOLEAN : Put(k, del)
      BY <2>4 DEF Next, RewindSource, NextInSource, SeekSource, RewindMerge, NextInMerge, SeekMerge, Single
    <3>2. ASSUME NEW c, Panic(c) PROVE UNCHANGED <<kept, last>>
      BY <3>2 DEF Panic, scanVars
    <3>3. Rewind => kept' = NoItem \/ UNCHANGED <<kept, last>>
      BY <3>2 DEF Rewind, Position
    <3>4. ASSUME NEW k \in Targets, Seek(k) PROVE last'.call = "seek" \/ UNCHANGED <<kept, last>>
      BY <3>2, <3>4 DEF Seek, Position, SeekCall
    <3>5. NextItem => UNCHANGED <<kept, last>>
      BY <3>2 DEF NextItem
    <3>6. ASSUME NEW k \in Targets, NEW del \in BOOLEAN, Put(k, del) PROVE UNCHANGED <<kept, last>>
      BY <3>6 DEF Put
    <3> QED
      BY <3>1, <3>3, <3>4, <3>5, <3>6, <2>1, <2>4, <1>2 DEF KeptInv
  <2> QED
    BY <2>2, <2>3, <2>4, <1>2
<1> QED
  BY <1>1, <1>2, PTL DEF Spec

-----------------------------------------------------------------------------
(***************************************************************************)
(* What the invariants say of the calls                                    *)
(***************************************************************************)

(***************************************************************************)
(* Whatever the stores, the assertion of MergeCursor::replace fails only   *)
(* where "!badger!head" can be met behind the start of the scan: neither   *)
(* prefetching nor writes under a scan bring a merge to it otherwise.      *)
(***************************************************************************)
THEOREM SpecPanics == Spec => []ReplaceAsserts
<1>1. CursorInv /\ KvInv => ReplaceAsserts
  BY DEF CursorInv, KvInv
<1> QED
  BY <1>1, CursorInvariant, KvInvariant, PTL

(***************************************************************************)
(* From its position on a scan of KV::new_iterator's iterator shows keys   *)
(* in strictly ascending order, no deleted record, and none that is older  *)
(* than what was there when it was positioned, for all tables, prefetch    *)
(* sizes and writes; nothing comes before that but the item a seek keeps,  *)
(* and after a rewind nothing does.                                        *)
(***************************************************************************)
THEOREM SpecScanSorted == Spec => []ScanSorted
<1>1. ASSUME KvInv, KeptInv PROVE ScanSorted
  <2>0. kept # NoItem => last.call = "seek"
    BY <1>1 DEF KeptInv
  <2>1. CASE shown = << >>
    <3>1. DOMAIN shown = {} /\ Len(shown) - 1 < 1
      BY <2>1
    <3>2. 1 .. Len(shown) - 1 = {}
      BY <2>1, <3>1
    <3> QED
      BY <2>0, <3>1, <3>2 DEF ScanSorted
  <2>2. CASE shown # << >>
    <3>1. PICK D : Scan(D)
      BY <1>1, <2>2 DEF KvInv
    <3>2. QueueGood(shown, data, base, removed)
      BY <3>1 DEF Scan
    <3>3. Len(shown) \in Nat /\ DOMAIN shown = 1 .. Len(shown)
      BY <3>2 DEF QueueGood
    <3>4. ASSUME NEW i \in 1 .. Len(shown) - 1 PROVE shown[i].key < shown[i + 1].key
      <4>1. i \in DOMAIN shown /\ i + 1 \in DOMAIN shown /\ i < i + 1
        BY <3>3, <3>4
      <4> QED
        BY <4>1, <3>2 DEF QueueGood
    <3>5. ASSUME NEW i \in DOMAIN shown
          PROVE  /\ ~ shown[i].del /\ shown[i].key # HeadKey
                 /\ shown[i].key \in DOMAIN base => shown[i].ver >= base[shown[i].key].ver
      <4>1. ItemGood(shown[i], base, removed) /\ ~ shown[i].del
        BY <3>2, <3>5 DEF QueueGood
      <4> QED
        BY <4>1 DEF ItemGood
    <3> QED
      BY <2>0, <3>4, <3>5 DEF ScanSorted
  <2> QED
    BY <2>1, <2>2
<1>2. KvInv /\ KeptInv => ScanSorted
  BY <1>1
<1> QED
  BY <1>2, KvInvariant, KeptInvariant, PTL

(***************************************************************************)
(* When its item is gone, the scan has shown every key from its start on   *)
(* that was there when it was positioned and was not deleted meanwhile.    *)
(***************************************************************************)
THEOREM SpecScanComplete == Spec => []ScanComplete
<1>1. ASSUME KvInv, kind = "kv", last # NoCall, item = NoItem,
             NEW k \in DOMAIN base \ (removed \cup {HeadKey}), k >= last.key, ~ base[k].del
      PROVE  \E i \in DOMAIN shown : shown[i].key = k
  <2>1. PICK D : Scan(D)
    BY <1>1 DEF KvInv
  <2>2. data = << >> /\ m.cur = NoItem /\ Settled(shown, data, m, base, removed, last)
    BY <2>1, <1>1 DEF Scan
  <2>3. k \in Wanted(base, removed, last)
    BY <1>1 DEF Wanted
  <2>4. Shows(shown, k) \/ Shows(data, k)
    BY <2>2, <2>3 DEF Settled
  <2>5. DOMAIN data = {}
    BY <2>2
  <2> QED
    BY <2>4, <2>5 DEF Shows
<1>2. KvInv => ScanComplete
  BY <1>1 DEF ScanComplete
<1> QED
  BY <1>2, KvInvariant, PTL
=============================================================================
