---------------------------- MODULE MCIterators ----------------------------
(***************************************************************************)
(* Iterators instantiated for TLC.  Keys 1 to MaxKey; the head key is not  *)
(* the least one.  Every source has a version of its own.                  *)
(***************************************************************************)
EXTENDS Iterators

CONSTANTS MaxKey,     \* keys of a single source
          MergeKey    \* keys of the merged ones

Recs(S, D, v) == [k \in S |-> [ver |-> v, del |-> k \in D]]

Mem(S, D, v) == [kind |-> "memtable", tables |-> <<>>, recs |-> Recs(S, D, v)]
Table(S, D, v) == [kind |-> "table", tables |-> <<BuildTable(S)>>, recs |-> Recs(S, D, v)]
Concat(Ts, v) == [kind |-> "concat", tables |-> [n \in DOMAIN Ts |-> BuildTable(Ts[n])],
                  recs |-> Recs(UNION {Ts[n] : n \in DOMAIN Ts}, {}, v)]

(* The lists of up to two tables over a set of keys *)
NonEmpty(K) == SUBSET K \ {{}}
LevelLists(K) ==
  {<<>>} \cup {<<S>> : S \in NonEmpty(K)}
  \cup {<<p[1], p[2]>> : p \in {q \in NonEmpty(K) \X NonEmpty(K) : Max(q[1]) < Min(q[2])}}

Singles ==
  LET All == 1 .. MaxKey
  IN  [kind : {"table"}, rev : BOOLEAN, src : {<<Table(S, {}, 1)>> : S \in NonEmpty(All)}]
      \cup [kind : {"memtable"}, rev : BOOLEAN, src : {<<Mem(S, {}, 1)>> : S \in SUBSET All}]
      \cup [kind : {"concat"}, rev : BOOLEAN, src : {<<Concat(Ts, 1)>> : Ts \in LevelLists(All)}]

(* The head key is in tables of level 0 and in the memtable that is being flushed. *)
MergeKeys == 1 .. MergeKey
UserKeys == MergeKeys \ {HeadKey}

Merges ==
  [kind : {"merge"}, rev : BOOLEAN,
   src : {<<Table(S, {}, 2), Concat(Ls, 1)>> : S \in NonEmpty(MergeKeys), Ls \in LevelLists(UserKeys)}
         \cup {<<Mem(S, {}, 3), Table(T, {}, 2), Table(U, {}, 1)>> :
                 S \in SUBSET UserKeys, T \in NonEmpty(MergeKeys), U \in NonEmpty(UserKeys)}]

(* Two memtables, two tables in level 0 and one below; keys live or deleted in the new ones *)
Stored ==
  LET old == Table({HeadKey, 3}, {}, 2)
      low == Table({3, 4}, {}, 1)
      scans(S, T) == {NewIterator(Mem(S, D, 5), <<Mem({HeadKey, 4}, {}, 4)>>, <<old, Table(T, E, 3)>>, <<low>>) :
                        D \in SUBSET S, E \in SUBSET (T \ {HeadKey})}
  IN  [kind : {"kv"}, rev : {FALSE},
       src : UNION {scans(S, T) : S \in SUBSET {3, 4}, T \in {{3}, {HeadKey, 4}}}]

MCStores == Singles \cup Merges \cup Stored
=============================================================================
