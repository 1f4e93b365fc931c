------------------------------ MODULE MCLevels ------------------------------
(***************************************************************************)
(* Levels instantiated for TLC.  Key 1 sorts first and may be the head     *)
(* key; the others are user keys.                                          *)
(***************************************************************************)
EXTENDS Levels

CONSTANTS KeyBound, L1Size, L2Size

MCKeys == 1 .. KeyBound
MCMaxTotalSize == [l \in 0 .. MaxLevels - 1 |-> CASE l = 0 -> 0 [] l = 1 -> L1Size
                                                  [] OTHER -> L2Size]

(* Memtables over aligned pairs of keys: with Capacity 2 no table of one key arises. *)
PairSets == {{2, 3}, {1, 2, 3, 4, 5}}
PairSets3 == PairSets \cup {{4, 5}}

(* Single keys and the head key between two user keys: every table list, and panics. *)
LooseSets == {{1}, {3}, {1, 2, 3}}

(* Memtables of one user key *)
SingleSets == {{2}, {2, 3}}
=============================================================================
