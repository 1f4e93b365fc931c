-------------------------- MODULE MCCompactStatus --------------------------
(***************************************************************************)
(* CompactStatus instantiated for TLC.                                     *)
(***************************************************************************)
EXTENDS CompactStatus

CONSTANTS KeyBound, SizeBound

MCKeys == 1 .. KeyBound
MCMaxTotalSize == [l \in 0 .. MaxLevels - 1 |-> IF l = 0 THEN 0 ELSE SizeBound]

=============================================================================
