----------------------------- MODULE MCSkipList -----------------------------
(* The skip list for TLC: threads that put are interchangeable. *)
EXTENDS SkipList, TLC

WriterSymmetry == Permutations(Writers)
=============================================================================
