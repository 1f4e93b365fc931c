--------------------------- MODULE MCManifestFile ---------------------------
(***************************************************************************)
(* ManifestFile instantiated for TLC: two flushes, a compaction of both    *)
(* tables into a third, and the move of that one to the next level, as     *)
(* add_level0_table and run_compact_def write them.  Any of them may come  *)
(* at any time, so the manifest refuses some.                              *)
(***************************************************************************)
EXTENDS ManifestFile

Create1(id, l) == [op |-> "CREATE", id |-> id, level |-> l]
Delete1(id) == [op |-> "DELETE", id |-> id, level |-> 0]

MCChangeSets ==
  { <<Create1(1, 0)>>, <<Create1(2, 0)>>,
    <<Create1(3, 1), Delete1(1), Delete1(2)>>,
    <<Delete1(3), Create1(3, 2)>> }
=============================================================================
