---------------------------- MODULE ManifestFile ----------------------------
(***************************************************************************)
(* The MANIFEST file (manifest.rs): which tables exist and on which level. *)
(* The file is a magic text, a version and a sequence of change sets, each *)
(* a length, a checksum and a body.  Here it is a sequence of such words,  *)
(* written at the position of the file handle like bytes would be.         *)
(*                                                                         *)
(* Callers hold the lock of the ManifestFile, so operations do not         *)
(* interleave with each other; a crash can come between any two, and in    *)
(* the middle of an append.                                                *)
(***************************************************************************)
EXTENDS Naturals, SequencesExt

CONSTANTS
  ChangeSets,         \* the change sets callers may add: sequences of changes
  DeletionsRatio,     \* MANIFEST_DELETIONS_RATIO
  RewriteThreshold,   \* MANIFEST_DELETIONS_REWRITE_THRESHOLD
  TornWords,          \* how many words of an append a crash can leave behind
  MaxAdds,            \* bound: calls of add_changes
  MaxOpens            \* bound: times the store is opened

(***************************************************************************)
(* A set has one change per table, or its deletion and then its creation:  *)
(* what add_level0_table and build_change_set make, and a move.            *)
(***************************************************************************)
ASSUME ChangeSetsAssumption ==
  \A cs \in ChangeSets :
    /\ cs \in Seq(ToSet(cs))
    /\ \A i \in DOMAIN cs : cs[i].op \in {"CREATE", "DELETE"}
    /\ \A i, j \in DOMAIN cs :
         i < j /\ cs[i].id = cs[j].id => cs[i].op = "DELETE" /\ cs[j].op = "CREATE"

ASSUME RatioAssumption == DeletionsRatio \in Nat /\ RewriteThreshold \in Nat
ASSUME TornAssumption == TornWords \subseteq 0 .. 2

VARIABLES
  state,       \* "closed", "open" or "failed": opening returned an error or panicked
  file,        \* the words of MANIFEST; NoFile when there is none
  pos,         \* how many words are before the position of the handle
  mem,         \* the Manifest in memory
  threshold,   \* deletions_rewrite_threshold
  committed,   \* the tables after all the change sets that were accepted
  maybe,       \* the same, and the one a crash interrupted
  adds, opens

vars == <<state, file, pos, mem, threshold, committed, maybe, adds, opens>>

-----------------------------------------------------------------------------
Word(kind, cs) == [kind |-> kind, cs |-> cs]
Entry(cs) == <<Word("size", cs), Word("crc", cs), Word("body", cs)>>
Header == <<Word("magic", <<>>), Word("version", <<>>)>>
NoFile == <<Word("none", <<>>)>>

(* Mutant: a write that stops one word short. *)
Overwrite_Short(f, p, words) ==
  [i \in 1 .. Max({Len(f), p + Len(words) - 1}) |->
     IF i \in p + 1 .. p + Len(words) - 1 THEN words[i - p] ELSE f[i]]

(* Writing words at position p of file f *)
Overwrite(f, p, words) ==
  [i \in 1 .. Max({Len(f), p + Len(words)}) |->
     IF i \in p + 1 .. p + Len(words) THEN words[i - p] ELSE f[i]]

(* Manifest::new *)
NewManifest == [tables |-> << >>, creations |-> 0, deletions |-> 0, ok |-> TRUE]

(* apply_manifest_change; ok turns FALSE at the first change that is refused *)
ApplyChange(m, c) ==
  IF ~ m.ok \/ (c.op = "CREATE") = (c.id \in DOMAIN m.tables) THEN [m EXCEPT !.ok = FALSE]
  ELSE IF c.op = "CREATE"
       THEN [m EXCEPT !.tables = [id \in DOMAIN @ \cup {c.id} |->
                                    IF id = c.id THEN c.level ELSE @[id]],
                      !.creations = @ + 1]
       ELSE [m EXCEPT !.tables = [id \in DOMAIN @ \ {c.id} |-> @[id]], !.deletions = @ + 1]

(* Mutant: the deletions of a set are applied after its creations. *)
ApplyChangeSet_DeletesLast(m, cs) ==
  FoldLeft(ApplyChange, m,
           SelectSeq(cs, LAMBDA c : c.op = "CREATE") \o SelectSeq(cs, LAMBDA c : c.op # "CREATE"))

(* apply_manifest_change_set; what was applied before an error stays *)
ApplyChangeSet(m, cs) ==
  LET after[i \in 0 .. Len(cs)] == IF i = 0 THEN m ELSE ApplyChange(after[i - 1], cs[i])
  IN  after[Len(cs)]

(* The manifest after change sets, from the start of a file on *)
Built(sets) ==
  LET after[k \in 0 .. Len(sets)] ==
        IF k = 0 THEN NewManifest ELSE ApplyChangeSet(after[k - 1], sets[k])
  IN  after[Len(sets)]

(***************************************************************************)
(* replay_manifest_file: the manifest, and how much of the file is whole.  *)
(* A bad header is BadMagic.  A wrong checksum, or a file that ends in a   *)
(* length or a checksum, ends the replay before that entry; one that ends  *)
(* in a body fails the assertion on the number of bytes read.              *)
(***************************************************************************)
Replay(f) ==
  LET start(k) == 3 * k                       \* first word of entry k = 1, 2, ...
      whole(k) == /\ start(k) + 2 <= Len(f)
                  /\ SubSeq(f, start(k), start(k) + 2) = Entry(f[start(k)].cs)
      count == Max({n \in 0 .. Len(f) : \A k \in 1 .. n : whole(k)})
      sets == [k \in 1 .. count |-> f[start(k)].cs]
      built == Built(sets)
      left == Len(f) - (2 + 3 * count)
  IN  [ok |-> Len(f) >= 2 /\ SubSeq(f, 1, 2) = Header /\ left # 2 /\ built.ok,
       manifest |-> built,
       length |-> 2 + 3 * count]

-----------------------------------------------------------------------------
Init ==
  /\ state = "closed" /\ file = NoFile /\ pos = 0
  /\ mem = NewManifest /\ threshold = 0
  /\ committed = << >> /\ maybe = << >>
  /\ adds = 0 /\ opens = 0

(***************************************************************************)
(* help_open_or_create_manifest_file without a MANIFEST:                   *)
(* Manifest::help_rewrite writes MANIFEST-REWRITE, flushes and renames it, *)
(* and leaves the handle at the end.  The threshold is the default, 0.     *)
(***************************************************************************)
Create ==
  /\ state = "closed" /\ file = NoFile /\ opens < MaxOpens
  /\ state' = "open"
  /\ file' = Header \o Entry(<<>>)
  /\ pos' = Len(file')
  /\ mem' = NewManifest
  /\ threshold' = 0
  /\ opens' = opens + 1
  /\ UNCHANGED <<committed, maybe, adds>>

(* The same with one: replay, truncate, and seek to the start. *)
Open ==
  /\ state = "closed" /\ file # NoFile /\ opens < MaxOpens
  /\ opens' = opens + 1
  /\ IF Replay(file).ok
     THEN /\ state' = "open"
          /\ mem' = Replay(file).manifest
          /\ file' = SubSeq(file, 1, Replay(file).length)
          /\ pos' = 0
          /\ threshold' = RewriteThreshold
          /\ committed' = IF mem'.tables = maybe THEN maybe ELSE committed
          /\ maybe' = committed'
     ELSE state' = "failed" /\ UNCHANGED <<file, pos, mem, threshold, committed, maybe>>
  /\ UNCHANGED adds

(* Would the file shrink enough? *)
NeedsRewrite(m) ==
  m.deletions > threshold /\ m.deletions > DeletionsRatio * (m.creations - m.deletions)

(* What a caller asked for: the tables without the deleted, with the created. *)
Wanted(tables, cs) ==
  LET created == {cs[i].id : i \in {j \in DOMAIN cs : cs[j].op = "CREATE"}}
      deleted == {cs[i].id : i \in {j \in DOMAIN cs : cs[j].op = "DELETE"}}
      level(id) == (CHOOSE i \in DOMAIN cs : cs[i].op = "CREATE" /\ cs[i].id = id)
  IN  [id \in (DOMAIN tables \ deleted) \cup created |->
         IF id \in created THEN cs[level(id)].level ELSE tables[id]]

(* add_changes refuses a set, of which a part is now applied in memory. *)
AddRefused(cs) ==
  /\ state = "open" /\ adds < MaxAdds
  /\ ~ ApplyChangeSet(mem, cs).ok
  /\ mem' = [ApplyChangeSet(mem, cs) EXCEPT !.ok = TRUE]
  /\ adds' = adds + 1
  /\ UNCHANGED <<state, file, pos, threshold, committed, maybe, opens>>

(* add_changes appends the set: at the position of the handle *)
AppendChanges(cs) ==
  LET m == ApplyChangeSet(mem, cs)
  IN  /\ state = "open" /\ adds < MaxAdds
      /\ m.ok /\ ~ NeedsRewrite(m)
      /\ mem' = m
      /\ file' = Overwrite(file, pos, Entry(cs))
      /\ pos' = pos + 3
      /\ committed' = Wanted(committed, cs)
      /\ maybe' = committed'
      /\ adds' = adds + 1
      /\ UNCHANGED <<state, threshold, opens>>

(* Power is lost in the middle of that. *)
CrashInAppend(cs, n) ==
  LET m == ApplyChangeSet(mem, cs)
  IN  /\ state = "open" /\ adds < MaxAdds
      /\ m.ok /\ ~ NeedsRewrite(m)
      /\ file' = Overwrite(file, pos, SubSeq(Entry(cs), 1, n))
      /\ maybe' = Wanted(committed, cs)
      /\ state' = "closed"
      /\ adds' = adds + 1
      /\ UNCHANGED <<pos, mem, threshold, committed, opens>>

(* Mutant: the deletions counted so far are kept. *)
Rewritten_KeepsDeletions(m) == [m EXCEPT !.creations = Cardinality(DOMAIN m.tables)]

(* rewrite: the counters start over *)
Rewritten(m) == [m EXCEPT !.creations = Cardinality(DOMAIN m.tables), !.deletions = 0]

(***************************************************************************)
(* add_changes rewrites the file: ManifestFile::help_rewrite takes the     *)
(* BufWriter apart without flushing it, so that what it holds (up to 8 KiB) *)
(* is lost and the renamed file is empty, and opens it at position 0.      *)
(***************************************************************************)
Rewrite(cs) ==
  LET m == ApplyChangeSet(mem, cs)
  IN  /\ state = "open" /\ adds < MaxAdds
      /\ m.ok /\ NeedsRewrite(m)
      /\ mem' = Rewritten(m)
      /\ file' = <<>>
      /\ pos' = 0
      /\ committed' = Wanted(committed, cs)
      /\ maybe' = committed'
      /\ adds' = adds + 1
      /\ UNCHANGED <<state, threshold, opens>>

(* ManifestFile::close, or a crash between two operations *)
Close ==
  /\ state = "open"
  /\ state' = "closed"
  /\ UNCHANGED <<file, pos, mem, threshold, committed, maybe, adds, opens>>

Next ==
  \/ Create \/ Open \/ Close
  \/ \E cs \in ChangeSets :
       \/ AddRefused(cs) \/ AppendChanges(cs) \/ Rewrite(cs)
       \/ \E n \in TornWords : CrashInAppend(cs, n)

Spec == Init /\ [][Next]_vars

-----------------------------------------------------------------------------
(* The types; the position of the handle is never behind the end of the file. *)
TypeOK ==
  /\ state \in {"closed", "open", "failed"}
  /\ pos \in 0 .. Len(file) \/ file = NoFile
  /\ mem.ok /\ DOMAIN mem.tables \subseteq {c.id : c \in UNION {ToSet(cs) : cs \in ChangeSets}}

(***************************************************************************)
(* A MANIFEST that opens is right: damage done by a crash, by a rewrite or *)
(* by an earlier session is noticed (BadMagic, the checksum, the           *)
(* assertion), never read as a different set of tables; and of the change  *)
(* set a crash interrupted, all or nothing is there.                       *)
(***************************************************************************)
NeverMisread ==
  file # NoFile /\ Replay(file).ok => Replay(file).manifest.tables \in {committed, maybe}

(***************************************************************************)
(* creations - deletions is the number of live tables, so it does not      *)
(* underflow: after appends, refused sets, rewrites and replays alike.     *)
(***************************************************************************)
CountersExact ==
  /\ mem.creations >= mem.deletions
  /\ mem.creations - mem.deletions = Cardinality(DOMAIN mem.tables)

(***************************************************************************)
(* "Write a batch of changes, atomically, to the file.  ... when we replay *)
(* the MANIFEST file, we'll either replay all the changes or none of them" *)
(* (add_changes): the file can be replayed at any time.                    *)
(***************************************************************************)
AlwaysReplayable ==
  file # NoFile => Replay(file).ok /\ Replay(file).manifest.tables \in {committed, maybe}
=============================================================================
