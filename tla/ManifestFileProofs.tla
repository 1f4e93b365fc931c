------------------------ MODULE ManifestFileProofs ------------------------
(***************************************************************************)
(* The MANIFEST is never misread and its counters are exact, for all       *)
(* change sets that name a table once, any number of sessions, and any     *)
(* thresholds for a rewrite.                                               *)
(***************************************************************************)
EXTENDS ManifestFile, FiniteSetFacts, FiniteSetTheorems, SequenceTheorems

(* What the program appends: a caller's change set, or none when it creates the file. *)
Sets == ChangeSets \cup {<<>>}

Changes == UNION {ToSet(cs) : cs \in ChangeSets}
Ids == {c.id : c \in Changes}
TableMaps == UNION {[S -> {c.level : c \in Changes}] : S \in SUBSET Ids}

(* A manifest whose counters are exact. *)
Exact(m) ==
  /\ IsFiniteSet(DOMAIN m.tables)
  /\ m.creations = m.deletions + Cardinality(DOMAIN m.tables)

Manifests == [tables : TableMaps, creations : Nat, deletions : Nat, ok : BOOLEAN]

ExactManifests == {m \in Manifests : Exact(m)}

(***************************************************************************)
(* File f is a header, the entries of sets and the first r words of a      *)
(* further one.                                                            *)
(***************************************************************************)
IsFileOf(f, sets, r) ==
  /\ Len(f) = 2 + 3 * Len(sets) + r
  /\ f[1] = Word("magic", <<>>) /\ f[2] = Word("version", <<>>)
  /\ \A k \in 1 .. Len(sets) :
       /\ f[3 * k] = Word("size", sets[k])
       /\ f[3 * k + 1] = Word("crc", sets[k])
       /\ f[3 * k + 2] = Word("body", sets[k])

(* The header was overwritten by an entry, or lost in a rewrite. *)
Damaged(f) == f = <<>> \/ f[1].kind = "size"

Words == [kind : {"magic", "version", "size", "crc", "body", "none"}, cs : Sets]

(* The file is as good as new, with the tables that were accepted, or damaged. *)
Readable ==
  \E sets \in Seq(Sets), r \in 0 .. 2 :
    /\ IsFileOf(file, sets, r)
    /\ Built(sets).ok => Built(sets).tables = committed
    /\ state = "open" => r = 0 /\ pos \in {0, Len(file)}

IInv ==
  /\ state \in {"closed", "open", "failed"}
  /\ file \in Seq(Words) /\ pos \in 0 .. Len(file)
  /\ mem \in ExactManifests /\ mem.ok
  /\ file = NoFile => state = "closed" /\ committed = NewManifest.tables
  /\ file # NoFile => Damaged(file) \/ Readable

-----------------------------------------------------------------------------
(* The changes of a set. *)
LEMMA SetFacts ==
  ASSUME NEW cs \in Sets
  PROVE  /\ Len(cs) \in Nat /\ DOMAIN cs = 1 .. Len(cs)
         /\ \A i \in 1 .. Len(cs) : cs[i] \in Changes /\ cs[i].op \in {"CREATE", "DELETE"}
         /\ \A i, j \in 1 .. Len(cs) :
              i < j /\ cs[i].id = cs[j].id => cs[i].op = "DELETE" /\ cs[j].op = "CREATE"
<1>1. CASE cs = <<>>
  BY <1>1
<1>2. CASE cs \in ChangeSets
  <2>1. cs \in Seq(ToSet(cs))
    BY <1>2, ChangeSetsAssumption
  <2>2. Len(cs) \in Nat /\ DOMAIN cs = 1 .. Len(cs) /\ \A i \in 1 .. Len(cs) : cs[i] \in ToSet(cs)
    BY <2>1
  <2>3. \A i \in 1 .. Len(cs) : cs[i] \in Changes
    BY <1>2, <2>2 DEF Changes
  <2> QED
    BY <1>2, <2>2, <2>3, ChangeSetsAssumption
<1> QED
  BY <1>1, <1>2 DEF Sets

(* One change keeps the counters exact. *)
LEMMA ChangeExact ==
  ASSUME NEW m \in ExactManifests, NEW c \in Changes
  PROVE  ApplyChange(m, c) \in ExactManifests
<1>1. /\ m \in Manifests /\ m.tables \in TableMaps /\ m.creations \in Nat /\ m.deletions \in Nat
      /\ IsFiniteSet(DOMAIN m.tables)
      /\ m.creations = m.deletions + Cardinality(DOMAIN m.tables)
  BY DEF ExactManifests, Exact, Manifests
<1>2. PICK S \in SUBSET Ids : m.tables \in [S -> {d.level : d \in Changes}]
  BY <1>1 DEF TableMaps
<1>3. DOMAIN m.tables = S /\ Cardinality(S) \in Nat
  BY <1>1, <1>2, FS_CardinalityType
<1>4. CASE ~ m.ok \/ (c.op = "CREATE") = (c.id \in DOMAIN m.tables)
  <2>1. ApplyChange(m, c) = [m EXCEPT !.ok = FALSE]
    BY <1>4 DEF ApplyChange
  <2>2. /\ [m EXCEPT !.ok = FALSE] \in Manifests
        /\ [m EXCEPT !.ok = FALSE].tables = m.tables
        /\ [m EXCEPT !.ok = FALSE].creations = m.creations
        /\ [m EXCEPT !.ok = FALSE].deletions = m.deletions
    BY <1>1 DEF Manifests
  <2> QED
    BY <2>1, <2>2, <1>1 DEF ExactManifests, Exact
<1>5. CASE ~ (~ m.ok \/ (c.op = "CREATE") = (c.id \in DOMAIN m.tables)) /\ c.op = "CREATE"
  <2>1. PICK t : t = [id \in S \cup {c.id} |-> IF id = c.id THEN c.level ELSE m.tables[id]]
    OBVIOUS
  <2>2. ApplyChange(m, c) = [m EXCEPT !.tables = t, !.creations = m.creations + 1]
    BY <1>3, <1>5, <2>1 DEF ApplyChange, Manifests
  <2>3. t \in TableMaps /\ DOMAIN t = S \cup {c.id}
    <3>1. S \cup {c.id} \in SUBSET Ids
      BY DEF Ids
    <3>2. t \in [S \cup {c.id} -> {d.level : d \in Changes}]
      BY <1>2, <2>1
    <3> QED
      BY <3>1, <3>2 DEF TableMaps
  <2>4. IsFiniteSet(S \cup {c.id}) /\ Cardinality(S \cup {c.id}) = Cardinality(S) + 1
    BY <1>1, <1>3, <1>5, FS_AddElement
  <2>5. PICK m2 : m2 = [m EXCEPT !.tables = t, !.creations = m.creations + 1]
    OBVIOUS
  <2>6. /\ m2 \in Manifests /\ m2.tables = t /\ m2.creations = m.creations + 1
        /\ m2.deletions = m.deletions
    <3>1. m2 = [tables |-> t, creations |-> m.creations + 1, deletions |-> m.deletions, ok |-> m.ok]
      BY <1>1, <2>5 DEF Manifests
    <3>2. m.creations + 1 \in Nat /\ m.ok \in BOOLEAN
      BY <1>1 DEF Manifests
    <3> QED
      BY <1>1, <2>3, <3>1, <3>2 DEF Manifests
  <2>7. m2.creations = m2.deletions + Cardinality(DOMAIN m2.tables)
    BY <1>1, <1>3, <2>3, <2>4, <2>6
  <2> QED
    BY <2>2, <2>3, <2>4, <2>5, <2>6, <2>7 DEF ExactManifests, Exact
<1>6. CASE ~ (~ m.ok \/ (c.op = "CREATE") = (c.id \in DOMAIN m.tables)) /\ c.op # "CREATE"
  <2>1. PICK t : t = [id \in S \ {c.id} |-> m.tables[id]]
    OBVIOUS
  <2>2. ApplyChange(m, c) = [m EXCEPT !.tables = t, !.deletions = m.deletions + 1]
    BY <1>3, <1>6, <2>1 DEF ApplyChange, Manifests
  <2>3. t \in TableMaps /\ DOMAIN t = S \ {c.id}
    <3>1. S \ {c.id} \in SUBSET Ids
      OBVIOUS
    <3>2. t \in [S \ {c.id} -> {d.level : d \in Changes}]
      BY <1>2, <2>1
    <3> QED
      BY <3>1, <3>2 DEF TableMaps
  <2>4. IsFiniteSet(S \ {c.id}) /\ Cardinality(S \ {c.id}) = Cardinality(S) - 1
    BY <1>1, <1>3, <1>6, FS_RemoveElement
  <2>5. PICK m2 : m2 = [m EXCEPT !.tables = t, !.deletions = m.deletions + 1]
    OBVIOUS
  <2>6. /\ m2 \in Manifests /\ m2.tables = t /\ m2.creations = m.creations
        /\ m2.deletions = m.deletions + 1
    <3>1. m2 = [tables |-> t, creations |-> m.creations, deletions |-> m.deletions + 1, ok |-> m.ok]
      BY <1>1, <2>5 DEF Manifests
    <3>2. m.deletions + 1 \in Nat /\ m.ok \in BOOLEAN
      BY <1>1 DEF Manifests
    <3> QED
      BY <1>1, <2>3, <3>1, <3>2 DEF Manifests
  <2>7. m2.creations = m2.deletions + Cardinality(DOMAIN m2.tables)
    BY <1>1, <1>3, <2>3, <2>4, <2>6
  <2> QED
    BY <2>2, <2>3, <2>4, <2>5, <2>6, <2>7 DEF ExactManifests, Exact
<1> QED
  BY <1>4, <1>5, <1>6

(* The manifests on the way from m through the changes of cs. *)
IsRun(f, m, cs) ==
  /\ f \in [0 .. Len(cs) -> ExactManifests]
  /\ f[0] = m
  /\ \A i \in 1 .. Len(cs) : f[i] = ApplyChange(f[i - 1], cs[i])

(* apply_manifest_change_set is such a run. *)
LEMMA ChangeSetRun ==
  ASSUME NEW m \in ExactManifests, NEW cs \in Sets
  PROVE  \E f : IsRun(f, m, cs) /\ ApplyChangeSet(m, cs) = f[Len(cs)]
<1> DEFINE n == Len(cs)
           M == ExactManifests
           step == [i \in 1 .. n |-> [a \in M |-> ApplyChange(a, cs[i])]]
           After(f) == [i \in 0 .. n |-> IF i = 0 THEN m ELSE ApplyChange(f[i - 1], cs[i])]
<1>1. n \in Nat /\ \A i \in 1 .. n : cs[i] \in Changes
  BY SetFacts
<1>2. step \in [1 .. n -> [M -> M]]
  BY <1>1, ChangeExact
<1>3. \A i \in 1 .. n : \A a \in M : step[i][a] = ApplyChange(a, cs[i])
  OBVIOUS
<1> HIDE DEF step, M, n
<1>4. m \in M
  BY DEF M
<1>5. PICK f : f \in [0 .. n -> M] /\ f[0] = m /\ \A i \in 1 .. n : f[i] = step[i][f[i - 1]]
  <2>1. \E f : Steps(f, n, M, m, step)
    BY <1>1, <1>2, <1>4, RecursionExists
  <2> QED
    BY <2>1 DEF Steps
<1>6. \A i \in 1 .. n : f[i] = ApplyChange(f[i - 1], cs[i])
  <2> SUFFICES ASSUME NEW i \in 1 .. n
               PROVE  f[i] = ApplyChange(f[i - 1], cs[i])
    OBVIOUS
  <2>1. f[i - 1] \in M
    BY <1>1, <1>5
  <2> QED
    BY <2>1, <1>3, <1>5
<1>7. IsRun(f, m, cs)
  BY <1>5, <1>6 DEF IsRun, M, n
<1>8. f = After(f)
  <2>1. \A i \in 0 .. n : f[i] = After(f)[i]
    <3> SUFFICES ASSUME NEW i \in 0 .. n
                 PROVE  f[i] = IF i = 0 THEN m ELSE ApplyChange(f[i - 1], cs[i])
      OBVIOUS
    <3>1. i # 0 => i \in 1 .. n
      BY <1>1
    <3> QED
      BY <3>1, <1>5, <1>6
  <2>2. f = [i \in 0 .. n |-> f[i]]
    BY <1>5
  <2>3. After(f) = [i \in 0 .. n |-> After(f)[i]]
    OBVIOUS
  <2> HIDE DEF After
  <2> QED
    BY <2>1, <2>2, <2>3, Zenon
<1> DEFINE after == CHOOSE g : g = After(g)
<1>9. after = After(after)
  BY <1>8, Zenon
<1>10. ApplyChangeSet(m, cs) = after[n]
  BY DEF ApplyChangeSet, n
<1>11. /\ after[0] = m
       /\ \A i \in 1 .. n : after[i] = ApplyChange(after[i - 1], cs[i])
  <2> HIDE DEF after
  <2>1. \A i \in 0 .. n : After(after)[i] = IF i = 0 THEN m ELSE ApplyChange(after[i - 1], cs[i])
    OBVIOUS
  <2> HIDE DEF After
  <2>2. \A i \in 0 .. n : after[i] = IF i = 0 THEN m ELSE ApplyChange(after[i - 1], cs[i])
    BY <2>1, <1>9, Zenon
  <2>3. 0 \in 0 .. n /\ \A i \in 1 .. n : i \in 0 .. n /\ i # 0
    BY <1>1
  <2> QED
    BY <2>2, <2>3
<1> HIDE DEF after, After
<1>12. \A i \in Nat : i <= n => after[i] = f[i]
  <2> DEFINE S == {i \in Nat : i <= n => after[i] = f[i]}
  <2>1. 0 \in S
    BY <1>5, <1>11
  <2>2. ASSUME NEW i \in S
        PROVE  i + 1 \in S
    <3>0. i \in Nat /\ i + 1 \in Nat /\ (i <= n => after[i] = f[i])
      OBVIOUS
    <3> SUFFICES ASSUME i + 1 <= n
                 PROVE  after[i + 1] = f[i + 1]
      BY <3>0
    <3>1. i + 1 \in 1 .. n /\ (i + 1) - 1 = i /\ i <= n
      BY <3>0, <1>1
    <3>2. after[i] = f[i]
      BY <3>0, <3>1
    <3> QED
      BY <3>1, <3>2, <1>6, <1>11
  <2>3. \A i \in S : i + 1 \in S
    BY <2>2
  <2>4. S \in SUBSET Nat
    OBVIOUS
  <2>5. \A i \in Nat : i \in S
    <3> HIDE DEF S
    <3> QED
      BY <2>1, <2>3, <2>4, SetInduction
  <2> QED
    BY <2>5
<1> QED
  BY <1>1, <1>7, <1>10, <1>12 DEF n

(* A change set keeps the counters exact. *)
LEMMA ChangeSetExact ==
  ASSUME NEW m \in ExactManifests, NEW cs \in Sets
  PROVE  ApplyChangeSet(m, cs) \in ExactManifests
<1>1. PICK f : IsRun(f, m, cs) /\ ApplyChangeSet(m, cs) = f[Len(cs)]
  BY ChangeSetRun
<1> QED
  BY <1>1, SetFacts DEF IsRun

(* What a change does to a manifest that is not refused. *)
LEMMA ChangeAccepted ==
  ASSUME NEW m \in ExactManifests, NEW c \in Changes, ApplyChange(m, c).ok
  PROVE  /\ m.ok
         /\ c.op = "CREATE" =>
              /\ c.id \notin DOMAIN m.tables
              /\ ApplyChange(m, c).tables =
                   [id \in DOMAIN m.tables \cup {c.id} |->
                      IF id = c.id THEN c.level ELSE m.tables[id]]
         /\ c.op # "CREATE" =>
              ApplyChange(m, c).tables = [id \in DOMAIN m.tables \ {c.id} |-> m.tables[id]]
<1>0. m \in Manifests
  BY DEF ExactManifests
<1>1. ~ (~ m.ok \/ (c.op = "CREATE") = (c.id \in DOMAIN m.tables))
  <2> SUFFICES ASSUME ~ m.ok \/ (c.op = "CREATE") = (c.id \in DOMAIN m.tables)
               PROVE  FALSE
    OBVIOUS
  <2>1. ApplyChange(m, c) = [m EXCEPT !.ok = FALSE]
    BY DEF ApplyChange
  <2>2. [m EXCEPT !.ok = FALSE].ok = FALSE
    BY <1>0 DEF Manifests
  <2> QED
    BY <2>1, <2>2
<1>2. CASE c.op = "CREATE"
  <2>1. PICK t : t = [id \in DOMAIN m.tables \cup {c.id} |->
                        IF id = c.id THEN c.level ELSE m.tables[id]]
    OBVIOUS
  <2>2. ApplyChange(m, c) = [m EXCEPT !.tables = t, !.creations = m.creations + 1]
    BY <1>0, <1>1, <1>2, <2>1 DEF ApplyChange, Manifests
  <2>3. ApplyChange(m, c).tables = t
    BY <1>0, <2>2 DEF Manifests
  <2> QED
    BY <1>1, <1>2, <2>1, <2>3
<1>3. CASE c.op # "CREATE"
  <2>1. PICK t : t = [id \in DOMAIN m.tables \ {c.id} |-> m.tables[id]]
    OBVIOUS
  <2>2. ApplyChange(m, c) = [m EXCEPT !.tables = t, !.deletions = m.deletions + 1]
    BY <1>0, <1>1, <1>3, <2>1 DEF ApplyChange, Manifests
  <2>3. ApplyChange(m, c).tables = t
    BY <1>0, <2>2 DEF Manifests
  <2> QED
    BY <1>1, <1>3, <2>1, <2>3
<1> QED
  BY <1>2, <1>3

(* What the first i changes of cs create and delete. *)
Created(cs, i) == {cs[j].id : j \in {h \in 1 .. i : cs[h].op = "CREATE"}}
Deleted(cs, i) == {cs[j].id : j \in {h \in 1 .. i : cs[h].op = "DELETE"}}

(***************************************************************************)
(* The tables t are those of t0 after the first i changes of cs.           *)
(***************************************************************************)
AfterChanges(t, t0, cs, i) ==
  /\ t = [id \in DOMAIN t |-> t[id]]
  /\ DOMAIN t = (DOMAIN t0 \ Deleted(cs, i)) \cup Created(cs, i)
  /\ \A j \in 1 .. i : cs[j].op = "CREATE" => t[cs[j].id] = cs[j].level
  /\ \A id \in DOMAIN t : id \notin Created(cs, i) => t[id] = t0[id]

(* One change more. *)
LEMMA OneChangeMore ==
  ASSUME NEW m \in ExactManifests, NEW t0, NEW cs \in Sets, NEW i \in Nat, i + 1 \in 1 .. Len(cs),
         AfterChanges(m.tables, t0, cs, i), ApplyChange(m, cs[i + 1]).ok
  PROVE  AfterChanges(ApplyChange(m, cs[i + 1]).tables, t0, cs, i + 1)
<1>1. /\ cs[i + 1] \in Changes /\ cs[i + 1].op \in {"CREATE", "DELETE"}
      /\ \A j \in 1 .. i : cs[j].id = cs[i + 1].id => cs[j].op = "DELETE" /\ cs[i + 1].op = "CREATE"
      /\ 1 .. i + 1 = 1 .. i \cup {i + 1}
  <2>1. 1 .. i + 1 = 1 .. i \cup {i + 1}
    OBVIOUS
  <2>2. \A j \in 1 .. i : j \in 1 .. Len(cs) /\ j < i + 1
    BY SetFacts
  <2> QED
    BY <2>1, <2>2, SetFacts
<1>2. PICK c, t, t2 : c = cs[i + 1] /\ t = m.tables /\ t2 = ApplyChange(m, c).tables
  OBVIOUS
<1>3. CASE c.op = "CREATE"
  <2>1. t2 = [id \in DOMAIN t \cup {c.id} |-> IF id = c.id THEN c.level ELSE t[id]]
    <3>1. c \in Changes /\ ApplyChange(m, c).ok
      BY <1>1, <1>2
    <3>2. ApplyChange(m, c).tables =
            [id \in DOMAIN m.tables \cup {c.id} |-> IF id = c.id THEN c.level ELSE m.tables[id]]
      BY <3>1, <1>3, ChangeAccepted
    <3> QED
      BY <3>2, <1>2
  <2>2. Created(cs, i + 1) = Created(cs, i) \cup {c.id} /\ Deleted(cs, i + 1) = Deleted(cs, i)
    BY <1>1, <1>2, <1>3 DEF Created, Deleted
  <2>3. DOMAIN t2 = (DOMAIN t0 \ Deleted(cs, i + 1)) \cup Created(cs, i + 1)
    BY <2>1, <2>2, <1>2 DEF AfterChanges
  <2>4. \A j \in 1 .. i + 1 : cs[j].op = "CREATE" => t2[cs[j].id] = cs[j].level
    <3> SUFFICES ASSUME NEW j \in 1 .. i + 1, cs[j].op = "CREATE"
                 PROVE  t2[cs[j].id] = cs[j].level
      OBVIOUS
    <3>1. CASE j = i + 1
      BY <3>1, <2>1, <1>2
    <3>2. CASE j \in 1 .. i
      <4>1. cs[j].id # c.id
        BY <3>2, <1>1, <1>2
      <4>2. cs[j].id \in DOMAIN t /\ t[cs[j].id] = cs[j].level
        BY <3>2, <1>2 DEF AfterChanges, Created
      <4> QED
        BY <4>1, <4>2, <2>1
    <3> QED
      BY <3>1, <3>2, <1>1
  <2>5. \A id \in DOMAIN t2 : id \notin Created(cs, i + 1) => t2[id] = t0[id]
    BY <2>1, <2>2, <1>2 DEF AfterChanges
  <2>6. t2 = [id \in DOMAIN t2 |-> t2[id]]
    BY <2>1
  <2> QED
    BY <2>3, <2>4, <2>5, <2>6, <1>2 DEF AfterChanges
<1>4. CASE c.op = "DELETE"
  <2>1. t2 = [id \in DOMAIN t \ {c.id} |-> t[id]]
    <3>1. c \in Changes /\ ApplyChange(m, c).ok /\ c.op # "CREATE"
      BY <1>1, <1>2, <1>4
    <3>2. ApplyChange(m, c).tables = [id \in DOMAIN m.tables \ {c.id} |-> m.tables[id]]
      BY <3>1, ChangeAccepted
    <3> QED
      BY <3>2, <1>2
  <2>2. Created(cs, i + 1) = Created(cs, i) /\ Deleted(cs, i + 1) = Deleted(cs, i) \cup {c.id}
    BY <1>1, <1>2, <1>4 DEF Created, Deleted
  <2>3. c.id \notin Created(cs, i)
    BY <1>1, <1>2, <1>4 DEF Created
  <2>4. DOMAIN t2 = (DOMAIN t0 \ Deleted(cs, i + 1)) \cup Created(cs, i + 1)
    BY <2>1, <2>2, <2>3, <1>2 DEF AfterChanges
  <2>5. \A j \in 1 .. i + 1 : cs[j].op = "CREATE" => t2[cs[j].id] = cs[j].level
    <3> SUFFICES ASSUME NEW j \in 1 .. i + 1, cs[j].op = "CREATE"
                 PROVE  t2[cs[j].id] = cs[j].level
      OBVIOUS
    <3>1. j \in 1 .. i
      BY <1>1, <1>2, <1>4
    <3>2. cs[j].id # c.id
      BY <3>1, <1>1, <1>2, <1>4
    <3>3. cs[j].id \in DOMAIN t /\ t[cs[j].id] = cs[j].level
      BY <3>1, <1>2 DEF AfterChanges, Created
    <3> QED
      BY <3>2, <3>3, <2>1
  <2>6. \A id \in DOMAIN t2 : id \notin Created(cs, i + 1) => t2[id] = t0[id]
    BY <2>1, <2>2, <1>2 DEF AfterChanges
  <2>7. t2 = [id \in DOMAIN t2 |-> t2[id]]
    BY <2>1
  <2> QED
    BY <2>4, <2>5, <2>6, <2>7, <1>2 DEF AfterChanges
<1> QED
  BY <1>1, <1>2, <1>3, <1>4

(***************************************************************************)
(* A change set that is accepted does what its caller wanted, and the      *)
(* manifest had refused nothing before.                                    *)
(***************************************************************************)
LEMMA AcceptedIsWanted ==
  ASSUME NEW m \in ExactManifests, NEW cs \in Sets, ApplyChangeSet(m, cs).ok
  PROVE  m.ok /\ ApplyChangeSet(m, cs).tables = Wanted(m.tables, cs)
<1> DEFINE n == Len(cs)
<1>1. PICK f : IsRun(f, m, cs) /\ ApplyChangeSet(m, cs) = f[n]
  BY ChangeSetRun
<1>2. /\ n \in Nat /\ f[0] = m
      /\ \A i \in 0 .. n : f[i] \in ExactManifests
      /\ \A i \in 1 .. n : f[i] = ApplyChange(f[i - 1], cs[i]) /\ cs[i] \in Changes
  BY <1>1, SetFacts DEF IsRun
<1> HIDE DEF n
<1>3. ASSUME NEW i \in 1 .. n, f[i].ok
      PROVE  f[i - 1].ok
  <2>1. f[i - 1] \in ExactManifests /\ ApplyChange(f[i - 1], cs[i]).ok /\ cs[i] \in Changes
    BY <1>2, <1>3
  <2> QED
    BY <2>1, ChangeAccepted
<1>4. \A i \in Nat : i <= n => (f[i].ok => f[0].ok /\ AfterChanges(f[i].tables, m.tables, cs, i))
  <2> DEFINE S == {i \in Nat :
                     i <= n => (f[i].ok => f[0].ok /\ AfterChanges(f[i].tables, m.tables, cs, i))}
  <2>1. 0 \in S
    <3>1. m.tables \in TableMaps
      BY DEF ExactManifests, Manifests
    <3>2. m.tables = [id \in DOMAIN m.tables |-> m.tables[id]]
      BY <3>1 DEF TableMaps
    <3>3. Created(cs, 0) = {} /\ Deleted(cs, 0) = {} /\ 1 .. 0 = {}
      BY DEF Created, Deleted
    <3>4. AfterChanges(m.tables, m.tables, cs, 0)
      BY <3>2, <3>3 DEF AfterChanges
    <3> QED
      BY <3>4, <1>2
  <2>2. ASSUME NEW i \in S
        PROVE  i + 1 \in S
    <3>0. i \in Nat /\ i + 1 \in Nat
          /\ (i <= n => (f[i].ok => f[0].ok /\ AfterChanges(f[i].tables, m.tables, cs, i)))
      OBVIOUS
    <3> SUFFICES ASSUME i + 1 <= n, f[i + 1].ok
                 PROVE  f[0].ok /\ AfterChanges(f[i + 1].tables, m.tables, cs, i + 1)
      BY <3>0
    <3>1. i + 1 \in 1 .. n /\ (i + 1) - 1 = i /\ i <= n /\ i \in 0 .. n
      BY <3>0, <1>2
    <3>2. f[i].ok /\ f[i] \in ExactManifests /\ f[i + 1] = ApplyChange(f[i], cs[i + 1])
      BY <3>1, <1>2, <1>3
    <3>3. f[0].ok /\ AfterChanges(f[i].tables, m.tables, cs, i)
      BY <3>0, <3>1, <3>2
    <3> QED
      BY <3>0, <3>1, <3>2, <3>3, OneChangeMore DEF n
  <2>3. (\A i \in S : i + 1 \in S) /\ S \in SUBSET Nat
    BY <2>2
  <2>4. \A i \in Nat : i \in S
    <3> HIDE DEF S
    <3> QED
      BY <2>1, <2>3, SetInduction
  <2> QED
    BY <2>4
<1>5. PICK t : t = f[n].tables
  OBVIOUS
<1>6. m.ok /\ AfterChanges(t, m.tables, cs, n)
  BY <1>1, <1>2, <1>4, <1>5
<1>7. DOMAIN cs = 1 .. n
  BY SetFacts DEF n
<1> DEFINE created == {cs[i].id : i \in {j \in DOMAIN cs : cs[j].op = "CREATE"}}
           deleted == {cs[i].id : i \in {j \in DOMAIN cs : cs[j].op = "DELETE"}}
           level(id) == (CHOOSE i \in DOMAIN cs : cs[i].op = "CREATE" /\ cs[i].id = id)
           want == [id \in (DOMAIN m.tables \ deleted) \cup created |->
                      IF id \in created THEN cs[level(id)].level ELSE m.tables[id]]
<1>8. Wanted(m.tables, cs) = want
  BY DEF Wanted
<1>9. created = Created(cs, n) /\ deleted = Deleted(cs, n)
  BY <1>7 DEF Created, Deleted
<1>10. \A id \in created : t[id] = cs[level(id)].level
  <2> SUFFICES ASSUME NEW id \in created
               PROVE  t[id] = cs[level(id)].level
    OBVIOUS
  <2>1. \E i \in DOMAIN cs : cs[i].op = "CREATE" /\ cs[i].id = id
    OBVIOUS
  <2>2. level(id) \in DOMAIN cs /\ cs[level(id)].op = "CREATE" /\ cs[level(id)].id = id
    BY <2>1
  <2> HIDE DEF level
  <2> QED
    BY <2>2, <1>6, <1>7 DEF AfterChanges
<1> HIDE DEF level, created, deleted
<1>11. t = want
  <2>1. DOMAIN t = (DOMAIN m.tables \ deleted) \cup created
    BY <1>6, <1>9 DEF AfterChanges
  <2>2. \A id \in DOMAIN t : t[id] = IF id \in created THEN cs[level(id)].level ELSE m.tables[id]
    BY <1>6, <1>9, <1>10 DEF AfterChanges
  <2>3. t = [id \in DOMAIN t |-> t[id]]
    BY <1>6 DEF AfterChanges
  <2> QED
    BY <2>1, <2>2, <2>3
<1> HIDE DEF want
<1> QED
  BY <1>1, <1>5, <1>6, <1>8, <1>11

-----------------------------------------------------------------------------
(* The manifest of a new file. *)
LEMMA NewManifestExact == NewManifest \in ExactManifests /\ NewManifest.ok
<1>1. <<>> \in TableMaps /\ DOMAIN <<>> = {}
  <2>1. <<>> \in [{} -> {c.level : c \in Changes}]
    BY EmptySeq
  <2> QED
    BY <2>1 DEF TableMaps
<1>2. IsFiniteSet({}) /\ Cardinality({}) = 0
  BY FS_EmptySet
<1> QED
  BY <1>1, <1>2 DEF NewManifest, ExactManifests, Exact, Manifests

(* The manifests on the way through the change sets of a file. *)
Passes(f, sets) ==
  /\ f[0] = NewManifest
  /\ \A k \in 1 .. Len(sets) : f[k] = ApplyChangeSet(f[k - 1], sets[k])

IsBuild(f, sets) == f \in [0 .. Len(sets) -> ExactManifests] /\ Passes(f, sets)

(* Two files that begin with the same sets pass through the same manifests. *)
LEMMA BuildSame ==
  ASSUME NEW sets, NEW more, NEW f, NEW g, Len(sets) \in Nat, Len(more) \in Nat,
         Passes(f, sets), Passes(g, more), Len(sets) <= Len(more),
         \A k \in 1 .. Len(sets) : more[k] = sets[k]
  PROVE  \A i \in Nat : i <= Len(sets) => g[i] = f[i]
<1> DEFINE S == {i \in Nat : i <= Len(sets) => g[i] = f[i]}
<1>1. 0 \in S
  BY DEF Passes
<1>2. ASSUME NEW i \in S
      PROVE  i + 1 \in S
  <2>0. i \in Nat /\ i + 1 \in Nat /\ (i <= Len(sets) => g[i] = f[i])
    OBVIOUS
  <2> SUFFICES ASSUME i + 1 <= Len(sets)
               PROVE  g[i + 1] = f[i + 1]
    BY <2>0
  <2>1. /\ i + 1 \in 1 .. Len(sets) /\ i + 1 \in 1 .. Len(more) /\ (i + 1) - 1 = i
        /\ i <= Len(sets)
    BY <2>0
  <2>2. g[i] = f[i]
    BY <2>0, <2>1
  <2> QED
    BY <2>1, <2>2 DEF Passes
<1>3. (\A i \in S : i + 1 \in S) /\ S \in SUBSET Nat
  BY <1>2
<1>4. \A i \in Nat : i \in S
  <2> HIDE DEF S
  <2> QED
    BY <1>1, <1>3, SetInduction
<1> QED
  BY <1>4

(* Built is such a passage. *)
LEMMA BuildRun ==
  ASSUME NEW sets \in Seq(Sets)
  PROVE  \E f : IsBuild(f, sets) /\ Built(sets) = f[Len(sets)]
<1> DEFINE n == Len(sets)
           M == ExactManifests
           step == [k \in 1 .. n |-> [a \in M |-> ApplyChangeSet(a, sets[k])]]
           After(f) == [k \in 0 .. n |->
                          IF k = 0 THEN NewManifest ELSE ApplyChangeSet(f[k - 1], sets[k])]
<1>1. n \in Nat /\ \A k \in 1 .. n : sets[k] \in Sets
  OBVIOUS
<1>2. step \in [1 .. n -> [M -> M]]
  BY <1>1, ChangeSetExact
<1>3. \A k \in 1 .. n : \A a \in M : step[k][a] = ApplyChangeSet(a, sets[k])
  OBVIOUS
<1> HIDE DEF step, M, n
<1>4. NewManifest \in M
  BY NewManifestExact DEF M
<1>5. PICK f : f \in [0 .. n -> M] /\ f[0] = NewManifest /\ \A k \in 1 .. n : f[k] = step[k][f[k - 1]]
  <2>1. \E f : Steps(f, n, M, NewManifest, step)
    BY <1>1, <1>2, <1>4, RecursionExists
  <2> QED
    BY <2>1 DEF Steps
<1>6. \A k \in 1 .. n : f[k] = ApplyChangeSet(f[k - 1], sets[k])
  <2> SUFFICES ASSUME NEW k \in 1 .. n
               PROVE  f[k] = ApplyChangeSet(f[k - 1], sets[k])
    OBVIOUS
  <2>1. f[k - 1] \in M
    BY <1>1, <1>5
  <2> QED
    BY <2>1, <1>3, <1>5
<1>7. IsBuild(f, sets)
  BY <1>5, <1>6 DEF IsBuild, Passes, M, n
<1>8. f = After(f)
  <2>1. \A k \in 0 .. n : f[k] = After(f)[k]
    <3> SUFFICES ASSUME NEW k \in 0 .. n
                 PROVE  f[k] = IF k = 0 THEN NewManifest ELSE ApplyChangeSet(f[k - 1], sets[k])
      OBVIOUS
    <3>1. k # 0 => k \in 1 .. n
      BY <1>1
    <3> QED
      BY <3>1, <1>5, <1>6
  <2>2. f = [k \in 0 .. n |-> f[k]]
    BY <1>5
  <2>3. After(f) = [k \in 0 .. n |-> After(f)[k]]
    OBVIOUS
  <2> HIDE DEF After
  <2> QED
    BY <2>1, <2>2, <2>3, Zenon
<1> DEFINE after == CHOOSE g : g = After(g)
<1>9. after = After(after)
  BY <1>8, Zenon
<1>10. Built(sets) = after[n]
  BY DEF Built, n
<1>11. /\ after[0] = NewManifest
       /\ \A k \in 1 .. n : after[k] = ApplyChangeSet(after[k - 1], sets[k])
  <2> HIDE DEF after
  <2>1. \A k \in 0 .. n : After(after)[k] =
                            IF k = 0 THEN NewManifest ELSE ApplyChangeSet(after[k - 1], sets[k])
    OBVIOUS
  <2> HIDE DEF After
  <2>2. \A k \in 0 .. n : after[k] =
                            IF k = 0 THEN NewManifest ELSE ApplyChangeSet(after[k - 1], sets[k])
    BY <2>1, <1>9, Zenon
  <2>3. 0 \in 0 .. n /\ \A k \in 1 .. n : k \in 0 .. n /\ k # 0
    BY <1>1
  <2> QED
    BY <2>2, <2>3
<1> HIDE DEF after, After
<1>12. after[n] = f[n]
  <2>1. Passes(after, sets) /\ Passes(f, sets)
    BY <1>7, <1>11 DEF Passes, IsBuild, n
  <2>2. \A i \in Nat : i <= n => after[i] = f[i]
    BY <1>1, <2>1, BuildSame DEF n
  <2> QED
    BY <1>1, <2>2
<1> QED
  BY <1>7, <1>10, <1>12 DEF n

(* Built is exact, and one set more is applied to what was built before. *)
LEMMA BuiltAppend ==
  ASSUME NEW sets \in Seq(Sets), NEW cs \in Sets
  PROVE  /\ Built(sets) \in ExactManifests
         /\ Built(Append(sets, cs)) = ApplyChangeSet(Built(sets), cs)
<1> DEFINE more == Append(sets, cs)
<1>1. /\ more \in Seq(Sets) /\ Len(sets) \in Nat /\ Len(more) = Len(sets) + 1
      /\ more[Len(sets) + 1] = cs /\ \A k \in 1 .. Len(sets) : more[k] = sets[k]
  OBVIOUS
<1> HIDE DEF more
<1>2. PICK f : IsBuild(f, sets) /\ Built(sets) = f[Len(sets)]
  BY BuildRun
<1>3. PICK g : IsBuild(g, more) /\ Built(more) = g[Len(more)]
  BY <1>1, BuildRun
<1>4. g[Len(sets)] = f[Len(sets)]
  <2>1. Passes(f, sets) /\ Passes(g, more) /\ Len(more) \in Nat /\ Len(sets) <= Len(more)
    BY <1>1, <1>2, <1>3 DEF IsBuild
  <2>2. \A i \in Nat : i <= Len(sets) => g[i] = f[i]
    BY <1>1, <2>1, BuildSame
  <2> QED
    BY <2>2, <1>1
<1>5. Len(more) \in 1 .. Len(more) /\ Len(more) - 1 = Len(sets)
  BY <1>1
<1>6. Built(more) = ApplyChangeSet(g[Len(sets)], cs)
  BY <1>1, <1>3, <1>5 DEF IsBuild, Passes
<1>7. f[Len(sets)] \in ExactManifests
  BY <1>1, <1>2 DEF IsBuild
<1> QED
  BY <1>2, <1>4, <1>6, <1>7 DEF more

-----------------------------------------------------------------------------
(* A write at or before the end of a file: its length, and its words. *)
LEMMA OverwriteFacts ==
  ASSUME NEW f \in Seq(Words), NEW p \in 0 .. Len(f), NEW words \in Seq(Words)
  PROVE  /\ Overwrite(f, p, words) \in Seq(Words)
         /\ Len(Overwrite(f, p, words)) >= Len(f)
         /\ Len(Overwrite(f, p, words)) >= p + Len(words)
         /\ p = Len(f) => Len(Overwrite(f, p, words)) = Len(f) + Len(words)
         /\ \A i \in 1 .. p : Overwrite(f, p, words)[i] = f[i]
         /\ \A i \in 1 .. Len(words) : Overwrite(f, p, words)[p + i] = words[i]
         /\ Len(words) = 0 => Overwrite(f, p, words) = f
<1>1. PICK a, b, n : a = Len(f) /\ b = p + Len(words) /\ n = Max({a, b})
  OBVIOUS
<1>2. a \in Nat /\ b \in Nat /\ Len(words) \in Nat
  BY <1>1
<1>3. n \in {a, b} /\ n >= a /\ n >= b
  <2>1. \E x \in {a, b} : \A y \in {a, b} : x >= y
    BY <1>2
  <2> QED
    BY <1>1, <2>1 DEF Max
<1>4. PICK g : g = [i \in 1 .. n |-> IF i \in p + 1 .. p + Len(words) THEN words[i - p] ELSE f[i]]
  OBVIOUS
<1>5. Overwrite(f, p, words) = g
  BY <1>1, <1>4 DEF Overwrite
<1>6. \A i \in 1 .. n : g[i] \in Words
  <2> SUFFICES ASSUME NEW i \in 1 .. n
               PROVE  g[i] \in Words
    OBVIOUS
  <2>1. CASE i \in p + 1 .. p + Len(words)
    <3>1. i - p \in 1 .. Len(words)
      BY <2>1, <1>2
    <3> QED
      BY <3>1, <2>1, <1>4
  <2>2. CASE i \notin p + 1 .. p + Len(words)
    <3>1. i \in 1 .. Len(f)
      BY <2>2, <1>1, <1>2, <1>3
    <3> QED
      BY <3>1, <2>2, <1>4
  <2> QED
    BY <2>1, <2>2
<1>7. g \in Seq(Words) /\ Len(g) = n
  <2>1. n \in Nat
    BY <1>2, <1>3
  <2>2. g \in [1 .. n -> Words]
    BY <1>4, <1>6
  <2> QED
    BY <2>1, <2>2
<1>8. \A i \in 1 .. p : g[i] = f[i]
  BY <1>1, <1>2, <1>3, <1>4
<1>9. ASSUME NEW i \in 1 .. Len(words)
      PROVE  g[p + i] = words[i]
  <2>1. p + i \in 1 .. n /\ p + i \in p + 1 .. p + Len(words) /\ (p + i) - p = i
    BY <1>1, <1>2, <1>3
  <2> QED
    BY <2>1, <1>4
<1>10. ASSUME Len(words) = 0
       PROVE  g = f
  <2>1. n = Len(f)
    BY <1>10, <1>1, <1>2, <1>3
  <2>2. \A i \in 1 .. n : g[i] = f[i]
    BY <1>10, <1>2, <1>4
  <2> QED
    BY <2>1, <2>2, <1>7
<1>11. /\ Len(g) >= Len(f) /\ Len(g) >= p + Len(words)
       /\ p = Len(f) => Len(g) = Len(f) + Len(words)
  BY <1>1, <1>2, <1>3, <1>7
<1> QED
  BY <1>5, <1>7, <1>8, <1>9, <1>10, <1>11

(* The words of an entry. *)
LEMMA EntryFacts ==
  ASSUME NEW cs \in Sets, NEW n \in 0 .. 2
  PROVE  /\ Entry(cs) \in Seq(Words) /\ Len(Entry(cs)) = 3
         /\ Entry(cs)[1] = Word("size", cs)
         /\ Entry(cs)[2] = Word("crc", cs)
         /\ Entry(cs)[3] = Word("body", cs)
         /\ SubSeq(Entry(cs), 1, n) \in Seq(Words)
         /\ Len(SubSeq(Entry(cs), 1, n)) = n
         /\ n > 0 => SubSeq(Entry(cs), 1, n)[1] = Word("size", cs)
<1>1. Word("size", cs) \in Words /\ Word("crc", cs) \in Words /\ Word("body", cs) \in Words
  BY DEF Words, Word
<1>2. PICK e : e = Entry(cs)
  OBVIOUS
<1>3. e \in Seq(Words) /\ Len(e) = 3 /\ e[1] = Word("size", cs)
      /\ e[2] = Word("crc", cs) /\ e[3] = Word("body", cs)
  BY <1>1, <1>2 DEF Entry
<1>4. SubSeq(e, 1, n) \in Seq(Words) /\ Len(SubSeq(e, 1, n)) = n
      /\ \A i \in 1 .. n : SubSeq(e, 1, n)[i] = e[i]
  BY <1>3
<1> QED
  BY <1>2, <1>3, <1>4

(* Three words in a row are an entry when each of them is. *)
LEMMA ThreeWords ==
  ASSUME NEW f \in Seq(Words), NEW a \in Nat, a >= 1, a + 2 <= Len(f), NEW cs
  PROVE  (SubSeq(f, a, a + 2) = Entry(cs)) <=>
           /\ f[a] = Word("size", cs)
           /\ f[a + 1] = Word("crc", cs)
           /\ f[a + 2] = Word("body", cs)
<1>1. PICK s : s = SubSeq(f, a, a + 2)
  OBVIOUS
<1>2. s \in Seq(Words) /\ Len(s) = 3
  BY <1>1
<1>3. s[1] = f[a] /\ s[2] = f[a + 1] /\ s[3] = f[a + 2]
  BY <1>1
<1>4. PICK e : e = Entry(cs)
  OBVIOUS
<1>5. /\ e = <<Word("size", cs), Word("crc", cs), Word("body", cs)>>
      /\ e[1] = Word("size", cs) /\ e[2] = Word("crc", cs) /\ e[3] = Word("body", cs)
  BY <1>4 DEF Entry
<1>6. s = <<s[1], s[2], s[3]>>
  BY <1>2
<1>7. s = e <=> s[1] = e[1] /\ s[2] = e[2] /\ s[3] = e[3]
  BY <1>5, <1>6
<1> QED
  BY <1>1, <1>3, <1>4, <1>5, <1>7

(* A damaged file is noticed. *)
LEMMA DamagedNotOk ==
  ASSUME NEW f \in Seq(Words), Damaged(f)
  PROVE  ~ Replay(f).ok
<1>1. Replay(f).ok => Len(f) >= 2 /\ SubSeq(f, 1, 2) = Header
  BY DEF Replay
<1>2. ASSUME Len(f) >= 2, SubSeq(f, 1, 2) = Header
      PROVE  FALSE
  <2>1. SubSeq(f, 1, 2)[1] = f[1]
    BY <1>2
  <2>2. Header[1].kind = "magic"
    BY DEF Header, Word
  <2>3. f # <<>>
    BY <1>2
  <2> QED
    BY <1>2, <2>1, <2>2, <2>3 DEF Damaged
<1> QED
  BY <1>1, <1>2

(* Neither a damaged nor a readable file is the mark for no file. *)
LEMMA IsAFile ==
  ASSUME NEW f, Damaged(f) \/ \E sets, r : IsFileOf(f, sets, r)
  PROVE  f # NoFile
<1>1. NoFile # <<>> /\ NoFile[1].kind = "none"
  BY DEF NoFile, Word
<1>2. f = <<>> \/ f[1].kind = "size" \/ f[1].kind = "magic"
  BY DEF Damaged, IsFileOf, Word
<1> QED
  BY <1>1, <1>2

(***************************************************************************)
(* replay_manifest_file applies the sets of whole entries, fails on two    *)
(* words of a further one, and otherwise leaves that out of the length.    *)
(***************************************************************************)
LEMMA ReplayOf ==
  ASSUME NEW f \in Seq(Words), NEW sets \in Seq(Sets), NEW r \in 0 .. 2, IsFileOf(f, sets, r)
  PROVE  /\ Replay(f).ok => r # 2 /\ Built(sets).ok
         /\ Replay(f).manifest = Built(sets)
         /\ Replay(f).length = 2 + 3 * Len(sets)
<1> DEFINE start(k) == 3 * k
           whole(k) == /\ start(k) + 2 <= Len(f)
                       /\ SubSeq(f, start(k), start(k) + 2) = Entry(f[start(k)].cs)
           N == {n \in 0 .. Len(f) : \A k \in 1 .. n : whole(k)}
           count == Max(N)
           read == [k \in 1 .. count |-> f[start(k)].cs]
<1>1. /\ Replay(f).ok => Len(f) - (2 + 3 * count) # 2 /\ Built(read).ok
      /\ Replay(f).manifest = Built(read)
      /\ Replay(f).length = 2 + 3 * count
  BY DEF Replay
<1>2. Len(sets) \in Nat /\ Len(f) \in Nat /\ Len(f) = 2 + 3 * Len(sets) + r
  BY DEF IsFileOf
<1>3. ASSUME NEW k \in 1 .. Len(sets)
      PROVE  whole(k) /\ f[3 * k].cs = sets[k]
  <2>1. 3 * k \in Nat /\ 3 * k >= 1 /\ 3 * k + 2 <= Len(f)
    BY <1>2
  <2>2. /\ f[3 * k] = Word("size", sets[k])
        /\ f[3 * k + 1] = Word("crc", sets[k])
        /\ f[3 * k + 2] = Word("body", sets[k])
    BY DEF IsFileOf
  <2>3. f[3 * k].cs = sets[k]
    BY <2>2 DEF Word
  <2>4. SubSeq(f, 3 * k, 3 * k + 2) = Entry(sets[k])
    BY <2>1, <2>2, ThreeWords
  <2> QED
    BY <2>1, <2>3, <2>4
<1>4. ~ whole(Len(sets) + 1)
  <2>1. 3 * (Len(sets) + 1) + 2 > Len(f)
    BY <1>2
  <2> QED
    BY <2>1, <1>2
<1> HIDE DEF whole
<1>5. Len(sets) \in N
  BY <1>2, <1>3
<1>6. \A n \in N : n <= Len(sets)
  <2> SUFFICES ASSUME NEW n \in N, n > Len(sets)
               PROVE  FALSE
    BY <1>2
  <2>1. Len(sets) + 1 \in 1 .. n
    BY <1>2
  <2> QED
    BY <2>1, <1>4
<1>7. count = Len(sets)
  <2>1. N \subseteq Nat
    BY <1>2
  <2> HIDE DEF N
  <2>2. \A x \in N : (\A y \in N : x >= y) <=> x = Len(sets)
    BY <2>1, <1>2, <1>5, <1>6
  <2> QED
    BY <2>2, <1>5 DEF Max
<1> HIDE DEF count
<1>8. read = sets
  <2>1. read = [k \in 1 .. Len(sets) |-> sets[k]]
    BY <1>3, <1>7
  <2>2. sets \in [1 .. Len(sets) -> Sets]
    OBVIOUS
  <2> QED
    BY <2>1, <2>2
<1> HIDE DEF read
<1> QED
  BY <1>1, <1>2, <1>7, <1>8

(* A whole entry behind the last one adds its change set. *)
LEMMA FileAppended ==
  ASSUME NEW f \in Seq(Words), NEW sets \in Seq(Sets), IsFileOf(f, sets, 0), NEW cs \in Sets
  PROVE  IsFileOf(Overwrite(f, Len(f), Entry(cs)), Append(sets, cs), 0)
<1>1. PICK g, more, n : g = Overwrite(f, Len(f), Entry(cs)) /\ more = Append(sets, cs) /\ n = Len(sets)
  OBVIOUS
<1>2. /\ n \in Nat /\ Len(more) = n + 1 /\ more[n + 1] = cs
      /\ \A k \in 1 .. n : more[k] = sets[k]
  BY <1>1
<1>3. Len(f) \in 0 .. Len(f) /\ Len(f) = 2 + 3 * n
  BY <1>1, <1>2 DEF IsFileOf
<1>4. /\ Entry(cs) \in Seq(Words) /\ Len(Entry(cs)) = 3
      /\ Entry(cs)[1] = Word("size", cs)
      /\ Entry(cs)[2] = Word("crc", cs)
      /\ Entry(cs)[3] = Word("body", cs)
  BY EntryFacts
<1>5. /\ Len(g) = Len(f) + 3
      /\ \A i \in 1 .. Len(f) : g[i] = f[i]
      /\ \A i \in 1 .. 3 : g[Len(f) + i] = Entry(cs)[i]
  <2>1. PICK p, words : p = Len(f) /\ words = Entry(cs)
    OBVIOUS
  <2>2. g = Overwrite(f, p, words) /\ p \in 0 .. Len(f) /\ words \in Seq(Words) /\ Len(words) = 3
    BY <2>1, <1>1, <1>3, <1>4
  <2>3. /\ Len(g) = Len(f) + Len(words)
        /\ \A i \in 1 .. p : g[i] = f[i]
        /\ \A i \in 1 .. Len(words) : g[p + i] = words[i]
    <3>1. PICK a : a = Len(f)
      OBVIOUS
    <3>2. p = a => Len(Overwrite(f, p, words)) = a + Len(words)
      BY <2>2, <3>1, OverwriteFacts
    <3>3. /\ \A i \in 1 .. p : Overwrite(f, p, words)[i] = f[i]
          /\ \A i \in 1 .. Len(words) : Overwrite(f, p, words)[p + i] = words[i]
      BY <2>2, OverwriteFacts
    <3> QED
      BY <2>1, <2>2, <3>1, <3>2, <3>3
  <2> QED
    BY <2>1, <2>2, <2>3
<1>6. g[1] = Word("magic", <<>>) /\ g[2] = Word("version", <<>>)
  BY <1>2, <1>3, <1>5 DEF IsFileOf
<1>7. Len(g) = 2 + 3 * (n + 1) + 0
  BY <1>2, <1>3, <1>5
<1>8. ASSUME NEW k \in 1 .. n + 1
      PROVE  /\ g[3 * k] = Word("size", more[k])
             /\ g[3 * k + 1] = Word("crc", more[k])
             /\ g[3 * k + 2] = Word("body", more[k])
  <2>1. CASE k = n + 1
    <3>1. 3 * k = Len(f) + 1 /\ 3 * k + 1 = Len(f) + 2 /\ 3 * k + 2 = Len(f) + 3
      BY <2>1, <1>2, <1>3
    <3>2. 1 \in 1 .. 3 /\ 2 \in 1 .. 3 /\ 3 \in 1 .. 3
      OBVIOUS
    <3>3. g[Len(f) + 1] = Entry(cs)[1] /\ g[Len(f) + 2] = Entry(cs)[2] /\ g[Len(f) + 3] = Entry(cs)[3]
      BY <3>2, <1>5
    <3> QED
      BY <3>1, <3>3, <2>1, <1>2, <1>4
  <2>2. CASE k \in 1 .. n
    <3>1. 3 * k \in 1 .. Len(f) /\ 3 * k + 1 \in 1 .. Len(f) /\ 3 * k + 2 \in 1 .. Len(f)
      BY <2>2, <1>2, <1>3
    <3>2. /\ f[3 * k] = Word("size", sets[k])
          /\ f[3 * k + 1] = Word("crc", sets[k])
          /\ f[3 * k + 2] = Word("body", sets[k])
      BY <2>2, <1>1 DEF IsFileOf
    <3>3. g[3 * k] = f[3 * k] /\ g[3 * k + 1] = f[3 * k + 1] /\ g[3 * k + 2] = f[3 * k + 2]
      BY <3>1, <1>5
    <3> QED
      BY <3>2, <3>3, <2>2, <1>2
  <2> QED
    BY <2>1, <2>2, <1>2
<1> QED
  BY <1>1, <1>2, <1>6, <1>7, <1>8 DEF IsFileOf

(* A file that keeps the words of its entries keeps its change sets. *)
LEMMA FileKept ==
  ASSUME NEW f, NEW g, NEW sets \in Seq(Sets), NEW r \in Nat, NEW n \in Nat, IsFileOf(f, sets, r),
         Len(g) = 2 + 3 * Len(sets) + n, \A i \in 1 .. 2 + 3 * Len(sets) : g[i] = f[i]
  PROVE  IsFileOf(g, sets, n)
<1>1. Len(sets) \in Nat
  OBVIOUS
<1>2. g[1] = f[1] /\ g[2] = f[2]
  BY <1>1
<1>3. ASSUME NEW k \in 1 .. Len(sets)
      PROVE  g[3 * k] = f[3 * k] /\ g[3 * k + 1] = f[3 * k + 1] /\ g[3 * k + 2] = f[3 * k + 2]
  <2>1. /\ 3 * k \in 1 .. 2 + 3 * Len(sets)
        /\ 3 * k + 1 \in 1 .. 2 + 3 * Len(sets)
        /\ 3 * k + 2 \in 1 .. 2 + 3 * Len(sets)
    BY <1>1
  <2> QED
    BY <2>1
<1> QED
  BY <1>2, <1>3 DEF IsFileOf

(* A write over the header damages a file, and none repairs it. *)
LEMMA WriteDamages ==
  ASSUME NEW f \in Seq(Words), NEW p \in 0 .. Len(f), NEW words \in Seq(Words),
         Len(words) > 0 => words[1].kind = "size",
         Damaged(f) \/ (p = 0 /\ Len(words) > 0)
  PROVE  Damaged(Overwrite(f, p, words))
<1>1. PICK g : g = Overwrite(f, p, words)
  OBVIOUS
<1>2. CASE Len(words) = 0
  <2>1. g = f
    BY <1>1, <1>2, OverwriteFacts
  <2>2. Damaged(f)
    BY <1>2
  <2> QED
    BY <1>1, <2>1, <2>2
<1>3. CASE Len(words) > 0 /\ p = 0
  <2>1. 1 \in 1 .. Len(words) /\ 0 + 1 = 1
    BY <1>3
  <2>2. g[0 + 1] = words[1]
    BY <2>1, <1>1, <1>3, OverwriteFacts
  <2> QED
    BY <2>1, <2>2, <1>1, <1>3 DEF Damaged
<1>4. CASE Len(words) > 0 /\ p > 0
  <2>1. 1 \in 1 .. p /\ f # <<>>
    BY <1>4
  <2>2. g[1] = f[1]
    BY <2>1, <1>1, OverwriteFacts
  <2> QED
    BY <2>1, <2>2, <1>1, <1>4 DEF Damaged
<1> QED
  BY <1>2, <1>3, <1>4

(* A new file has one entry, and it changes nothing. *)
LEMMA NewFile ==
  /\ Header \o Entry(<<>>) \in Seq(Words)
  /\ <<<<>>>> \in Seq(Sets)
  /\ IsFileOf(Header \o Entry(<<>>), <<<<>>>>, 0)
  /\ Built(<<<<>>>>) = NewManifest
<1>1. PICK f, h, e : f = Header \o Entry(<<>>) /\ h = Header /\ e = Entry(<<>>)
  OBVIOUS
<1>2. <<>> \in Sets
  BY DEF Sets
<1>3. h \in Seq(Words) /\ Len(h) = 2 /\ h[1] = Word("magic", <<>>) /\ h[2] = Word("version", <<>>)
  <2>1. Word("magic", <<>>) \in Words /\ Word("version", <<>>) \in Words
    BY <1>2 DEF Words, Word
  <2> QED
    BY <2>1, <1>1 DEF Header
<1>4. /\ e \in Seq(Words) /\ Len(e) = 3 /\ e[1] = Word("size", <<>>)
      /\ e[2] = Word("crc", <<>>) /\ e[3] = Word("body", <<>>)
  <2>1. 0 \in 0 .. 2
    OBVIOUS
  <2> QED
    BY <2>1, <1>1, <1>2, EntryFacts
<1>5. f = h \o e
  BY <1>1
<1>6. /\ f \in Seq(Words) /\ Len(f) = Len(h) + Len(e)
      /\ \A i \in 1 .. Len(h) + Len(e) : f[i] = IF i <= Len(h) THEN h[i] ELSE e[i - Len(h)]
  BY <1>3, <1>4, <1>5, ConcatProperties, Zenon
<1>7. f \in Seq(Words) /\ Len(f) = 5
  BY <1>3, <1>4, <1>6
<1>8. f[1] = h[1] /\ f[2] = h[2] /\ f[3] = e[1] /\ f[4] = e[2] /\ f[5] = e[3]
  BY <1>3, <1>4, <1>6
<1>9. PICK sets : sets = <<<<>>>>
  OBVIOUS
<1>10. sets \in Seq(Sets) /\ Len(sets) = 1 /\ sets[1] = <<>>
  BY <1>2, <1>9
<1>11. IsFileOf(f, sets, 0)
  <2>1. \A k \in 1 .. Len(sets) : k = 1
    BY <1>10
  <2>2. 3 * 1 = 3 /\ 3 * 1 + 1 = 4 /\ 3 * 1 + 2 = 5 /\ 2 + 3 * 1 + 0 = 5
    OBVIOUS
  <2> QED
    BY <2>1, <2>2, <1>3, <1>4, <1>7, <1>8, <1>10 DEF IsFileOf
<1>12. Built(sets) = NewManifest
  <2>1. PICK f1 : IsBuild(f1, sets) /\ Built(sets) = f1[1]
    BY <1>10, BuildRun
  <2>2. f1[0] = NewManifest /\ f1[1] = ApplyChangeSet(f1[0], <<>>)
    BY <2>1, <1>10 DEF IsBuild, Passes
  <2>3. PICK f2 : IsRun(f2, NewManifest, <<>>) /\ ApplyChangeSet(NewManifest, <<>>) = f2[Len(<<>>)]
    BY <1>2, NewManifestExact, ChangeSetRun
  <2>4. f2[0] = NewManifest /\ Len(<<>>) = 0
    BY <2>3 DEF IsRun
  <2> QED
    BY <2>1, <2>2, <2>3, <2>4
<1> QED
  BY <1>1, <1>7, <1>9, <1>10, <1>11, <1>12

-----------------------------------------------------------------------------
(* A file is there while the manifest is open, and it is damaged or readable. *)
LEMMA OpenHasFile ==
  ASSUME IInv, state = "open"
  PROVE  /\ Damaged(file) \/ Readable
         /\ file \in Seq(Words) /\ pos \in 0 .. Len(file)
         /\ mem \in ExactManifests /\ mem.ok
BY DEF IInv

(* Before the first open. *)
LEMMA InitInv == Init => IInv
<1> SUFFICES ASSUME Init
             PROVE  IInv
  OBVIOUS
<1>1. NoFile \in Seq(Words) /\ Len(NoFile) = 1
  <2>1. Word("none", <<>>) \in Words
    BY DEF Words, Word, Sets
  <2> QED
    BY <2>1 DEF NoFile
<1>2. 0 \in 0 .. Len(NoFile)
  BY <1>1
<1>3. NewManifest.tables = << >>
  BY DEF NewManifest
<1> QED
  BY <1>1, <1>2, <1>3, NewManifestExact DEF Init, IInv

(* Creating the file *)
LEMMA CreateInv ==
  ASSUME IInv, Create
  PROVE  IInv'
<1>1. PICK f : f = Header \o Entry(<<>>)
  OBVIOUS
<1>2. /\ state' = "open" /\ file' = f /\ pos' = Len(f) /\ mem' = NewManifest
      /\ committed' = committed /\ committed = NewManifest.tables
  BY <1>1 DEF Create, IInv
<1>3. /\ f \in Seq(Words) /\ <<<<>>>> \in Seq(Sets)
      /\ IsFileOf(f, <<<<>>>>, 0) /\ Built(<<<<>>>>) = NewManifest
  BY <1>1, NewFile
<1>4. Readable'
  BY <1>2, <1>3 DEF Readable
<1>5. f # NoFile
  BY <1>3, IsAFile
<1>6. Len(f) \in 0 .. Len(f)
  BY <1>3
<1> QED
  BY <1>2, <1>3, <1>4, <1>5, <1>6, NewManifestExact DEF IInv

(* Opening a file that is there *)
LEMMA OpenInv ==
  ASSUME IInv, Open
  PROVE  IInv'
<1>1. CASE ~ Replay(file).ok
  <2>1. state' = "failed" /\ UNCHANGED <<file, pos, mem, committed>> /\ file # NoFile
    BY <1>1 DEF Open
  <2>2. Readable => Readable'
    BY <2>1 DEF Readable
  <2> QED
    BY <2>1, <2>2 DEF IInv
<1>2. CASE Replay(file).ok
  <2>1. file \in Seq(Words) /\ file # NoFile /\ ~ Damaged(file)
    BY <1>2, DamagedNotOk DEF IInv, Open
  <2>2. PICK sets \in Seq(Sets), r \in 0 .. 2 :
          /\ IsFileOf(file, sets, r)
          /\ Built(sets).ok => Built(sets).tables = committed
    BY <2>1 DEF IInv, Readable
  <2>3. PICK f, g, n : f = file /\ n = 2 + 3 * Len(sets) /\ g = SubSeq(f, 1, n)
    OBVIOUS
  <2>4. Built(sets).ok /\ Replay(file).manifest = Built(sets) /\ Replay(file).length = n
    BY <1>2, <2>1, <2>2, <2>3, ReplayOf
  <2>5. /\ state' = "open" /\ mem' = Built(sets) /\ file' = g /\ pos' = 0
        /\ committed' = committed
    BY <1>2, <2>2, <2>3, <2>4 DEF Open
  <2>6. f \in Seq(Words) /\ n \in Nat /\ n <= Len(f) /\ n >= 2
    BY <2>1, <2>2, <2>3 DEF IsFileOf
  <2>7. g \in Seq(Words) /\ Len(g) = n /\ \A i \in 1 .. n : g[i] = f[i]
    BY <2>3, <2>6
  <2>8. IsFileOf(g, sets, 0)
    <3>1. Len(g) = 2 + 3 * Len(sets) + 0 /\ \A i \in 1 .. 2 + 3 * Len(sets) : g[i] = f[i]
      BY <2>3, <2>7
    <3>2. IsFileOf(f, sets, r) /\ r \in Nat /\ 0 \in Nat
      BY <2>2, <2>3
    <3> QED
      BY <3>1, <3>2, FileKept
  <2>9. Built(sets) \in ExactManifests
    BY BuiltAppend DEF Sets
  <2>10. Readable'
    BY <2>2, <2>5, <2>8 DEF Readable
  <2>11. g # NoFile /\ 0 \in 0 .. Len(g)
    BY <2>6, <2>7, <2>8, IsAFile
  <2> QED
    BY <2>4, <2>5, <2>7, <2>9, <2>10, <2>11 DEF IInv
<1> QED
  BY <1>1, <1>2

(* Refusing a change set: what was applied of it is counted too. *)
LEMMA AddRefusedInv ==
  ASSUME IInv, NEW cs \in ChangeSets, AddRefused(cs)
  PROVE  IInv'
<1>1. PICK m, m2 : m = ApplyChangeSet(mem, cs) /\ m2 = [m EXCEPT !.ok = TRUE]
  OBVIOUS
<1>2. mem' = m2 /\ state = "open" /\ UNCHANGED <<state, file, pos, committed>>
  BY <1>1 DEF AddRefused
<1>3. m \in ExactManifests
  BY <1>1, <1>2, OpenHasFile, ChangeSetExact DEF Sets
<1>4. m2 \in ExactManifests /\ m2.ok
  <2>1. m \in Manifests
    BY <1>3 DEF ExactManifests
  <2>2. /\ m2 \in Manifests /\ m2.ok /\ m2.tables = m.tables
        /\ m2.creations = m.creations /\ m2.deletions = m.deletions
    BY <1>1, <2>1 DEF Manifests
  <2> QED
    BY <1>3, <2>2 DEF ExactManifests, Exact
<1>5. Readable => Readable'
  BY <1>2 DEF Readable
<1> QED
  BY <1>2, <1>4, <1>5 DEF IInv

(* Appending a change set *)
LEMMA AppendChangesInv ==
  ASSUME IInv, NEW cs \in ChangeSets, AppendChanges(cs)
  PROVE  IInv'
<1>1. PICK m, f, p, g : m = ApplyChangeSet(mem, cs) /\ f = file /\ p = pos /\ g = Overwrite(f, p, Entry(cs))
  OBVIOUS
<1>2. /\ state = "open" /\ state' = "open" /\ m.ok /\ mem' = m
      /\ file' = g /\ pos' = p + 3 /\ committed' = Wanted(committed, cs)
  BY <1>1 DEF AppendChanges
<1>3. cs \in Sets /\ f \in Seq(Words) /\ p \in 0 .. Len(f)
  BY <1>1, <1>2, OpenHasFile DEF Sets
<1>4. m \in ExactManifests
  BY <1>1, <1>2, <1>3, OpenHasFile, ChangeSetExact
<1>5. Entry(cs) \in Seq(Words) /\ Len(Entry(cs)) = 3 /\ Entry(cs)[1] = Word("size", cs)
  <2>1. 0 \in 0 .. 2
    OBVIOUS
  <2> QED
    BY <2>1, <1>3, EntryFacts
<1>6. g \in Seq(Words) /\ Len(g) >= p + 3
  BY <1>1, <1>3, <1>5, OverwriteFacts
<1>7. p + 3 \in 0 .. Len(g)
  BY <1>3, <1>6
<1>8. CASE Damaged(f) \/ p = 0
  <2>1. Entry(cs)[1].kind = "size" /\ Len(Entry(cs)) > 0
    BY <1>5 DEF Word
  <2>2. Damaged(g)
    BY <2>1, <1>1, <1>3, <1>5, <1>8, WriteDamages
  <2>3. g # NoFile
    BY <2>2, IsAFile
  <2> QED
    BY <2>2, <2>3, <1>2, <1>4, <1>6, <1>7 DEF IInv
<1>9. CASE ~ Damaged(f) /\ p # 0
  <2>1. Readable
    BY <1>1, <1>2, <1>9, OpenHasFile
  <2>2. PICK sets \in Seq(Sets), r \in 0 .. 2 :
          /\ IsFileOf(file, sets, r)
          /\ Built(sets).ok => Built(sets).tables = committed
          /\ state = "open" => r = 0 /\ pos \in {0, Len(file)}
    BY <2>1 DEF Readable
  <2>3. PICK more : more = Append(sets, cs)
    OBVIOUS
  <2>4. p = Len(f) /\ IsFileOf(f, sets, 0)
    BY <2>2, <1>1, <1>2, <1>9
  <2>5. IsFileOf(g, more, 0) /\ more \in Seq(Sets)
    BY <2>3, <2>4, <1>1, <1>3, FileAppended
  <2>6. Built(sets) \in ExactManifests /\ Built(more) = ApplyChangeSet(Built(sets), cs)
    BY <2>3, <1>3, BuiltAppend
  <2>7. Built(more).ok => Built(more).tables = Wanted(committed, cs)
    <3>1. ASSUME ApplyChangeSet(Built(sets), cs).ok
          PROVE  /\ Built(sets).ok
                 /\ ApplyChangeSet(Built(sets), cs).tables = Wanted(Built(sets).tables, cs)
      BY <3>1, <2>6, <1>3, AcceptedIsWanted
    <3> QED
      BY <3>1, <2>2, <2>6
  <2>8. p + 3 = Len(g)
    <3>1. PICK a : a = Len(f)
      OBVIOUS
    <3>2. p = a => Len(Overwrite(f, p, Entry(cs))) = a + Len(Entry(cs))
      BY <3>1, <1>3, <1>5, OverwriteFacts
    <3> QED
      BY <3>1, <3>2, <2>4, <1>1, <1>5
  <2>9. Readable'
    BY <2>5, <2>7, <2>8, <1>2 DEF Readable
  <2>10. g # NoFile
    BY <2>5, IsAFile
  <2> QED
    BY <2>9, <2>10, <1>2, <1>4, <1>6, <1>7 DEF IInv
<1> QED
  BY <1>8, <1>9

(* A crash in the middle of that *)
LEMMA CrashInAppendInv ==
  ASSUME IInv, NEW cs \in ChangeSets, NEW n \in TornWords, CrashInAppend(cs, n)
  PROVE  IInv'
<1>1. PICK f, p, words, g : /\ f = file /\ p = pos /\ words = SubSeq(Entry(cs), 1, n)
                            /\ g = Overwrite(f, p, words)
  OBVIOUS
<1>2. /\ state = "open" /\ state' = "closed"
      /\ file' = g /\ pos' = p /\ mem' = mem /\ committed' = committed
  BY <1>1 DEF CrashInAppend
<1>3. cs \in Sets /\ f \in Seq(Words) /\ p \in 0 .. Len(f) /\ n \in 0 .. 2
  BY <1>1, <1>2, OpenHasFile, TornAssumption DEF Sets
<1>4. words \in Seq(Words) /\ Len(words) = n /\ (n > 0 => words[1] = Word("size", cs))
  BY <1>1, <1>3, EntryFacts
<1>5. g \in Seq(Words) /\ Len(g) >= Len(f)
  BY <1>1, <1>3, <1>4, OverwriteFacts
<1>6. p \in 0 .. Len(g)
  BY <1>3, <1>5
<1>7. n > 0 => words[1].kind = "size"
  BY <1>4 DEF Word
<1>8. CASE Damaged(f) \/ (p = 0 /\ n > 0)
  <2>1. Damaged(g)
    BY <1>1, <1>3, <1>4, <1>7, <1>8, WriteDamages
  <2>2. g # NoFile
    BY <2>1, IsAFile
  <2> QED
    BY <2>1, <2>2, <1>2, <1>5, <1>6, OpenHasFile DEF IInv
<1>9. CASE ~ Damaged(f) /\ ~ (p = 0 /\ n > 0)
  <2>1. Readable
    BY <1>1, <1>2, <1>9, OpenHasFile
  <2>2. PICK sets \in Seq(Sets), r \in 0 .. 2 :
          /\ IsFileOf(file, sets, r)
          /\ Built(sets).ok => Built(sets).tables = committed
          /\ state = "open" => r = 0 /\ pos \in {0, Len(file)}
    BY <2>1 DEF Readable
  <2>3. IsFileOf(f, sets, 0) /\ p \in {0, Len(f)}
    BY <2>2, <1>1, <1>2
  <2>4. IsFileOf(g, sets, n)
    <3>1. CASE n = 0
      <4>1. g = f
        BY <3>1, <1>1, <1>3, <1>4, OverwriteFacts
      <4> QED
        BY <4>1, <3>1, <2>3
    <3>2. CASE n > 0
      <4>1. p = Len(f) /\ Len(f) = 2 + 3 * Len(sets)
        BY <3>2, <2>3, <1>9 DEF IsFileOf
      <4>2. Len(g) = Len(f) + Len(words) /\ \A i \in 1 .. p : g[i] = f[i]
        <5>1. PICK a : a = Len(f)
          OBVIOUS
        <5>2. p = a => Len(Overwrite(f, p, words)) = a + Len(words)
          BY <5>1, <1>3, <1>4, OverwriteFacts
        <5>3. \A i \in 1 .. p : Overwrite(f, p, words)[i] = f[i]
          BY <1>3, <1>4, OverwriteFacts
        <5> QED
          BY <5>1, <5>2, <5>3, <4>1, <1>1
      <4>3. /\ Len(g) = 2 + 3 * Len(sets) + n /\ n \in Nat /\ 0 \in Nat
            /\ \A i \in 1 .. 2 + 3 * Len(sets) : g[i] = f[i]
        BY <4>1, <4>2, <1>3, <1>4
      <4> QED
        BY <4>3, <2>3, FileKept
    <3> QED
      BY <3>1, <3>2, <1>3
  <2>5. Readable'
    BY <2>2, <2>4, <1>2, <1>3 DEF Readable
  <2>6. g # NoFile
    BY <2>4, IsAFile
  <2> QED
    BY <2>5, <2>6, <1>2, <1>5, <1>6, OpenHasFile DEF IInv
<1> QED
  BY <1>8, <1>9

(* Rewriting the file empties it; the counters start over. *)
LEMMA RewriteInv ==
  ASSUME IInv, NEW cs \in ChangeSets, Rewrite(cs)
  PROVE  IInv'
<1>1. PICK m, m2 : m = ApplyChangeSet(mem, cs) /\ m2 = Rewritten(m)
  OBVIOUS
<1>2. state = "open" /\ state' = "open" /\ m.ok /\ mem' = m2 /\ file' = <<>> /\ pos' = 0
  BY <1>1 DEF Rewrite
<1>3. m \in ExactManifests
  BY <1>1, <1>2, OpenHasFile, ChangeSetExact DEF Sets
<1>4. m2 \in ExactManifests /\ m2.ok
  <2>1. m \in Manifests /\ IsFiniteSet(DOMAIN m.tables)
    BY <1>3 DEF ExactManifests, Exact
  <2>2. PICK c : c = Cardinality(DOMAIN m.tables)
    OBVIOUS
  <2>3. c \in Nat
    BY <2>1, <2>2, FS_CardinalityType
  <2>4. m2 = [m EXCEPT !.creations = c, !.deletions = 0]
    BY <1>1, <2>2 DEF Rewritten
  <2>5. /\ m2 \in Manifests /\ m2.ok /\ m2.tables = m.tables
        /\ m2.creations = c /\ m2.deletions = 0
    BY <1>2, <2>1, <2>3, <2>4 DEF Manifests
  <2> QED
    BY <2>1, <2>2, <2>3, <2>5 DEF ExactManifests, Exact
<1>5. <<>> \in Seq(Words) /\ 0 \in 0 .. Len(<<>>) /\ Damaged(<<>>)
  BY DEF Damaged
<1>6. <<>> # NoFile
  BY <1>5, IsAFile
<1> QED
  BY <1>2, <1>4, <1>5, <1>6 DEF IInv

(* Every step keeps the inductive invariant. *)
LEMMA StepInv ==
  ASSUME IInv, [Next]_vars
  PROVE  IInv'
<1>1. CASE Close
  <2>1. state' = "closed" /\ state = "open" /\ UNCHANGED <<file, pos, mem, committed>>
    BY <1>1 DEF Close
  <2>2. Readable => Readable'
    BY <2>1 DEF Readable
  <2> QED
    BY <2>1, <2>2 DEF IInv
<1>2. CASE UNCHANGED vars
  <2>1. UNCHANGED <<state, file, pos, mem, committed>>
    BY <1>2 DEF vars
  <2>2. Readable => Readable'
    BY <2>1 DEF Readable
  <2> QED
    BY <2>1, <2>2 DEF IInv
<1> QED
  BY <1>1, <1>2, CreateInv, OpenInv, AddRefusedInv, AppendChangesInv, CrashInAppendInv, RewriteInv
  DEF Next

(***************************************************************************)
(* The file is a whole header with the entries of accepted change sets and *)
(* at most a torn one, or it is damaged at its first word; the counters in *)
(* memory are exact.                                                       *)
(***************************************************************************)
THEOREM Invariant == Spec => []IInv
<1>1. IInv /\ [Next]_vars => IInv'
  BY StepInv
<1> QED
  BY <1>1, InitInv, PTL DEF Spec

(* TypeOK: the handle is inside the file, and the tables are ones callers named. *)
THEOREM TypeCorrect == Spec => []TypeOK
<1>1. ASSUME IInv
      PROVE  TypeOK
  <2>1. mem.tables \in TableMaps /\ mem.ok
    BY <1>1 DEF IInv, ExactManifests, Manifests
  <2>2. DOMAIN mem.tables \subseteq Ids
    BY <2>1 DEF TableMaps
  <2> QED
    BY <1>1, <2>1, <2>2 DEF IInv, TypeOK, Ids, Changes
<1> QED
  BY <1>1, Invariant, PTL

(***************************************************************************)
(* A MANIFEST that opens holds the tables of the accepted change sets, or  *)
(* of those and the one a crash interrupted: for all change sets, however  *)
(* often the store is closed, crashes, is opened or rewrites the file.     *)
(***************************************************************************)
THEOREM NothingMisread == Spec => []NeverMisread
<1>1. ASSUME IInv
      PROVE  NeverMisread
  <2> SUFFICES ASSUME file # NoFile, Replay(file).ok
               PROVE  Replay(file).manifest.tables = committed
    BY DEF NeverMisread
  <2>1. file \in Seq(Words) /\ ~ Damaged(file)
    BY <1>1, DamagedNotOk DEF IInv
  <2>2. PICK sets \in Seq(Sets), r \in 0 .. 2 :
          /\ IsFileOf(file, sets, r)
          /\ Built(sets).ok => Built(sets).tables = committed
    BY <1>1, <2>1 DEF IInv, Readable
  <2>3. Built(sets).ok /\ Replay(file).manifest = Built(sets)
    BY <2>1, <2>2, ReplayOf
  <2> QED
    BY <2>2, <2>3
<1> QED
  BY <1>1, Invariant, PTL

(***************************************************************************)
(* creations - deletions counts the live tables, so that the subtraction   *)
(* of unsigned numbers in add_changes does not underflow.                  *)
(***************************************************************************)
THEOREM CountersAreExact == Spec => []CountersExact
<1>1. ASSUME IInv
      PROVE  CountersExact
  <2>1. PICK c : c = Cardinality(DOMAIN mem.tables)
    OBVIOUS
  <2>2. /\ IsFiniteSet(DOMAIN mem.tables)
        /\ mem.creations = mem.deletions + c /\ mem.deletions \in Nat
    BY <1>1, <2>1 DEF IInv, ExactManifests, Exact, Manifests
  <2>3. c \in Nat
    BY <2>1, <2>2, FS_CardinalityType
  <2> QED
    BY <2>1, <2>2, <2>3 DEF CountersExact
<1> QED
  BY <1>1, Invariant, PTL
=============================================================================
