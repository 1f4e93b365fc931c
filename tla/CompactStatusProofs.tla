------------------------ MODULE CompactStatusProofs ------------------------
(***************************************************************************)
(* CompactStatus is correct for every number of workers, every number of   *)
(* levels and every ordered set of keys.                                   *)
(***************************************************************************)
EXTENDS CompactStatus, FiniteSetFacts

(***************************************************************************)
(* The locks really are held where the code relies on them: between        *)
(* lock_exclusive_levels and unlock_exclusive_levels a worker owns the     *)
(* self_lock of both its levels, and one that panicked there keeps them.   *)
(***************************************************************************)
LockInv ==
  \A w \in Workers :
    /\ at[w] \in {"this", "both", "stuck"} => lock[def[w].level] = w
    /\ at[w] \in {"both", "stuck"} => lock[def[w].level + 1] = w

(***************************************************************************)
(* What a running compaction claims: everything on level 0, the hull of    *)
(* some tables on the levels above it.                                     *)
(***************************************************************************)
ClaimShape ==
  \A w \in Workers :
    Running(w) =>
      /\ def[w].this_range \in KeyRange
      /\ def[w].level = 0 => def[w].this_range = InfoRange
      /\ def[w].level > 0 => def[w].this_range \in FiniteRange
      /\ def[w].next_range \in FiniteRange

(* The inductive invariant. *)
IInv ==
  /\ TypeOK
  /\ LockInv
  /\ ClaimShape
  /\ ClaimsDisjoint
  /\ StatusIsClaims

-----------------------------------------------------------------------------
(***************************************************************************)
(* overlaps_with is symmetric, and a range overlaps itself.                *)
(***************************************************************************)
LEMMA OverlapsSymmetric ==
  ASSUME NEW r \in KeyRange, NEW s \in KeyRange
  PROVE  OverlapsWith(r, s) <=> OverlapsWith(s, r)
  BY KeysAssumption DEF OverlapsWith, KeyRange, FiniteRange, InfoRange, EmptyKey

(***************************************************************************)
(* Why comparing left ends is enough in remove(): two ranges that are      *)
(* "equal" in the sense of KeyRange::equals overlap, when both or neither  *)
(* are INFO_RANGE.                                                         *)
(***************************************************************************)
LEMMA EqualsOverlaps ==
  ASSUME NEW r, NEW s, Equals(r, s),
         (r \in FiniteRange /\ s \in FiniteRange) \/ (r = InfoRange /\ s = InfoRange)
  PROVE  OverlapsWith(r, s)
<1>1. CASE r = InfoRange
  BY <1>1 DEF OverlapsWith, InfoRange
<1>2. CASE r \in FiniteRange /\ s \in FiniteRange
  <2>1. r.left \in Nat /\ r.right \in Nat /\ s.left \in Nat /\ s.right \in Nat
    BY <1>2, KeysAssumption DEF FiniteRange
  <2>2. r.left <= r.right /\ s.left <= s.right /\ r.left = s.left
    BY <1>2 DEF FiniteRange, Equals
  <2> QED
    BY <2>1, <2>2 DEF OverlapsWith
<1> QED
  BY <1>1, <1>2

(* Word arithmetic stays within a word. *)
LEMMA WordClosed ==
  ASSUME NEW a \in Sizes, NEW b \in Sizes
  PROVE  Plus(a, b) \in Sizes /\ Minus(a, b) \in Sizes
  BY WordAssumption DEF Sizes, Plus, Minus

(* A fresh CompactDef is well typed. *)
LEMMA NewDefType ==
  ASSUME NEW l \in TopLevels
  PROVE  NewDef(l) \in [level : TopLevels,
                        this_range : KeyRange \cup {DefaultRange},
                        next_range : KeyRange \cup {DefaultRange},
                        this_size : Sizes]
  BY WordAssumption DEF NewDef, Sizes

(* Both the level of a compaction and the one below it are levels. *)
LEMMA LevelsOfTop ==
  ASSUME NEW l \in TopLevels
  PROVE  l \in Levels /\ l + 1 \in Levels /\ l # l + 1 /\ 0 \in TopLevels
  BY MaxLevelsAssumption DEF TopLevels, Levels

-----------------------------------------------------------------------------
(***************************************************************************)
(* Every variable keeps its type: in particular no level outside           *)
(* 0..max_levels-1 is ever locked or recorded.                             *)
(***************************************************************************)
LEMMA TypeInductive == TypeOK /\ [Next]_csVars => TypeOK'
<1> SUFFICES ASSUME TypeOK, [Next]_csVars
             PROVE  TypeOK'
  OBVIOUS
<1> USE DEF TypeOK
<1>1. ASSUME NEW w \in Workers, NEW l \in TopLevels, LockThis(w, l)
      PROVE  TypeOK'
  BY <1>1, NewDefType, LevelsOfTop DEF LockThis
<1>2. ASSUME NEW w \in Workers, LockNext(w)
      PROVE  TypeOK'
  BY <1>2, LevelsOfTop DEF LockNext
<1>3. ASSUME NEW w \in Workers, NEW tr \in KeyRange, NEW nr \in FiniteRange,
             NEW size \in Sizes, NEW total \in Sizes,
             FillTables(w, tr, nr, size, total)
      PROVE  TypeOK'
  <2> DEFINE d == [level |-> def[w].level, this_range |-> tr, next_range |-> nr,
                   this_size |-> size]
  <2>1. nr \in KeyRange
    BY DEF KeyRange
  <2>2. def[w].level \in TopLevels /\ def[w].level \in Levels /\ def[w].level + 1 \in Levels
    BY LevelsOfTop
  <2>3. delSize' \in [Levels -> Sizes]
    BY <1>3, <2>2, WordClosed DEF FillTables, Record
  <2>4. ranges' \in [Levels -> SUBSET KeyRange]
    BY <1>3, <2>1, <2>2 DEF FillTables, Record
  <2>5. lock' \in [Levels -> Workers \cup {NoWorker}]
    BY <1>3, <2>2 DEF FillTables, UnlockBoth
  <2>6. def' \in [Workers -> [level : TopLevels,
                              this_range : KeyRange \cup {DefaultRange},
                              next_range : KeyRange \cup {DefaultRange},
                              this_size : Sizes]]
    BY <1>3, <2>1, <2>2 DEF FillTables
  <2>7. at' \in [Workers -> {"idle", "this", "both", "stuck", "run"}]
    BY <1>3 DEF FillTables
  <2> QED
    BY <2>3, <2>4, <2>5, <2>6, <2>7
<1>4. ASSUME NEW w \in Workers, GiveUp(w)
      PROVE  TypeOK'
  BY <1>4, NewDefType, LevelsOfTop DEF GiveUp, UnlockBoth
<1>5. ASSUME NEW w \in Workers, Delete(w)
      PROVE  TypeOK'
  BY <1>5, NewDefType, LevelsOfTop, WordClosed DEF Delete, RemoveRange
<1>7. ASSUME NEW w \in Workers, SlicePanics(w)
      PROVE  TypeOK'
  BY <1>7 DEF SlicePanics
<1>6. CASE UNCHANGED csVars
  BY <1>6 DEF csVars
<1> QED
  BY <1>1, <1>2, <1>3, <1>4, <1>5, <1>6, <1>7 DEF Next

-----------------------------------------------------------------------------
(***************************************************************************)
(* The locks are owned where the code assumes it.  Only the worker itself  *)
(* takes or releases them, and a lock is taken only when it is free.       *)
(***************************************************************************)
LEMMA LockInductive == TypeOK /\ LockInv /\ [Next]_csVars => LockInv'
<1> SUFFICES ASSUME TypeOK, LockInv, [Next]_csVars
             PROVE  LockInv'
  OBVIOUS
<1> USE WorkersAssumption DEF TypeOK, LockInv
<1>1. ASSUME NEW w \in Workers, NEW l \in TopLevels, LockThis(w, l)
      PROVE  LockInv'
  BY <1>1, LevelsOfTop DEF LockThis, NewDef
<1>2. ASSUME NEW w \in Workers, LockNext(w)
      PROVE  LockInv'
  BY <1>2, LevelsOfTop DEF LockNext
<1>3. ASSUME NEW w \in Workers, NEW tr \in KeyRange, NEW nr \in FiniteRange,
             NEW size \in Sizes, NEW total \in Sizes,
             FillTables(w, tr, nr, size, total)
      PROVE  LockInv'
  BY <1>3, LevelsOfTop DEF FillTables, UnlockBoth
<1>4. ASSUME NEW w \in Workers, GiveUp(w)
      PROVE  LockInv'
  BY <1>4, LevelsOfTop DEF GiveUp, UnlockBoth, NewDef
<1>5. ASSUME NEW w \in Workers, Delete(w)
      PROVE  LockInv'
  BY <1>5 DEF Delete, NewDef
<1>7. ASSUME NEW w \in Workers, SlicePanics(w)
      PROVE  LockInv'
  BY <1>7 DEF SlicePanics
<1>6. CASE UNCHANGED csVars
  BY <1>6 DEF csVars
<1> QED
  BY <1>1, <1>2, <1>3, <1>4, <1>5, <1>6, <1>7 DEF Next

(***************************************************************************)
(* Claims have the shape fill_tables_l0 and fill_tables give them.         *)
(***************************************************************************)
LEMMA ShapeInductive == TypeOK /\ ClaimShape /\ [Next]_csVars => ClaimShape'
<1> SUFFICES ASSUME TypeOK, ClaimShape, [Next]_csVars
             PROVE  ClaimShape'
  OBVIOUS
<1> USE DEF TypeOK, ClaimShape, Running
<1>1. ASSUME NEW w \in Workers, NEW l \in TopLevels, LockThis(w, l)
      PROVE  ClaimShape'
  BY <1>1 DEF LockThis
<1>2. ASSUME NEW w \in Workers, LockNext(w)
      PROVE  ClaimShape'
  BY <1>2 DEF LockNext
<1>3. ASSUME NEW w \in Workers, NEW tr \in KeyRange, NEW nr \in FiniteRange,
             NEW size \in Sizes, NEW total \in Sizes,
             FillTables(w, tr, nr, size, total)
      PROVE  ClaimShape'
  BY <1>3 DEF FillTables
<1>4. ASSUME NEW w \in Workers, GiveUp(w)
      PROVE  ClaimShape'
  BY <1>4 DEF GiveUp
<1>5. ASSUME NEW w \in Workers, Delete(w)
      PROVE  ClaimShape'
  BY <1>5 DEF Delete
<1>7. ASSUME NEW w \in Workers, SlicePanics(w)
      PROVE  ClaimShape'
  BY <1>7 DEF SlicePanics
<1>6. CASE UNCHANGED csVars
  BY <1>6 DEF csVars
<1> QED
  BY <1>1, <1>2, <1>3, <1>4, <1>5, <1>6, <1>7 DEF Next

(***************************************************************************)
(* compare_and_add admits a compaction only beside those it does not       *)
(* overlap: the status it compares with holds the claims of all of them.   *)
(***************************************************************************)
LEMMA DisjointInductive ==
  IInv /\ [Next]_csVars => ClaimsDisjoint'
<1> SUFFICES ASSUME IInv, [Next]_csVars
             PROVE  ClaimsDisjoint'
  OBVIOUS
<1> USE DEF IInv, TypeOK, ClaimsDisjoint, Running
<1>1. ASSUME NEW w \in Workers, NEW l \in TopLevels, LockThis(w, l)
      PROVE  ClaimsDisjoint'
  BY <1>1 DEF LockThis
<1>2. ASSUME NEW w \in Workers, LockNext(w)
      PROVE  ClaimsDisjoint'
  BY <1>2 DEF LockNext
<1>3. ASSUME NEW w \in Workers, NEW tr \in KeyRange, NEW nr \in FiniteRange,
             NEW size \in Sizes, NEW total \in Sizes,
             FillTables(w, tr, nr, size, total)
      PROVE  ClaimsDisjoint'
  <2> DEFINE l == def[w].level
  <2>1. l \in Levels /\ l + 1 \in Levels /\ l \in Nat
    BY LevelsOfTop DEF TopLevels
  <2>2. /\ ~ AnyOverlaps(ranges[l], tr)
        /\ ~ AnyOverlaps(ranges[l + 1], nr)
    BY <1>3 DEF FillTables, Admits
  <2>3. ASSUME NEW v \in Workers, Running(v)
        PROVE  /\ def[v].this_range \in KeyRange
               /\ def[v].next_range \in KeyRange
               /\ def[v].level \in Nat
               /\ def[v].this_range \in ranges[def[v].level]
               /\ def[v].next_range \in ranges[def[v].level + 1]
    <3>1. def[v].level \in Levels /\ def[v].level + 1 \in Levels /\ def[v].level \in Nat
      BY LevelsOfTop DEF TopLevels
    <3>2. def[v].this_range \in KeyRange /\ def[v].next_range \in KeyRange
      BY <2>3 DEF ClaimShape, KeyRange
    <3> QED
      BY <2>3, <3>1, <3>2 DEF StatusIsClaims, Claims
  <2>4. ASSUME NEW v \in Workers, Running(v), v # w
        PROVE  /\ def[v].level = l => /\ ~ OverlapsWith(def[v].this_range, tr)
                                      /\ ~ OverlapsWith(tr, def[v].this_range)
                                      /\ ~ OverlapsWith(def[v].next_range, nr)
                                      /\ ~ OverlapsWith(nr, def[v].next_range)
               /\ def[v].level = l + 1 => ~ OverlapsWith(def[v].this_range, nr)
               /\ l = def[v].level + 1 => ~ OverlapsWith(tr, def[v].next_range)
    <3>1. nr \in KeyRange
      BY DEF KeyRange
    <3>2. CASE def[v].level = l
      <4>1. ~ OverlapsWith(def[v].this_range, tr) /\ ~ OverlapsWith(def[v].next_range, nr)
        BY <2>2, <2>3, <2>4, <3>2 DEF AnyOverlaps
      <4>2. ~ OverlapsWith(tr, def[v].this_range) /\ ~ OverlapsWith(nr, def[v].next_range)
        BY <4>1, <2>3, <2>4, <3>1, OverlapsSymmetric
      <4> QED
        BY <4>1, <4>2, <3>2, <2>1
    <3>3. CASE def[v].level = l + 1
      BY <2>1, <2>2, <2>3, <2>4, <3>3 DEF AnyOverlaps
    <3>4. CASE l = def[v].level + 1
      <4>1. ~ OverlapsWith(def[v].next_range, tr)
        BY <2>2, <2>3, <2>4, <3>4 DEF AnyOverlaps
      <4> QED
        BY <4>1, <2>1, <2>3, <2>4, <3>4, OverlapsSymmetric
    <3> QED
      BY <3>2, <3>3, <3>4
  <2>5. /\ \A v \in Workers : v # w => at'[v] = at[v] /\ def'[v] = def[v]
        /\ def'[w].level = l /\ def'[w].this_range = tr /\ def'[w].next_range = nr
    BY <1>3 DEF FillTables
  <2> QED
    BY <2>4, <2>5
<1>4. ASSUME NEW w \in Workers, GiveUp(w)
      PROVE  ClaimsDisjoint'
  BY <1>4 DEF GiveUp
<1>5. ASSUME NEW w \in Workers, Delete(w)
      PROVE  ClaimsDisjoint'
  BY <1>5 DEF Delete
<1>7. ASSUME NEW w \in Workers, SlicePanics(w)
      PROVE  ClaimsDisjoint'
  BY <1>7 DEF SlicePanics
<1>6. CASE UNCHANGED csVars
  BY <1>6 DEF csVars
<1> QED
  BY <1>1, <1>2, <1>3, <1>4, <1>5, <1>6, <1>7 DEF Next

(***************************************************************************)
(* A step that neither starts nor ends a compaction changes no claim.      *)
(***************************************************************************)
LEMMA ClaimsUnchanged ==
  ASSUME \A v \in Workers : Running(v) <=> Running(v)',
         \A v \in Workers : Running(v) => def'[v] = def[v],
         NEW l \in Levels
  PROVE  Claims(l)' = Claims(l)
  BY DEF Claims

(***************************************************************************)
(* remove() compares left ends only, but on a level where the claims are   *)
(* disjoint the one range with that left end is the compaction's own.      *)
(***************************************************************************)
LEMMA StatusInductive == IInv /\ [Next]_csVars => StatusIsClaims'
<1> SUFFICES ASSUME IInv, [Next]_csVars
             PROVE  StatusIsClaims'
  OBVIOUS
<1> USE DEF IInv, TypeOK
<1>1. ASSUME NEW w \in Workers, NEW l \in TopLevels, LockThis(w, l)
      PROVE  StatusIsClaims'
  <2>1. \A v \in Workers : Running(v) <=> Running(v)'
    BY <1>1 DEF LockThis, Running
  <2>2. \A v \in Workers : Running(v) => def'[v] = def[v]
    BY <1>1 DEF LockThis, Running
  <2> QED
    BY <1>1, <2>1, <2>2, ClaimsUnchanged DEF StatusIsClaims, LockThis
<1>2. ASSUME NEW w \in Workers, LockNext(w)
      PROVE  StatusIsClaims'
  <2>1. \A v \in Workers : Running(v) <=> Running(v)'
    BY <1>2 DEF LockNext, Running
  <2>2. \A v \in Workers : Running(v) => def'[v] = def[v]
    BY <1>2 DEF LockNext, Running
  <2> QED
    BY <1>2, <2>1, <2>2, ClaimsUnchanged DEF StatusIsClaims, LockNext
<1>3. ASSUME NEW w \in Workers, NEW tr \in KeyRange, NEW nr \in FiniteRange,
             NEW size \in Sizes, NEW total \in Sizes,
             FillTables(w, tr, nr, size, total)
      PROVE  StatusIsClaims'
  <2> DEFINE l == def[w].level
  <2>1. l \in Levels /\ l + 1 \in Levels /\ l # l + 1
    BY LevelsOfTop
  <2>2. /\ ~ Running(w) /\ Running(w)'
        /\ \A v \in Workers : v # w => (Running(v) <=> Running(v)') /\ def'[v] = def[v]
        /\ def'[w].level = l /\ def'[w].this_range = tr /\ def'[w].next_range = nr
    BY <1>3 DEF FillTables, Running
  <2>3. ranges' = [ranges EXCEPT ![l] = @ \cup {tr}, ![l + 1] = @ \cup {nr}]
    BY <1>3 DEF FillTables, Record
  <2>4. ASSUME NEW m \in Levels
        PROVE  ranges'[m] = Claims(m)'
    <3>1. Claims(m)' = Claims(m) \cup (IF m = l THEN {tr} ELSE {})
                                 \cup (IF m = l + 1 THEN {nr} ELSE {})
      BY <2>1, <2>2 DEF Claims
    <3>2. ranges'[m] = ranges[m] \cup (IF m = l THEN {tr} ELSE {})
                                 \cup (IF m = l + 1 THEN {nr} ELSE {})
      BY <2>1, <2>3
    <3> QED
      BY <3>1, <3>2 DEF StatusIsClaims
  <2> QED
    BY <2>4 DEF StatusIsClaims
<1>4. ASSUME NEW w \in Workers, GiveUp(w)
      PROVE  StatusIsClaims'
  <2>1. \A v \in Workers : Running(v) <=> Running(v)'
    BY <1>4 DEF GiveUp, Running
  <2>2. \A v \in Workers : Running(v) => def'[v] = def[v]
    BY <1>4 DEF GiveUp, Running
  <2> QED
    BY <1>4, <2>1, <2>2, ClaimsUnchanged DEF StatusIsClaims, GiveUp
<1>5. ASSUME NEW w \in Workers, Delete(w)
      PROVE  StatusIsClaims'
  <2> DEFINE l == def[w].level
             tr == def[w].this_range
             nr == def[w].next_range
             Others(m) ==
               {def[v].this_range : v \in {u \in Workers \ {w} : Running(u) /\ def[u].level = m}}
                 \cup
               {def[v].next_range : v \in {u \in Workers \ {w} : Running(u) /\ def[u].level + 1 = m}}
  <2>1. /\ l \in Levels /\ l + 1 \in Levels /\ l # l + 1 /\ l \in Nat
        /\ \A v \in Workers : def[v].level \in Nat
    BY LevelsOfTop DEF TopLevels
  <2>2. /\ Running(w) /\ ~ Running(w)'
        /\ \A v \in Workers : v # w => (Running(v) <=> Running(v)') /\ def'[v] = def[v]
    BY <1>5 DEF Delete, Running
  <2>3. ranges' = [ranges EXCEPT ![l] = RemoveRange(@, tr),
                                 ![l + 1] = RemoveRange(@, nr)]
    BY <1>5 DEF Delete
  <2>4. \A m \in Levels : Claims(m)' = Others(m)
    BY <2>2 DEF Claims
  <2>5. \A m \in Levels :
          Claims(m) = Others(m) \cup (IF m = l THEN {tr} ELSE {})
                                \cup (IF m = l + 1 THEN {nr} ELSE {})
    BY <2>1, <2>2 DEF Claims
  <2>6. \A r \in Others(l) : ~ Equals(r, tr)
    <3> SUFFICES ASSUME NEW r \in Others(l), Equals(r, tr)
                 PROVE  FALSE
      OBVIOUS
    <3>1. PICK v \in Workers \ {w} :
            /\ Running(v)
            /\ \/ def[v].level = l /\ r = def[v].this_range
               \/ def[v].level + 1 = l /\ r = def[v].next_range
      OBVIOUS
    <3>2. (r \in FiniteRange /\ tr \in FiniteRange) \/ (r = InfoRange /\ tr = InfoRange)
      BY <2>1, <2>2, <3>1 DEF ClaimShape
    <3>3. OverlapsWith(r, tr) /\ OverlapsWith(tr, r)
      BY <3>2, EqualsOverlaps, OverlapsSymmetric DEF KeyRange
    <3> QED
      BY <2>2, <3>1, <3>3 DEF ClaimsDisjoint
  <2>7. \A r \in Others(l + 1) : ~ Equals(r, nr)
    <3> SUFFICES ASSUME NEW r \in Others(l + 1), Equals(r, nr)
                 PROVE  FALSE
      OBVIOUS
    <3>1. PICK v \in Workers \ {w} :
            /\ Running(v)
            /\ \/ def[v].level = l + 1 /\ r = def[v].this_range
               \/ def[v].level + 1 = l + 1 /\ r = def[v].next_range
      OBVIOUS
    <3>2. r \in FiniteRange /\ nr \in FiniteRange
      BY <2>1, <2>2, <3>1 DEF ClaimShape
    <3>3. OverlapsWith(r, nr)
      BY <3>2, EqualsOverlaps
    <3> QED
      BY <2>1, <2>2, <3>1, <3>3 DEF ClaimsDisjoint
  <2>8. ASSUME NEW m \in Levels
        PROVE  ranges'[m] = Claims(m)'
    <3>1. ranges[m] = Others(m) \cup (IF m = l THEN {tr} ELSE {})
                                \cup (IF m = l + 1 THEN {nr} ELSE {})
      BY <2>5 DEF StatusIsClaims
    <3>2. Equals(tr, tr) /\ Equals(nr, nr)
      BY DEF Equals
    <3> HIDE DEF Others, l, tr, nr
    <3>3. CASE m = l
      <4>1. ranges'[m] = RemoveRange(ranges[m], tr)
        BY <2>1, <2>3, <3>3
      <4> QED
        BY <2>1, <2>4, <2>6, <3>1, <3>2, <3>3, <4>1 DEF RemoveRange
    <3>4. CASE m = l + 1
      <4>1. ranges'[m] = RemoveRange(ranges[m], nr)
        BY <2>1, <2>3, <3>4
      <4> QED
        BY <2>1, <2>4, <2>7, <3>1, <3>2, <3>4, <4>1 DEF RemoveRange
    <3>5. CASE m # l /\ m # l + 1
      <4>1. ranges'[m] = ranges[m]
        BY <2>1, <2>3, <3>5
      <4> QED
        BY <2>4, <3>1, <3>5, <4>1
    <3> QED
      BY <3>3, <3>4, <3>5
  <2> QED
    BY <2>8 DEF StatusIsClaims
<1>7. ASSUME NEW w \in Workers, SlicePanics(w)
      PROVE  StatusIsClaims'
  <2>1. \A v \in Workers : Running(v) <=> Running(v)'
    BY <1>7 DEF SlicePanics, Running
  <2> QED
    BY <1>7, <2>1, ClaimsUnchanged DEF StatusIsClaims, SlicePanics
<1>6. CASE UNCHANGED csVars
  BY <1>6 DEF csVars, StatusIsClaims, Claims, Running
<1> QED
  BY <1>1, <1>2, <1>3, <1>4, <1>5, <1>6, <1>7 DEF Next

-----------------------------------------------------------------------------
(* The invariant holds when the controller starts. *)
LEMMA InitIInv == Init => IInv
<1> SUFFICES ASSUME Init
             PROVE  IInv
  OBVIOUS
<1> USE DEF Init
<1>1. TypeOK
  BY NewDefType, MaxLevelsAssumption, WordAssumption DEF TypeOK, TopLevels, Sizes
<1>2. LockInv /\ ClaimShape /\ ClaimsDisjoint
  BY DEF LockInv, ClaimShape, ClaimsDisjoint, Running
<1>3. StatusIsClaims
  BY DEF StatusIsClaims, Claims, Running
<1> QED
  BY <1>1, <1>2, <1>3 DEF IInv

(* Every step keeps it. *)
LEMMA IInvStep == IInv /\ [Next]_csVars => IInv'
  BY TypeInductive, LockInductive, ShapeInductive, DisjointInductive, StatusInductive
     DEF IInv

(***************************************************************************)
(* The inductive invariant holds in every reachable state.                 *)
(***************************************************************************)
LEMMA IInvariant == Spec => []IInv
  BY InitIInv, IInvStep, PTL DEF Spec

(***************************************************************************)
(* Type correctness of the compaction status, for any number of workers,   *)
(* levels and keys.                                                        *)
(***************************************************************************)
THEOREM TypeCorrect == Spec => []TypeOK
  BY IInvariant, PTL DEF IInv

(***************************************************************************)
(* compare_and_add keeps compactions apart: no two running compactions,    *)
(* of however many workers, claim overlapping ranges of a level.           *)
(***************************************************************************)
THEOREM CompactionsDisjoint == Spec => []ClaimsDisjoint
  BY IInvariant, PTL DEF IInv

(***************************************************************************)
(* delete removes a compaction's own ranges and no others, although        *)
(* KeyRange::equals looks at left ends only.                               *)
(***************************************************************************)
THEOREM StatusExact == Spec => []StatusIsClaims
  BY IInvariant, PTL DEF IInv

(***************************************************************************)
(* assert!(found) in delete never fails: the range a compaction is about   *)
(* to give back is there, on both levels.                                  *)
(***************************************************************************)
THEOREM DeleteFinds ==
  Spec => [](\A w \in Workers :
               Running(w) => /\ Found(ranges[def[w].level], def[w].this_range)
                             /\ Found(ranges[def[w].level + 1], def[w].next_range))
<1>1. IInv => \A w \in Workers :
                Running(w) => /\ Found(ranges[def[w].level], def[w].this_range)
                              /\ Found(ranges[def[w].level + 1], def[w].next_range)
  <2> SUFFICES ASSUME IInv, NEW w \in Workers, Running(w)
               PROVE  /\ Found(ranges[def[w].level], def[w].this_range)
                      /\ Found(ranges[def[w].level + 1], def[w].next_range)
    OBVIOUS
  <2>1. def[w].level \in Levels /\ def[w].level + 1 \in Levels
    BY LevelsOfTop DEF IInv, TypeOK
  <2>2. /\ def[w].this_range \in ranges[def[w].level]
        /\ def[w].next_range \in ranges[def[w].level + 1]
    BY <2>1 DEF IInv, StatusIsClaims, Claims
  <2> QED
    BY <2>2 DEF Found, Equals
<1> QED
  BY IInvariant, <1>1, PTL
-----------------------------------------------------------------------------
(***************************************************************************)
(* The sizes and the workers that the sum for level l is about.            *)
(***************************************************************************)
SizeOf == [w \in Workers |-> def[w].this_size]
Takers(l) == {w \in Workers : Running(w) /\ def[w].level = l}

(* One worker joins a set of workers, the others keep their sizes. *)
LEMMA SumJoins ==
  ASSUME NEW f \in [Workers -> Sizes], NEW g \in [Workers -> Sizes],
         NEW S \in SUBSET Workers, NEW w \in Workers, w \notin S, \A v \in S : g[v] = f[v]
  PROVE  /\ SumFunctionOnSet(f, S) \in Nat
         /\ SumFunctionOnSet(g, S \cup {w}) = g[w] + SumFunctionOnSet(f, S)
<1>1. (S \cup {w}) \ {w} = S /\ S \cup {w} \in SUBSET Workers
  OBVIOUS
<1>2. IsFiniteSet(S) /\ IsFiniteSet(S \cup {w})
  BY <1>1, WorkersAssumption, FS_Subset
<1>3. \A v \in Workers : f[v] \in Nat /\ g[v] \in Nat
  BY WordAssumption DEF Sizes
<1>4. SumFunctionOnSet(g, S \cup {w}) = g[w] + SumFunctionOnSet(g, S)
  BY <1>1, <1>2, <1>3, SumAny
<1>5. SumFunctionOnSet(f, S) = SumFunctionOnSet(g, S)
  BY <1>2, <1>3, SumSame
<1>6. SumFunctionOnSet(f, S) \in Nat
  BY <1>2, <1>3, SumFirst
<1> QED
  BY <1>4, <1>5, <1>6

(* A step that neither starts nor ends a compaction leaves the sums alone. *)
LEMMA SumsUnchanged ==
  ASSUME TypeOK, TypeOK', DelSizeIsClaimed, delSize' = delSize,
         \A w \in Workers : Running(w)' <=> Running(w),
         \A w \in Workers : Running(w) => def'[w] = def[w]
  PROVE  DelSizeIsClaimed'
<1> SUFFICES ASSUME NEW l \in Levels
             PROVE  delSize'[l] = SumFunctionOnSet(SizeOf', Takers(l)') % Word
  BY DEF DelSizeIsClaimed, SizeOf, Takers
<1>1. Takers(l)' = Takers(l) /\ Takers(l) \in SUBSET Workers
  BY DEF Takers
<1>2. SizeOf \in [Workers -> Sizes] /\ \A w \in Takers(l) : SizeOf'[w] = SizeOf[w]
  BY DEF TypeOK, SizeOf, Takers
<1>3. IsFiniteSet(Takers(l)) /\ \A w \in Takers(l) : SizeOf[w] \in Nat
  BY <1>1, <1>2, WorkersAssumption, WordAssumption, FS_Subset DEF Sizes
<1>4. SumFunctionOnSet(SizeOf, Takers(l)) = SumFunctionOnSet(SizeOf', Takers(l))
  BY <1>2, <1>3, SumSame
<1>5. delSize[l] = SumFunctionOnSet(SizeOf, Takers(l)) % Word
  BY DEF DelSizeIsClaimed, SizeOf, Takers
<1> QED
  BY <1>1, <1>4, <1>5

(***************************************************************************)
(* compare_and_add adds the size of the new compaction to its own level,   *)
(* delete takes the same size off the same level; in words, the            *)
(* subtraction undoes the addition even where the sum wrapped.             *)
(***************************************************************************)
LEMMA DelSizeInductive == TypeOK /\ DelSizeIsClaimed /\ [Next]_csVars => DelSizeIsClaimed'
<1> SUFFICES ASSUME TypeOK, DelSizeIsClaimed, [Next]_csVars
             PROVE  DelSizeIsClaimed'
  OBVIOUS
<1>a. TypeOK'
  BY TypeInductive
<1>b. SizeOf \in [Workers -> Sizes] /\ SizeOf' \in [Workers -> Sizes]
  BY <1>a DEF TypeOK, SizeOf
<1>c. \A l \in Levels : delSize[l] = SumFunctionOnSet(SizeOf, Takers(l)) % Word
  BY DEF DelSizeIsClaimed, SizeOf, Takers
<1>1. ASSUME NEW w \in Workers, NEW l \in TopLevels, LockThis(w, l)
      PROVE  DelSizeIsClaimed'
  BY <1>1, <1>a, SumsUnchanged DEF LockThis, TypeOK, Running
<1>2. ASSUME NEW w \in Workers, LockNext(w)
      PROVE  DelSizeIsClaimed'
  BY <1>2, <1>a, SumsUnchanged DEF LockNext, TypeOK, Running
<1>3. ASSUME NEW w \in Workers, NEW tr \in KeyRange, NEW nr \in FiniteRange,
             NEW size \in Sizes, NEW total \in Sizes,
             FillTables(w, tr, nr, size, total)
      PROVE  DelSizeIsClaimed'
  <2> SUFFICES ASSUME NEW l \in Levels
               PROVE  delSize'[l] = SumFunctionOnSet(SizeOf', Takers(l)') % Word
    BY DEF DelSizeIsClaimed, SizeOf, Takers
  <2>1. PICK k \in Levels : k = def[w].level
    BY LevelsOfTop DEF TypeOK
  <2>2. /\ at[w] = "both" /\ at' = [at EXCEPT ![w] = "run"]
        /\ def' = [def EXCEPT ![w] = [level |-> k, this_range |-> tr, next_range |-> nr,
                                      this_size |-> size]]
        /\ delSize' = [delSize EXCEPT ![k] = Plus(@, size)]
    BY <1>3, <2>1 DEF FillTables, Record
  <2>3. /\ w \notin Takers(l) /\ Takers(l) \in SUBSET Workers
        /\ \A v \in Takers(l) : SizeOf'[v] = SizeOf[v]
        /\ SizeOf'[w] = size
    BY <2>2 DEF TypeOK, Takers, SizeOf, Running
  <2>4. Takers(l)' = IF l = k THEN Takers(l) \cup {w} ELSE Takers(l)
    BY <2>2 DEF TypeOK, Takers, Running
  <2>5. /\ SumFunctionOnSet(SizeOf, Takers(l)) \in Nat
        /\ SumFunctionOnSet(SizeOf', Takers(l) \cup {w}) = size + SumFunctionOnSet(SizeOf, Takers(l))
    BY <1>b, <2>3, SumJoins
  <2>6. CASE l = k
    <3>1. delSize'[l] = ((SumFunctionOnSet(SizeOf, Takers(l)) % Word) + size) % Word
      BY <2>2, <2>6, <1>c DEF TypeOK, Plus
    <3>2. size \in Nat
      BY WordAssumption DEF Sizes
    <3>3. delSize'[l] = (SumFunctionOnSet(SizeOf, Takers(l)) + size) % Word
      BY <3>1, <3>2, <2>5, ModAdd, WordAssumption
    <3>4. SumFunctionOnSet(SizeOf', Takers(l) \cup {w}) = SumFunctionOnSet(SizeOf, Takers(l)) + size
      BY <2>5, <3>2
    <3> QED
      BY <3>3, <3>4, <2>4, <2>6
  <2>7. CASE l # k
    <3>1. delSize'[l] = SumFunctionOnSet(SizeOf, Takers(l)) % Word
      BY <2>2, <2>7, <1>c DEF TypeOK
    <3>2. IsFiniteSet(Takers(l)) /\ \A v \in Takers(l) : SizeOf[v] \in Nat
      BY <1>b, <2>3, WorkersAssumption, WordAssumption, FS_Subset DEF Sizes
    <3>3. SumFunctionOnSet(SizeOf, Takers(l)) = SumFunctionOnSet(SizeOf', Takers(l))
      BY <3>2, <2>3, SumSame
    <3> QED
      BY <3>1, <3>3, <2>4, <2>7
  <2> QED
    BY <2>6, <2>7
<1>4. ASSUME NEW w \in Workers, GiveUp(w)
      PROVE  DelSizeIsClaimed'
  BY <1>4, <1>a, SumsUnchanged DEF GiveUp, TypeOK, Running
<1>5. ASSUME NEW w \in Workers, Delete(w)
      PROVE  DelSizeIsClaimed'
  <2> SUFFICES ASSUME NEW l \in Levels
               PROVE  delSize'[l] = SumFunctionOnSet(SizeOf', Takers(l)') % Word
    BY DEF DelSizeIsClaimed, SizeOf, Takers
  <2>1. PICK k \in Levels : k = def[w].level
    BY LevelsOfTop DEF TypeOK
  <2>2. PICK size \in Sizes : size = def[w].this_size
    BY DEF TypeOK
  <2>3. /\ at[w] = "run" /\ at' = [at EXCEPT ![w] = "idle"]
        /\ def' = [def EXCEPT ![w] = NewDef(0)]
        /\ delSize' = [delSize EXCEPT ![k] = Minus(@, size)]
    BY <1>5, <2>1, <2>2 DEF Delete
  <2>4. /\ w \notin Takers(l)' /\ Takers(l)' \in SUBSET Workers
        /\ \A v \in Takers(l)' : SizeOf[v] = SizeOf'[v]
        /\ SizeOf[w] = size
    BY <2>2, <2>3 DEF TypeOK, Takers, SizeOf, Running
  <2>5. Takers(l) = IF l = k THEN Takers(l)' \cup {w} ELSE Takers(l)'
    BY <2>1, <2>3 DEF TypeOK, Takers, Running
  <2>6. /\ SumFunctionOnSet(SizeOf', Takers(l)') \in Nat
        /\ SumFunctionOnSet(SizeOf, Takers(l)' \cup {w}) =
             size + SumFunctionOnSet(SizeOf', Takers(l)')
    <3>a. PICK S \in SUBSET Workers : S = Takers(l)'
      BY <2>4
    <3>b. PICK f, g : f = SizeOf' /\ g = SizeOf
      OBVIOUS
    <3>1. S = Takers(l)' /\ f = SizeOf' /\ g = SizeOf
      BY <3>a, <3>b
    <3>2. w \notin S /\ (\A v \in S : g[v] = f[v]) /\ g[w] = size
      BY <2>4, <3>1
    <3>3. /\ SumFunctionOnSet(f, S) \in Nat
          /\ SumFunctionOnSet(g, S \cup {w}) = g[w] + SumFunctionOnSet(f, S)
      BY <1>b, <3>1, <3>2, SumJoins
    <3> QED
      BY <3>1, <3>2, <3>3
  <2>7. CASE l = k
    <3>1. size \in Nat /\ size \in 0 .. Word
      BY WordAssumption DEF Sizes
    <3>2. delSize[l] = (SumFunctionOnSet(SizeOf', Takers(l)') + size) % Word
      <4>1. delSize[l] = SumFunctionOnSet(SizeOf, Takers(l)' \cup {w}) % Word
        BY <1>c, <2>5, <2>7
      <4>2. SumFunctionOnSet(SizeOf, Takers(l)' \cup {w}) =
              SumFunctionOnSet(SizeOf', Takers(l)') + size
        BY <2>6, <3>1
      <4> QED
        BY <4>1, <4>2
    <3>3. delSize'[l] = (((SumFunctionOnSet(SizeOf', Takers(l)') + size) % Word) + (Word - size)) % Word
      BY <2>3, <2>7, <3>2 DEF TypeOK, Minus
    <3> QED
      BY <3>1, <3>3, <2>6, ModSub, WordAssumption
  <2>8. CASE l # k
    <3>1. delSize'[l] = SumFunctionOnSet(SizeOf, Takers(l)') % Word
      BY <2>3, <2>5, <2>8, <1>c DEF TypeOK
    <3>2. IsFiniteSet(Takers(l)') /\ \A v \in Takers(l)' : SizeOf[v] \in Nat
      BY <1>b, <2>4, WorkersAssumption, WordAssumption, FS_Subset DEF Sizes
    <3>3. SumFunctionOnSet(SizeOf, Takers(l)') = SumFunctionOnSet(SizeOf', Takers(l)')
      BY <3>2, <2>4, SumSame
    <3> QED
      BY <3>1, <3>3
  <2> QED
    BY <2>7, <2>8
<1>7. ASSUME NEW w \in Workers, SlicePanics(w)
      PROVE  DelSizeIsClaimed'
  BY <1>7, <1>a, SumsUnchanged DEF SlicePanics, TypeOK, Running
<1>6. CASE UNCHANGED csVars
  BY <1>6, <1>a, SumsUnchanged DEF csVars, Running
<1> QED
  BY <1>1, <1>2, <1>3, <1>4, <1>5, <1>6, <1>7 DEF Next

(***************************************************************************)
(* del_size is what running compactions take away from a level, modulo the *)
(* word size, for every number of workers; it is 0 when none runs.         *)
(***************************************************************************)
THEOREM DelSizeExact == Spec => []DelSizeIsClaimed
<1>1. Init => DelSizeIsClaimed
  <2> SUFFICES ASSUME Init, NEW l \in Levels
               PROVE  delSize[l] = SumFunctionOnSet(SizeOf, Takers(l)) % Word
    BY DEF DelSizeIsClaimed, SizeOf, Takers
  <2>1. Takers(l) = {} /\ delSize[l] = 0
    BY DEF Init, Takers, Running
  <2>2. SumFunctionOnSet(SizeOf, {}) = 0
    BY SumFirst, FS_EmptySet
  <2> QED
    BY <2>1, <2>2, WordAssumption
<1>2. TypeOK /\ DelSizeIsClaimed /\ [Next]_csVars => DelSizeIsClaimed'
  BY DelSizeInductive
<1> QED
  BY TypeCorrect, <1>1, <1>2, PTL DEF Spec
=============================================================================
