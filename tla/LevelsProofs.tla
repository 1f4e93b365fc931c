---------------------------- MODULE LevelsProofs ----------------------------
(***************************************************************************)
(* Part one is what holds of the levels for every number of workers,       *)
(* levels, flushes, failures and crashes, whatever the lists do under a    *)
(* worker that is choosing tables: the types, the size counters, that the  *)
(* workers implement CompactStatus, and that compactions do not share      *)
(* tables (the invariant LInv).                                            *)
(*                                                                         *)
(* Part two is what the levels store, for one compaction worker: the lists *)
(* stay sorted, searches find the newest versions, a crash at any point    *)
(* loses nothing, and gets that walk down the levels miss nothing.  It     *)
(* begins with the operators of module Tables: what sorting, searching,    *)
(* merging, building and replacing do to tables in order.  Then come the   *)
(* invariant SInv and its proof, one lemma per action.                     *)
(***************************************************************************)
EXTENDS Levels, FiniteSetFacts, SequenceTheorems

(* All tables there could be *)
AnyTable == [id : Nat \ {0}, kv : UNION {[ks -> Nat] : ks \in TableSets}]

-----------------------------------------------------------------------------
(***************************************************************************)
(* Tables and lists of tables.                                             *)
(***************************************************************************)

(* A table has keys, a first and a last one, and its size is a word. *)
LEMMA TableFacts ==
  ASSUME NEW t \in AnyTable
  PROVE  /\ t.id \in Nat \ {0} /\ TableKeys(t) \in TableSets /\ IsFiniteSet(TableKeys(t))
         /\ TableKeys(t) \in SUBSET Keys /\ TableKeys(t) # {}
         /\ \A k \in TableKeys(t) : t.kv[k] \in Nat
         /\ Smallest(t) \in Keys /\ Biggest(t) \in Keys /\ Smallest(t) <= Biggest(t)
         /\ Size(t) \in Nat /\ Size(t) < Word
<1>1. PICK ks \in TableSets : t.kv \in [ks -> Nat]
  BY DEF AnyTable
<1>2. TableKeys(t) = ks
  BY <1>1 DEF TableKeys
<1>3. ks \in SUBSET Keys /\ ks # {} /\ IsFiniteSet(ks) /\ Cardinality(ks) < Word
  BY DEF TableSets
<1>4. ks \in SUBSET Int
  BY <1>3, KeysAssumption
<1>5. /\ Min(ks) \in ks /\ \A x \in ks : Min(ks) <= x
      /\ Max(ks) \in ks /\ \A x \in ks : x <= Max(ks)
  BY <1>3, <1>4, MinMax
<1>6. Cardinality(ks) \in Nat
  BY <1>3, FS_CardinalityType
<1>7. t.id \in Nat \ {0}
  BY DEF AnyTable
<1> QED
  BY <1>1, <1>2, <1>3, <1>5, <1>6, <1>7 DEF Smallest, Biggest, Size

(* The domain of a sequence is finite. *)
LEMMA SeqDomain ==
  ASSUME NEW T, NEW s \in Seq(T)
  PROVE  /\ DOMAIN s = 1 .. Len(s) /\ Len(s) \in Nat
         /\ IsFiniteSet(DOMAIN s) /\ Cardinality(DOMAIN s) = Len(s)
         /\ \A i \in DOMAIN s : s[i] \in T
<1>1. DOMAIN s = 1 .. Len(s) /\ Len(s) \in Nat /\ \A i \in DOMAIN s : s[i] \in T
  OBVIOUS
<1>2. IsFiniteSet(1 .. Len(s)) /\ Cardinality(1 .. Len(s)) = Len(s)
  BY <1>1, FS_Interval
<1> QED
  BY <1>1, <1>2

(***************************************************************************)
(* get_range of a list of tables is a range between two keys, and holds    *)
(* the keys of all of them.                                                *)
(***************************************************************************)
LEMMA RangeFacts ==
  ASSUME NEW s \in Seq(AnyTable), s # <<>>
  PROVE  /\ GetRange(s) \in FiniteRange
         /\ \A i \in DOMAIN s : /\ GetRange(s).left <= Smallest(s[i])
                                /\ Biggest(s[i]) <= GetRange(s).right
<1> DEFINE A == {Smallest(s[i]) : i \in DOMAIN s}
           B == {Biggest(s[i]) : i \in DOMAIN s}
<1>a. /\ IsFiniteSet(DOMAIN s) /\ 1 \in DOMAIN s /\ \A i \in DOMAIN s : s[i] \in AnyTable
  BY SeqDomain, EmptySeq
<1>b. \A i \in DOMAIN s : /\ Smallest(s[i]) \in Keys /\ Biggest(s[i]) \in Keys
                          /\ Smallest(s[i]) <= Biggest(s[i])
  BY <1>a, TableFacts
<1>1. IsFiniteSet(A) /\ A # {} /\ A \in SUBSET Keys /\ A \in SUBSET Int
  <2>1. [i \in DOMAIN s |-> Smallest(s[i])] \in Surjection(DOMAIN s, A)
    BY DEF Surjection
  <2>2. IsFiniteSet(A)
    BY <2>1, <1>a, FS_Surjection
  <2>3. A # {} /\ A \in SUBSET Keys
    BY <1>a, <1>b
  <2> HIDE DEF A
  <2> QED
    BY <2>2, <2>3, KeysAssumption
<1>2. IsFiniteSet(B) /\ B # {} /\ B \in SUBSET Keys /\ B \in SUBSET Int
  <2>1. [i \in DOMAIN s |-> Biggest(s[i])] \in Surjection(DOMAIN s, B)
    BY DEF Surjection
  <2>2. IsFiniteSet(B)
    BY <2>1, <1>a, FS_Surjection
  <2>3. B # {} /\ B \in SUBSET Keys
    BY <1>a, <1>b
  <2> HIDE DEF B
  <2> QED
    BY <2>2, <2>3, KeysAssumption
<1>3. Min(A) \in A /\ \A x \in A : Min(A) <= x
  <2> HIDE DEF A
  <2> QED
    BY <1>1, MinMax
<1>4. Max(B) \in B /\ \A x \in B : x <= Max(B)
  <2> HIDE DEF B
  <2> QED
    BY <1>2, MinMax
<1>5. GetRange(s) = [left |-> Min(A), right |-> Max(B), inf |-> FALSE]
  BY DEF GetRange, HullRange
<1>6. Min(A) <= Smallest(s[1]) /\ Biggest(s[1]) <= Max(B)
  BY <1>a, <1>3, <1>4
<1>7. Min(A) \in Keys /\ Max(B) \in Keys
  BY <1>1, <1>2, <1>3, <1>4
<1>8. \A i \in DOMAIN s : Min(A) <= Smallest(s[i]) /\ Biggest(s[i]) <= Max(B)
  BY <1>3, <1>4
<1> HIDE DEF A, B
<1>9. Min(A) <= Max(B)
  <2>1. Smallest(s[1]) \in Nat /\ Biggest(s[1]) \in Nat /\ Smallest(s[1]) <= Biggest(s[1])
    BY <1>a, <1>b, KeysAssumption
  <2>2. Min(A) \in Nat /\ Max(B) \in Nat
    BY <1>7, KeysAssumption
  <2> QED
    BY <2>1, <2>2, <1>6
<1> QED
  BY <1>5, <1>7, <1>8, <1>9 DEF FiniteRange

(***************************************************************************)
(* Filter and StableSort pick the elements at some indices, each once.     *)
(***************************************************************************)
LEMMA FilterIs ==
  ASSUME NEW T, NEW s \in Seq(T), NEW I \in SUBSET DOMAIN s
  PROVE  /\ IsFiniteSet(I) /\ Cardinality(I) \in Nat
         /\ \E b \in Bijection(1 .. Cardinality(I), I) :
              Filter(s, I) = [n \in 1 .. Cardinality(I) |-> s[b[n]]]
<1> DEFINE N == 1 .. Cardinality(I)
           b == [n \in N |-> Nth(I, <, n)]
           R == {p \in I \X I : p[1] < p[2]}
<1>1. IsFiniteSet(I) /\ I \in SUBSET Int
  BY SeqDomain, FS_Subset
<1>2. Cardinality(I) \in Nat
  BY <1>1, FS_CardinalityType
<1>3. \A n \in N : \E x \in I : Cardinality({y \in I : <<y, x>> \in R}) = n - 1
  <2>1. \A x \in I : <<x, x>> \notin R
    BY <1>1
  <2>2. \A x, y, z \in I : <<x, y>> \in R /\ <<y, z>> \in R => <<x, z>> \in R
    BY <1>1
  <2>3. \A x, y \in I : x # y => <<x, y>> \in R \/ <<y, x>> \in R
    BY <1>1
  <2> HIDE DEF R
  <2>4. IsFiniteSet(I)
    BY <1>1
  <2> QED
    BY <2>1, <2>2, <2>3, <2>4, RankExists
<1>4. \A x \in I : {y \in I : <<y, x>> \in R} = {y \in I : y < x}
  OBVIOUS
<1>5. ASSUME NEW n \in N
      PROVE  Nth(I, <, n) \in I /\ Cardinality({y \in I : y < Nth(I, <, n)}) = n - 1
  <2>1. \E x \in I : Cardinality({y \in I : y < x}) = n - 1
    BY <1>3, <1>4
  <2> QED
    BY <2>1, Zenon DEF Nth
<1>6. b \in [N -> I]
  BY <1>5
<1>7. ASSUME NEW m \in N, NEW n \in N, b[m] = b[n]
      PROVE  m = n
  <2>1. m - 1 = n - 1
    BY <1>5, <1>7
  <2> QED
    BY <2>1, <1>2
<1>8. b \in Bijection(N, I)
  <2> HIDE DEF b
  <2> QED
    BY <1>1, <1>6, <1>7, Enumeration
<1>9. Filter(s, I) = [n \in N |-> s[b[n]]]
  BY DEF Filter
<1> QED
  BY <1>1, <1>2, <1>8, <1>9

(* The same for the stable sort: it permutes the list. *)
LEMMA SortIs ==
  ASSUME NEW T, NEW s \in Seq(T), NEW rank \in [DOMAIN s -> Int]
  PROVE  \E b \in Bijection(DOMAIN s, DOMAIN s) :
           StableSort(s, rank) = [n \in DOMAIN s |-> s[b[n]]]
<1> DEFINE D == DOMAIN s
           before(i, j) == rank[i] < rank[j] \/ (rank[i] = rank[j] /\ i < j)
           b == [n \in D |-> Nth(D, before, n)]
           R == {p \in D \X D : before(p[1], p[2])}
<1>a. IsFiniteSet(D)
  BY SeqDomain
<1>1. D \in SUBSET Int /\ D = 1 .. Cardinality(D) /\ Cardinality(D) \in Nat
  BY SeqDomain
<1>2. \A i \in D : rank[i] \in Int
  OBVIOUS
<1>3. \A n \in D : \E x \in D : Cardinality({y \in D : <<y, x>> \in R}) = n - 1
  <2> HIDE DEF D
  <2>1. \A x \in D : <<x, x>> \notin R
    BY <1>1, <1>2
  <2>2. \A x, y, z \in D : <<x, y>> \in R /\ <<y, z>> \in R => <<x, z>> \in R
    BY <1>1, <1>2
  <2>3. \A x, y \in D : x # y => <<x, y>> \in R \/ <<y, x>> \in R
    BY <1>1, <1>2
  <2> HIDE DEF R
  <2>4. \A n \in 1 .. Cardinality(D) :
          \E x \in D : Cardinality({y \in D : <<y, x>> \in R}) = n - 1
    BY <1>a, <2>1, <2>2, <2>3, RankExists
  <2> QED
    BY <1>1, <2>4
<1>4. \A x \in D : {y \in D : <<y, x>> \in R} = {y \in D : before(y, x)}
  <2> HIDE DEF D
  <2> QED
    OBVIOUS
<1>5. ASSUME NEW n \in D
      PROVE  Nth(D, before, n) \in D /\ Cardinality({y \in D : before(y, Nth(D, before, n))}) = n - 1
  <2>1. \E x \in D : Cardinality({y \in D : before(y, x)}) = n - 1
    BY <1>3, <1>4
  <2> QED
    BY <2>1, Zenon DEF Nth
<1>6. b \in [D -> D]
  BY <1>5
<1>7. ASSUME NEW m \in D, NEW n \in D, b[m] = b[n]
      PROVE  m = n
  <2>1. m - 1 = n - 1
    BY <1>5, <1>7
  <2> QED
    BY <2>1, <1>1
<1>8. b \in Bijection(D, D)
  <2> HIDE DEF b, D
  <2> QED
    BY <1>a, <1>1, <1>6, <1>7, Enumeration
<1>9. StableSort(s, rank) = [n \in D |-> s[b[n]]]
  BY Zenon DEF StableSort
<1> QED
  BY <1>8, <1>9

-----------------------------------------------------------------------------
(***************************************************************************)
(* The sizes of lists.                                                     *)
(***************************************************************************)
SizesOf(s) == [i \in DOMAIN s |-> Size(s[i])]

(* The size of a list is the sum over its indices. *)
LEMMA SumOfIs ==
  ASSUME NEW s \in Seq(AnyTable)
  PROVE  /\ SumOfSizes(s) = SumFunctionOnSet(SizesOf(s), DOMAIN s)
         /\ SumOfSizes(s) \in Nat
         /\ \A i \in DOMAIN s : SizesOf(s)[i] \in Nat
         /\ s = <<>> => SumOfSizes(s) = 0
<1>1. \A i \in DOMAIN s : Size(s[i]) \in Nat
  BY SeqDomain, TableFacts
<1>2. IsFiniteSet(DOMAIN s) /\ \A i \in DOMAIN s : SizesOf(s)[i] \in Nat
  BY <1>1, SeqDomain DEF SizesOf
<1>3. SumOfSizes(s) = SumFunctionOnSet(SizesOf(s), DOMAIN s)
  BY DEF SumOfSizes, SizesOf, SumFunction
<1>4. SumFunctionOnSet(SizesOf(s), DOMAIN s) \in Nat
      /\ (DOMAIN s = {} => SumFunctionOnSet(SizesOf(s), DOMAIN s) = 0)
  BY <1>2, SumFirst
<1>5. s = <<>> => DOMAIN s = {}
  OBVIOUS
<1> QED
  BY <1>2, <1>3, <1>4, <1>5

(* A list that has the tables of s at the indices I, each once *)
PartOf(r, s, I, n, b) ==
  /\ b \in Bijection(1 .. n, I)
  /\ r \in [1 .. n -> AnyTable]
  /\ \A i \in 1 .. n : r[i] = s[b[i]]

(* Such a list has those tables and their size. *)
LEMMA SumOfPart ==
  ASSUME NEW s \in Seq(AnyTable), NEW I \in SUBSET DOMAIN s, NEW n \in Nat,
         NEW b, NEW r, PartOf(r, s, I, n, b)
  PROVE  /\ r \in Seq(AnyTable) /\ Len(r) = n
         /\ ToSet(r) = {s[i] : i \in I}
         /\ SumOfSizes(r) = SumFunctionOnSet(SizesOf(s), I)
<1>a. b \in Bijection(1 .. n, I) /\ r \in [1 .. n -> AnyTable] /\ \A i \in 1 .. n : r[i] = s[b[i]]
  BY DEF PartOf
<1>1. /\ b \in [1 .. n -> I] /\ \A i \in I : \E m \in 1 .. n : b[m] = i
  BY <1>a DEF Bijection, Injection, Surjection
<1>4. r \in Seq(AnyTable) /\ Len(r) = n /\ DOMAIN r = 1 .. n
  BY <1>a, SeqDef
<1>5. ToSet(r) = {s[i] : i \in I}
  <2>1. ToSet(r) = {r[m] : m \in 1 .. n}
    BY <1>4 DEF ToSet
  <2>2. \A m \in 1 .. n : r[m] = s[b[m]] /\ b[m] \in I
    BY <1>a, <1>1
  <2> QED
    BY <2>1, <2>2, <1>1
<1>6. IsFiniteSet(1 .. n)
  BY FS_Interval
<1>7. \A m \in 1 .. n : SizesOf(r)[m] \in Nat /\ SizesOf(s)[b[m]] = SizesOf(r)[m]
  BY <1>a, <1>1, <1>4, SumOfIs DEF SizesOf
<1>8. SumFunctionOnSet(SizesOf(r), 1 .. n) = SumFunctionOnSet(SizesOf(s), I)
  <2>1. PICK D, f, g : D = 1 .. n /\ f = SizesOf(r) /\ g = SizesOf(s)
    OBVIOUS
  <2>2. /\ IsFiniteSet(D) /\ b \in Bijection(D, I)
        /\ \A m \in D : f[m] \in Nat /\ g[b[m]] = f[m]
    BY <2>1, <1>a, <1>6, <1>7
  <2>3. SumFunctionOnSet(f, D) = SumFunctionOnSet(g, I)
    BY <2>2, SumBijection
  <2> QED
    BY <2>1, <2>3
<1> QED
  BY <1>4, <1>5, <1>8, SumOfIs

(* What is filtered out of a list and what stays make up its size. *)
LEMMA FilterFacts ==
  ASSUME NEW s \in Seq(AnyTable), NEW I \in SUBSET DOMAIN s
  PROVE  /\ Filter(s, I) \in Seq(AnyTable)
         /\ ToSet(Filter(s, I)) = {s[i] : i \in I}
         /\ SumOfSizes(Filter(s, I)) = SumFunctionOnSet(SizesOf(s), I)
<1>1. PICK b \in Bijection(1 .. Cardinality(I), I) :
        Filter(s, I) = [n \in 1 .. Cardinality(I) |-> s[b[n]]]
  BY FilterIs
<1>a. PICK n \in Nat : n = Cardinality(I)
  BY FilterIs
<1>b. PICK r : r = Filter(s, I)
  OBVIOUS
<1>2. n = Cardinality(I) /\ r = Filter(s, I)
  BY <1>a, <1>b
<1>3. b \in Bijection(1 .. n, I) /\ r = [i \in 1 .. n |-> s[b[i]]]
  BY <1>1, <1>2
<1>4. \A i \in 1 .. n : b[i] \in DOMAIN s
  BY <1>3 DEF Bijection, Injection
<1>5. PartOf(r, s, I, n, b)
  BY <1>3, <1>4, SeqDomain DEF PartOf
<1>6. /\ r \in Seq(AnyTable) /\ ToSet(r) = {s[i] : i \in I}
      /\ SumOfSizes(r) = SumFunctionOnSet(SizesOf(s), I)
  BY <1>5, SumOfPart
<1> QED
  BY <1>2, <1>6

(* Sorting keeps the tables and the size. *)
LEMMA SortFacts ==
  ASSUME NEW s \in Seq(AnyTable), NEW rank \in [DOMAIN s -> Int]
  PROVE  /\ StableSort(s, rank) \in Seq(AnyTable)
         /\ ToSet(StableSort(s, rank)) = ToSet(s)
         /\ SumOfSizes(StableSort(s, rank)) = SumOfSizes(s)
<1>1. PICK b \in Bijection(DOMAIN s, DOMAIN s) : StableSort(s, rank) = [n \in DOMAIN s |-> s[b[n]]]
  BY SortIs
<1>a. PICK n \in Nat : n = Len(s)
  OBVIOUS
<1>b. PICK D, r : D = DOMAIN s /\ r = StableSort(s, rank)
  OBVIOUS
<1>2. n = Len(s) /\ D = DOMAIN s /\ r = StableSort(s, rank)
  BY <1>a, <1>b
<1>3. D = 1 .. n
  BY <1>2
<1>4. b \in Bijection(1 .. n, D) /\ r = [i \in 1 .. n |-> s[b[i]]]
  BY <1>1, <1>2, <1>3
<1>5. \A i \in 1 .. n : b[i] \in DOMAIN s
  BY <1>2, <1>4 DEF Bijection, Injection
<1>6. PartOf(r, s, D, n, b)
  BY <1>4, <1>5, SeqDomain DEF PartOf
<1>7. D \in SUBSET DOMAIN s
  BY <1>2
<1>8. /\ r \in Seq(AnyTable) /\ ToSet(r) = {s[i] : i \in D}
      /\ SumOfSizes(r) = SumFunctionOnSet(SizesOf(s), D)
  BY <1>6, <1>7, SumOfPart
<1> QED
  BY <1>2, <1>8, SumOfIs DEF ToSet

(* The three orders of tables *)
LEMMA SortedLists ==
  ASSUME NEW s \in Seq(AnyTable)
  PROVE  /\ SortBySmallest(s) \in Seq(AnyTable) /\ ToSet(SortBySmallest(s)) = ToSet(s)
         /\ SumOfSizes(SortBySmallest(s)) = SumOfSizes(s)
         /\ SortById(s) \in Seq(AnyTable) /\ ToSet(SortById(s)) = ToSet(s)
         /\ SortBySize(s) \in Seq(AnyTable) /\ ToSet(SortBySize(s)) = ToSet(s)
<1>1. \A i \in DOMAIN s : s[i] \in AnyTable
  BY SeqDomain
<1>2. \A i \in DOMAIN s : s[i].id \in Int /\ Smallest(s[i]) \in Int /\ - Size(s[i]) \in Int
  <2> SUFFICES ASSUME NEW i \in DOMAIN s
               PROVE  s[i].id \in Int /\ Smallest(s[i]) \in Int /\ - Size(s[i]) \in Int
    OBVIOUS
  <2>1. s[i].id \in Nat \ {0} /\ Smallest(s[i]) \in Keys /\ Size(s[i]) \in Nat
    BY <1>1, TableFacts
  <2>2. PICK n \in Nat : n = Size(s[i])
    BY <2>1
  <2>3. - n \in Int
    OBVIOUS
  <2>4. - Size(s[i]) \in Int
    BY <2>2, <2>3, Zenon
  <2> QED
    <3>1. s[i].id \in Int /\ \A k \in Keys : k \in Int
      BY <2>1, KeysAssumption
    <3>2. Smallest(s[i]) \in Int
      BY <2>1, <3>1, Zenon
    <3> QED
      BY <2>4, <3>1, <3>2, Zenon
<1>3. /\ [i \in DOMAIN s |-> Smallest(s[i])] \in [DOMAIN s -> Int]
      /\ [i \in DOMAIN s |-> s[i].id] \in [DOMAIN s -> Int]
      /\ [i \in DOMAIN s |-> - Size(s[i])] \in [DOMAIN s -> Int]
  BY <1>2
<1>4. SortBySmallest(s) \in Seq(AnyTable) /\ ToSet(SortBySmallest(s)) = ToSet(s)
      /\ SumOfSizes(SortBySmallest(s)) = SumOfSizes(s)
  BY <1>3, SortFacts DEF SortBySmallest
<1>5. SortById(s) \in Seq(AnyTable) /\ ToSet(SortById(s)) = ToSet(s)
  BY <1>3, SortFacts DEF SortById
<1>6. SortBySize(s) \in Seq(AnyTable) /\ ToSet(SortBySize(s)) = ToSet(s)
  BY <1>3, SortFacts DEF SortBySize
<1> QED
  BY <1>4, <1>5, <1>6

(* One list after the other *)
LEMMA ConcatFacts ==
  ASSUME NEW s \in Seq(AnyTable), NEW r \in Seq(AnyTable)
  PROVE  /\ s \o r \in Seq(AnyTable) /\ ToSet(s \o r) = ToSet(s) \cup ToSet(r)
         /\ SumOfSizes(s \o r) = SumOfSizes(s) + SumOfSizes(r)
<1>1. PICK q : q = s \o r
  OBVIOUS
<1>2. PICK m \in Nat, n \in Nat : m = Len(s) /\ n = Len(r)
  OBVIOUS
<1>3. /\ q \in Seq(AnyTable) /\ Len(q) = m + n
      /\ \A i \in 1 .. m : q[i] = s[i]
      /\ \A i \in 1 .. n : q[m + i] = r[i]
  BY <1>1, <1>2, ConcatProperties
<1>4. DOMAIN q = 1 .. (m + n) /\ DOMAIN s = 1 .. m /\ DOMAIN r = 1 .. n
  BY <1>2, <1>3
<1>5. ToSet(q) = ToSet(s) \cup ToSet(r)
  <2>1. ASSUME NEW t \in ToSet(q)
        PROVE  t \in ToSet(s) \cup ToSet(r)
    <3>1. PICK i \in 1 .. (m + n) : t = q[i]
      BY <1>4 DEF ToSet
    <3>2. CASE i <= m
      BY <3>1, <3>2, <1>3, <1>4 DEF ToSet
    <3>3. CASE i > m
      <4>1. i - m \in 1 .. n /\ m + (i - m) = i
        BY <3>3
      <4>2. q[i] = r[i - m]
        BY <4>1, <1>3
      <4> QED
        BY <3>1, <4>1, <4>2, <1>4 DEF ToSet
    <3> QED
      BY <3>2, <3>3
  <2>2. ToSet(s) \subseteq ToSet(q)
    <3>1. \A i \in 1 .. m : i \in 1 .. (m + n)
      OBVIOUS
    <3> QED
      BY <3>1, <1>3, <1>4 DEF ToSet
  <2>3. ToSet(r) \subseteq ToSet(q)
    <3>1. \A i \in 1 .. n : m + i \in 1 .. (m + n)
      OBVIOUS
    <3> QED
      BY <3>1, <1>3, <1>4 DEF ToSet
  <2> QED
    BY <2>1, <2>2, <2>3
<1>6. SumOfSizes(q) = SumOfSizes(s) + SumOfSizes(r)
  <2> DEFINE A == 1 .. m
             B == (1 .. (m + n)) \ A
             f == SizesOf(q)
  <2>1. IsFiniteSet(DOMAIN q) /\ A \in SUBSET DOMAIN q /\ IsFiniteSet(A)
    BY <1>3, <1>4, SeqDomain, FS_Interval
  <2>2. \A i \in DOMAIN q : f[i] \in Nat
    BY <1>3, SumOfIs
  <2>3. SumOfSizes(q) = SumFunctionOnSet(f, A) + SumFunctionOnSet(f, B)
    <3>1. SumOfSizes(q) = SumFunctionOnSet(f, DOMAIN q)
      BY <1>3, SumOfIs
    <3>2. DOMAIN q \ A = B
      BY <1>4
    <3> HIDE DEF f, A, B
    <3>3. SumFunctionOnSet(f, DOMAIN q) = SumFunctionOnSet(f, A) + SumFunctionOnSet(f, DOMAIN q \ A)
      BY <2>1, <2>2, SumSplit
    <3> QED
      BY <3>1, <3>2, <3>3
  <2>4. SumFunctionOnSet(f, A) = SumFunctionOnSet(SizesOf(s), A)
    <3>1. \A i \in A : f[i] \in Nat /\ SizesOf(s)[i] = f[i]
      BY <2>1, <2>2, <1>3, <1>4 DEF SizesOf
    <3> HIDE DEF f, A
    <3> QED
      BY <2>1, <3>1, SumSame
  <2>5. SumFunctionOnSet(SizesOf(r), DOMAIN r) = SumFunctionOnSet(f, B)
    <3> DEFINE b == [i \in 1 .. n |-> m + i]
    <3>1. b \in Bijection(1 .. n, B)
      <4>1. b \in [1 .. n -> B]
        OBVIOUS
      <4>2. \A i, j \in 1 .. n : b[i] = b[j] => i = j
        OBVIOUS
      <4>3. ASSUME NEW x \in B
            PROVE  \E i \in 1 .. n : b[i] = x
        <5>1. x - m \in 1 .. n /\ b[x - m] = x
          OBVIOUS
        <5> QED
          BY <5>1
      <4> HIDE DEF b, B
      <4> QED
        BY <4>1, <4>2, <4>3 DEF Bijection, Injection, Surjection, IsInjective
    <3>2. \A i \in 1 .. n : SizesOf(r)[i] \in Nat /\ f[b[i]] = SizesOf(r)[i]
      <4> SUFFICES ASSUME NEW i \in 1 .. n
                   PROVE  SizesOf(r)[i] \in Nat /\ f[b[i]] = SizesOf(r)[i]
        OBVIOUS
      <4>1. m + i \in DOMAIN q /\ b[i] = m + i /\ q[m + i] = r[i]
        BY <1>3, <1>4
      <4> HIDE DEF b
      <4> QED
        BY <4>1, <1>4, SumOfIs DEF SizesOf
    <3>3. IsFiniteSet(1 .. n)
      BY FS_Interval
    <3> HIDE DEF b, B, f
    <3> QED
      BY <1>4, <3>1, <3>2, <3>3, SumBijection
  <2>6. SumOfSizes(s) = SumFunctionOnSet(SizesOf(s), A) /\ SumOfSizes(r) = SumFunctionOnSet(SizesOf(r), DOMAIN r)
    BY <1>4, SumOfIs
  <2> HIDE DEF f, A, B
  <2> QED
    BY <2>3, <2>4, <2>5, <2>6
<1> QED
  BY <1>1, <1>3, <1>5, <1>6

(* The subsequences that the workers cut out of a list *)
LEMMA PartFacts ==
  ASSUME NEW s \in Seq(AnyTable)
  PROVE  /\ \A t \in AnyTable : <<t>> \in Seq(AnyTable) /\ ToSet(<<t>>) = {t} /\ <<t>> # <<>>
         /\ <<>> \in Seq(AnyTable) /\ ToSet(<<>>) = {}
         /\ s # <<>> => /\ Head(s) \in ToSet(s) /\ Tail(s) \in Seq(AnyTable)
                        /\ ToSet(Tail(s)) \in SUBSET ToSet(s)
         /\ \A i, j \in Nat : SliceOK(s, i, j) => /\ Slice(s, i, j) \in Seq(AnyTable)
                                                  /\ ToSet(Slice(s, i, j)) \in SUBSET ToSet(s)
<1>1. \A t \in AnyTable : <<t>> \in Seq(AnyTable) /\ ToSet(<<t>>) = {t} /\ <<t>> # <<>>
  BY DEF ToSet
<1>2. <<>> \in Seq(AnyTable) /\ ToSet(<<>>) = {}
  BY DEF ToSet
<1>3. ASSUME s # <<>>
      PROVE  /\ Head(s) \in ToSet(s) /\ Tail(s) \in Seq(AnyTable)
             /\ ToSet(Tail(s)) \in SUBSET ToSet(s)
  <2>1. /\ Len(s) \in Nat \ {0} /\ DOMAIN s = 1 .. Len(s) /\ Head(s) = s[1]
        /\ Tail(s) \in Seq(AnyTable) /\ DOMAIN Tail(s) = 1 .. Len(s) - 1
        /\ \A i \in 1 .. Len(s) - 1 : Tail(s)[i] = s[i + 1]
    BY <1>3
  <2>2. \A i \in 1 .. Len(s) - 1 : i + 1 \in 1 .. Len(s)
    BY <2>1
  <2> QED
    BY <2>1, <2>2 DEF ToSet
<1>4. ASSUME NEW i \in Nat, NEW j \in Nat, SliceOK(s, i, j)
      PROVE  Slice(s, i, j) \in Seq(AnyTable) /\ ToSet(Slice(s, i, j)) \in SUBSET ToSet(s)
  <2>1. CASE i = j
    BY <2>1, <1>2 DEF Slice
  <2>2. CASE i # j
    <3>1. i <= j /\ j <= Len(s) /\ Slice(s, i, j) = SubSeq(s, i + 1, j)
      BY <1>4, <2>2 DEF SliceOK, Slice
    <3>2. /\ SubSeq(s, i + 1, j) \in Seq(AnyTable)
          /\ DOMAIN SubSeq(s, i + 1, j) = 1 .. j - i
          /\ \A n \in 1 .. j - i : SubSeq(s, i + 1, j)[n] = s[i + n] /\ i + n \in DOMAIN s
      BY <3>1
    <3> QED
      BY <3>1, <3>2 DEF ToSet
  <2> QED
    BY <2>1, <2>2
<1> QED
  BY <1>1, <1>2, <1>3, <1>4

(* add: a table comes at the end of the list *)
LEMMA AppendFacts ==
  ASSUME NEW s \in Seq(AnyTable), NEW t \in AnyTable
  PROVE  /\ Append(s, t) \in Seq(AnyTable) /\ ToSet(Append(s, t)) = ToSet(s) \cup {t}
         /\ SumOfSizes(Append(s, t)) = SumOfSizes(s) + Size(t)
<1>1. Append(s, t) = s \o <<t>>
  BY AppendIsConcat
<1>2. <<t>> \in Seq(AnyTable) /\ ToSet(<<t>>) = {t}
  BY DEF ToSet
<1>3. SumOfSizes(<<t>>) = Size(t)
  <2>1. SumOfSizes(<<t>>) = SumFunctionOnSet(SizesOf(<<t>>), DOMAIN <<t>>)
    BY <1>2, SumOfIs
  <2>2. PICK f : f = SizesOf(<<t>>)
    OBVIOUS
  <2>3. DOMAIN <<t>> = {1} /\ f[1] = Size(t)
    BY <2>2 DEF SizesOf
  <2>4. Size(t) \in Nat
    BY TableFacts
  <2>5. IsFiniteSet({1}) /\ IsFiniteSet({}) /\ {1} \ {1} = {}
    BY FS_EmptySet, FS_Singleton
  <2>6. SumFunctionOnSet(f, {1}) = f[1] + SumFunctionOnSet(f, {1} \ {1})
    BY <2>3, <2>4, <2>5, SumAny
  <2>7. SumFunctionOnSet(f, {}) = 0
    BY <2>5, SumFirst
  <2>8. SumFunctionOnSet(f, {1}) = Size(t)
    <3>1. SumFunctionOnSet(f, {1} \ {1}) = 0
      BY <2>5, <2>7, Zenon
    <3> QED
      BY <2>3, <2>4, <2>6, <3>1
  <2> QED
    BY <2>1, <2>2, <2>3, <2>8
<1> QED
  BY <1>1, <1>2, <1>3, ConcatFacts

(* delete_tables: what is deleted and what stays add up. *)
LEMMA DeleteFacts ==
  ASSUME NEW s \in Seq(AnyTable), NEW ids
  PROVE  /\ DeleteTables(s, ids) \in Seq(AnyTable)
         /\ ToSet(DeleteTables(s, ids)) \in SUBSET ToSet(s)
         /\ SumOfSizes(s) = SumOfSizes(DeleteTables(s, ids)) + SumOfSizes(Deleted(s, ids))
         /\ SumOfSizes(DeleteTables(s, ids)) \in Nat /\ SumOfSizes(Deleted(s, ids)) \in Nat
<1> DEFINE I == {i \in DOMAIN s : s[i].id \in ids}
           J == {i \in DOMAIN s : s[i].id \notin ids}
<1>1. I \in SUBSET DOMAIN s /\ J \in SUBSET DOMAIN s /\ J = DOMAIN s \ I
  OBVIOUS
<1>2. DeleteTables(s, ids) = Filter(s, J) /\ Deleted(s, ids) = Filter(s, I)
  BY DEF DeleteTables, Deleted
<1> HIDE DEF I, J
<1>3. /\ Filter(s, J) \in Seq(AnyTable) /\ ToSet(Filter(s, J)) = {s[i] : i \in J}
      /\ SumOfSizes(Filter(s, J)) = SumFunctionOnSet(SizesOf(s), J)
  BY <1>1, FilterFacts
<1>4. /\ Filter(s, I) \in Seq(AnyTable)
      /\ SumOfSizes(Filter(s, I)) = SumFunctionOnSet(SizesOf(s), I)
  BY <1>1, FilterFacts
<1>5. SumFunctionOnSet(SizesOf(s), DOMAIN s) =
        SumFunctionOnSet(SizesOf(s), I) + SumFunctionOnSet(SizesOf(s), J)
  <2>1. PICK D, f : D = DOMAIN s /\ f = SizesOf(s)
    OBVIOUS
  <2>2. IsFiniteSet(D) /\ I \in SUBSET D /\ \A i \in D : f[i] \in Nat
    BY <2>1, <1>1, SeqDomain, SumOfIs
  <2>3. SumFunctionOnSet(f, D) = SumFunctionOnSet(f, I) + SumFunctionOnSet(f, D \ I)
    BY <2>2, SumSplit
  <2> QED
    BY <2>1, <2>3, <1>1
<1>6. {s[i] : i \in J} \in SUBSET ToSet(s)
  BY <1>1 DEF ToSet
<1>7. /\ SumOfSizes(s) = SumFunctionOnSet(SizesOf(s), DOMAIN s)
      /\ SumOfSizes(Filter(s, I)) \in Nat /\ SumOfSizes(Filter(s, J)) \in Nat
  BY <1>3, <1>4, SumOfIs
<1> QED
  BY <1>2, <1>3, <1>4, <1>5, <1>6, <1>7

(***************************************************************************)
(* replace_tables, on a list without two tables of one id: it takes out    *)
(* the tables it has counted, and puts the new ones in.                    *)
(***************************************************************************)
LEMMA ReplaceFacts ==
  ASSUME NEW s \in Seq(AnyTable), NEW new \in Seq(AnyTable), new # <<>>,
         \A t, u \in ToSet(s) : t.id = u.id => t = u
  PROVE  /\ ReplaceTables(s, new) \in Seq(AnyTable)
         /\ ToSet(ReplaceTables(s, new)) \in SUBSET (ToSet(s) \cup ToSet(new))
         /\ \E rest \in Nat :
              /\ SumOfSizes(s) = rest + SumOfSizes(Replaced(s, new))
              /\ SumOfSizes(ReplaceTables(s, new)) = rest + SumOfSizes(new)
         /\ SumOfSizes(Replaced(s, new)) \in Nat
<1> DEFINE left == Smallest(Head(new))
           right == Biggest(Last(new))
           out(t) == ~ (Biggest(t) <= left \/ Smallest(t) > right)
           I == {i \in DOMAIN s : out(s[i])}
           ids == Ids(Replaced(s, new))
<1>1. I \in SUBSET DOMAIN s /\ Replaced(s, new) = Filter(s, I)
  BY DEF Replaced
<1>2. ToSet(Replaced(s, new)) = {s[i] : i \in I}
  <2> HIDE DEF I
  <2> QED
    BY <1>1, FilterFacts
<1>3. ids = {t.id : t \in ToSet(Replaced(s, new))}
  BY DEF Ids, ToSet
<1>4. I = {i \in DOMAIN s : s[i].id \in ids}
  <2>1. ASSUME NEW i \in DOMAIN s, s[i].id \in ids
        PROVE  i \in I
    <3>1. PICK j \in I : s[i].id = s[j].id
      <4> HIDE DEF I
      <4> QED
        BY <1>2, <1>3, <2>1
    <3>2. s[i] = s[j]
      BY <3>1 DEF ToSet
    <3> QED
      BY <3>1, <3>2
  <2>2. ASSUME NEW i \in I
        PROVE  i \in DOMAIN s /\ s[i].id \in ids
    <3>1. s[i] \in ToSet(Replaced(s, new))
      <4> HIDE DEF I
      <4> QED
        BY <1>2
    <3> QED
      BY <3>1, <1>3
  <2> HIDE DEF I, ids
  <2> QED
    BY <2>1, <2>2, <1>1
<1>5. Replaced(s, new) = Deleted(s, ids)
  <2> HIDE DEF I, ids
  <2> QED
    BY <1>1, <1>4 DEF Deleted
<1>6. PICK q \in Seq(AnyTable) : q = DeleteTables(s, ids)
  BY DeleteFacts
<1>7. /\ ToSet(q) \in SUBSET ToSet(s)
      /\ SumOfSizes(s) = SumOfSizes(q) + SumOfSizes(Replaced(s, new))
      /\ SumOfSizes(q) \in Nat /\ SumOfSizes(Replaced(s, new)) \in Nat
  <2> HIDE DEF ids
  <2> QED
    BY <1>5, <1>6, DeleteFacts
<1>8. ReplaceTables(s, new) = SortBySmallest(q \o new)
  BY <1>6 DEF ReplaceTables
<1>9. /\ q \o new \in Seq(AnyTable) /\ ToSet(q \o new) = ToSet(q) \cup ToSet(new)
      /\ SumOfSizes(q \o new) = SumOfSizes(q) + SumOfSizes(new)
  BY ConcatFacts
<1>10. /\ SortBySmallest(q \o new) \in Seq(AnyTable)
       /\ ToSet(SortBySmallest(q \o new)) = ToSet(q \o new)
       /\ SumOfSizes(SortBySmallest(q \o new)) = SumOfSizes(q \o new)
  BY <1>9, SortedLists
<1> HIDE DEF I, ids, left, right, out
<1> QED
  BY <1>7, <1>8, <1>9, <1>10

-----------------------------------------------------------------------------
(***************************************************************************)
(* What compactions build, and what a restart finds.                       *)
(***************************************************************************)

(* The tables of a level as they are opened *)
LEMMA RecoveredFacts ==
  ASSUME NEW S \in SUBSET AnyTable, IsFiniteSet(S), NEW l
  PROVE  InitTables(l, SetToSeq(S)) \in Seq(AnyTable) /\ ToSet(InitTables(l, SetToSeq(S))) = S
<1>1. PICK c \in Nat : c = Cardinality(S)
  BY FS_CardinalityType
<1>2. \E f \in [1 .. c -> S] : IsInjective(f)
  <2>1. ExistsBijection(1 .. c, S)
    BY <1>1, FS_NatBijection, FS_CountingElements, FS_Interval
  <2> QED
    BY <2>1 DEF ExistsBijection, Bijection, Injection
<1>3. SetToSeq(S) \in [1 .. c -> S] /\ IsInjective(SetToSeq(S))
  BY <1>1, <1>2, Zenon DEF SetToSeq
<1>4. PICK s : s = SetToSeq(S)
  OBVIOUS
<1>5. s \in [1 .. Cardinality(S) -> S] /\ \A m, n \in 1 .. Cardinality(S) : s[m] = s[n] => m = n
  BY <1>1, <1>3, <1>4 DEF IsInjective
<1>6. s \in Bijection(1 .. Cardinality(S), S)
  BY <1>5, Enumeration
<1>7. s \in Seq(AnyTable) /\ DOMAIN s = 1 .. c
  BY <1>1, <1>5, SeqDef
<1>8. ToSet(s) = S
  <2>1. \A x \in S : \E m \in 1 .. c : s[m] = x
    BY <1>1, <1>6 DEF Bijection, Surjection
  <2> QED
    BY <2>1, <1>1, <1>5, <1>7 DEF ToSet
<1>9. \/ InitTables(l, s) = SortById(s)
      \/ InitTables(l, s) = SortBySmallest(s)
  BY DEF InitTables
<1> QED
  BY <1>4, <1>7, <1>8, <1>9, SortedLists

(* Merging gives every key of the tables, and the versions they have. *)
LEMMA MergeFacts ==
  ASSUME NEW s \in Seq(AnyTable)
  PROVE  \E ks \in SUBSET Keys : IsFiniteSet(ks) /\ Merge(s) \in [ks -> Nat]
<1> DEFINE all == UNION {TableKeys(s[i]) : i \in DOMAIN s}
           ks == all \ {HeadKey}
           has(k) == {i \in DOMAIN s : k \in TableKeys(s[i])}
<1>1. /\ IsFiniteSet(DOMAIN s) /\ DOMAIN s \in SUBSET Int
      /\ \A i \in DOMAIN s : s[i] \in AnyTable
  BY SeqDomain
<1>2. \A i \in DOMAIN s : /\ TableKeys(s[i]) \in SUBSET Keys /\ IsFiniteSet(TableKeys(s[i]))
                          /\ \A k \in TableKeys(s[i]) : s[i].kv[k] \in Nat
  BY <1>1, TableFacts
<1>3. IsFiniteSet(all)
  <2>1. PICK SS : SS = {TableKeys(s[i]) : i \in DOMAIN s}
    OBVIOUS
  <2>2. [i \in DOMAIN s |-> TableKeys(s[i])] \in Surjection(DOMAIN s, SS)
    BY <2>1 DEF Surjection
  <2>3. IsFiniteSet(SS)
    BY <2>2, <1>1, FS_Surjection
  <2>4. \A S \in SS : IsFiniteSet(S)
    BY <2>1, <1>2
  <2>5. IsFiniteSet(UNION SS)
    BY <2>3, <2>4, FS_UNION
  <2> QED
    BY <2>1, <2>5
<1>4. IsFiniteSet(ks) /\ ks \in SUBSET Keys
  <2>1. ks \in SUBSET all /\ all \in SUBSET Keys
    BY <1>2
  <2> HIDE DEF all, ks
  <2> QED
    BY <2>1, <1>3, FS_Subset
<1>5. ASSUME NEW k \in ks
      PROVE  s[Min(has(k))].kv[k] \in Nat
  <2>1. has(k) \in SUBSET DOMAIN s /\ has(k) # {}
    OBVIOUS
  <2>2. has(k) \in SUBSET Int /\ IsFiniteSet(has(k))
    <3> HIDE DEF has
    <3> QED
      BY <1>1, <2>1, FS_Subset
  <2>3. Min(has(k)) \in has(k)
    <3> HIDE DEF has
    <3> QED
      BY <2>1, <2>2, MinMax
  <2> QED
    BY <2>3, <1>2
<1>6. Merge(s) = [k \in ks |-> s[Min(has(k))].kv[k]]
  BY Zenon DEF Merge
<1> HIDE DEF all, ks, has
<1>7. Merge(s) \in [ks -> Nat]
  BY <1>5, <1>6
<1> QED
  BY <1>4, <1>7

(* Division by the capacity of a builder *)
LEMMA Division ==
  ASSUME NEW C \in Nat \ {0}, NEW a \in Nat, NEW i \in Nat
  PROVE  /\ a \div C = i <=> C * i <= a /\ a < C * (i + 1)
         /\ i <= a \div C => C * i <= a
         /\ a \div C \in Nat
<1>1. PICK q \in Nat, r \in 0 .. C - 1 : a = C * q + r
  BY DivMod
<1>2. a \div C = q
  BY <1>1
<1>3. C * q <= a /\ a < C * (q + 1)
  BY <1>1
<1>4. i <= q => C * i <= C * q
  OBVIOUS
<1>5. i < q => C * (i + 1) <= C * q
  OBVIOUS
<1>6. q < i => C * (q + 1) <= C * i
  OBVIOUS
<1>7. C * i \in Nat /\ C * q \in Nat /\ C * (i + 1) \in Nat /\ C * (q + 1) \in Nat
  OBVIOUS
<1> QED
  BY <1>2, <1>3, <1>4, <1>5, <1>6, <1>7

(* How many keys of S are smaller *)
RankIn(S) == [k \in S |-> Cardinality({j \in S : j < k})]

(* The ranks in a finite set are 0, 1, 2, ..., each once. *)
LEMMA RankFacts ==
  ASSUME NEW S \in SUBSET Nat, IsFiniteSet(S)
  PROVE  /\ \A k \in S : RankIn(S)[k] \in 0 .. Cardinality(S) - 1
         /\ \A j, k \in S : RankIn(S)[j] = RankIn(S)[k] => j = k
         /\ \A n \in 0 .. Cardinality(S) - 1 : \E k \in S : RankIn(S)[k] = n
         /\ Cardinality(S) \in Nat
<1> DEFINE rank == RankIn(S)
           R == {p \in S \X S : p[1] < p[2]}
           N == 0 .. Cardinality(S) - 1
<1>1. Cardinality(S) \in Nat
  BY FS_CardinalityType
<1>2. \A n \in 1 .. Cardinality(S) : \E x \in S : Cardinality({y \in S : <<y, x>> \in R}) = n - 1
  <2>1. \A x \in S : <<x, x>> \notin R
    OBVIOUS
  <2>2. \A x, y, z \in S : <<x, y>> \in R /\ <<y, z>> \in R => <<x, z>> \in R
    OBVIOUS
  <2>3. \A x, y \in S : x # y => <<x, y>> \in R \/ <<y, x>> \in R
    OBVIOUS
  <2> HIDE DEF R
  <2> QED
    BY <2>1, <2>2, <2>3, RankExists
<1>3. \A x \in S : {y \in S : <<y, x>> \in R} = {y \in S : y < x}
  OBVIOUS
<1>4. ASSUME NEW n \in N
      PROVE  \E k \in S : rank[k] = n
  <2>1. n + 1 \in 1 .. Cardinality(S) /\ (n + 1) - 1 = n
    BY <1>1
  <2>2. PICK x \in S : Cardinality({y \in S : <<y, x>> \in R}) = n
    BY <2>1, <1>2
  <2> QED
    BY <2>2, <1>3 DEF RankIn
<1>5. ASSUME NEW k \in S
      PROVE  rank[k] \in N
  <2>1. PICK T \in SUBSET S : T = {j \in S : j < k}
    OBVIOUS
  <2>2. IsFiniteSet(T) /\ Cardinality(T) <= Cardinality(S) /\ (Cardinality(S) = Cardinality(T) => S = T)
    BY FS_Subset
  <2>3. k \notin T
    BY <2>1
  <2>4. Cardinality(T) \in Nat
    BY <2>2, FS_CardinalityType
  <2>5. Cardinality(T) \in N
    BY <2>2, <2>3, <2>4, <1>1
  <2> QED
    BY <2>1, <2>5 DEF RankIn
<1>6. rank \in Surjection(S, N)
  <2>1. rank \in [S -> N]
    BY <1>5 DEF RankIn
  <2> QED
    BY <2>1, <1>4 DEF Surjection
<1>7. IsFiniteSet(N) /\ Cardinality(N) = Cardinality(S)
  <2>1. 0 \in Int /\ Cardinality(S) - 1 \in Int
    BY <1>1
  <2>2. IsFiniteSet(N)
        /\ Cardinality(N) = IF 0 > Cardinality(S) - 1 THEN 0 ELSE Cardinality(S) - 1 - 0 + 1
    BY <2>1, FS_Interval
  <2> QED
    BY <2>2, <1>1
<1>8. rank \in Injection(S, N)
  <2> HIDE DEF N
  <2> QED
    BY <1>6, <1>7, FS_SurjSameCardinalityImpliesInj
<1>9. \A j, k \in S : rank[j] = rank[k] => j = k
  <2> HIDE DEF N
  <2> QED
    BY <1>8 DEF Injection, IsInjective
<1> QED
  BY <1>1, <1>4, <1>5, <1>9

(***************************************************************************)
(* The tables that a compaction builds have keys, are not bigger than      *)
(* max_table_size, and have the file ids that were reserved.               *)
(***************************************************************************)
LEMMA BuildFacts ==
  ASSUME NEW ks \in SUBSET Keys, IsFiniteSet(ks), NEW kv \in [ks -> Nat],
         NEW firstId \in Nat \ {0}
  PROVE  /\ BuildTables(kv, firstId) \in Seq(AnyTable)
         /\ \A i \in DOMAIN BuildTables(kv, firstId) :
              BuildTables(kv, firstId)[i].id = firstId + i - 1
<1> DEFINE rank == RankIn(ks)
           chunk(i) == {k \in ks : rank[k] \div Capacity = i - 1}
           count == (Cardinality(ks) + Capacity - 1) \div Capacity
           table(i) == [id |-> firstId + i - 1, kv |-> [k \in chunk(i) |-> kv[k]]]
<1>1. ks \in SUBSET Nat
  BY KeysAssumption
<1>2. /\ \A k \in ks : rank[k] \in 0 .. Cardinality(ks) - 1
      /\ \A j, k \in ks : rank[j] = rank[k] => j = k
      /\ \A n \in 0 .. Cardinality(ks) - 1 : \E k \in ks : rank[k] = n
      /\ Cardinality(ks) \in Nat
  BY <1>1, RankFacts
<1>3. BuildTables(kv, firstId) = [i \in 1 .. count |-> table(i)]
  <2>1. DOMAIN kv = ks
    OBVIOUS
  <2>2. \A i : chunk(i) = {k \in ks : Cardinality({j \in ks : j < k}) \div Capacity = i - 1}
    BY DEF RankIn
  <2> HIDE DEF rank, chunk
  <2> QED
    BY <2>1, <2>2 DEF BuildTables
<1> HIDE DEF rank
<1>4. count \in Nat
  <2>1. Cardinality(ks) + Capacity - 1 \in Nat
    BY <1>2, CapacityAssumption
  <2>2. PICK a \in Nat : a = Cardinality(ks) + Capacity - 1
    BY <2>1
  <2>3. a \div Capacity \in Nat
    BY CapacityAssumption, Division
  <2> QED
    BY <2>2, <2>3
<1>5. ASSUME NEW i \in 1 .. count
      PROVE  chunk(i) \in TableSets
  <2>1. PICK m \in Nat : m = i - 1 /\ i = m + 1
    BY <1>4
  <2>2. PICK p \in Nat : p = Capacity * m
    BY CapacityAssumption
  <2>3. p \in 0 .. Cardinality(ks) - 1
    <3>1. PICK a \in Nat : a = Cardinality(ks) + Capacity - 1
      BY <1>2, CapacityAssumption
    <3>2. i \in Nat /\ i <= a \div Capacity
      BY <3>1, <1>4
    <3>3. Capacity * i <= a
      BY <3>2, CapacityAssumption, Division
    <3>4. Capacity * i = p + Capacity
      BY <2>1, <2>2, CapacityAssumption
    <3> QED
      BY <3>1, <3>3, <3>4, <1>2, CapacityAssumption
  <2>4. \A k \in chunk(i) : /\ k \in ks /\ rank[k] \in Nat
                            /\ p <= rank[k] /\ rank[k] < p + Capacity
    <3> SUFFICES ASSUME NEW k \in chunk(i)
                 PROVE  /\ k \in ks /\ rank[k] \in Nat
                        /\ p <= rank[k] /\ rank[k] < p + Capacity
      OBVIOUS
    <3>1. k \in ks /\ rank[k] \div Capacity = m
      BY <2>1
    <3>2. PICK a \in Nat : a = rank[k]
      BY <3>1, <1>2
    <3>3. Capacity * m <= a /\ a < Capacity * (m + 1)
      BY <3>1, <3>2, CapacityAssumption, Division
    <3>4. Capacity * (m + 1) = p + Capacity
      BY <2>2, CapacityAssumption
    <3> QED
      BY <2>2, <3>1, <3>2, <3>3, <3>4
  <2>5. chunk(i) # {}
    <3>1. PICK k \in ks : rank[k] = p
      BY <2>3, <1>2
    <3>2. Capacity * m <= p /\ p < Capacity * (m + 1)
      BY <2>2, CapacityAssumption
    <3>3. p \div Capacity = m
      BY <3>2, CapacityAssumption, Division
    <3> QED
      BY <3>1, <3>3, <2>1
  <2>6. IsFiniteSet(chunk(i)) /\ Cardinality(chunk(i)) <= Capacity
    <3> DEFINE f == [k \in chunk(i) |-> rank[k] - p]
    <3>1. f \in [chunk(i) -> 0 .. Capacity - 1]
      BY <2>4, CapacityAssumption
    <3>2. ASSUME NEW j \in chunk(i), NEW k \in chunk(i), f[j] = f[k]
          PROVE  j = k
      <4>1. rank[j] - p = rank[k] - p
        BY <3>2
      <4>2. j \in ks /\ k \in ks /\ rank[j] \in Nat /\ rank[k] \in Nat
        BY <2>4
      <4>3. rank[j] = rank[k]
        BY <4>1, <4>2
      <4> QED
        BY <4>2, <4>3, <1>2
    <3>3. f \in Injection(chunk(i), 0 .. Capacity - 1)
      <4> HIDE DEF f, chunk
      <4> QED
        BY <3>1, <3>2 DEF Injection, IsInjective
    <3>4. IsFiniteSet(0 .. Capacity - 1) /\ Cardinality(0 .. Capacity - 1) = Capacity
      <4>1. 0 \in Int /\ Capacity - 1 \in Int
        BY CapacityAssumption
      <4>2. IsFiniteSet(0 .. Capacity - 1)
            /\ Cardinality(0 .. Capacity - 1) = IF 0 > Capacity - 1 THEN 0 ELSE Capacity - 1 - 0 + 1
        BY <4>1, FS_Interval
      <4> QED
        BY <4>2, CapacityAssumption
    <3>5. PICK D, C : D = 0 .. Capacity - 1 /\ C = chunk(i)
      OBVIOUS
    <3>6. f \in Injection(C, D) /\ IsFiniteSet(D) /\ Cardinality(D) = Capacity
      BY <3>3, <3>4, <3>5
    <3> HIDE DEF f, chunk
    <3>7. IsFiniteSet(C) /\ Cardinality(C) <= Cardinality(D)
      BY <3>6, FS_Injection
    <3> QED
      BY <3>5, <3>6, <3>7
  <2>7. chunk(i) \in SUBSET Keys
    BY <2>4
  <2>8. Cardinality(chunk(i)) < Word
    <3>1. Cardinality(chunk(i)) \in Nat
      BY <2>6, FS_CardinalityType
    <3> QED
      BY <3>1, <2>6, CapacityAssumption, CapacityFits, WordAssumption
  <2> HIDE DEF chunk
  <2> QED
    BY <2>5, <2>6, <2>7, <2>8 DEF TableSets
<1>6. ASSUME NEW i \in 1 .. count
      PROVE  table(i) \in AnyTable /\ table(i).id = firstId + i - 1
  <2>1. firstId + i - 1 \in Nat \ {0}
    BY <1>4
  <2>2. chunk(i) \in SUBSET ks
    OBVIOUS
  <2> HIDE DEF chunk, count
  <2>3. [k \in chunk(i) |-> kv[k]] \in [chunk(i) -> Nat]
    BY <2>2
  <2> QED
    BY <2>1, <2>3, <1>5 DEF AnyTable
<1>a. PICK c \in Nat : c = count
  BY <1>4
<1>b. PICK b : b = BuildTables(kv, firstId)
  OBVIOUS
<1>7. c = count /\ b = BuildTables(kv, firstId)
  BY <1>a, <1>b
<1>8. /\ b \in [1 .. c -> AnyTable] /\ \A i \in 1 .. c : b[i].id = firstId + i - 1
  <2>1. b = [i \in 1 .. c |-> table(i)] /\ \A i \in 1 .. c : table(i) \in AnyTable /\ table(i).id = firstId + i - 1
    BY <1>3, <1>6, <1>7
  <2> HIDE DEF table
  <2> QED
    BY <2>1
<1>9. b \in Seq(AnyTable) /\ DOMAIN b = 1 .. c
  BY <1>8, SeqDef
<1> QED
  BY <1>7, <1>8, <1>9

-----------------------------------------------------------------------------
(***************************************************************************)
(* What the workers read: scores, and the outcomes of the searches.        *)
(***************************************************************************)

(* Quotients compared by cross-multiplication are ordered. *)
LEMMA CrossOrder ==
  ASSUME NEW a \in Nat, NEW b \in Nat, NEW c \in Nat,
         NEW x \in Nat \ {0}, NEW y \in Nat \ {0}, NEW z \in Nat \ {0},
         a * y >= b * x, b * z >= c * y
  PROVE  /\ a * z >= c * x
         /\ a * z = c * x => a * y = b * x /\ b * z = c * y
<1>1. (a * y) * z >= (b * x) * z
  <2>1. PICK p \in Nat, q \in Nat : p = a * y /\ q = b * x
    OBVIOUS
  <2>2. p * z >= q * z
    BY <2>1
  <2> QED
    BY <2>1, <2>2
<1>2. (b * z) * x >= (c * y) * x
  <2>1. PICK p \in Nat, q \in Nat : p = b * z /\ q = c * y
    OBVIOUS
  <2>2. p * x >= q * x
    BY <2>1
  <2> QED
    BY <2>1, <2>2
<1>3. PICK p \in Nat, q \in Nat : p = a * z /\ q = c * x
  OBVIOUS
<1>4. (a * y) * z = y * p /\ (b * x) * z = (b * z) * x /\ (c * y) * x = y * q
  BY <1>3
<1>5. y * p >= y * q
  BY <1>1, <1>2, <1>4
<1>6. p >= q
  BY <1>5
<1>7. ASSUME p = q
      PROVE  a * y = b * x /\ b * z = c * y
  <2>1. (a * y) * z = (b * x) * z /\ (b * z) * x = (c * y) * x
    BY <1>1, <1>2, <1>4, <1>7
  <2>2. PICK k \in Nat, l \in Nat, m \in Nat, n \in Nat :
          k = a * y /\ l = b * x /\ m = b * z /\ n = c * y
    OBVIOUS
  <2>3. k * z = l * z /\ m * x = n * x
    BY <2>1, <2>2
  <2>4. k = l /\ m = n
    BY <2>3
  <2> QED
    BY <2>2, <2>4
<1> QED
  BY <1>3, <1>6, <1>7

(* pick_compact_levels answers with levels. *)
LEMMA PickFacts ==
  ASSUME tables[0] \in Seq(AnyTable), totalSize \in [LevelSet -> 0 .. Word - 1]
  PROVE  PickCompactLevels \in Seq(LevelSet)
<1> DEFINE l0 == IF ~ AnyOverlaps(ranges[0], InfoRange) /\ IsLevel0Compactable THEN {0} ELSE {}
           picked == l0 \cup {l \in LevelSet \ {0} : IsCompactable(l, 0)}
           num(l) == IF l = 0 THEN Len(tables[0]) ELSE totalSize[l]
           den(l) == IF l = 0 THEN NumL0Tables ELSE MaxTotalSize[l]
           before(a, b) == num(a) * den(b) > num(b) * den(a)
                           \/ (num(a) * den(b) = num(b) * den(a) /\ a < b)
           R == {p \in picked \X picked : before(p[1], p[2])}
<1>1. picked \in SUBSET LevelSet
  BY MaxLevelsAssumption DEF LevelSet
<1>2. IsFiniteSet(picked)
  <2>1. IsFiniteSet(LevelSet)
    BY MaxLevelsAssumption, FS_Interval DEF LevelSet
  <2> HIDE DEF picked
  <2> QED
    BY <2>1, <1>1, FS_Subset
<1>3. \A l \in LevelSet : num(l) \in Nat /\ den(l) \in Nat \ {0} /\ l \in Nat
  <2> SUFFICES ASSUME NEW l \in LevelSet
               PROVE  num(l) \in Nat /\ den(l) \in Nat \ {0} /\ l \in Nat
    OBVIOUS
  <2>1. Len(tables[0]) \in Nat /\ totalSize[l] \in Nat /\ NumL0Tables \in Nat \ {0} /\ l \in Nat
    BY WordAssumption, StallAssumption, MaxLevelsAssumption DEF LevelSet
  <2>2. l # 0 => MaxTotalSize[l] \in Nat \ {0}
    BY SizesAssumption, MaxLevelsAssumption, WordAssumption DEF LevelSet
  <2> QED
    BY <2>1, <2>2
<1>4. PickCompactLevels = [n \in 1 .. Cardinality(picked) |-> Nth(picked, before, n)]
  BY Zenon DEF PickCompactLevels
<1> HIDE DEF picked, num, den
<1>5. \A n \in 1 .. Cardinality(picked) :
        \E x \in picked : Cardinality({y \in picked : <<y, x>> \in R}) = n - 1
  <2>1. \A x \in picked : <<x, x>> \notin R
    BY <1>1, <1>3
  <2>2. ASSUME NEW x \in picked, NEW y \in picked, NEW z \in picked,
               <<x, y>> \in R, <<y, z>> \in R
        PROVE  <<x, z>> \in R
    <3>1. PICK a \in Nat, b \in Nat, c \in Nat : a = num(x) /\ b = num(y) /\ c = num(z)
      BY <1>1, <1>3
    <3>2. PICK p \in Nat \ {0}, q \in Nat \ {0}, r \in Nat \ {0} :
            p = den(x) /\ q = den(y) /\ r = den(z)
      BY <1>1, <1>3
    <3>3. /\ a * q > b * p \/ (a * q = b * p /\ x < y)
          /\ b * r > c * q \/ (b * r = c * q /\ y < z)
      BY <2>2, <3>1, <3>2
    <3>4. a * q >= b * p /\ b * r >= c * q
      BY <3>3
    <3>5. a * r >= c * p /\ (a * r = c * p => a * q = b * p /\ b * r = c * q)
      BY <3>4, CrossOrder
    <3>6. x \in Nat /\ y \in Nat /\ z \in Nat
      BY <1>1, <1>3
    <3>7. a * q \in Nat /\ b * p \in Nat /\ b * r \in Nat /\ c * q \in Nat /\ a * r \in Nat /\ c * p \in Nat
      OBVIOUS
    <3>8. a * r > c * p \/ (a * r = c * p /\ x < z)
      BY <3>3, <3>5, <3>6, <3>7
    <3> QED
      BY <3>1, <3>2, <3>8
  <2>3. ASSUME NEW x \in picked, NEW y \in picked, x # y
        PROVE  <<x, y>> \in R \/ <<y, x>> \in R
    <3>1. PICK a \in Nat, b \in Nat : a = num(x) * den(y) /\ b = num(y) * den(x)
      BY <1>1, <1>3
    <3>2. x \in Nat /\ y \in Nat
      BY <1>1, <1>3
    <3>3. \/ a > b \/ (a = b /\ x < y)
          \/ b > a \/ (b = a /\ y < x)
      BY <2>3, <3>2
    <3> QED
      BY <3>1, <3>3
  <2> HIDE DEF R
  <2> QED
    BY <1>2, <2>1, <2>2, <2>3, RankExists
<1>6. \A x \in picked : {y \in picked : <<y, x>> \in R} = {y \in picked : before(y, x)}
  OBVIOUS
<1>7. ASSUME NEW n \in 1 .. Cardinality(picked)
      PROVE  Nth(picked, before, n) \in LevelSet
  <2>1. \E x \in picked : Cardinality({y \in picked : before(y, x)}) = n - 1
    BY <1>5, <1>6
  <2> QED
    BY <2>1, <1>1, Zenon DEF Nth
<1>8. PICK c \in Nat : c = Cardinality(picked)
  BY <1>2, FS_CardinalityType
<1>9. PickCompactLevels \in [1 .. c -> LevelSet]
  BY <1>4, <1>7, <1>8, Zenon
<1> QED
  BY <1>9, SeqDef

(* The binary searches answer with indices, or the end of the list. *)
LEMMA SearchFacts ==
  ASSUME NEW s \in Seq(AnyTable), NEW range
  PROVE  OverlapLeft(s, range) \in SUBSET Nat /\ OverlapRight(s, range) \in SUBSET Nat
<1>1. \A i \in DOMAIN s : i - 1 \in Nat
  BY SeqDomain
<1>2. ASSUME NEW I \in SUBSET DOMAIN s
      PROVE  Cardinality(I) \in Nat
  BY SeqDomain, FS_Subset, FS_CardinalityType
<1>3. OverlapLeft(s, range) \in SUBSET Nat
  <2>1. Cardinality({i \in DOMAIN s : Biggest(s[i]) < range.left}) \in Nat
    BY <1>2
  <2> QED
    BY <1>1, <2>1 DEF OverlapLeft, BinarySearch
<1>4. BinarySearch(s, Smallest, range.right).at \in SUBSET Nat
  <2>1. Cardinality({i \in DOMAIN s : Smallest(s[i]) < range.right}) \in Nat
    BY <1>2
  <2> QED
    BY <1>1, <2>1 DEF BinarySearch
<1>5. OverlapRight(s, range) \in SUBSET Nat
  BY <1>4 DEF OverlapRight
<1> QED
  BY <1>3, <1>5

-----------------------------------------------------------------------------
(***************************************************************************)
(* The inductive invariant.  First the workers: the types of what they     *)
(* hold, and what is known of a CompactDef at each point of do_compact.    *)
(***************************************************************************)
Points == {"idle", "dead", "this", "stuck"} \cup Picking \cup Compacting

CompactDefs ==
  [level : 0 .. MaxLevels - 2, top : Seq(AnyTable), bot : Seq(AnyTable),
   this_range : KeyRange \cup {NoRange}, next_range : KeyRange \cup {NoRange},
   this_size : 0 .. Word - 1, cands : Seq(AnyTable), left : Nat, right : Nat,
   new : Seq(AnyTable)]

(* The tables of this level are chosen, and their range. *)
Chosen(d) ==
  /\ d.top # <<>>
  /\ d.level = 0 => d.this_range = InfoRange /\ d.this_size = 0
  /\ d.level > 0 => d.this_range = GetRange(d.top)

(* Those of the next level too. *)
Admitted(d) ==
  /\ Chosen(d)
  /\ d.next_range \in FiniteRange
  /\ d.bot # <<>> => d.next_range = GetRange(d.bot)

PhaseOK(a, d) ==
  /\ a \in {"this", "left"} => d.this_size = 0
  /\ a \in {"right", "slice"} => Chosen(d)
  /\ a \in Compacting => Admitted(d)

WorkersOK ==
  /\ at \in [Workers -> Points]
  /\ cd \in [Workers -> CompactDefs]
  /\ picks \in [Workers -> Seq(LevelSet)]
  /\ \A w \in Workers : /\ PhaseOK(at[w], cd[w])
                        /\ at[w] \notin {"idle", "dead"} => picks[w] # <<>>

(* The lists of the levels and their size counters *)
ListsOK ==
  /\ tables \in [LevelSet -> Seq(AnyTable)]
  /\ totalSize \in [LevelSet -> 0 .. Word - 1]
  /\ SizesExact

(* The disk and the flush task *)
DiskOK ==
  /\ nextFileId \in Nat \ {0} /\ flushes \in Nat
  /\ IsFiniteSet(files)
  /\ DOMAIN manifest \subseteq 1 .. nextFileId - 1
  /\ \A i \in DOMAIN manifest : manifest[i] \in LevelSet
  /\ flusher \in [at : {"idle"}] \cup
                 [at : {"created", "adding", "stalled"}, table : AnyTable]

(***************************************************************************)
(* The tables known anywhere: on disk, listed, held by a worker or by the  *)
(* flush task.  Their ids were handed out, no two tables have the same.    *)
(***************************************************************************)
TablesIn(d) == ToSet(d.top) \cup ToSet(d.bot) \cup ToSet(d.cands) \cup ToSet(d.new)

Known ==
  files \cup (UNION {ToSet(tables[l]) : l \in LevelSet})
    \cup (UNION {TablesIn(cd[w]) : w \in Workers})
    \cup (IF flusher.at = "idle" THEN {} ELSE {flusher.table})

IdsOK(T, n) ==
  /\ \A t \in T : t.id < n
  /\ \A t, u \in T : t.id = u.id => t = u

KnownOK == Known \subseteq AnyTable /\ IdsOK(Known, nextFileId)

LInv == WorkersOK /\ ListsOK /\ DiskOK /\ KnownOK

-----------------------------------------------------------------------------
(* Everything known is in T *)
Within(T) ==
  /\ files \subseteq T
  /\ \A l \in LevelSet : ToSet(tables[l]) \subseteq T
  /\ \A w \in Workers : TablesIn(cd[w]) \subseteq T
  /\ flusher.at # "idle" => flusher.table \in T

(* What Known is the least of *)
LEMMA WithinKnown == Within(Known) /\ \A T : Within(T) => Known \subseteq T
<1>1. Within(Known)
  BY DEF Within, Known
<1>2. ASSUME NEW T, Within(T)
      PROVE  Known \subseteq T
  BY <1>2 DEF Within, Known
<1> QED
  BY <1>1, <1>2

(* The set of known tables grows by new ones, with fresh ids. *)
LEMMA KnownGrows ==
  ASSUME NEW T \in SUBSET AnyTable, NEW n \in Nat, IdsOK(T, n),
         NEW N \in SUBSET AnyTable, NEW m \in Nat, n <= m,
         \A t \in N : n <= t.id /\ t.id < m,
         \A t, u \in N : t.id = u.id => t = u,
         Within(T \cup N)', nextFileId' = m
  PROVE  KnownOK'
<1>1. Known' \subseteq T \cup N
  <2>1. PICK K : K = T \cup N
    OBVIOUS
  <2>2. Within(K)'
    BY <2>1
  <2>3. Known' \subseteq K
    BY <2>2 DEF Within, Known
  <2> QED
    BY <2>1, <2>3
<1>2. IdsOK(T \cup N, m)
  <2>1. \A t \in T \cup N : t.id \in Nat
    BY DEF AnyTable
  <2> QED
    BY <2>1 DEF IdsOK
<1> QED
  BY <1>1, <1>2 DEF KnownOK, IdsOK

(* One worker moves. *)
Moves(w, a, d, p) ==
  /\ at' = [at EXCEPT ![w] = a] /\ a \in Points
  /\ cd' = [cd EXCEPT ![w] = d] /\ d \in CompactDefs
  /\ picks' = [picks EXCEPT ![w] = p] /\ p \in Seq(LevelSet)
  /\ PhaseOK(a, d)
  /\ a \notin {"idle", "dead"} => p # <<>>

(* The facts about the workers stay, and no other worker is touched. *)
LEMMA OneMoves ==
  ASSUME WorkersOK, NEW w \in Workers, NEW a, NEW d, NEW p, Moves(w, a, d, p)
  PROVE  /\ WorkersOK'
         /\ \A v \in Workers : cd'[v] = cd[v] \/ cd'[v] = d
<1>1. at' \in [Workers -> Points] /\ cd' \in [Workers -> CompactDefs] /\ picks' \in [Workers -> Seq(LevelSet)]
  BY DEF Moves, WorkersOK
<1>2. /\ at'[w] = a /\ cd'[w] = d /\ picks'[w] = p
      /\ \A v \in Workers \ {w} : at'[v] = at[v] /\ cd'[v] = cd[v] /\ picks'[v] = picks[v]
  BY DEF Moves, WorkersOK
<1>3. \A v \in Workers : /\ PhaseOK(at'[v], cd'[v])
                         /\ at'[v] \notin {"idle", "dead"} => picks'[v] # <<>>
  BY <1>2 DEF Moves, WorkersOK
<1> QED
  BY <1>1, <1>2, <1>3 DEF WorkersOK

(* One list changes. *)
LEMMA OneList ==
  ASSUME ListsOK, NEW l \in LevelSet, NEW s \in Seq(AnyTable),
         tables' = [tables EXCEPT ![l] = s],
         totalSize' = [totalSize EXCEPT ![l] = SumOfSizes(s) % Word]
  PROVE  /\ ListsOK'
         /\ \A k \in LevelSet : tables'[k] = tables[k] \/ tables'[k] = s
<1>1. SumOfSizes(s) % Word \in 0 .. Word - 1
  BY SumOfIs, WordAssumption
<1>2. tables' \in [LevelSet -> Seq(AnyTable)] /\ totalSize' \in [LevelSet -> 0 .. Word - 1]
  BY <1>1 DEF ListsOK
<1>3. /\ tables'[l] = s /\ totalSize'[l] = SumOfSizes(s) % Word
      /\ \A k \in LevelSet \ {l} : tables'[k] = tables[k] /\ totalSize'[k] = totalSize[k]
  BY DEF ListsOK
<1>4. \A k \in LevelSet : totalSize'[k] = SumOfSizes(tables'[k]) % Word
  BY <1>3 DEF ListsOK, SizesExact
<1> QED
  BY <1>2, <1>3, <1>4 DEF ListsOK, SizesExact

-----------------------------------------------------------------------------
(***************************************************************************)
(* What each step of a worker does to it.                                  *)
(***************************************************************************)

(* Where a worker starts from *)
LEMMA WorkerFacts ==
  ASSUME WorkersOK, ListsOK, NEW K, Within(K), NEW w \in Workers
  PROVE  /\ at[w] \in Points /\ cd[w] \in CompactDefs /\ picks[w] \in Seq(LevelSet)
         /\ PhaseOK(at[w], cd[w]) /\ (at[w] \notin {"idle", "dead"} => picks[w] # <<>>)
         /\ cd[w].level \in LevelSet /\ cd[w].level + 1 \in LevelSet /\ cd[w].level \in Nat
         /\ \A l \in LevelSet : tables[l] \in Seq(AnyTable) /\ ToSet(tables[l]) \subseteq K
         /\ TablesIn(cd[w]) \subseteq K
         /\ \A a : at' = [at EXCEPT ![w] = a] => at'[w] = a
         /\ UNCHANGED cd => cd' = [cd EXCEPT ![w] = cd[w]]
         /\ UNCHANGED picks => picks' = [picks EXCEPT ![w] = picks[w]]
<1>1. /\ at[w] \in Points /\ cd[w] \in CompactDefs /\ picks[w] \in Seq(LevelSet)
      /\ PhaseOK(at[w], cd[w]) /\ (at[w] \notin {"idle", "dead"} => picks[w] # <<>>)
  BY DEF WorkersOK
<1>2. cd[w].level \in LevelSet /\ cd[w].level + 1 \in LevelSet /\ cd[w].level \in Nat
  <2>1. cd[w].level \in 0 .. MaxLevels - 2
    BY <1>1 DEF CompactDefs
  <2> QED
    BY <2>1, MaxLevelsAssumption DEF LevelSet
<1>3. \A l \in LevelSet : tables[l] \in Seq(AnyTable) /\ ToSet(tables[l]) \subseteq K
  BY DEF ListsOK, Within
<1>4. TablesIn(cd[w]) \subseteq K
  BY DEF Within
<1>5. /\ \A a : at' = [at EXCEPT ![w] = a] => at'[w] = a
      /\ UNCHANGED cd => cd' = [cd EXCEPT ![w] = cd[w]]
      /\ UNCHANGED picks => picks' = [picks EXCEPT ![w] = picks[w]]
  BY DEF WorkersOK
<1> QED
  BY <1>1, <1>2, <1>3, <1>4, <1>5

(* CompactDef::new *)
LEMMA NewCdFacts ==
  ASSUME NEW l \in 0 .. MaxLevels - 2
  PROVE  /\ NewCd(l) \in CompactDefs /\ TablesIn(NewCd(l)) = {}
         /\ NewCd(l).this_size = 0 /\ NewCd(l).level = l
<1>1. NewCd(l) \in CompactDefs
  BY WordAssumption DEF NewCd, CompactDefs
<1>2. TablesIn(NewCd(l)) = {} /\ NewCd(l).this_size = 0 /\ NewCd(l).level = l
  BY DEF NewCd, TablesIn, ToSet
<1> QED
  BY <1>1, <1>2

(* A worker ends up with a CompactDef that has no tables outside K. *)
Effect(w, K) == \E a, d, p : Moves(w, a, d, p) /\ TablesIn(d) \subseteq K

(* Steps that leave the CompactDef alone *)
LEMMA CdKept ==
  ASSUME WorkersOK, ListsOK, NEW K, Within(K), NEW w \in Workers,
         \/ Tick(w) \/ SanityPanics(w) \/ SlicePanics(w) \/ BuildFails(w) \/ BuildPanics(w)
         \/ WriteManifest(w) \/ ManifestRefuses(w) \/ ReplaceNext(w) \/ DeleteThis(w)
  PROVE  Effect(w, K)
<1>1. CASE Tick(w)
  <2>1. PickCompactLevels \in Seq(LevelSet)
    <3>1. tables[0] \in Seq(AnyTable) /\ totalSize \in [LevelSet -> 0 .. Word - 1]
      BY MaxLevelsAssumption DEF ListsOK, LevelSet
    <3> QED
      BY <3>1, PickFacts
  <2>2. Moves(w, "idle", cd[w], PickCompactLevels)
    <3>1. at' = [at EXCEPT ![w] = "idle"]
      BY <1>1 DEF Tick, WorkersOK
    <3>2. /\ at[w] = "idle" /\ UNCHANGED cd
          /\ picks' = [picks EXCEPT ![w] = PickCompactLevels]
      BY <1>1 DEF Tick
    <3>3. /\ cd[w] \in CompactDefs /\ PhaseOK("idle", cd[w])
          /\ cd' = [cd EXCEPT ![w] = cd[w]]
      BY <3>2, WorkerFacts
    <3> QED
      BY <2>1, <3>1, <3>2, <3>3 DEF Moves, Points
  <2> QED
    BY <2>2, WorkerFacts DEF Effect
<1>2. CASE SanityPanics(w)
  <2>1. Moves(w, "dead", cd[w], picks[w])
    BY <1>2, WorkerFacts DEF SanityPanics, Moves, PhaseOK, Points, Compacting
  <2> QED
    BY <2>1, WorkerFacts DEF Effect
<1>3. CASE SlicePanics(w)
  <2>1. Moves(w, "stuck", cd[w], picks[w])
    BY <1>3, WorkerFacts DEF SlicePanics, Moves, PhaseOK, Points, Picking, Compacting
  <2> QED
    BY <2>1, WorkerFacts DEF Effect
<1>4. ASSUME at[w] \in Compacting, NEW a \in Compacting, at' = [at EXCEPT ![w] = a],
             UNCHANGED <<cd, picks>>
      PROVE  Effect(w, K)
  <2>1. Moves(w, a, cd[w], picks[w])
    BY <1>4, WorkerFacts DEF Moves, PhaseOK, Points, Compacting
  <2> QED
    BY <2>1, WorkerFacts DEF Effect
<1>5. CASE BuildFails(w)
  BY <1>4, <1>5 DEF BuildFails, Compacting
<1>6. CASE BuildPanics(w)
  BY <1>4, <1>6 DEF BuildPanics, Compacting
<1>7. CASE WriteManifest(w)
  BY <1>4, <1>7 DEF WriteManifest, Compacting
<1>8. CASE ManifestRefuses(w)
  BY <1>4, <1>8 DEF ManifestRefuses, Compacting
<1>9. CASE ReplaceNext(w)
  BY <1>4, <1>9 DEF ReplaceNext, Compacting
<1>10. CASE DeleteThis(w)
  BY <1>4, <1>10 DEF DeleteThis, Compacting
<1> QED
  BY <1>1, <1>2, <1>3, <1>5, <1>6, <1>7, <1>8, <1>9, <1>10

(* do_compact locks the levels and copies this level's tables. *)
LEMMA LockEffect ==
  ASSUME WorkersOK, ListsOK, NEW K, Within(K), NEW w \in Workers, LockThis(w) \/ LockNext(w)
  PROVE  Effect(w, K)
<1>1. CASE LockThis(w)
  <2>1. PICK l : l = Head(picks[w])
    OBVIOUS
  <2>2. /\ picks[w] # <<>> /\ l + 1 < MaxLevels /\ at' = [at EXCEPT ![w] = "this"]
        /\ cd' = [cd EXCEPT ![w] = NewCd(l)] /\ UNCHANGED picks
    BY <1>1, <2>1 DEF LockThis
  <2>3. l \in LevelSet
    <3>1. picks[w] \in Seq(LevelSet)
      BY WorkerFacts
    <3> QED
      BY <3>1, <2>1, <2>2
  <2>4. l \in 0 .. MaxLevels - 2
    BY <2>2, <2>3, MaxLevelsAssumption DEF LevelSet
  <2>5. Moves(w, "this", NewCd(l), picks[w])
    BY <2>2, <2>4, NewCdFacts, WorkerFacts DEF Moves, PhaseOK, Points, Compacting
  <2> QED
    BY <2>4, <2>5, NewCdFacts DEF Effect
<1>2. CASE LockNext(w)
  <2>1. PICK e \in CompactDefs : e = cd[w]
    BY WorkerFacts
  <2>2. PICK d : d = IF e.level = 0 THEN [e EXCEPT !.top = tables[0]]
                     ELSE [e EXCEPT !.cands = SortBySize(tables[e.level])]
    OBVIOUS
  <2>3. at[w] = "this" /\ at' = [at EXCEPT ![w] = "left"] /\ UNCHANGED picks
    BY <1>2 DEF LockNext
  <2>4. cd' = [cd EXCEPT ![w] = d]
    <3>1. cd' = [cd EXCEPT ![w] = IF cd[w].level = 0 THEN [cd[w] EXCEPT !.top = tables[0]]
                                  ELSE [cd[w] EXCEPT !.cands = SortBySize(tables[cd[w].level])]]
      BY <1>2 DEF LockNext
    <3> QED
      BY <3>1, <2>1, <2>2
  <2>5. e.level \in LevelSet /\ tables[e.level] \in Seq(AnyTable) /\ ToSet(tables[e.level]) \subseteq K
        /\ TablesIn(e) \subseteq K /\ e.this_size = 0
    BY <2>1, <2>3, WorkerFacts DEF PhaseOK
  <2>6. PICK q \in Seq(AnyTable) : q = SortBySize(tables[e.level]) /\ ToSet(q) \subseteq K
    BY <2>5, SortedLists
  <2>7. d \in CompactDefs /\ d.this_size = 0
    BY <2>2, <2>5, <2>6 DEF CompactDefs
  <2>8. TablesIn(d) \subseteq K
    <3>1. CASE e.level = 0
      <4>1. d = [e EXCEPT !.top = tables[0]] /\ ToSet(tables[0]) \subseteq K
        BY <2>2, <2>5, <3>1
      <4> QED
        BY <4>1, <2>5 DEF TablesIn, CompactDefs
    <3>2. CASE e.level # 0
      <4>1. d = [e EXCEPT !.cands = q]
        BY <2>2, <2>6, <3>2
      <4> QED
        BY <4>1, <2>5, <2>6 DEF TablesIn, CompactDefs
    <3> QED
      BY <3>1, <3>2
  <2>9. Moves(w, "left", d, picks[w])
    BY <2>3, <2>4, <2>7, WorkerFacts DEF Moves, PhaseOK, Points, Picking, Compacting
  <2> QED
    BY <2>8, <2>9 DEF Effect
<1> QED
  BY <1>1, <1>2

(* The worker is done with this level. *)
LEMMA IdleEffect ==
  ASSUME WorkersOK, ListsOK, NEW K, Within(K), NEW w \in Workers, ReturnFalse(w) \/ Finish(w)
  PROVE  Effect(w, K)
<1>1. 0 \in 0 .. MaxLevels - 2
  BY MaxLevelsAssumption
<1>2. PICK p : p \in Seq(LevelSet) /\ picks' = [picks EXCEPT ![w] = p]
  <2>1. CASE ReturnFalse(w)
    <3>1. picks' = [picks EXCEPT ![w] = <<>>]
      BY <2>1 DEF ReturnFalse
    <3>2. <<>> \in Seq(LevelSet)
      OBVIOUS
    <3> QED
      BY <3>1, <3>2, Zenon
  <2>2. CASE Finish(w)
    <3>1. at[w] = "finish" /\ picks' = [picks EXCEPT ![w] = Tail(picks[w])]
      BY <2>2 DEF Finish
    <3>2. picks[w] \in Seq(LevelSet) /\ picks[w] # <<>>
      BY <3>1, WorkerFacts
    <3>3. Tail(picks[w]) \in Seq(LevelSet)
      BY <3>2
    <3> QED
      BY <3>1, <3>3, Zenon
  <2> QED
    BY <2>1, <2>2
<1>3. at' = [at EXCEPT ![w] = "idle"] /\ cd' = [cd EXCEPT ![w] = NewCd(0)]
  BY DEF ReturnFalse, Finish
<1>4. Moves(w, "idle", NewCd(0), p)
  BY <1>1, <1>2, <1>3, NewCdFacts DEF Moves, PhaseOK, Points, Compacting
<1> QED
  BY <1>1, <1>4, NewCdFacts DEF Effect

(* The candidates that are left are among those copied. *)
LEMMA FreeFacts ==
  ASSUME WorkersOK, NEW w \in Workers
  PROVE  FreeCands(w) \in Seq(AnyTable) /\ ToSet(FreeCands(w)) \subseteq ToSet(cd[w].cands)
<1> DEFINE I == {i \in DOMAIN cd[w].cands : \E j \in 1 .. i :
                   ~ AnyOverlaps(ranges[cd[w].level], GetRange(<<cd[w].cands[j]>>))}
<1>1. cd[w].cands \in Seq(AnyTable)
  BY DEF WorkersOK, CompactDefs
<1>2. FreeCands(w) = Filter(cd[w].cands, I) /\ I \in SUBSET DOMAIN cd[w].cands
  BY DEF FreeCands
<1> HIDE DEF I
<1>3. FreeCands(w) \in Seq(AnyTable) /\ ToSet(FreeCands(w)) = {cd[w].cands[i] : i \in I}
  BY <1>1, <1>2, FilterFacts
<1> QED
  BY <1>2, <1>3 DEF ToSet

(* The searches on the next level *)
LEMMA SearchEffect ==
  ASSUME WorkersOK, ListsOK, NEW K \in SUBSET AnyTable, Within(K), NEW w \in Workers,
         SearchLeft(w) \/ SearchRight(w)
  PROVE  Effect(w, K)
<1>1. PICK e \in CompactDefs : e = cd[w]
  BY WorkerFacts
<1>2. /\ e.level \in LevelSet /\ e.level + 1 \in LevelSet /\ e.level \in Nat
      /\ tables[e.level + 1] \in Seq(AnyTable) /\ TablesIn(e) \subseteq K
      /\ PhaseOK(at[w], e) /\ (at[w] \notin {"idle", "dead"} => picks[w] # <<>>)
      /\ picks[w] \in Seq(LevelSet) /\ (UNCHANGED picks => picks' = [picks EXCEPT ![w] = picks[w]])
  BY <1>1, WorkerFacts
<1>3. \A range : /\ OverlapLeft(tables[e.level + 1], range) \in SUBSET Nat
                 /\ OverlapRight(tables[e.level + 1], range) \in SUBSET Nat
  BY <1>2, SearchFacts
<1>4. CASE SearchLeft(w)
  <2>1. PICK F \in Seq(AnyTable) : F = FreeCands(w) /\ ToSet(F) \subseteq K
    BY <1>1, <1>2, FreeFacts DEF TablesIn
  <2>2. /\ at[w] = "left" /\ at' = [at EXCEPT ![w] = "right"] /\ UNCHANGED picks
        /\ (IF e.level = 0 THEN e.top # <<>> ELSE F # <<>>)
    BY <1>1, <1>4, <2>1 DEF SearchLeft
  <2>3. PICK c : c = IF e.level = 0 THEN [e EXCEPT !.this_range = InfoRange]
                     ELSE [e EXCEPT !.top = <<Head(F)>>, !.this_range = GetRange(<<Head(F)>>),
                                    !.this_size = Size(Head(F)), !.cands = Tail(F)]
    OBVIOUS
  <2>4. PICK n \in Nat : cd' = [cd EXCEPT ![w] = [c EXCEPT !.left = n]]
    <3>1. PICK n \in OverlapLeft(tables[e.level + 1], SearchRange(c)) :
            cd' = [cd EXCEPT ![w] = [c EXCEPT !.left = n]]
      BY <1>1, <1>4, <2>1, <2>3 DEF SearchLeft
    <3> QED
      BY <3>1, <1>3
  <2>5. PICK d : d = [c EXCEPT !.left = n]
    OBVIOUS
  <2>6. d \in CompactDefs /\ Chosen(d) /\ TablesIn(d) \subseteq K
    <3>1. CASE e.level = 0
      <4>1. c = [e EXCEPT !.this_range = InfoRange] /\ e.top # <<>> /\ e.this_size = 0
        BY <1>2, <2>2, <2>3, <3>1 DEF PhaseOK
      <4>2. c \in CompactDefs /\ TablesIn(c) = TablesIn(e)
        BY <4>1 DEF CompactDefs, KeyRange, TablesIn
      <4>3. c.top # <<>> /\ c.level = 0 /\ c.this_range = InfoRange /\ c.this_size = 0
        BY <3>1, <4>1 DEF CompactDefs
      <4>4. d \in CompactDefs /\ TablesIn(d) = TablesIn(c)
        BY <2>5, <4>2 DEF CompactDefs, TablesIn
      <4>5. d.top = c.top /\ d.level = c.level /\ d.this_range = c.this_range /\ d.this_size = c.this_size
        BY <2>5, <4>2 DEF CompactDefs
      <4> QED
        BY <1>2, <4>2, <4>3, <4>4, <4>5 DEF Chosen
    <3>2. CASE e.level # 0
      <4>1. PICK t \in AnyTable : t = Head(F) /\ t \in K
        BY <2>1, <2>2, <3>2, PartFacts
      <4>2. PICK u \in Seq(AnyTable) : u = <<t>> /\ u # <<>> /\ ToSet(u) = {t}
        BY PartFacts, EmptySeq
      <4>3. PICK q \in Seq(AnyTable) : q = Tail(F) /\ ToSet(q) \subseteq K
        BY <2>1, <2>2, <3>2, PartFacts
      <4>4. PICK r \in FiniteRange : r = GetRange(u)
        BY <4>2, RangeFacts
      <4>5. PICK z \in 0 .. Word - 1 : z = Size(t)
        BY TableFacts, WordAssumption
      <4>6. c = [e EXCEPT !.top = u, !.this_range = r, !.this_size = z, !.cands = q]
        BY <2>3, <3>2, <4>1, <4>2, <4>3, <4>4, <4>5
      <4>7. c \in CompactDefs /\ c.top = u /\ c.this_range = r /\ c.level = e.level
        BY <4>6 DEF CompactDefs, KeyRange
      <4>8. TablesIn(c) \subseteq K
        <5>1. c.top = u /\ c.bot = e.bot /\ c.cands = q /\ c.new = e.new
          BY <4>6 DEF CompactDefs
        <5> QED
          BY <1>2, <4>1, <4>2, <4>3, <5>1 DEF TablesIn
      <4>9. d \in CompactDefs /\ d.top = u /\ d.this_range = r /\ d.level = e.level
            /\ TablesIn(d) = TablesIn(c)
        BY <2>5, <4>7 DEF CompactDefs, TablesIn
      <4> QED
        BY <3>2, <4>2, <4>4, <4>8, <4>9 DEF Chosen
    <3> QED
      BY <3>1, <3>2
  <2>7. Moves(w, "right", d, picks[w])
    BY <1>2, <2>2, <2>4, <2>5, <2>6 DEF Moves, PhaseOK, Points, Picking, Compacting
  <2> QED
    BY <2>6, <2>7 DEF Effect
<1>5. CASE SearchRight(w)
  <2>1. at[w] = "right" /\ at' = [at EXCEPT ![w] = "slice"] /\ UNCHANGED picks
    BY <1>5 DEF SearchRight
  <2>2. PICK n \in Nat : cd' = [cd EXCEPT ![w] = [e EXCEPT !.right = n]]
    <3>1. PICK n \in OverlapRight(tables[e.level + 1], SearchRange(e)) :
            cd' = [cd EXCEPT ![w] = [e EXCEPT !.right = n]]
      BY <1>1, <1>5 DEF SearchRight
    <3> QED
      BY <3>1, <1>3
  <2>3. PICK d : d = [e EXCEPT !.right = n]
    OBVIOUS
  <2>4. d \in CompactDefs /\ TablesIn(d) = TablesIn(e)
    BY <2>3 DEF CompactDefs, TablesIn
  <2>5. Chosen(d)
    BY <1>2, <2>1, <2>3 DEF CompactDefs, Chosen, PhaseOK
  <2>6. Moves(w, "slice", d, picks[w])
    BY <1>2, <2>1, <2>2, <2>3, <2>4, <2>5 DEF Moves, PhaseOK, Points, Picking, Compacting
  <2> QED
    BY <1>2, <2>4, <2>6 DEF Effect
<1> QED
  BY <1>4, <1>5

(* The CompactDef with the tables of the next level in it *)
LEMMA FilledFacts ==
  ASSUME ListsOK, NEW K \in SUBSET AnyTable, Within(K),
         NEW e \in CompactDefs, Chosen(e), TablesIn(e) \subseteq K,
         SliceOK(tables[e.level + 1], e.left, e.right)
  PROVE  /\ Filled(e) \in CompactDefs /\ Admitted(Filled(e)) /\ TablesIn(Filled(e)) \subseteq K
         /\ Filled(e).level = e.level /\ Filled(e).cands = e.cands
<1>1. e.level \in Nat /\ e.level + 1 \in LevelSet
  BY MaxLevelsAssumption DEF CompactDefs, LevelSet
<1>2. PICK b \in Seq(AnyTable) : b = Slice(tables[e.level + 1], e.left, e.right) /\ ToSet(b) \subseteq K
  <2>1. tables[e.level + 1] \in Seq(AnyTable) /\ ToSet(tables[e.level + 1]) \subseteq K
    BY <1>1 DEF ListsOK, Within
  <2>2. e.left \in Nat /\ e.right \in Nat
    BY DEF CompactDefs
  <2> QED
    BY <2>1, <2>2, PartFacts
<1>3. PICK r \in FiniteRange : /\ r = IF b = <<>> THEN SearchRange(e) ELSE GetRange(b)
                               /\ b # <<>> => r = GetRange(b)
  <2>1. GetRange(e.top) \in FiniteRange
    BY RangeFacts DEF CompactDefs, Chosen
  <2>2. b # <<>> => GetRange(b) \in FiniteRange
    BY RangeFacts
  <2> QED
    BY <2>1, <2>2 DEF SearchRange
<1>4. PICK f : f = [e EXCEPT !.bot = b, !.left = 0, !.right = 0, !.next_range = r]
  OBVIOUS
<1>5. /\ f \in CompactDefs /\ f.level = e.level /\ f.cands = e.cands /\ f.top = e.top
      /\ f.bot = b /\ f.next_range = r /\ f.this_range = e.this_range /\ f.this_size = e.this_size
      /\ f.new = e.new
  BY <1>4 DEF CompactDefs, KeyRange
<1>6. Filled(e) = IF IsMove(f) THEN [f EXCEPT !.new = f.top] ELSE f
  BY <1>2, <1>3, <1>4 DEF Filled
<1>7. /\ Filled(e) \in CompactDefs /\ Filled(e).level = e.level /\ Filled(e).cands = e.cands
      /\ Filled(e).top = e.top /\ Filled(e).bot = b /\ Filled(e).next_range = r
      /\ Filled(e).this_range = e.this_range /\ Filled(e).this_size = e.this_size
      /\ Filled(e).new \in {e.new, e.top}
  BY <1>5, <1>6 DEF CompactDefs
<1>8. Admitted(Filled(e))
  BY <1>3, <1>7 DEF Admitted, Chosen
<1>9. TablesIn(Filled(e)) \subseteq K
  BY <1>2, <1>7 DEF TablesIn
<1> QED
  BY <1>7, <1>8, <1>9

(* compare_and_add admits the compaction or refuses it. *)
LEMMA FillEffect ==
  ASSUME WorkersOK, ListsOK, NEW K \in SUBSET AnyTable, Within(K), NEW w \in Workers,
         FillTables(w) \/ Refused(w)
  PROVE  Effect(w, K)
<1>1. PICK e \in CompactDefs : e = cd[w]
  BY WorkerFacts
<1>2. /\ at[w] = "slice" /\ SliceOK(tables[e.level + 1], e.left, e.right)
  BY <1>1 DEF FillTables, Refused
<1>3. /\ TablesIn(e) \subseteq K /\ Chosen(e) /\ picks[w] # <<>>
      /\ picks[w] \in Seq(LevelSet) /\ (UNCHANGED picks => picks' = [picks EXCEPT ![w] = picks[w]])
  BY <1>1, <1>2, WorkerFacts DEF PhaseOK
<1>4. PICK f \in CompactDefs : f = Filled(e) /\ Admitted(f) /\ TablesIn(f) \subseteq K
                               /\ f.level = e.level
  BY <1>2, <1>3, FilledFacts
<1>5. CASE FillTables(w)
  <2>b. <<>> \in Seq(AnyTable)
    OBVIOUS
  <2>a. PICK z \in Seq(AnyTable) : z = <<>>
    BY <2>b, Zenon
  <2>1. PICK d : d = [f EXCEPT !.cands = z]
    OBVIOUS
  <2>2. PICK a \in {"manifest", "build"} : at' = [at EXCEPT ![w] = a]
    BY <1>5 DEF FillTables
  <2>3. cd' = [cd EXCEPT ![w] = d] /\ UNCHANGED picks
    BY <1>1, <1>4, <1>5, <2>a, <2>1 DEF FillTables
  <2>4. d \in CompactDefs
    BY <2>1 DEF CompactDefs
  <2>5. Admitted(d)
    BY <1>4, <2>1 DEF CompactDefs, Admitted, Chosen
  <2>6. TablesIn(d) \subseteq K
    <3>1. ToSet(z) = {}
      BY <2>a DEF ToSet
    <3> QED
      BY <1>4, <2>1, <3>1 DEF CompactDefs, TablesIn
  <2>7. Moves(w, a, d, picks[w])
    BY <1>3, <2>2, <2>3, <2>4, <2>5 DEF Moves, PhaseOK, Points, Compacting
  <2> QED
    BY <2>6, <2>7 DEF Effect
<1>6. CASE Refused(w)
  <2>1. CASE ReturnFalse(w)
    BY <2>1, IdleEffect
  <2>2. CASE ~ ReturnFalse(w)
    <3>1. /\ at' = [at EXCEPT ![w] = "left"] /\ UNCHANGED picks
          /\ cd' = [cd EXCEPT ![w] = [NewCd(f.level) EXCEPT !.cands = f.cands]]
      BY <1>1, <1>4, <1>6, <2>2 DEF Refused
    <3>2. PICK d : d = [NewCd(f.level) EXCEPT !.cands = f.cands]
      OBVIOUS
    <3>3. f.level \in 0 .. MaxLevels - 2 /\ f.cands \in Seq(AnyTable) /\ ToSet(f.cands) \subseteq K
      BY <1>4 DEF CompactDefs, TablesIn
    <3>4. d \in CompactDefs /\ d.this_size = 0
      BY <3>2, <3>3, NewCdFacts DEF CompactDefs
    <3>5. TablesIn(d) \subseteq K
      <4>1. d.top = <<>> /\ d.bot = <<>> /\ d.new = <<>> /\ d.cands = f.cands
        BY <3>2 DEF NewCd
      <4>2. ToSet(<<>>) = {}
        BY DEF ToSet
      <4> QED
        BY <3>3, <4>1, <4>2 DEF TablesIn
    <3>6. Moves(w, "left", d, picks[w])
      BY <1>3, <3>1, <3>2, <3>4 DEF Moves, PhaseOK, Points, Picking, Compacting
    <3> QED
      BY <3>5, <3>6 DEF Effect
  <2> QED
    BY <2>1, <2>2
<1> QED
  BY <1>5, <1>6

(* The tables that a compaction builds, under the next ids *)
LEMMA BuiltFacts ==
  ASSUME NEW e \in CompactDefs, nextFileId \in Nat \ {0}
  PROVE  /\ Built(e) \in Seq(AnyTable) /\ Len(Built(e)) \in Nat
         /\ \A t \in ToSet(Built(e)) :
              nextFileId <= t.id /\ t.id < nextFileId + Len(Built(e))
         /\ \A t, u \in ToSet(Built(e)) : t.id = u.id => t = u
<1>1. e.top \in Seq(AnyTable) /\ e.bot \in Seq(AnyTable)
  BY DEF CompactDefs
<1>2. Reverse(e.top) \in Seq(AnyTable)
  <2>1. PICK n \in Nat : n = Len(e.top)
    BY <1>1
  <2>2. Reverse(e.top) = [i \in 1 .. n |-> e.top[(n - i) + 1]]
    BY <2>1 DEF Reverse
  <2>3. \A i \in 1 .. n : e.top[(n - i) + 1] \in AnyTable
    BY <1>1, <2>1
  <2>4. Reverse(e.top) \in [1 .. n -> AnyTable]
    BY <2>2, <2>3
  <2> QED
    BY <2>4, SeqDef
<1>3. Order(e) \in Seq(AnyTable)
  BY <1>1, <1>2, ConcatProperties DEF Order, MergeOrder
<1>4. PICK ks \in SUBSET Keys : IsFiniteSet(ks) /\ Merge(Order(e)) \in [ks -> Nat]
  BY <1>3, MergeFacts
<1>5. PICK b : b = Built(e)
  OBVIOUS
<1>6. b \in Seq(AnyTable) /\ \A i \in DOMAIN b : b[i].id = nextFileId + i - 1
  <2>1. PICK n \in Nat \ {0} : n = nextFileId
    OBVIOUS
  <2>2. b = BuildTables(Merge(Order(e)), n)
    BY <1>5, <2>1 DEF Built
  <2> QED
    BY <2>1, <2>2, <1>4, BuildFacts
<1>7. PICK n \in Nat : n = Len(b) /\ DOMAIN b = 1 .. n
  BY <1>6
<1>8. \A t \in ToSet(b) : \E i \in 1 .. n : t = b[i] /\ t.id = nextFileId + i - 1
  BY <1>6, <1>7 DEF ToSet
<1>9. \A t \in ToSet(b) : nextFileId <= t.id /\ t.id < nextFileId + n
  BY <1>7, <1>8
<1>10. \A t, u \in ToSet(b) : t.id = u.id => t = u
  <2> SUFFICES ASSUME NEW t \in ToSet(b), NEW u \in ToSet(b), t.id = u.id
               PROVE  t = u
    OBVIOUS
  <2>1. PICK i \in 1 .. n : t = b[i] /\ t.id = nextFileId + i - 1
    BY <1>8
  <2>2. PICK j \in 1 .. n : u = b[j] /\ u.id = nextFileId + j - 1
    BY <1>8
  <2>3. i = j
    BY <2>1, <2>2, <1>7
  <2> QED
    BY <2>1, <2>2, <2>3
<1> QED
  BY <1>5, <1>6, <1>7, <1>9, <1>10

(* compact_build_tables succeeds. *)
LEMMA BuildEffect ==
  ASSUME WorkersOK, ListsOK, nextFileId \in Nat \ {0}, NEW K, Within(K), NEW w \in Workers, Build(w)
  PROVE  Effect(w, K \cup ToSet(Built(cd[w])))
<1>1. PICK e \in CompactDefs : e = cd[w]
  BY WorkerFacts
<1>2. PICK b \in Seq(AnyTable) : b = Built(e)
  BY BuiltFacts
<1>3. PICK d : d = [e EXCEPT !.new = b]
  OBVIOUS
<1>4. /\ at[w] = "build" /\ at' = [at EXCEPT ![w] = "manifest"] /\ UNCHANGED picks
      /\ cd' = [cd EXCEPT ![w] = d]
  BY <1>1, <1>2, <1>3 DEF Build
<1>5. /\ TablesIn(e) \subseteq K /\ PhaseOK(at[w], e) /\ picks[w] # <<>>
      /\ picks[w] \in Seq(LevelSet) /\ picks' = [picks EXCEPT ![w] = picks[w]]
  BY <1>1, <1>4, WorkerFacts
<1>6. d \in CompactDefs
  BY <1>3 DEF CompactDefs
<1>7. Admitted(d)
  <2>1. Admitted(e)
    BY <1>4, <1>5 DEF PhaseOK, Compacting
  <2> QED
    BY <1>3, <2>1 DEF CompactDefs, Admitted, Chosen
<1>8. TablesIn(d) \subseteq K \cup ToSet(b)
  BY <1>3, <1>5 DEF CompactDefs, TablesIn
<1>9. Moves(w, "manifest", d, picks[w])
  BY <1>4, <1>5, <1>6, <1>7 DEF Moves, PhaseOK, Points, Compacting
<1> QED
  BY <1>1, <1>2, <1>8, <1>9 DEF Effect

-----------------------------------------------------------------------------
(***************************************************************************)
(* The invariant is inductive.                                             *)
(***************************************************************************)

(* A worker moves; the lists and the disk are fine. *)
LEMMA WorkerInv ==
  ASSUME LInv, NEW K \in SUBSET AnyTable, Within(K), IdsOK(K, nextFileId),
         NEW N \in SUBSET AnyTable,
         \A t \in N : nextFileId <= t.id /\ t.id < nextFileId',
         \A t, u \in N : t.id = u.id => t = u,
         nextFileId <= nextFileId',
         NEW w \in Workers, Effect(w, K \cup N),
         files' \subseteq K \cup N, \A l \in LevelSet : ToSet(tables'[l]) \subseteq K \cup N,
         UNCHANGED flusher, ListsOK', DiskOK'
  PROVE  LInv'
<1>1. PICK a, d, p : Moves(w, a, d, p) /\ TablesIn(d) \subseteq K \cup N
  BY DEF Effect
<1>2. WorkersOK' /\ \A v \in Workers : cd'[v] = cd[v] \/ cd'[v] = d
  BY <1>1, OneMoves DEF LInv
<1>3. Within(K \cup N)'
  <2>1. \A v \in Workers : TablesIn(cd'[v]) \subseteq K \cup N
    BY <1>1, <1>2 DEF Within
  <2> QED
    BY <2>1 DEF Within, TablesIn
<1>4. KnownOK'
  <2>1. PICK n \in Nat, m \in Nat : n = nextFileId /\ m = nextFileId'
    BY DEF LInv, DiskOK
  <2> QED
    BY <2>1, <1>3, KnownGrows
<1> QED
  BY <1>2, <1>4 DEF LInv

(* The steps of a worker that touch neither the lists nor the disk *)
LEMMA QuietInv ==
  ASSUME LInv, NEW w \in Workers,
         \/ Tick(w) \/ SanityPanics(w) \/ LockThis(w) \/ LockNext(w) \/ NothingToCompact(w)
         \/ SearchLeft(w) \/ SearchRight(w) \/ SlicePanics(w) \/ FillTables(w) \/ Refused(w)
         \/ BuildPanics(w) \/ ManifestRefuses(w)
  PROVE  LInv'
<1>1. PICK K \in SUBSET AnyTable : K = Known /\ Within(K) /\ IdsOK(K, nextFileId)
  BY WithinKnown DEF LInv, KnownOK
<1>2. Effect(w, K)
  BY <1>1, CdKept, LockEffect, IdleEffect, SearchEffect, FillEffect DEF LInv, NothingToCompact
<1>3. UNCHANGED <<levelVars, diskVars, flusher, flushes>>
  BY DEF Tick, SanityPanics, LockThis, LockNext, NothingToCompact, SearchLeft, SearchRight,
         SlicePanics, FillTables, Refused, BuildPanics, ManifestRefuses, ReturnFalse,
         clientVars, boundVars
<1>4. ListsOK' /\ DiskOK'
  BY <1>3 DEF LInv, ListsOK, DiskOK, SizesExact, levelVars, diskVars
<1>5. files' \subseteq K /\ \A l \in LevelSet : ToSet(tables'[l]) \subseteq K
  BY <1>1, <1>3 DEF Within, levelVars, diskVars
<1>6. PICK N \in SUBSET AnyTable : N = {}
  OBVIOUS
<1>7. Effect(w, K \cup N) /\ files' \subseteq K \cup N /\ \A l \in LevelSet : ToSet(tables'[l]) \subseteq K \cup N
  BY <1>2, <1>5, <1>6
<1>8. nextFileId' = nextFileId /\ nextFileId <= nextFileId' /\ flusher' = flusher
  BY <1>3 DEF LInv, DiskOK, diskVars
<1> QED
  BY <1>1, <1>4, <1>6, <1>7, <1>8, WorkerInv

(* The tables of a compaction are built, or a file cannot be written. *)
LEMMA BuildInv ==
  ASSUME LInv, NEW w \in Workers, Build(w) \/ BuildFails(w)
  PROVE  LInv'
<1>1. PICK K \in SUBSET AnyTable : K = Known /\ Within(K) /\ IdsOK(K, nextFileId)
  BY WithinKnown DEF LInv, KnownOK
<1>2. PICK e \in CompactDefs : e = cd[w]
  BY DEF LInv, WorkersOK
<1>3. nextFileId \in Nat \ {0}
  BY DEF LInv, DiskOK
<1>4. PICK b \in Seq(AnyTable) : b = Built(e)
  BY <1>3, BuiltFacts
<1>a. ToSet(b) \in SUBSET AnyTable
  BY SeqDomain DEF ToSet
<1>5. PICK N \in SUBSET AnyTable : N = ToSet(b)
  BY <1>a
<1>6. /\ Len(b) \in Nat
      /\ \A t \in N : nextFileId <= t.id /\ t.id < nextFileId + Len(b)
      /\ \A t, u \in N : t.id = u.id => t = u
  BY <1>3, <1>4, <1>5, BuiltFacts
<1>7. nextFileId' = nextFileId + Len(b) /\ UNCHANGED <<levelVars, manifest, flusher, flushes>>
  BY <1>2, <1>4 DEF Build, BuildFails, clientVars, boundVars
<1>8. nextFileId <= nextFileId' /\ nextFileId' \in Nat \ {0}
  BY <1>3, <1>6, <1>7
<1>9. files' = files \/ files' = files \cup N
  BY <1>2, <1>4, <1>5 DEF Build, BuildFails
<1>10. ListsOK'
  BY <1>7 DEF LInv, ListsOK, SizesExact, levelVars
<1>11. DiskOK'
  <2>1. IsFiniteSet(N)
    <3>1. IsFiniteSet(DOMAIN b)
      BY SeqDomain
    <3>2. [i \in DOMAIN b |-> b[i]] \in Surjection(DOMAIN b, N)
      BY <1>5 DEF ToSet, Surjection
    <3> QED
      BY <3>1, <3>2, FS_Surjection
  <2>2. IsFiniteSet(files')
    <3>1. IsFiniteSet(files)
      BY DEF LInv, DiskOK
    <3>2. IsFiniteSet(files \cup N)
      BY <2>1, <3>1, FS_Union
    <3> QED
      BY <1>9, <3>1, <3>2
  <2>3. 1 .. nextFileId - 1 \subseteq 1 .. nextFileId' - 1
    <3>1. PICK m \in Nat, n \in Nat : m = nextFileId /\ n = nextFileId' /\ m <= n
      BY <1>3, <1>8
    <3>2. ASSUME NEW i \in 1 .. m - 1
          PROVE  i \in 1 .. n - 1
      <4>1. i \in Int /\ 1 <= i /\ i <= m - 1 /\ m <= n
        BY <3>1
      <4> QED
        BY <4>1
    <3> QED
      BY <3>1, <3>2
  <2>4. DOMAIN manifest' \subseteq 1 .. nextFileId' - 1
    BY <1>7, <2>3 DEF LInv, DiskOK
  <2> QED
    BY <1>7, <1>8, <2>2, <2>4 DEF LInv, DiskOK
<1>12. Effect(w, K \cup N)
  <2>1. CASE Build(w)
    BY <1>1, <1>2, <1>3, <1>4, <1>5, <2>1, BuildEffect DEF LInv
  <2>2. CASE BuildFails(w)
    <3>1. Effect(w, K)
      BY <1>1, <2>2, CdKept DEF LInv
    <3> QED
      BY <3>1 DEF Effect
  <2> QED
    BY <2>1, <2>2
<1>13. files' \subseteq K \cup N /\ \A l \in LevelSet : ToSet(tables'[l]) \subseteq K \cup N
  BY <1>1, <1>7, <1>9 DEF Within, levelVars
<1>14. \A t \in N : nextFileId <= t.id /\ t.id < nextFileId'
  BY <1>6, <1>7
<1> QED
  BY <1>1, <1>6, <1>7, <1>8, <1>10, <1>11, <1>12, <1>13, <1>14, WorkerInv

(* The change set of a compaction is written to the manifest. *)
LEMMA ManifestInv ==
  ASSUME LInv, NEW w \in Workers, WriteManifest(w)
  PROVE  LInv'
<1>1. PICK K \in SUBSET AnyTable : K = Known /\ Within(K) /\ IdsOK(K, nextFileId)
  BY WithinKnown DEF LInv, KnownOK
<1>2. PICK e \in CompactDefs : e = cd[w]
  BY DEF LInv, WorkersOK
<1>3. UNCHANGED <<levelVars, files, nextFileId, flusher, flushes>>
  BY DEF WriteManifest, clientVars, boundVars
<1>4. PICK I : I = Ids(e.new)
  OBVIOUS
<1>5. manifest' = [i \in I \cup (DOMAIN manifest \ Outdated(e)) |->
                     IF i \in I THEN e.level + 1 ELSE manifest[i]]
  BY <1>2, <1>4 DEF WriteManifest
<1>6. I \subseteq 1 .. nextFileId - 1
  <2>1. ToSet(e.new) \subseteq K
    BY <1>1, <1>2 DEF Within, TablesIn
  <2>2. \A t \in K : t.id \in 1 .. nextFileId - 1
    <3>1. \A t \in K : t.id \in Nat \ {0} /\ t.id < nextFileId
      BY <1>1, TableFacts DEF IdsOK
    <3>2. nextFileId \in Nat
      BY DEF LInv, DiskOK
    <3> QED
      BY <3>1, <3>2
  <2> QED
    BY <1>4, <2>1, <2>2 DEF Ids, ToSet
<1>7. e.level + 1 \in LevelSet
  BY MaxLevelsAssumption DEF CompactDefs, LevelSet
<1>8. /\ DOMAIN manifest' \subseteq 1 .. nextFileId - 1
      /\ \A i \in DOMAIN manifest' : manifest'[i] \in LevelSet
  BY <1>5, <1>6, <1>7 DEF LInv, DiskOK
<1>9. ListsOK' /\ DiskOK'
  BY <1>3, <1>8 DEF LInv, ListsOK, DiskOK, SizesExact, levelVars
<1>10. Effect(w, K)
  BY <1>1, CdKept DEF LInv
<1>11. PICK N \in SUBSET AnyTable : N = {}
  OBVIOUS
<1>12. /\ Effect(w, K \cup N) /\ files' \subseteq K \cup N
       /\ \A l \in LevelSet : ToSet(tables'[l]) \subseteq K \cup N
  BY <1>1, <1>3, <1>10, <1>11 DEF Within, levelVars
<1>13. nextFileId' = nextFileId /\ nextFileId <= nextFileId' /\ flusher' = flusher
  BY <1>3 DEF LInv, DiskOK
<1> QED
  BY <1>1, <1>9, <1>11, <1>12, <1>13, WorkerInv

(* The lists change: replace_tables on the next level, delete_tables on this one. *)
LEMMA ListInv ==
  ASSUME LInv, NEW w \in Workers, ReplaceNext(w) \/ DeleteThis(w)
  PROVE  LInv'
<1>1. PICK K \in SUBSET AnyTable : K = Known /\ Within(K) /\ IdsOK(K, nextFileId)
  BY WithinKnown DEF LInv, KnownOK
<1>2. PICK e \in CompactDefs : e = cd[w]
  BY DEF LInv, WorkersOK
<1>3. UNCHANGED <<diskVars, flusher, flushes>>
  BY DEF ReplaceNext, DeleteThis, clientVars, boundVars
<1>4. e.level \in LevelSet /\ e.level + 1 \in LevelSet
  BY MaxLevelsAssumption DEF CompactDefs, LevelSet
<1>5. Word \in Nat \ {0}
  BY WordAssumption
<1>6. ListsOK' /\ \A l \in LevelSet : ToSet(tables'[l]) \subseteq K
  <2>1. CASE ReplaceNext(w)
    <3>1. PICK l \in LevelSet : l = e.level + 1
      BY <1>4
    <3>2. PICK new \in Seq(AnyTable) : new = e.new /\ ToSet(new) \subseteq K
      BY <1>1, <1>2 DEF Within, TablesIn, CompactDefs
    <3>3. PICK old \in Seq(AnyTable) : /\ old = tables[l] /\ ToSet(old) \subseteq K
                                       /\ totalSize[l] = SumOfSizes(old) % Word
      BY <1>1 DEF LInv, ListsOK, SizesExact, Within
    <3>4. PICK out : out = IF new = <<>> THEN <<>> ELSE Replaced(old, new)
      OBVIOUS
    <3>5. PICK s : s = ReplaceTables(old, new)
      OBVIOUS
    <3>6. /\ tables' = [tables EXCEPT ![l] = s]
          /\ totalSize' = [totalSize EXCEPT ![l] =
                CS!Minus(CS!Plus(totalSize[l], SumOfSizes(new)), SumOfSizes(out))]
      BY <1>2, <2>1, <3>1, <3>2, <3>3, <3>4, <3>5 DEF ReplaceNext
    <3>7. /\ s \in Seq(AnyTable) /\ ToSet(s) \subseteq K /\ SumOfSizes(out) \in Nat
          /\ \E rest \in Nat : /\ SumOfSizes(old) = rest + SumOfSizes(out)
                               /\ SumOfSizes(s) = rest + SumOfSizes(new)
      <4>1. CASE new = <<>>
        <5>1. s = old /\ out = <<>>
          BY <3>4, <3>5, <4>1 DEF ReplaceTables
        <5>2. SumOfSizes(old) \in Nat /\ SumOfSizes(out) = 0 /\ SumOfSizes(new) = 0
          BY <4>1, <5>1, SumOfIs
        <5> QED
          BY <3>3, <5>1, <5>2
      <4>2. CASE new # <<>>
        <5>1. \A t, u \in ToSet(old) : t.id = u.id => t = u
          BY <1>1, <3>3 DEF IdsOK
        <5>2. out = Replaced(old, new)
          BY <3>4, <4>2
        <5>3. /\ s \in Seq(AnyTable) /\ ToSet(s) \in SUBSET (ToSet(old) \cup ToSet(new))
              /\ SumOfSizes(out) \in Nat
              /\ \E rest \in Nat : /\ SumOfSizes(old) = rest + SumOfSizes(out)
                                   /\ SumOfSizes(s) = rest + SumOfSizes(new)
          BY <3>5, <4>2, <5>1, <5>2, ReplaceFacts
        <5> QED
          BY <3>2, <3>3, <5>3
      <4> QED
        BY <4>1, <4>2
    <3>8. CS!Minus(CS!Plus(totalSize[l], SumOfSizes(new)), SumOfSizes(out)) = SumOfSizes(s) % Word
      <4>1. PICK r \in Nat : /\ SumOfSizes(old) = r + SumOfSizes(out)
                             /\ SumOfSizes(s) = r + SumOfSizes(new)
        BY <3>7
      <4>2. PICK n \in Nat, o \in Nat : n = SumOfSizes(new) /\ o = SumOfSizes(out)
        BY <3>7, SumOfIs
      <4>3. PICK a \in Nat : a = r + o
        OBVIOUS
      <4>4. PICK c \in Nat : c = r + n
        OBVIOUS
      <4>5. CS!Plus(totalSize[l], n) = (c + o) % Word
        <5>1. ((a % Word) + n) % Word = (a + n) % Word
          BY <1>5, ModAdd
        <5>2. a + n = c + o
          BY <4>3, <4>4
        <5>3. totalSize[l] = a % Word
          BY <3>3, <4>1, <4>2, <4>3
        <5> QED
          BY <5>1, <5>2, <5>3 DEF CS!Plus
      <4>6. (((c + o) % Word) + (Word - o)) % Word = c % Word
        BY <1>5, ModSub
      <4> QED
        BY <4>1, <4>2, <4>4, <4>5, <4>6 DEF CS!Minus
    <3>9. ListsOK' /\ \A k \in LevelSet : tables'[k] = tables[k] \/ tables'[k] = s
      BY <3>6, <3>7, <3>8, OneList DEF LInv
    <3> QED
      BY <1>1, <3>7, <3>9 DEF Within
  <2>2. CASE DeleteThis(w)
    <3>1. PICK l \in LevelSet : l = e.level
      BY <1>4
    <3>2. PICK ids : ids = Ids(e.top)
      OBVIOUS
    <3>3. PICK old \in Seq(AnyTable) : /\ old = tables[l] /\ ToSet(old) \subseteq K
                                       /\ totalSize[l] = SumOfSizes(old) % Word
      BY <1>1 DEF LInv, ListsOK, SizesExact, Within
    <3>4. PICK s, out : s = DeleteTables(old, ids) /\ out = Deleted(old, ids)
      OBVIOUS
    <3>5. /\ tables' = [tables EXCEPT ![l] = s]
          /\ totalSize' = [totalSize EXCEPT ![l] = CS!Minus(totalSize[l], SumOfSizes(out))]
      BY <1>2, <2>2, <3>1, <3>2, <3>3, <3>4 DEF DeleteThis
    <3>6. /\ s \in Seq(AnyTable) /\ ToSet(s) \subseteq K
          /\ SumOfSizes(old) = SumOfSizes(s) + SumOfSizes(out)
          /\ SumOfSizes(s) \in Nat /\ SumOfSizes(out) \in Nat
      BY <3>3, <3>4, DeleteFacts
    <3>7. CS!Minus(totalSize[l], SumOfSizes(out)) = SumOfSizes(s) % Word
      <4>1. PICK a \in Nat, o \in Nat : a = SumOfSizes(s) /\ o = SumOfSizes(out)
        BY <3>6
      <4>2. (((a + o) % Word) + (Word - o)) % Word = a % Word
        BY <1>5, ModSub
      <4> QED
        BY <3>3, <3>6, <4>1, <4>2 DEF CS!Minus
    <3>8. ListsOK' /\ \A k \in LevelSet : tables'[k] = tables[k] \/ tables'[k] = s
      BY <3>5, <3>6, <3>7, OneList DEF LInv
    <3> QED
      BY <1>1, <3>6, <3>8 DEF Within
  <2> QED
    BY <2>1, <2>2
<1>7. DiskOK'
  BY <1>3 DEF LInv, DiskOK, diskVars
<1>8. Effect(w, K)
  BY <1>1, CdKept DEF LInv
<1>9. PICK N \in SUBSET AnyTable : N = {}
  OBVIOUS
<1>10. /\ Effect(w, K \cup N) /\ files' \subseteq K \cup N
       /\ \A l \in LevelSet : ToSet(tables'[l]) \subseteq K \cup N
  BY <1>1, <1>3, <1>6, <1>8, <1>9 DEF Within, diskVars
<1>11. nextFileId' = nextFileId /\ nextFileId <= nextFileId' /\ flusher' = flusher
  BY <1>3 DEF LInv, DiskOK, diskVars
<1> QED
  BY <1>1, <1>6, <1>7, <1>9, <1>10, <1>11, WorkerInv

(* The compaction ends; files that no level lists are removed. *)
LEMMA FinishInv ==
  ASSUME LInv, NEW w \in Workers, Finish(w)
  PROVE  LInv'
<1>1. PICK K \in SUBSET AnyTable : K = Known /\ Within(K) /\ IdsOK(K, nextFileId)
  BY WithinKnown DEF LInv, KnownOK
<1>2. UNCHANGED <<levelVars, manifest, nextFileId, flusher, flushes>> /\ files' \in SUBSET files
  BY DEF Finish, clientVars, boundVars
<1>3. IsFiniteSet(files')
  BY <1>2, FS_Subset DEF LInv, DiskOK
<1>4. ListsOK' /\ DiskOK'
  BY <1>2, <1>3 DEF LInv, ListsOK, DiskOK, SizesExact, levelVars
<1>5. Effect(w, K)
  BY <1>1, IdleEffect DEF LInv
<1>6. PICK N \in SUBSET AnyTable : N = {}
  OBVIOUS
<1>7. /\ Effect(w, K \cup N) /\ files' \subseteq K \cup N
      /\ \A l \in LevelSet : ToSet(tables'[l]) \subseteq K \cup N
  BY <1>1, <1>2, <1>5, <1>6 DEF Within, levelVars
<1>8. nextFileId' = nextFileId /\ nextFileId <= nextFileId' /\ flusher' = flusher
  BY <1>2 DEF LInv, DiskOK
<1> QED
  BY <1>1, <1>4, <1>6, <1>7, <1>8, WorkerInv

-----------------------------------------------------------------------------
(* The workers do nothing. *)
LEMMA OthersInv ==
  ASSUME LInv, NEW K \in SUBSET AnyTable, Within(K), IdsOK(K, nextFileId),
         NEW N \in SUBSET AnyTable,
         \A t \in N : nextFileId <= t.id /\ t.id < nextFileId',
         \A t, u \in N : t.id = u.id => t = u,
         nextFileId <= nextFileId', UNCHANGED <<at, cd, picks>>,
         files' \subseteq K \cup N, \A l \in LevelSet : ToSet(tables'[l]) \subseteq K \cup N,
         flusher'.at # "idle" => flusher'.table \in K \cup N, ListsOK', DiskOK'
  PROVE  LInv'
<1>1. WorkersOK'
  BY DEF LInv, WorkersOK
<1>2. Within(K \cup N)'
  <2>1. \A v \in Workers : TablesIn(cd'[v]) \subseteq K \cup N
    BY DEF Within
  <2> QED
    BY <2>1 DEF Within, TablesIn
<1>3. KnownOK'
  <2>1. PICK n \in Nat, m \in Nat : n = nextFileId /\ m = nextFileId'
    BY DEF LInv, DiskOK
  <2> QED
    BY <2>1, <1>2, KnownGrows
<1> QED
  BY <1>1, <1>3 DEF LInv

(* A memtable is written to a file. *)
LEMMA FlushInv ==
  ASSUME LInv, NEW ks \in FlushKeySets, Flush(ks)
  PROVE  LInv'
<1>1. PICK K \in SUBSET AnyTable : K = Known /\ Within(K) /\ IdsOK(K, nextFileId)
  BY WithinKnown DEF LInv, KnownOK
<1>2. PICK n \in Nat \ {0} : n = nextFileId
  BY DEF LInv, DiskOK
<1>3. PICK t : t = [id |-> n, kv |-> [k \in ks |-> flushes + 1]]
  OBVIOUS
<1>4. t \in AnyTable /\ t.id = n
  <2>1. ks \in TableSets
    BY FlushAssumption
  <2>2. [k \in ks |-> flushes + 1] \in [ks -> Nat]
    BY DEF LInv, DiskOK
  <2> QED
    BY <1>3, <2>1, <2>2 DEF AnyTable
<1>5. /\ files' = files \cup {t} /\ nextFileId' = n + 1 /\ flushes' = flushes + 1
      /\ flusher' = [at |-> "created", table |-> t]
      /\ UNCHANGED <<levelVars, at, cd, picks, manifest>>
  BY <1>2, <1>3 DEF Flush
<1>6. PICK N \in SUBSET AnyTable : N = {t}
  BY <1>4
<1>7. ListsOK'
  BY <1>5 DEF LInv, ListsOK, SizesExact, levelVars
<1>8. DiskOK'
  <2>1. IsFiniteSet(files')
    BY <1>5, FS_AddElement DEF LInv, DiskOK
  <2>2. DOMAIN manifest' \subseteq 1 .. nextFileId' - 1
    <3>1. 1 .. n - 1 \subseteq 1 .. (n + 1) - 1
      OBVIOUS
    <3> QED
      BY <1>2, <1>5, <3>1 DEF LInv, DiskOK
  <2>3. flusher' \in [at : {"created", "adding", "stalled"}, table : AnyTable]
    BY <1>4, <1>5
  <2>4. nextFileId' \in Nat \ {0} /\ flushes' \in Nat
    BY <1>5 DEF LInv, DiskOK
  <2> QED
    BY <1>5, <2>1, <2>2, <2>3, <2>4 DEF LInv, DiskOK
<1>9. \A u \in N : nextFileId <= u.id /\ u.id < nextFileId'
  BY <1>2, <1>4, <1>5, <1>6
<1>10. nextFileId <= nextFileId' /\ UNCHANGED <<at, cd, picks>>
  BY <1>2, <1>5
<1>11. files' \subseteq K \cup N /\ \A l \in LevelSet : ToSet(tables'[l]) \subseteq K \cup N
  BY <1>1, <1>5, <1>6 DEF Within, levelVars
<1>12. flusher'.table \in K \cup N
  BY <1>5, <1>6
<1>13. \A u, v \in N : u.id = v.id => u = v
  BY <1>6
<1> QED
  BY <1>1, <1>7, <1>8, <1>9, <1>10, <1>11, <1>12, <1>13, OthersInv

(* The flush task, and readers *)
LEMMA ClientInv ==
  ASSUME LInv, FlusherStep \/ GetLevel \/ \E k \in ReadKeys : StartGet(k)
  PROVE  LInv'
<1>1. PICK K \in SUBSET AnyTable : K = Known /\ Within(K) /\ IdsOK(K, nextFileId)
  BY WithinKnown DEF LInv, KnownOK
<1>2. UNCHANGED <<at, cd, picks, files, nextFileId, flushes>> /\ nextFileId \in Nat
  BY DEF LInv, DiskOK, FlusherStep, LogTable, TryAdd, Stall, Unstall, GetLevel, StartGet,
         diskVars, boundVars
<1>3. PICK N \in SUBSET AnyTable : N = {}
  OBVIOUS
<1>4. ASSUME ListsOK', DiskOK', \A l \in LevelSet : ToSet(tables'[l]) \subseteq K,
             flusher'.at # "idle" => flusher'.table \in K
      PROVE  LInv'
  <2>1. files' \subseteq K \cup N /\ \A l \in LevelSet : ToSet(tables'[l]) \subseteq K \cup N
    BY <1>1, <1>2, <1>3, <1>4 DEF Within
  <2>2. flusher'.at # "idle" => flusher'.table \in K \cup N
    BY <1>4
  <2>3. nextFileId <= nextFileId' /\ UNCHANGED <<at, cd, picks>>
    BY <1>2
  <2> QED
    BY <1>1, <1>3, <1>4, <2>1, <2>2, <2>3, OthersInv
<1>5. CASE GetLevel \/ \E k \in ReadKeys : StartGet(k)
  <2>1. UNCHANGED <<levelVars, diskVars, flusher>>
    BY <1>5 DEF GetLevel, StartGet
  <2>2. ListsOK' /\ DiskOK'
    BY <1>2, <2>1 DEF LInv, ListsOK, DiskOK, SizesExact, levelVars, diskVars
  <2> QED
    BY <1>1, <1>4, <2>1, <2>2 DEF Within, levelVars
<1>6. CASE LogTable \/ Stall \/ Unstall
  <2>1. PICK a \in {"adding", "stalled"} : flusher' = [flusher EXCEPT !.at = a]
    BY <1>6 DEF LogTable, Stall, Unstall
  <2>2. flusher.at # "idle"
    BY <1>6 DEF LogTable, Stall, Unstall
  <2>3. /\ flusher' \in [at : {"created", "adding", "stalled"}, table : AnyTable]
        /\ flusher'.table = flusher.table /\ flusher.table \in AnyTable
    BY <2>1, <2>2 DEF LInv, DiskOK
  <2>4. flusher.table \in K
    BY <1>1, <2>2 DEF Within
  <2>5. UNCHANGED levelVars
    BY <1>6 DEF LogTable, Stall, Unstall
  <2>6. /\ DOMAIN manifest' \subseteq 1 .. nextFileId - 1
        /\ \A i \in DOMAIN manifest' : manifest'[i] \in LevelSet
    <3>1. CASE LogTable
      <4>1. PICK i0 : i0 = flusher.table.id
        OBVIOUS
      <4>2. manifest' = [i \in DOMAIN manifest \cup {i0} |-> IF i = i0 THEN 0 ELSE manifest[i]]
        BY <3>1, <4>1 DEF LogTable
      <4>3. i0 \in 1 .. nextFileId - 1
        BY <1>1, <1>2, <2>3, <2>4, <4>1, TableFacts DEF IdsOK
      <4>4. 0 \in LevelSet
        BY MaxLevelsAssumption DEF LevelSet
      <4> QED
        BY <4>2, <4>3, <4>4 DEF LInv, DiskOK
    <3>2. CASE Stall \/ Unstall
      <4>1. manifest' = manifest
        BY <3>2 DEF Stall, Unstall, diskVars
      <4> QED
        BY <4>1 DEF LInv, DiskOK
    <3> QED
      BY <1>6, <3>1, <3>2
  <2>7. DiskOK'
    BY <1>2, <2>3, <2>6 DEF LInv, DiskOK
  <2>8. ListsOK'
    BY <2>5 DEF LInv, ListsOK, SizesExact, levelVars
  <2> QED
    BY <1>1, <1>4, <2>3, <2>4, <2>5, <2>7, <2>8 DEF Within, levelVars
<1>7. CASE TryAdd
  <2>1. PICK t \in AnyTable : t = flusher.table /\ t \in K
    <3>1. flusher.at # "idle"
      BY <1>7 DEF TryAdd
    <3> QED
      BY <1>1, <3>1 DEF Within
  <2>2. PICK l \in LevelSet : l = 0
    BY MaxLevelsAssumption DEF LevelSet
  <2>3. PICK old \in Seq(AnyTable) : /\ old = tables[l] /\ ToSet(old) \subseteq K
                                     /\ totalSize[l] = SumOfSizes(old) % Word
    BY <1>1 DEF LInv, ListsOK, SizesExact, Within
  <2>4. PICK s : s = Append(old, t)
    OBVIOUS
  <2>5. /\ tables' = [tables EXCEPT ![l] = s]
        /\ totalSize' = [totalSize EXCEPT ![l] = CS!Plus(totalSize[l], Size(t))]
        /\ flusher' = [at |-> "idle"] /\ UNCHANGED diskVars
    BY <1>7, <2>1, <2>2, <2>3, <2>4 DEF TryAdd
  <2>6. /\ s \in Seq(AnyTable) /\ ToSet(s) \subseteq K
        /\ SumOfSizes(s) = SumOfSizes(old) + Size(t)
    BY <2>1, <2>3, <2>4, AppendFacts
  <2>7. CS!Plus(totalSize[l], Size(t)) = SumOfSizes(s) % Word
    <3>1. PICK a \in Nat, b \in Nat : a = SumOfSizes(old) /\ b = Size(t)
      BY SumOfIs, TableFacts
    <3>2. ((a % Word) + b) % Word = (a + b) % Word
      BY WordAssumption, ModAdd
    <3> QED
      BY <2>3, <2>6, <3>1, <3>2 DEF CS!Plus
  <2>8. ListsOK' /\ \A k \in LevelSet : tables'[k] = tables[k] \/ tables'[k] = s
    BY <2>5, <2>6, <2>7, OneList DEF LInv
  <2>9. DiskOK'
    BY <1>2, <2>5 DEF LInv, DiskOK, diskVars
  <2>10. \A k \in LevelSet : ToSet(tables'[k]) \subseteq K
    BY <1>1, <2>6, <2>8 DEF Within
  <2>11. flusher'.at = "idle"
    BY <2>5
  <2> QED
    BY <1>4, <2>8, <2>9, <2>10, <2>11
<1> QED
  BY <1>5, <1>6, <1>7 DEF FlusherStep

(* Nothing is known but the tables in S, and no one is at work. *)
Fresh(S, m, T) ==
  /\ S \in SUBSET AnyTable /\ IsFiniteSet(S) /\ files = S
  /\ m \in Nat \ {0} /\ nextFileId = m /\ IdsOK(S, m) /\ flushes \in Nat
  /\ T \in [LevelSet -> Seq(AnyTable)] /\ tables = T
  /\ \A l \in LevelSet : ToSet(T[l]) \subseteq S
  /\ totalSize = [l \in LevelSet |-> SumOfSizes(T[l]) % Word]
  /\ at = [w \in Workers |-> "idle"] /\ cd = [w \in Workers |-> NewCd(0)]
  /\ picks = [w \in Workers |-> <<>>] /\ flusher = [at |-> "idle"]
  /\ DOMAIN manifest \subseteq 1 .. m - 1
  /\ \A i \in DOMAIN manifest : manifest[i] \in LevelSet

(* Such a state satisfies the invariant. *)
LEMMA FreshInv == (\E S, m, T : Fresh(S, m, T)) => LInv
<1> SUFFICES ASSUME NEW S, NEW m, NEW T, Fresh(S, m, T)
             PROVE  LInv
  OBVIOUS
<1> USE DEF Fresh
<1>1. NewCd(0) \in CompactDefs /\ TablesIn(NewCd(0)) = {}
  BY NewCdFacts, MaxLevelsAssumption
<1>2. WorkersOK
  <2>1. at \in [Workers -> Points]
    BY DEF Points
  <2>2. cd \in [Workers -> CompactDefs] /\ \A w \in Workers : cd[w] = NewCd(0)
    BY <1>1
  <2>3. picks \in [Workers -> Seq(LevelSet)]
    OBVIOUS
  <2>4. \A w \in Workers : at[w] = "idle" /\ PhaseOK(at[w], cd[w])
    BY DEF PhaseOK, Compacting
  <2> QED
    BY <2>1, <2>2, <2>3, <2>4 DEF WorkersOK
<1>3. ListsOK
  <2>1. \A l \in LevelSet : SumOfSizes(T[l]) % Word \in 0 .. Word - 1
    BY SumOfIs, WordAssumption
  <2> QED
    BY <2>1 DEF ListsOK, SizesExact
<1>4. DiskOK
  BY DEF DiskOK
<1>5. Within(S)
  BY <1>1 DEF Within
<1>6. KnownOK
  BY <1>5, WithinKnown DEF KnownOK, IdsOK
<1> QED
  BY <1>2, <1>3, <1>4, <1>6 DEF LInv

(* The same after a step *)
LEMMA FreshNext == (\E S, m, T : Fresh(S, m, T))' => LInv'
  BY FreshInv, PTL

(* A crash, and the store that is opened after it *)
LEMMA ReopenInv ==
  ASSUME LInv, Reopen
  PROVE  LInv'
<1>1. PICK K \in SUBSET AnyTable : K = Known /\ Within(K) /\ IdsOK(K, nextFileId)
  BY WithinKnown DEF LInv, KnownOK
<1>2. PICK S : S = {t \in files : t.id \in DOMAIN manifest}
  OBVIOUS
<1>3. S \in SUBSET AnyTable /\ IsFiniteSet(S) /\ S \in SUBSET K
  <2>1. S \in SUBSET files /\ files \subseteq K /\ IsFiniteSet(files)
    BY <1>1, <1>2 DEF LInv, DiskOK, Within
  <2> QED
    BY <2>1, FS_Subset
<1>4. PICK D : D = DOMAIN manifest \cup {0}
  OBVIOUS
<1>5. D \in SUBSET Nat /\ D # {} /\ IsFiniteSet(D)
  <2>1. PICK n \in Nat : n = nextFileId - 1
    BY DEF LInv, DiskOK
  <2>2. DOMAIN manifest \subseteq 1 .. n
    BY <2>1 DEF LInv, DiskOK
  <2>3. D \in SUBSET (0 .. n)
    BY <1>4, <2>2
  <2>4. IsFiniteSet(0 .. n)
    BY FS_Interval
  <2>5. IsFiniteSet(D)
    BY <2>3, <2>4, FS_Subset
  <2> QED
    BY <1>4, <2>3, <2>5
<1>6. Max(D) \in Nat /\ \A i \in D : i <= Max(D)
  <2>1. D \in SUBSET Int
    BY <1>5
  <2>2. Max(D) \in D /\ \A i \in D : i <= Max(D)
    BY <1>5, <2>1, MinMax
  <2> QED
    BY <1>5, <2>2
<1>7. PICK m \in Nat \ {0} : m = Max(D) + 1
  BY <1>6
<1>8. nextFileId' = m
  BY <1>4, <1>7 DEF Reopen, FirstFreeId
<1>9. DOMAIN manifest \subseteq 1 .. m - 1
  <2>1. \A i \in DOMAIN manifest : i \in Nat \ {0}
    BY DEF LInv, DiskOK
  <2>2. \A i \in DOMAIN manifest : i <= Max(D)
    BY <1>4, <1>6
  <2> QED
    BY <1>6, <1>7, <2>1, <2>2
<1>10. IdsOK(S, m)
  <2>1. \A t \in S : t.id \in 1 .. m - 1
    BY <1>2, <1>9
  <2>2. \A t \in S : t.id < m
    BY <2>1
  <2> QED
    BY <1>1, <1>3, <2>2 DEF IdsOK
<1>11. PICK T : T = Recovered
  OBVIOUS
<1>12. /\ T \in [LevelSet -> Seq(AnyTable)]
       /\ \A l \in LevelSet : ToSet(T[l]) \subseteq S
  <2>1. ASSUME NEW l \in LevelSet
        PROVE  /\ InitTables(l, SetToSeq(OnDisk(l))) \in Seq(AnyTable)
               /\ ToSet(InitTables(l, SetToSeq(OnDisk(l)))) \subseteq S
    <3>1. OnDisk(l) \in SUBSET S
      BY <1>2 DEF OnDisk
    <3>2. OnDisk(l) \in SUBSET AnyTable /\ IsFiniteSet(OnDisk(l))
      BY <1>3, <3>1, FS_Subset
    <3> QED
      BY <3>1, <3>2, RecoveredFacts
  <2> QED
    BY <1>11, <2>1 DEF Recovered
<1>13. /\ files' = S /\ tables' = T
       /\ totalSize' = [l \in LevelSet |-> SumOfSizes(T[l]) % Word]
       /\ at' = [w \in Workers |-> "idle"] /\ cd' = [w \in Workers |-> NewCd(0)]
       /\ picks' = [w \in Workers |-> <<>>] /\ flusher' = [at |-> "idle"]
       /\ manifest' = manifest /\ flushes' = flushes
  BY <1>2, <1>11 DEF Reopen
<1>14. /\ DOMAIN manifest' \subseteq 1 .. m - 1 /\ flushes' \in Nat
       /\ \A i \in DOMAIN manifest' : manifest'[i] \in LevelSet
  BY <1>9, <1>13 DEF LInv, DiskOK
<1>15. Fresh(S, m, T)'
  BY <1>3, <1>8, <1>10, <1>12, <1>13, <1>14 DEF Fresh
<1> QED
  BY <1>15, FreshNext

(* The levels that are found at open *)
LEMMA InitInv == Init => LInv
<1> SUFFICES ASSUME Init
             PROVE  LInv
  OBVIOUS
<1>1. PICK s : s = Inherited
  OBVIOUS
<1>2. \/ s = <<>>
      \/ \E t \in AnyTable : t.id = 1 /\ s = <<t>>
  <2>1. CASE OpenedWith = {}
    BY <1>1, <2>1 DEF Inherited
  <2>2. CASE OpenedWith # {}
    <3>1. OpenedWith \in TableSets
      BY <2>2, FlushAssumption
    <3>2. PICK t : t = [id |-> 1, kv |-> [k \in OpenedWith |-> 1]]
      OBVIOUS
    <3>3. [k \in OpenedWith |-> 1] \in [OpenedWith -> Nat]
      OBVIOUS
    <3>4. t \in AnyTable /\ t.id = 1
      BY <3>1, <3>2, <3>3 DEF AnyTable
    <3>5. s = <<t>>
      BY <1>1, <2>2, <3>2 DEF Inherited
    <3> QED
      BY <3>4, <3>5
  <2> QED
    BY <2>1, <2>2
<1>3. /\ s \in Seq(AnyTable) /\ Len(s) \in Nat
      /\ \A i \in DOMAIN s : i = 1 /\ s[i].id = 1 /\ Len(s) = 1
  <2>1. CASE s = <<>>
    BY <2>1
  <2>2. ASSUME NEW t \in AnyTable, t.id = 1, s = <<t>>
        PROVE  /\ s \in Seq(AnyTable) /\ Len(s) \in Nat
               /\ \A i \in DOMAIN s : i = 1 /\ s[i].id = 1 /\ Len(s) = 1
    <3>1. s \in Seq(AnyTable) /\ Len(s) = 1 /\ s[1] = t
      BY <2>2
    <3>2. DOMAIN s = 1 .. 1
      BY <3>1
    <3> QED
      BY <2>2, <3>1, <3>2
  <2> QED
    BY <1>2, <2>1, <2>2
<1>4. PICK S : S = ToSet(s)
  OBVIOUS
<1>5. S \in SUBSET AnyTable /\ IsFiniteSet(S)
  <2>1. S = {} \/ \E t \in AnyTable : S = {t}
    BY <1>2, <1>4, PartFacts, <1>3
  <2> QED
    BY <2>1, FS_EmptySet, FS_Singleton
<1>6. PICK m \in Nat \ {0} : m = Len(s) + 1
  BY <1>3
<1>7. IdsOK(S, m) /\ Ids(s) \subseteq 1 .. m - 1
  BY <1>3, <1>4, <1>6 DEF IdsOK, ToSet, Ids
<1>8. PICK T : T = [l \in LevelSet |-> IF l = 0 THEN s ELSE <<>>]
  OBVIOUS
<1>9. /\ T \in [LevelSet -> Seq(AnyTable)] /\ \A l \in LevelSet : ToSet(T[l]) \subseteq S
  <2>1. <<>> \in Seq(AnyTable) /\ ToSet(<<>>) = {}
    BY DEF ToSet
  <2> QED
    BY <1>3, <1>4, <1>8, <2>1
<1>10. totalSize = [l \in LevelSet |-> SumOfSizes(T[l]) % Word]
  <2>1. totalSize = [l \in LevelSet |-> IF l = 0 THEN SumOfSizes(s) % Word ELSE 0]
    BY <1>1 DEF Init
  <2>2. SumOfSizes(<<>>) % Word = 0
    <3>1. <<>> \in Seq(AnyTable)
      OBVIOUS
    <3>2. SumOfSizes(<<>>) = 0
      BY <3>1, SumOfIs
    <3> QED
      BY <3>2, WordAssumption
  <2>3. \A l \in LevelSet : SumOfSizes(T[l]) % Word = IF l = 0 THEN SumOfSizes(s) % Word ELSE 0
    BY <1>8, <2>2
  <2> QED
    BY <2>1, <2>3
<1>11. /\ files = S /\ tables = T /\ nextFileId = m /\ flushes \in Nat
       /\ at = [w \in Workers |-> "idle"] /\ cd = [w \in Workers |-> NewCd(0)]
       /\ picks = [w \in Workers |-> <<>>] /\ flusher = [at |-> "idle"]
       /\ manifest = [i \in Ids(s) |-> 0]
  BY <1>1, <1>3, <1>4, <1>6, <1>8 DEF Init
<1>12. DOMAIN manifest \subseteq 1 .. m - 1 /\ \A i \in DOMAIN manifest : manifest[i] \in LevelSet
  <2>1. 0 \in LevelSet
    BY MaxLevelsAssumption DEF LevelSet
  <2> QED
    BY <1>7, <1>11, <2>1
<1>13. Fresh(S, m, T)
  BY <1>5, <1>7, <1>9, <1>10, <1>11, <1>12 DEF Fresh
<1> QED
  BY <1>13, FreshInv

(* Every step keeps the invariant. *)
LEMMA StepInv == LInv /\ [Next]_vars => LInv'
<1> SUFFICES ASSUME LInv, [Next]_vars
             PROVE  LInv'
  OBVIOUS
<1>1. ASSUME NEW w \in Workers, WorkerStep(w)
      PROVE  LInv'
  BY <1>1, QuietInv, BuildInv, ManifestInv, ListInv, FinishInv DEF WorkerStep
<1>2. CASE UNCHANGED vars
  BY <1>2 DEF vars, LInv, WorkersOK, ListsOK, DiskOK, KnownOK, SizesExact, Known
<1> QED
  BY <1>1, <1>2, FlushInv, ClientInv, ReopenInv DEF Next

(* The invariant holds in every reachable state. *)
LEMMA LInvariant == Spec => []LInv
  BY InitInv, StepInv, PTL DEF Spec

(***************************************************************************)
(* total_size is exact, modulo the machine word, for every number of       *)
(* workers and levels: additions, replacements and deletions account for   *)
(* the tables they really add and remove, whatever happened to the list    *)
(* since they were chosen.                                                 *)
(***************************************************************************)
THEOREM SizesAreExact == Spec => []SizesExact
  BY LInvariant, PTL DEF LInv, ListsOK

-----------------------------------------------------------------------------
(* The theorems about CompactStatus, for the status of the levels *)
CSP == INSTANCE CompactStatusProofs WITH at <- Stages, def <- StatusDefs

(* CompactStatus's assumptions are among ours. *)
LEMMA StatusAssumptions ==
  /\ CSP!IsFiniteSet(Workers) /\ NoWorker \notin Workers
  /\ MaxTotalSize \in [0 .. MaxLevels - 1 -> 0 .. Word - 1]
<1>1. CSP!IsFiniteSet(Workers)
  BY WorkersAssumption DEF CSP!IsFiniteSet, IsFiniteSet
<1> QED
  BY <1>1, WorkersAssumption, SizesAssumption

(* A status that starts empty satisfies its inductive invariant. *)
LEMMA StatusInit == CSP!Init => CSP!IInv
  BY CSP!InitIInv, StatusAssumptions, MaxLevelsAssumption, WordAssumption, KeysAssumption

(* Its steps keep the invariant. *)
LEMMA StatusStays == CSP!IInv /\ [CSP!Next]_(CSP!csVars) => CSP!IInv'
  BY CSP!IInvStep, StatusAssumptions, MaxLevelsAssumption, WordAssumption, KeysAssumption

-----------------------------------------------------------------------------
(***************************************************************************)
(* The workers implement CompactStatus.  What it sees of a worker depends  *)
(* on the worker's program counter and CompactDef only.                    *)
(***************************************************************************)
View(a) == CASE a = "this" -> "this"
             [] a \in Picking -> "both"
             [] a = "stuck" -> "stuck"
             [] a \in Compacting -> "run"
             [] OTHER -> "idle"

Shown(a, d) == CASE View(a) = "run" -> StatusDef(d)
                 [] View(a) = "idle" -> StatusDef(NewCd(0))
                 [] OTHER -> StatusDef(NewCd(d.level))

(* No other worker moves. *)
Only(w) == \A v \in Workers \ {w} : at'[v] = at[v] /\ cd'[v] = cd[v]

(* Stages and StatusDefs, worker by worker *)
LEMMA Seen ==
  ASSUME NEW w \in Workers
  PROVE  /\ Stages[w] = View(at[w]) /\ StatusDefs[w] = Shown(at[w], cd[w])
         /\ Stages'[w] = View(at'[w]) /\ StatusDefs'[w] = Shown(at'[w], cd'[w])
<1>1. Stages[w] = View(at[w]) /\ Stages'[w] = View(at'[w])
  BY DEF Stages, Stage, View
<1>2. StatusDefs[w] = Shown(at[w], cd[w]) /\ StatusDefs'[w] = Shown(at'[w], cd'[w])
  BY DEF StatusDefs, Shown, Stage, View
<1> QED
  BY <1>1, <1>2

(* When one worker moves, one entry changes. *)
LEMMA SeenStep ==
  ASSUME NEW w \in Workers, Only(w)
  PROVE  /\ Stages' = [Stages EXCEPT ![w] = View(at'[w])]
         /\ StatusDefs' = [StatusDefs EXCEPT ![w] = Shown(at'[w], cd'[w])]
<1>1. \A v \in Workers : /\ Stages[v] = View(at[v]) /\ StatusDefs[v] = Shown(at[v], cd[v])
                         /\ Stages'[v] = View(at'[v]) /\ StatusDefs'[v] = Shown(at'[v], cd'[v])
  BY Seen
<1>2. \A v \in Workers \ {w} : Stages'[v] = Stages[v] /\ StatusDefs'[v] = StatusDefs[v]
  BY <1>1 DEF Only
<1>3. /\ DOMAIN Stages = Workers /\ DOMAIN Stages' = Workers
      /\ Stages = [v \in Workers |-> Stages[v]] /\ Stages' = [v \in Workers |-> Stages'[v]]
  BY DEF Stages
<1>4. /\ DOMAIN StatusDefs = Workers /\ DOMAIN StatusDefs' = Workers
      /\ StatusDefs = [v \in Workers |-> StatusDefs[v]]
      /\ StatusDefs' = [v \in Workers |-> StatusDefs'[v]]
  BY DEF StatusDefs
<1>5. Stages' = [Stages EXCEPT ![w] = View(at'[w])]
  BY <1>1, <1>2, <1>3
<1>6. StatusDefs' = [StatusDefs EXCEPT ![w] = Shown(at'[w], cd'[w])]
  BY <1>1, <1>2, <1>4
<1> QED
  BY <1>5, <1>6

(* Steps that CompactStatus does not see *)
LEMMA Unseen ==
  ASSUME NEW w \in Workers, Only(w), View(at'[w]) = View(at[w]),
         Shown(at'[w], cd'[w]) = Shown(at[w], cd[w]), UNCHANGED <<lock, ranges, delSize>>
  PROVE  UNCHANGED CS!csVars
<1>1. Stages[w] = View(at[w]) /\ StatusDefs[w] = Shown(at[w], cd[w])
  BY Seen
<1>2. Stages' = [Stages EXCEPT ![w] = Stages[w]] /\ StatusDefs' = [StatusDefs EXCEPT ![w] = StatusDefs[w]]
  BY <1>1, SeenStep
<1>3. Stages' = Stages
  BY <1>2 DEF Stages
<1>4. StatusDefs' = StatusDefs
  BY <1>2 DEF StatusDefs
<1> QED
  BY <1>3, <1>4 DEF CS!csVars

(* CompactDef::new, as CompactStatus has it *)
LEMMA NewDefIs == \A l : CS!NewDef(l) = StatusDef(NewCd(l)) /\ StatusDef(NewCd(l)).level = l
  BY DEF CS!NewDef, StatusDef, NewCd, CS!DefaultRange, NoRange, HullRange, EmptyKey, CS!EmptyKey

(* A step of a worker moves no other worker. *)
LEMMA OnlyOne ==
  ASSUME LInv, NEW w \in Workers, WorkerStep(w)
  PROVE  Only(w)
<1>1. PICK K \in SUBSET AnyTable : K = Known /\ Within(K)
  BY WithinKnown DEF LInv, KnownOK
<1>2. \E L : Effect(w, L)
  <2>1. CASE Build(w)
    BY <1>1, <2>1, BuildEffect DEF LInv, DiskOK
  <2>2. CASE ~ Build(w)
    BY <1>1, <2>2, CdKept, LockEffect, IdleEffect, SearchEffect, FillEffect
       DEF LInv, NothingToCompact, WorkerStep
  <2> QED
    BY <2>1, <2>2
<1>3. PICK a, d, p : Moves(w, a, d, p)
  BY <1>2 DEF Effect
<1> QED
  BY <1>3 DEF Moves, Only, LInv, WorkersOK

(* The steps of the searches and of run_compact_def are not seen. *)
LEMMA UnseenSteps ==
  ASSUME LInv, NEW w \in Workers,
         \/ Tick(w) \/ SanityPanics(w) \/ SearchLeft(w) \/ SearchRight(w) \/ Build(w)
         \/ BuildFails(w) \/ BuildPanics(w) \/ WriteManifest(w)
         \/ ManifestRefuses(w) \/ ReplaceNext(w) \/ DeleteThis(w)
  PROVE  UNCHANGED CS!csVars
<1>1. Only(w) /\ UNCHANGED <<lock, ranges, delSize>>
  <2>1. UNCHANGED statusVars
    BY DEF Tick, SanityPanics, SearchLeft, SearchRight, Build, BuildFails, BuildPanics,
           WriteManifest, ManifestRefuses, ReplaceNext, DeleteThis
  <2> QED
    BY <2>1, OnlyOne DEF WorkerStep, statusVars
<1>2. PICK e \in CompactDefs : e = cd[w]
  BY DEF LInv, WorkersOK
<1>3. at \in [Workers -> Points] /\ cd \in [Workers -> CompactDefs]
  BY DEF LInv, WorkersOK
<1>4. CASE Tick(w) \/ SanityPanics(w)
  <2>1. at[w] = "idle" /\ at'[w] \in {"idle", "dead"}
    BY <1>3, <1>4 DEF Tick, SanityPanics
  <2>2. View(at'[w]) = "idle" /\ View(at[w]) = "idle"
    BY <2>1 DEF View, Picking, Compacting
  <2>3. Shown(at'[w], cd'[w]) = Shown(at[w], cd[w])
    BY <2>2 DEF Shown
  <2> QED
    BY <1>1, <2>2, <2>3, Unseen
<1>5. CASE SearchLeft(w) \/ SearchRight(w)
  <2>1. at[w] \in Picking /\ at'[w] \in Picking
    BY <1>3, <1>5 DEF SearchLeft, SearchRight, Picking
  <2>2. View(at'[w]) = "both" /\ View(at[w]) = "both"
    BY <2>1 DEF View, Picking, Compacting
  <2>3. cd'[w].level = e.level
    <3>1. CASE SearchLeft(w)
      <4>1. PICK c : c = IF e.level = 0 THEN [e EXCEPT !.this_range = InfoRange]
                         ELSE [e EXCEPT !.top = <<Head(FreeCands(w))>>,
                                        !.this_range = GetRange(<<Head(FreeCands(w))>>),
                                        !.this_size = Size(Head(FreeCands(w))),
                                        !.cands = Tail(FreeCands(w))]
        OBVIOUS
      <4>2. PICK n : cd' = [cd EXCEPT ![w] = [c EXCEPT !.left = n]]
        BY <1>2, <3>1, <4>1 DEF SearchLeft
      <4>3. cd'[w] = [c EXCEPT !.left = n]
        BY <1>3, <4>2
      <4>4. c.level = e.level
        BY <4>1 DEF CompactDefs
      <4> QED
        BY <4>1, <4>3, <4>4 DEF CompactDefs
    <3>2. CASE SearchRight(w)
      <4>1. PICK n : cd' = [cd EXCEPT ![w] = [e EXCEPT !.right = n]]
        BY <1>2, <3>2 DEF SearchRight
      <4>2. cd'[w] = [e EXCEPT !.right = n]
        BY <1>3, <4>1
      <4> QED
        BY <4>2 DEF CompactDefs
    <3> QED
      BY <1>5, <3>1, <3>2
  <2>4. Shown(at'[w], cd'[w]) = Shown(at[w], cd[w])
    BY <1>2, <2>2, <2>3 DEF Shown
  <2> QED
    BY <1>1, <2>2, <2>4, Unseen
<1>6. ASSUME at[w] \in Compacting, at'[w] \in Compacting, StatusDef(cd'[w]) = StatusDef(cd[w])
      PROVE  UNCHANGED CS!csVars
  <2>1. View(at'[w]) = "run" /\ View(at[w]) = "run"
    BY <1>6 DEF View, Picking, Compacting
  <2>2. Shown(at'[w], cd'[w]) = Shown(at[w], cd[w])
    BY <1>6, <2>1 DEF Shown
  <2> QED
    BY <1>1, <2>1, <2>2, Unseen
<1>7. CASE Build(w)
  <2>1. at[w] \in Compacting /\ at'[w] \in Compacting
    BY <1>3, <1>7 DEF Build, Compacting
  <2>2. cd'[w] = [e EXCEPT !.new = Built(e)]
    BY <1>2, <1>3, <1>7 DEF Build
  <2>3. StatusDef(cd'[w]) = StatusDef(cd[w])
    BY <1>2, <2>2 DEF StatusDef, CompactDefs
  <2> QED
    BY <1>6, <2>1, <2>3
<1>8. CASE BuildFails(w) \/ BuildPanics(w) \/ WriteManifest(w) \/ ManifestRefuses(w)
           \/ ReplaceNext(w) \/ DeleteThis(w)
  <2>1. at[w] \in Compacting /\ at'[w] \in Compacting /\ cd' = cd
    BY <1>3, <1>8 DEF BuildFails, BuildPanics, WriteManifest, ManifestRefuses, ReplaceNext,
                      DeleteThis, Compacting
  <2> QED
    BY <1>6, <2>1
<1> QED
  BY <1>4, <1>5, <1>7, <1>8

(* lock_exclusive_levels, seen by CompactStatus *)
LEMMA LockSeen ==
  ASSUME LInv, NEW w \in Workers, LockThis(w) \/ LockNext(w)
  PROVE  StatusStep(w)
<1>1. Only(w)
  BY OnlyOne DEF WorkerStep
<1>2. at \in [Workers -> Points] /\ cd \in [Workers -> CompactDefs] /\ picks \in [Workers -> Seq(LevelSet)]
  BY DEF LInv, WorkersOK
<1>3. Stages[w] = View(at[w]) /\ StatusDefs[w] = Shown(at[w], cd[w])
  BY Seen
<1>4. CASE LockThis(w)
  <2>1. PICK l : l = Head(picks[w])
    OBVIOUS
  <2>2. /\ at[w] = "idle" /\ picks[w] # <<>> /\ l + 1 < MaxLevels /\ lock[l] = NoWorker
        /\ lock' = [lock EXCEPT ![l] = w] /\ at'[w] = "this" /\ cd'[w] = NewCd(l)
        /\ UNCHANGED <<ranges, delSize>>
    BY <1>2, <1>4, <2>1 DEF LockThis
  <2>3. l \in LevelSet
    <3>1. picks[w] \in Seq(LevelSet)
      BY <1>2
    <3> QED
      BY <3>1, <2>1, <2>2
  <2>4. l \in CS!TopLevels
    BY <2>2, <2>3, MaxLevelsAssumption DEF LevelSet, CS!TopLevels
  <2>5. cd'[w].level = l
    BY <2>2 DEF NewCd
  <2>6. Stages[w] = "idle" /\ View(at'[w]) = "this"
    BY <1>3, <2>2 DEF View, Picking, Compacting
  <2>7. Shown(at'[w], cd'[w]) = CS!NewDef(l)
    BY <2>5, <2>6, NewDefIs DEF Shown
  <2>8. CS!LockThis(w, l)
    BY <1>1, <2>2, <2>6, <2>7, SeenStep DEF CS!LockThis
  <2> QED
    BY <2>4, <2>5, <2>8 DEF StatusStep
<1>5. CASE LockNext(w)
  <2>1. PICK e \in CompactDefs : e = cd[w]
    BY <1>2
  <2>2. /\ at[w] = "this" /\ lock[e.level + 1] = NoWorker
        /\ lock' = [lock EXCEPT ![e.level + 1] = w] /\ at'[w] = "left"
        /\ UNCHANGED <<ranges, delSize>>
    BY <1>2, <1>5, <2>1 DEF LockNext
  <2>3. cd'[w].level = e.level
    <3>1. cd'[w] = IF e.level = 0 THEN [e EXCEPT !.top = tables[0]]
                   ELSE [e EXCEPT !.cands = SortBySize(tables[e.level])]
      BY <1>2, <1>5, <2>1 DEF LockNext
    <3> QED
      BY <3>1 DEF CompactDefs
  <2>4. Stages[w] = "this" /\ View(at'[w]) = "both" /\ View(at[w]) = "this"
    BY <1>3, <2>2 DEF View, Picking, Compacting
  <2>5. StatusDefs[w] = StatusDef(NewCd(e.level)) /\ Shown(at'[w], cd'[w]) = StatusDefs[w]
    BY <1>3, <2>1, <2>3, <2>4 DEF Shown
  <2>6. StatusDefs[w].level = e.level
    BY <2>5, NewDefIs
  <2>7. StatusDefs' = StatusDefs
    BY <1>1, <2>5, SeenStep DEF StatusDefs
  <2>8. CS!LockNext(w)
    BY <1>1, <2>2, <2>4, <2>6, <2>7, SeenStep DEF CS!LockNext
  <2> QED
    BY <2>8 DEF StatusStep
<1> QED
  BY <1>4, <1>5

(* The panic of the slice, seen by CompactStatus *)
LEMMA PanicSeen ==
  ASSUME LInv, NEW w \in Workers, SlicePanics(w)
  PROVE  StatusStep(w)
<1>1. Only(w)
  BY OnlyOne DEF WorkerStep
<1>2. at \in [Workers -> Points] /\ cd \in [Workers -> CompactDefs]
  BY DEF LInv, WorkersOK
<1>3. Stages[w] = View(at[w]) /\ StatusDefs[w] = Shown(at[w], cd[w])
  BY Seen
<1>4. /\ at[w] = "slice" /\ at'[w] = "stuck" /\ cd'[w] = cd[w]
      /\ UNCHANGED <<lock, ranges, delSize>>
  BY <1>2 DEF SlicePanics, statusVars
<1>5. View(at[w]) = "both" /\ View(at'[w]) = "stuck"
  BY <1>4 DEF View, Picking, Compacting
<1>6. Shown(at'[w], cd'[w]) = StatusDefs[w]
  BY <1>3, <1>4, <1>5 DEF Shown
<1>7. StatusDefs' = StatusDefs
  BY <1>1, <1>6, SeenStep DEF StatusDefs
<1>8. CS!SlicePanics(w)
  BY <1>1, <1>3, <1>4, <1>5, <1>7, SeenStep DEF CS!SlicePanics
<1> QED
  BY <1>8 DEF StatusStep

(* fill_tables returns false, or delete ends the compaction. *)
LEMMA EndSeen ==
  ASSUME LInv, NEW w \in Workers, NothingToCompact(w) \/ (Refused(w) /\ ReturnFalse(w)) \/ Finish(w)
  PROVE  StatusStep(w)
<1>1. Only(w)
  BY OnlyOne DEF WorkerStep
<1>2. at \in [Workers -> Points] /\ cd \in [Workers -> CompactDefs]
  BY DEF LInv, WorkersOK
<1>3. Stages[w] = View(at[w]) /\ StatusDefs[w] = Shown(at[w], cd[w])
  BY Seen
<1>4. at'[w] = "idle"
  BY <1>2 DEF NothingToCompact, ReturnFalse, Finish
<1>5. View(at'[w]) = "idle"
  BY <1>4 DEF View, Picking, Compacting
<1>6. Shown(at'[w], cd'[w]) = CS!NewDef(0)
  BY <1>5, NewDefIs DEF Shown
<1>7. CASE NothingToCompact(w) \/ (Refused(w) /\ ReturnFalse(w))
  <2>1. at[w] \in Picking /\ CS!UnlockBoth(w) /\ UNCHANGED <<ranges, delSize>>
    BY <1>7 DEF NothingToCompact, Refused, ReturnFalse, Picking
  <2>2. Stages[w] = "both"
    BY <1>3, <2>1 DEF View, Picking, Compacting
  <2>3. CS!GiveUp(w)
    BY <1>1, <1>5, <1>6, <2>1, <2>2, SeenStep DEF CS!GiveUp
  <2> QED
    BY <2>3 DEF StatusStep
<1>8. CASE Finish(w)
  <2>1. Stages[w] = "run" /\ View(at[w]) = "run"
    BY <1>3, <1>8 DEF Finish, View, Picking, Compacting
  <2>2. StatusDefs[w] = StatusDef(cd[w])
    BY <1>3, <2>1 DEF Shown
  <2>3. PICK d : d = StatusDefs[w]
    OBVIOUS
  <2>4. /\ d.level = cd[w].level /\ d.this_range = cd[w].this_range
        /\ d.next_range = cd[w].next_range /\ d.this_size = cd[w].this_size
    BY <2>2, <2>3 DEF StatusDef
  <2>5. /\ ranges' = [ranges EXCEPT ![d.level] = RemoveRange(@, d.this_range),
                                    ![d.level + 1] = RemoveRange(@, d.next_range)]
        /\ delSize' = [delSize EXCEPT ![d.level] = CS!Minus(@, d.this_size)]
        /\ UNCHANGED lock
    BY <1>8, <2>4 DEF Finish
  <2>6. \A R, r : CS!RemoveRange(R, r) = RemoveRange(R, r)
    BY DEF CS!RemoveRange, RemoveRange, CS!Equals, Equals
  <2>7. CS!Delete(w)
    BY <1>1, <1>5, <1>6, <2>1, <2>3, <2>5, <2>6, SeenStep DEF CS!Delete
  <2> QED
    BY <2>7 DEF StatusStep
<1> QED
  BY <1>7, <1>8

(* The ranges of CompactStatus are ours. *)
LEMMA SameRanges ==
  /\ CS!KeyRange = KeyRange /\ CS!FiniteRange = FiniteRange /\ CS!InfoRange = InfoRange
  /\ CSP!KeyRange = KeyRange /\ CSP!FiniteRange = FiniteRange /\ CSP!InfoRange = InfoRange
  BY DEF CS!KeyRange, CS!FiniteRange, CS!InfoRange, CS!EmptyKey, CSP!KeyRange, CSP!FiniteRange,
         CSP!InfoRange, CSP!EmptyKey, KeyRange, FiniteRange, InfoRange, EmptyKey

(* compare_and_add, seen by CompactStatus *)
LEMMA FillSeen ==
  ASSUME LInv, NEW w \in Workers, FillTables(w)
  PROVE  StatusStep(w)
<1>1. Only(w)
  BY OnlyOne DEF WorkerStep
<1>2. at \in [Workers -> Points] /\ cd \in [Workers -> CompactDefs]
  BY DEF LInv, WorkersOK
<1>3. Stages[w] = View(at[w]) /\ StatusDefs[w] = Shown(at[w], cd[w])
  BY Seen
<1>4. PICK K \in SUBSET AnyTable : K = Known /\ Within(K)
  BY WithinKnown DEF LInv, KnownOK
<1>5. PICK e \in CompactDefs : e = cd[w]
  BY <1>2
<1>6. /\ at[w] = "slice" /\ SliceOK(tables[e.level + 1], e.left, e.right)
      /\ Chosen(e) /\ TablesIn(e) \subseteq K
  <2>1. at[w] = "slice" /\ SliceOK(tables[e.level + 1], e.left, e.right)
    BY <1>5 DEF FillTables
  <2> QED
    BY <1>4, <1>5, <2>1 DEF LInv, WorkersOK, PhaseOK, Within
<1>7. PICK f \in CompactDefs : f = Filled(e) /\ Admitted(f) /\ f.level = e.level
  BY <1>4, <1>6, FilledFacts DEF LInv
<1>8. PICK d : d = [f EXCEPT !.cands = <<>>]
  OBVIOUS
<1>9. cd'[w] = d
  BY <1>2, <1>5, <1>7, <1>8 DEF FillTables
<1>10. /\ at'[w] \in Compacting /\ CS!UnlockBoth(w)
       /\ CS!Admits(StatusDef(f), totalSize[f.level]) /\ CS!Record(StatusDef(f))
  BY <1>2, <1>5, <1>7 DEF FillTables, Compacting
<1>11. /\ d.level = f.level /\ d.this_range = f.this_range /\ d.next_range = f.next_range
       /\ d.this_size = f.this_size /\ StatusDef(d) = StatusDef(f)
  BY <1>8 DEF StatusDef, CompactDefs
<1>12. Stages[w] = "both" /\ View(at[w]) = "both" /\ View(at'[w]) = "run"
  BY <1>3, <1>6, <1>10 DEF View, Picking, Compacting
<1>13. StatusDefs[w].level = f.level
  BY <1>3, <1>5, <1>7, <1>12, NewDefIs DEF Shown
<1>14. Shown(at'[w], cd'[w]) = StatusDef(f)
  BY <1>9, <1>11, <1>12 DEF Shown
<1>15. StatusDef(f) = [level |-> StatusDefs[w].level, this_range |-> d.this_range,
                       next_range |-> d.next_range, this_size |-> d.this_size]
  BY <1>11, <1>13 DEF StatusDef
<1>16. /\ d.level = 0 => d.this_range = InfoRange /\ d.this_size = 0
       /\ d.level > 0 => d.this_range \in FiniteRange
       /\ d.next_range \in FiniteRange /\ d.this_size \in CS!Sizes
       /\ d.this_range \in KeyRange /\ d.level \in Nat
  <2>1. Chosen(f) /\ f.next_range \in FiniteRange /\ f.level \in Nat /\ f.this_size \in 0 .. Word - 1
        /\ f.top \in Seq(AnyTable)
    BY <1>7, MaxLevelsAssumption DEF CompactDefs, Admitted
  <2>2. GetRange(f.top) \in FiniteRange
    BY <2>1, RangeFacts DEF Chosen
  <2> QED
    BY <1>11, <2>1, <2>2 DEF Chosen, CS!Sizes, KeyRange
<1>17. CS!FillTables(w, d.this_range, d.next_range, d.this_size, totalSize[d.level])
  BY <1>1, <1>10, <1>11, <1>12, <1>13, <1>14, <1>15, <1>16, SameRanges, SeenStep DEF CS!FillTables
<1> QED
  BY <1>9, <1>16, <1>17 DEF StatusStep

(* A refused compaction above level 0 goes on with its next table. *)
LEMMA RefusedUnseen ==
  ASSUME LInv, NEW w \in Workers, Refused(w), ~ ReturnFalse(w)
  PROVE  UNCHANGED CS!csVars
<1>1. Only(w)
  BY OnlyOne DEF WorkerStep
<1>2. at \in [Workers -> Points] /\ cd \in [Workers -> CompactDefs]
  BY DEF LInv, WorkersOK
<1>3. PICK K \in SUBSET AnyTable : K = Known /\ Within(K)
  BY WithinKnown DEF LInv, KnownOK
<1>4. PICK e \in CompactDefs : e = cd[w]
  BY <1>2
<1>5. /\ at[w] = "slice" /\ SliceOK(tables[e.level + 1], e.left, e.right)
      /\ Chosen(e) /\ TablesIn(e) \subseteq K
  <2>1. at[w] = "slice" /\ SliceOK(tables[e.level + 1], e.left, e.right)
    BY <1>4 DEF Refused
  <2> QED
    BY <1>3, <1>4, <2>1 DEF LInv, WorkersOK, PhaseOK, Within
<1>6. PICK f \in CompactDefs : f = Filled(e) /\ f.level = e.level
  BY <1>3, <1>5, FilledFacts DEF LInv
<1>7. /\ at'[w] = "left" /\ UNCHANGED <<lock, ranges, delSize>>
      /\ cd'[w] = [NewCd(f.level) EXCEPT !.cands = f.cands]
  BY <1>2, <1>4, <1>6 DEF Refused, statusVars
<1>8. cd'[w].level = e.level
  BY <1>6, <1>7 DEF NewCd
<1>9. View(at[w]) = "both" /\ View(at'[w]) = "both"
  BY <1>5, <1>7 DEF View, Picking, Compacting
<1>10. Shown(at'[w], cd'[w]) = Shown(at[w], cd[w])
  BY <1>4, <1>8, <1>9 DEF Shown
<1> QED
  BY <1>1, <1>7, <1>9, <1>10, Unseen

(* The flush task and the reader do not touch the status. *)
LEMMA OthersUnseen ==
  ASSUME UNCHANGED <<statusVars, at, cd>>
  PROVE  UNCHANGED CS!csVars
<1>1. Stages' = Stages
  BY DEF Stages, Stage
<1>2. StatusDefs' = StatusDefs
  BY DEF StatusDefs, Stage
<1> QED
  BY <1>1, <1>2 DEF CS!csVars, statusVars

(* An empty status *)
Quiet ==
  /\ at = [w \in Workers |-> "idle"]
  /\ lock = [l \in LevelSet |-> NoWorker]
  /\ ranges = [l \in LevelSet |-> {}]
  /\ delSize = [l \in LevelSet |-> 0]

(* It is CompactStatus's initial state. *)
LEMMA QuietStatus == Quiet => CS!Init
<1> SUFFICES ASSUME Quiet
             PROVE  CS!Init
  OBVIOUS
<1>1. \A w \in Workers : Stage(w) = "idle"
  BY DEF Quiet, Stage, Picking, Compacting
<1>2. Stages = [w \in Workers |-> "idle"]
  BY <1>1 DEF Stages
<1>3. \A w \in Workers : StatusDefs[w] = CS!NewDef(0)
  BY <1>1, NewDefIs DEF StatusDefs
<1>4. StatusDefs = [w \in Workers |-> CS!NewDef(0)]
  BY <1>3 DEF StatusDefs
<1> QED
  BY <1>2, <1>4 DEF Quiet, CS!Init, CS!Levels, LevelSet

(* The same in the next state *)
LEMMA QuietNext == Quiet' => CS!Init'
  BY QuietStatus, PTL

(***************************************************************************)
(* Every step of the levels is a step of CompactStatus, leaves its state   *)
(* alone, or is a restart.                                                 *)
(***************************************************************************)
LEMMA StepRefined ==
  ASSUME LInv, [Next]_vars
  PROVE  [(\E w \in Workers : StatusStep(w)) \/ NewSession]_(CS!csVars)
<1>1. ASSUME NEW w \in Workers, WorkerStep(w)
      PROVE  StatusStep(w) \/ UNCHANGED CS!csVars
  BY <1>1, UnseenSteps, LockSeen, PanicSeen, EndSeen, FillSeen, RefusedUnseen DEF WorkerStep
<1>2. CASE Reopen
  <2>1. Quiet'
    BY <1>2 DEF Reopen, Quiet
  <2> QED
    BY <1>2, <2>1, QuietNext DEF Reopen, NewSession
<1>3. CASE (\E ks \in FlushKeySets : Flush(ks)) \/ FlusherStep \/ (\E k \in ReadKeys : StartGet(k)) \/ GetLevel
  <2>1. UNCHANGED <<statusVars, at, cd>>
    BY <1>3 DEF Flush, FlusherStep, LogTable, TryAdd, Stall, Unstall, StartGet, GetLevel
  <2> QED
    BY <2>1, OthersUnseen
<1>4. CASE UNCHANGED vars
  <2>1. UNCHANGED <<statusVars, at, cd>>
    BY <1>4 DEF vars, statusVars
  <2> QED
    BY <2>1, OthersUnseen
<1> QED
  BY <1>1, <1>2, <1>3, <1>4 DEF Next

(***************************************************************************)
(* The locks and the compaction status, driven by the workers that search, *)
(* slice, build and fail, do only what CompactStatus allows.               *)
(***************************************************************************)
THEOREM StatusImplemented == Spec => StatusRefined
<1>1. Init => CS!Init
  <2>1. Init => Quiet
    BY DEF Init, Quiet
  <2> QED
    BY <2>1, QuietStatus
<1>2. LInv /\ [Next]_vars => [(\E w \in Workers : StatusStep(w)) \/ NewSession]_(CS!csVars)
  BY StepRefined
<1> QED
  BY <1>1, <1>2, LInvariant, PTL DEF Spec, StatusRefined

-----------------------------------------------------------------------------
(***************************************************************************)
(* So the invariant of CompactStatus holds here too.                       *)
(***************************************************************************)
LEMMA NextIsCSP ==
  ASSUME LInv, LInv', NEW w \in Workers, StatusStep(w)
  PROVE  [CSP!Next]_(CSP!csVars)
<1>1. PICK d : d = cd'[w]
  OBVIOUS
<1>2. \A l : CS!NewDef(l) = CSP!NewDef(l)
  BY DEF CS!NewDef, CSP!NewDef, CS!DefaultRange, CSP!DefaultRange, CS!EmptyKey, CSP!EmptyKey
<1>3. CS!TopLevels = CSP!TopLevels /\ CS!Sizes = CSP!Sizes
  BY DEF CS!TopLevels, CSP!TopLevels, CS!Sizes, CSP!Sizes
<1>4. CASE d.level \in CS!TopLevels /\ CS!LockThis(w, d.level)
  <2>1. CSP!LockThis(w, d.level)
    BY <1>2, <1>4 DEF CS!LockThis, CSP!LockThis
  <2> QED
    BY <1>3, <1>4, <2>1 DEF CSP!Next
<1>5. CASE CS!LockNext(w)
  <2>1. CSP!LockNext(w)
    BY <1>5 DEF CS!LockNext, CSP!LockNext
  <2> QED
    BY <2>1 DEF CSP!Next
<1>6. CASE /\ d.this_range \in KeyRange /\ d.next_range \in FiniteRange /\ d.this_size \in CS!Sizes
           /\ CS!FillTables(w, d.this_range, d.next_range, d.this_size, totalSize[d.level])
  <2>1. PICK tr, nr, sz, tot : /\ tr = d.this_range /\ nr = d.next_range /\ sz = d.this_size
                               /\ tot = totalSize[d.level]
    OBVIOUS
  <2>2. \A c : CS!Admits(c, tot) <=> CSP!Admits(c, tot)
    BY DEF CS!Admits, CSP!Admits, CS!AnyOverlaps, CSP!AnyOverlaps, CS!OverlapsWith,
           CSP!OverlapsWith, CS!Minus, CSP!Minus
  <2>3. \A c : CS!Record(c) <=> CSP!Record(c)
    BY DEF CS!Record, CSP!Record, CS!Plus, CSP!Plus
  <2>4. CS!UnlockBoth(w) <=> CSP!UnlockBoth(w)
    BY DEF CS!UnlockBoth, CSP!UnlockBoth
  <2>5. CSP!FillTables(w, tr, nr, sz, tot)
    <3>1. CS!FillTables(w, tr, nr, sz, tot)
      BY <1>6, <2>1
    <3> QED
      BY <3>1, <2>2, <2>3, <2>4, SameRanges DEF CS!FillTables, CSP!FillTables
  <2>6. tot \in CSP!Sizes
    <3>1. cd'[w].level \in LevelSet
      <4>1. d \in CompactDefs
        BY <1>1 DEF LInv, WorkersOK
      <4> QED
        BY <1>1, <4>1, MaxLevelsAssumption DEF CompactDefs, LevelSet
    <3> QED
      BY <1>1, <2>1, <3>1 DEF LInv, ListsOK, CSP!Sizes
  <2> QED
    BY <1>3, <1>6, <2>1, <2>5, <2>6, SameRanges DEF CSP!Next
<1>7. CASE CS!GiveUp(w)
  <2>1. CSP!GiveUp(w)
    BY <1>2, <1>7 DEF CS!GiveUp, CSP!GiveUp, CS!UnlockBoth, CSP!UnlockBoth
  <2> QED
    BY <2>1 DEF CSP!Next
<1>8. CASE CS!Delete(w)
  <2>1. \A R, r : CS!RemoveRange(R, r) = CSP!RemoveRange(R, r)
    BY DEF CS!RemoveRange, CSP!RemoveRange, CS!Equals, CSP!Equals
  <2>2. \A a, b : CS!Minus(a, b) = CSP!Minus(a, b)
    BY DEF CS!Minus, CSP!Minus
  <2>3. CSP!Delete(w)
    BY <1>2, <1>8, <2>1, <2>2 DEF CS!Delete, CSP!Delete
  <2> QED
    BY <2>3 DEF CSP!Next
<1>9. CASE CS!SlicePanics(w)
  <2>1. CSP!SlicePanics(w)
    BY <1>9 DEF CS!SlicePanics, CSP!SlicePanics
  <2> QED
    BY <2>1 DEF CSP!Next
<1> QED
  BY <1>1, <1>4, <1>5, <1>6, <1>7, <1>8, <1>9 DEF StatusStep

(* An empty status satisfies it. *)
LEMMA InitIsCSP == CS!Init => CSP!IInv
<1>1. CS!Init => CSP!Init
  BY DEF CS!Init, CSP!Init, CS!NewDef, CSP!NewDef, CS!DefaultRange, CSP!DefaultRange,
         CS!EmptyKey, CSP!EmptyKey, CS!Levels, CSP!Levels
<1> QED
  BY <1>1, StatusInit

(* The same in the next state *)
LEMMA InitIsCSPNext == CS!Init' => CSP!IInv'
  BY InitIsCSP, PTL

(* The invariant of CompactStatus, through restarts as well *)
LEMMA StatusInvariant == Spec => []CSP!IInv
<1>1. Init => CSP!IInv
  <2>1. Init => Quiet
    BY DEF Init, Quiet
  <2> QED
    BY <2>1, QuietStatus, InitIsCSP
<1>2. LInv /\ LInv' /\ CSP!IInv /\ [Next]_vars => CSP!IInv'
  <2> SUFFICES ASSUME LInv, LInv', CSP!IInv, [Next]_vars
               PROVE  CSP!IInv'
    OBVIOUS
  <2>1. [(\E w \in Workers : StatusStep(w)) \/ NewSession]_(CS!csVars)
    BY StepRefined
  <2>2. CASE \E w \in Workers : StatusStep(w)
    BY <2>2, NextIsCSP, StatusStays
  <2>3. CASE NewSession
    BY <2>3, InitIsCSPNext DEF NewSession
  <2>4. CASE UNCHANGED CS!csVars
    <3>1. UNCHANGED CSP!csVars
      BY <2>4 DEF CS!csVars, CSP!csVars
    <3> QED
      BY <3>1, StatusStays
  <2> QED
    BY <2>1, <2>2, <2>3, <2>4
<1> QED
  BY <1>1, <1>2, LInvariant, PTL DEF Spec

(***************************************************************************)
(* Type correctness of the levels, for every number of workers and levels. *)
(* No file id is handed out twice, through any crash and restart, and      *)
(* every compaction has a next level.                                      *)
(***************************************************************************)
THEOREM TypeCorrect == Spec => []TypeOK
<1>1. LInv /\ CSP!IInv => TypeOK
  <2> SUFFICES ASSUME LInv, CSP!IInv
               PROVE  TypeOK
    OBVIOUS
  <2>1. at \in [Workers -> {"idle", "dead", "this", "stuck"} \cup Picking \cup Compacting]
    BY DEF LInv, WorkersOK, Points
  <2>2. \A w \in Workers : cd[w].level + 1 \in LevelSet
    BY MaxLevelsAssumption DEF LInv, WorkersOK, CompactDefs, LevelSet
  <2>3. /\ lock \in [LevelSet -> Workers \cup {NoWorker}]
        /\ ranges \in [LevelSet -> SUBSET KeyRange]
        /\ delSize \in [LevelSet -> 0 .. Word - 1]
    BY SameRanges DEF CSP!IInv, CSP!TypeOK, CSP!Levels, CSP!Sizes, LevelSet
  <2>4. \A t \in Known : /\ t \in AnyTable /\ t.id \in 1 .. nextFileId - 1 /\ t.id < nextFileId
                         /\ TableKeys(t) \in (SUBSET Keys) \ {{}}
    <3> SUFFICES ASSUME NEW t \in Known
                 PROVE  /\ t \in AnyTable /\ t.id \in 1 .. nextFileId - 1 /\ t.id < nextFileId
                        /\ TableKeys(t) \in (SUBSET Keys) \ {{}}
      OBVIOUS
    <3>1. t \in AnyTable /\ t.id < nextFileId
      BY DEF LInv, KnownOK, IdsOK
    <3>2. t.id \in Nat \ {0}
      BY <3>1 DEF AnyTable
    <3>3. t.id \in 1 .. nextFileId - 1
      BY <3>1, <3>2 DEF LInv, DiskOK
    <3>4. TableKeys(t) \in (SUBSET Keys) \ {{}}
      BY <3>1 DEF AnyTable, TableKeys, TableSets
    <3> QED
      BY <3>1, <3>3, <3>4
  <2>5. files \subseteq Known /\ \A l \in LevelSet : ToSet(tables[l]) \subseteq Known
    BY WithinKnown DEF Within
  <2>6. \A l \in LevelSet : Ids(tables[l]) \subseteq 1 .. nextFileId - 1
    BY <2>4, <2>5 DEF Ids, ToSet
  <2>7. \A t \in files : t.id < nextFileId /\ TableKeys(t) \in (SUBSET Keys) \ {{}}
    BY <2>4, <2>5
  <2> QED
    BY <2>1, <2>2, <2>3, <2>6, <2>7 DEF TypeOK, LInv, ListsOK, DiskOK
<1> QED
  BY <1>1, LInvariant, StatusInvariant, PTL

(* Two lists with a table in common have overlapping ranges. *)
LEMMA SharedOverlaps ==
  ASSUME NEW s \in Seq(AnyTable), NEW u \in Seq(AnyTable), ToSet(s) \cap ToSet(u) # {}
  PROVE  CSP!OverlapsWith(GetRange(s), GetRange(u))
<1>1. PICK i \in DOMAIN s, j \in DOMAIN u : s[i] = u[j]
  BY DEF ToSet
<1>2. s # <<>> /\ u # <<>>
  BY <1>1
<1>3. /\ GetRange(s) \in FiniteRange /\ GetRange(u) \in FiniteRange
      /\ GetRange(s).left <= Smallest(s[i]) /\ Biggest(s[i]) <= GetRange(s).right
      /\ GetRange(u).left <= Smallest(u[j]) /\ Biggest(u[j]) <= GetRange(u).right
  BY <1>2, RangeFacts
<1>4. /\ Smallest(s[i]) \in Nat /\ Biggest(s[i]) \in Nat
      /\ Smallest(s[i]) <= Biggest(s[i])
  <2>1. s[i] \in AnyTable
    BY SeqDomain
  <2> QED
    BY <2>1, TableFacts, KeysAssumption
<1>5. /\ GetRange(s).left \in Nat /\ GetRange(s).right \in Nat
      /\ GetRange(u).left \in Nat /\ GetRange(u).right \in Nat
  BY <1>3, KeysAssumption DEF FiniteRange
<1>6. PICK a \in Nat, b \in Nat, c \in Nat, e \in Nat, x \in Nat, y \in Nat :
        /\ a = GetRange(s).left /\ b = GetRange(s).right
        /\ c = GetRange(u).left /\ e = GetRange(u).right
        /\ x = Smallest(s[i]) /\ y = Biggest(s[i])
  BY <1>4, <1>5
<1>7. a <= e /\ c <= b
  BY <1>1, <1>3, <1>4, <1>6
<1> QED
  BY <1>6, <1>7 DEF CSP!OverlapsWith

(***************************************************************************)
(* Two running compactions never take the same table off the same level:   *)
(* their claims are disjoint, the claims hold their tables, and an id      *)
(* belongs to one table.  It needs nothing of how the lists are sorted,    *)
(* nor of what changed in them between two searches.                       *)
(***************************************************************************)
THEOREM TablesApart == Spec => []TablesNotShared
<1>1. LInv /\ CSP!IInv => TablesNotShared
  <2> SUFFICES ASSUME LInv, CSP!IInv, NEW w \in Workers, NEW v \in Workers, NEW l \in LevelSet,
                      w # v, at[w] \in Compacting, at[v] \in Compacting,
                      NEW i \in TakenFrom(cd[w], l), i \in TakenFrom(cd[v], l)
               PROVE  FALSE
    BY DEF TablesNotShared
  <2>1. PICK d \in CompactDefs, e \in CompactDefs : d = cd[w] /\ e = cd[v]
    BY DEF LInv, WorkersOK
  <2>2. Admitted(d) /\ Admitted(e)
    BY <2>1 DEF LInv, WorkersOK, PhaseOK
  <2>3. /\ d.top \in Seq(AnyTable) /\ d.bot \in Seq(AnyTable)
        /\ e.top \in Seq(AnyTable) /\ e.bot \in Seq(AnyTable)
        /\ d.level \in Nat /\ e.level \in Nat
    BY MaxLevelsAssumption DEF CompactDefs
  <2>4. /\ Stages[w] = "run" /\ Stages[v] = "run"
        /\ StatusDefs[w] = StatusDef(d) /\ StatusDefs[v] = StatusDef(e)
    <3>1. View(at[w]) = "run" /\ View(at[v]) = "run"
      BY DEF View, Picking, Compacting
    <3> QED
      BY <2>1, <3>1, Seen DEF Shown
  <2>5. /\ d.level = e.level => /\ ~ CSP!OverlapsWith(d.this_range, e.this_range)
                                /\ ~ CSP!OverlapsWith(d.next_range, e.next_range)
        /\ d.level = e.level + 1 => ~ CSP!OverlapsWith(d.this_range, e.next_range)
        /\ e.level = d.level + 1 => ~ CSP!OverlapsWith(e.this_range, d.next_range)
    BY <2>4 DEF CSP!IInv, CSP!ClaimsDisjoint, CSP!Running, StatusDef
  <2>6. ASSUME NEW s \in {d.top, d.bot}, NEW u \in {e.top, e.bot}, i \in Ids(s), i \in Ids(u)
        PROVE  ToSet(s) \cap ToSet(u) # {} /\ s # <<>> /\ u # <<>>
    <3>1. PICK x \in ToSet(s), y \in ToSet(u) : x.id = i /\ y.id = i
      BY <2>6 DEF Ids, ToSet
    <3>2. x \in Known /\ y \in Known
      BY <2>1, WithinKnown DEF Within, TablesIn
    <3>3. x = y
      BY <3>1, <3>2 DEF LInv, KnownOK, IdsOK
    <3>4. s # <<>> /\ u # <<>>
      BY DEF ToSet
    <3> QED
      BY <3>3, <3>4
  <2>7. CASE l = d.level /\ l = e.level
    <3>1. i \in Ids(d.top) /\ i \in Ids(e.top)
      BY <2>1, <2>7 DEF TakenFrom
    <3>2. CASE l = 0
      BY <2>2, <2>5, <2>7, <3>2 DEF Admitted, Chosen, CSP!OverlapsWith, InfoRange
    <3>3. CASE l # 0
      BY <2>2, <2>3, <2>5, <2>6, <2>7, <3>1, <3>3, SharedOverlaps DEF Admitted, Chosen
    <3> QED
      BY <3>2, <3>3
  <2>8. CASE l = d.level /\ l # e.level
    <3>1. l = e.level + 1 /\ i \in Ids(d.top) /\ i \in Ids(e.bot)
      BY <2>1, <2>8 DEF TakenFrom
    <3>2. d.level > 0
      BY <2>3, <2>8, <3>1
    <3> QED
      BY <2>2, <2>3, <2>5, <2>6, <2>8, <3>1, <3>2, SharedOverlaps DEF Admitted, Chosen
  <2>9. CASE l # d.level /\ l = e.level
    <3>1. l = d.level + 1 /\ i \in Ids(d.bot) /\ i \in Ids(e.top)
      BY <2>1, <2>9 DEF TakenFrom
    <3>2. e.level > 0
      BY <2>3, <2>9, <3>1
    <3>3. ToSet(e.top) \cap ToSet(d.bot) # {} /\ d.bot # <<>>
      BY <2>6, <3>1
    <3> QED
      BY <2>2, <2>3, <2>5, <2>9, <3>1, <3>2, <3>3, SharedOverlaps DEF Admitted, Chosen
  <2>10. CASE l # d.level /\ l # e.level
    <3>1. l = d.level + 1 /\ l = e.level + 1 /\ i \in Ids(d.bot) /\ i \in Ids(e.bot)
      BY <2>1, <2>10 DEF TakenFrom
    <3>2. d.level = e.level
      BY <2>3, <3>1
    <3> QED
      BY <2>2, <2>3, <2>5, <2>6, <3>1, <3>2, SharedOverlaps DEF Admitted
  <2> QED
    BY <2>7, <2>8, <2>9, <2>10
<1> QED
  BY <1>1, LInvariant, StatusInvariant, PTL

-----------------------------------------------------------------------------
(***************************************************************************)
(* Part two: what the levels store.                                        *)
(***************************************************************************)

(* In an order, an element that has fewer before it comes first. *)
LEMMA FewerBefore ==
  ASSUME NEW S, IsFiniteSet(S), NEW R,
         \A x, y, z \in S : <<x, y>> \in R /\ <<y, z>> \in R => <<x, z>> \in R,
         \A x, y \in S : x # y => <<x, y>> \in R \/ <<y, x>> \in R,
         NEW x \in S, NEW y \in S,
         Cardinality({z \in S : <<z, x>> \in R}) < Cardinality({z \in S : <<z, y>> \in R})
  PROVE  x # y /\ <<x, y>> \in R
<1> DEFINE A == {z \in S : <<z, x>> \in R}
           B == {z \in S : <<z, y>> \in R}
<1>1. x # y
  <2> SUFFICES ASSUME x = y PROVE FALSE
    OBVIOUS
  <2>1. A = B /\ IsFiniteSet(A)
    BY FS_Subset
  <2>2. Cardinality(A) \in Nat /\ Cardinality(A) < Cardinality(A)
    BY <2>1, FS_CardinalityType
  <2> HIDE DEF A, B
  <2> QED
    BY <2>2
<1> SUFFICES ASSUME <<x, y>> \notin R PROVE FALSE
  BY <1>1
<1>2. <<y, x>> \in R
  BY <1>1
<1>3. B \subseteq A /\ IsFiniteSet(A)
  BY <1>2, FS_Subset
<1>4. Cardinality(A) \in Nat /\ Cardinality(B) \in Nat /\ Cardinality(B) <= Cardinality(A)
  BY <1>3, FS_Subset, FS_CardinalityType
<1> QED
  BY <1>4

(* Filter keeps the order of the elements. *)
LEMMA FilterOrder ==
  ASSUME NEW T, NEW s \in Seq(T), NEW I \in SUBSET DOMAIN s
  PROVE  \A m, n \in DOMAIN Filter(s, I) :
           m < n => \E i, j \in I : i < j /\ Filter(s, I)[m] = s[i] /\ Filter(s, I)[n] = s[j]
<1> DEFINE N == 1 .. Cardinality(I)
           R == {p \in I \X I : p[1] < p[2]}
<1>1. IsFiniteSet(I) /\ I \in SUBSET Int /\ Cardinality(I) \in Nat
  BY SeqDomain, FS_Subset, FS_CardinalityType
<1>a. /\ \A x \in I : <<x, x>> \notin R
      /\ \A x, y, z \in I : <<x, y>> \in R /\ <<y, z>> \in R => <<x, z>> \in R
      /\ \A x, y \in I : x # y => <<x, y>> \in R \/ <<y, x>> \in R
  BY <1>1
<1>3. \A n \in N : \E x \in I : Cardinality({y \in I : <<y, x>> \in R}) = n - 1
  <2> HIDE DEF R
  <2>4. IsFiniteSet(I)
    BY <1>1
  <2> QED
    BY <1>a, <2>4, RankExists
<1>4. \A x \in I : {y \in I : <<y, x>> \in R} = {y \in I : y < x}
  OBVIOUS
<1>5. ASSUME NEW n \in N
      PROVE  Nth(I, <, n) \in I /\ Cardinality({y \in I : y < Nth(I, <, n)}) = n - 1
  <2>1. \E x \in I : Cardinality({y \in I : y < x}) = n - 1
    BY <1>3, <1>4
  <2> QED
    BY <2>1, Zenon DEF Nth
<1>6. DOMAIN Filter(s, I) = N /\ \A n \in N : Filter(s, I)[n] = s[Nth(I, <, n)]
  BY DEF Filter
<1>7. ASSUME NEW m \in N, NEW n \in N, m < n
      PROVE  \E i, j \in I : i < j /\ Filter(s, I)[m] = s[i] /\ Filter(s, I)[n] = s[j]
  <2>1. PICK i \in I : i = Nth(I, <, m)
    BY <1>5
  <2>2. PICK j \in I : j = Nth(I, <, n)
    BY <1>5
  <2>3. /\ Cardinality({y \in I : <<y, i>> \in R}) = m - 1
        /\ Cardinality({y \in I : <<y, j>> \in R}) = n - 1
    BY <1>4, <1>5, <2>1, <2>2
  <2>4. m - 1 < n - 1
    BY <1>1, <1>7
  <2>5. <<i, j>> \in R
    <3>1. IsFiniteSet(I)
      BY <1>1
    <3>2. Cardinality({y \in I : <<y, i>> \in R}) < Cardinality({y \in I : <<y, j>> \in R})
      BY <2>3, <2>4
    <3> HIDE DEF R
    <3> QED
      BY <3>1, <3>2, <1>a, FewerBefore
  <2>6. i < j
    BY <2>5
  <2> QED
    BY <1>6, <2>1, <2>2, <2>6
<1> HIDE DEF N
<1> QED
  BY <1>6, <1>7, Zenon

(* StableSort puts the elements in the order of their ranks. *)
LEMMA SortOrder ==
  ASSUME NEW T, NEW s \in Seq(T), NEW rank \in [DOMAIN s -> Int]
  PROVE  /\ DOMAIN StableSort(s, rank) = DOMAIN s
         /\ \A m, n \in DOMAIN s :
              m < n => \E i, j \in DOMAIN s :
                          /\ i # j /\ rank[i] <= rank[j]
                          /\ StableSort(s, rank)[m] = s[i] /\ StableSort(s, rank)[n] = s[j]
<1> DEFINE D == DOMAIN s
           before(i, j) == rank[i] < rank[j] \/ (rank[i] = rank[j] /\ i < j)
           R == {p \in D \X D : before(p[1], p[2])}
<1>a. IsFiniteSet(D)
  BY SeqDomain
<1>1. D \in SUBSET Int /\ D = 1 .. Cardinality(D) /\ Cardinality(D) \in Nat
  BY SeqDomain
<1>2. \A i \in D : rank[i] \in Int
  OBVIOUS
<1>b. /\ \A x \in D : <<x, x>> \notin R
      /\ \A x, y, z \in D : <<x, y>> \in R /\ <<y, z>> \in R => <<x, z>> \in R
      /\ \A x, y \in D : x # y => <<x, y>> \in R \/ <<y, x>> \in R
  <2>1. D \in SUBSET Int
    BY <1>1
  <2> HIDE DEF D
  <2>2. \A x \in D : <<x, x>> \notin R
    BY <2>1, <1>2
  <2>3. \A x, y \in D : x # y => <<x, y>> \in R \/ <<y, x>> \in R
    BY <2>1, <1>2
  <2>4. ASSUME NEW x \in D, NEW y \in D, NEW z \in D, <<x, y>> \in R, <<y, z>> \in R
        PROVE  <<x, z>> \in R
    <3>1. before(x, y) /\ before(y, z)
      BY <2>4
    <3>2. x \in Int /\ y \in Int /\ z \in Int
      BY <2>1
    <3>3. PICK a \in Int, b \in Int, c \in Int : a = rank[x] /\ b = rank[y] /\ c = rank[z]
      BY <1>2
    <3>4. before(x, z)
      BY <3>1, <3>2, <3>3
    <3> QED
      BY <3>4
  <2> QED
    BY <2>2, <2>3, <2>4
<1>3. \A n \in D : \E x \in D : Cardinality({y \in D : <<y, x>> \in R}) = n - 1
  <2> HIDE DEF D, R
  <2>4. \A n \in 1 .. Cardinality(D) :
          \E x \in D : Cardinality({y \in D : <<y, x>> \in R}) = n - 1
    BY <1>a, <1>b, RankExists
  <2> QED
    BY <1>1, <2>4
<1>4. \A x \in D : {y \in D : <<y, x>> \in R} = {y \in D : before(y, x)}
  <2> HIDE DEF D
  <2> QED
    OBVIOUS
<1>5. ASSUME NEW n \in D
      PROVE  Nth(D, before, n) \in D /\ Cardinality({y \in D : before(y, Nth(D, before, n))}) = n - 1
  <2>1. \E x \in D : Cardinality({y \in D : before(y, x)}) = n - 1
    BY <1>3, <1>4
  <2> QED
    BY <2>1, Zenon DEF Nth
<1>9. StableSort(s, rank) = [n \in D |-> s[Nth(D, before, n)]]
  BY Zenon DEF StableSort
<1>7. ASSUME NEW m \in D, NEW n \in D, m < n
      PROVE  \E i, j \in D : /\ i # j /\ rank[i] <= rank[j]
                             /\ StableSort(s, rank)[m] = s[i] /\ StableSort(s, rank)[n] = s[j]
  <2>1. PICK i \in D : i = Nth(D, before, m)
    BY <1>5
  <2>2. PICK j \in D : j = Nth(D, before, n)
    BY <1>5
  <2>3. /\ Cardinality({y \in D : <<y, i>> \in R}) = m - 1
        /\ Cardinality({y \in D : <<y, j>> \in R}) = n - 1
    BY <1>4, <1>5, <2>1, <2>2
  <2>4. m - 1 < n - 1
    <3> HIDE DEF D
    <3> QED
      BY <1>1, <1>7
  <2>5. i # j /\ <<i, j>> \in R
    <3> HIDE DEF R, D
    <3> QED
      BY <1>a, <1>b, <2>3, <2>4, FewerBefore
  <2>6. rank[i] <= rank[j]
    BY <2>5, <1>2
  <2> HIDE DEF D, before
  <2>7. StableSort(s, rank)[m] = s[i] /\ StableSort(s, rank)[n] = s[j]
    BY <1>9, <2>1, <2>2
  <2> QED
    BY <2>5, <2>6, <2>7
<1>8. DOMAIN StableSort(s, rank) = D
  BY <1>9
<1> QED
  BY <1>7, <1>8

-----------------------------------------------------------------------------
(***************************************************************************)
(* The order of tables: by key, and by the versions they have.             *)
(***************************************************************************)

(* On the keys they share, t is not newer than u. *)
NotNewer(t, u) == \A k \in TableKeys(t) \cap TableKeys(u) : t.kv[k] <= u.kv[k]

(* All keys of t come before those of u. *)
Before(t, u) == Biggest(t) < Smallest(u)

(* Lists by age, oldest first, and by key *)
Chrono(s) == \A i, j \in DOMAIN s : i < j => NotNewer(s[i], s[j])
Ascending(s) == \A i, j \in DOMAIN s : i < j => Before(s[i], s[j])
NoneTouch(s) == \A i, j \in DOMAIN s : i # j => Before(s[i], s[j]) \/ Before(s[j], s[i])

(* Sets of tables that can be put in such an order *)
Aged(T) == \A t, u \in T : t.id <= u.id => NotNewer(t, u)
Apart(T) == \A t, u \in T : t # u => Before(t, u) \/ Before(u, t)

(* The ends of a table are keys of it, and every key is between them. *)
LEMMA TableEnds ==
  ASSUME NEW t \in AnyTable
  PROVE  /\ Smallest(t) \in TableKeys(t) /\ Biggest(t) \in TableKeys(t)
         /\ \A k \in TableKeys(t) : k \in Nat /\ Smallest(t) <= k /\ k <= Biggest(t)
         /\ \A k \in TableKeys(t) : k \in Keys
<1>1. TableKeys(t) \in SUBSET Keys /\ TableKeys(t) # {} /\ IsFiniteSet(TableKeys(t))
  BY TableFacts
<1>2. PICK S : S = TableKeys(t)
  OBVIOUS
<1>3. S \in SUBSET Keys /\ S # {} /\ IsFiniteSet(S)
  BY <1>1, <1>2
<1>4. S \in SUBSET Int
  BY <1>3, KeysAssumption
<1>5. \A k \in S : k \in Nat
  BY <1>3, KeysAssumption
<1>6. /\ Min(S) \in S /\ \A x \in S : Min(S) <= x
      /\ Max(S) \in S /\ \A x \in S : x <= Max(S)
  BY <1>3, <1>4, MinMax
<1> QED
  BY <1>2, <1>3, <1>5, <1>6 DEF Smallest, Biggest

(* Tables one before the other share no key, and no table is before itself. *)
LEMMA BeforeFacts ==
  ASSUME NEW t \in AnyTable, NEW u \in AnyTable, Before(t, u)
  PROVE  /\ t # u /\ ~ Before(u, t) /\ TableKeys(t) \cap TableKeys(u) = {}
         /\ \A j \in TableKeys(t), k \in TableKeys(u) : j < k
         /\ Smallest(t) < Smallest(u) /\ Biggest(t) < Biggest(u)
         /\ NotNewer(t, u) /\ NotNewer(u, t)
<1>1. /\ \A k \in TableKeys(t) : k \in Nat /\ Smallest(t) <= k /\ k <= Biggest(t)
      /\ \A k \in TableKeys(u) : k \in Nat /\ Smallest(u) <= k /\ k <= Biggest(u)
      /\ Smallest(t) \in Nat /\ Biggest(t) \in Nat /\ Smallest(u) \in Nat /\ Biggest(u) \in Nat
      /\ Smallest(t) <= Biggest(t) /\ Smallest(u) <= Biggest(u)
  BY TableEnds
<1>2. Biggest(t) < Smallest(u)
  BY DEF Before
<1>3. \A j \in TableKeys(t), k \in TableKeys(u) : j < k
  BY <1>1, <1>2
<1>4. \A k \in TableKeys(t) : k \in Nat /\ ~ (k < k)
  BY <1>1
<1>5. TableKeys(t) \cap TableKeys(u) = {}
  BY <1>3, <1>4
<1>6. t # u /\ ~ Before(u, t) /\ Smallest(t) < Smallest(u) /\ Biggest(t) < Biggest(u)
  BY <1>1, <1>2 DEF Before
<1> QED
  BY <1>3, <1>5, <1>6 DEF NotNewer

(* A part of a list in the same order *)
LEMMA FilterKeeps ==
  ASSUME NEW s \in Seq(AnyTable), NEW I \in SUBSET DOMAIN s
  PROVE  /\ Chrono(s) => Chrono(Filter(s, I))
         /\ Ascending(s) => Ascending(Filter(s, I))
<1>1. \A m, n \in DOMAIN Filter(s, I) :
        m < n => \E i, j \in I : i < j /\ Filter(s, I)[m] = s[i] /\ Filter(s, I)[n] = s[j]
  BY FilterOrder
<1>2. \A i \in I : i \in DOMAIN s
  OBVIOUS
<1> QED
  BY <1>1, <1>2 DEF Chrono, Ascending

(* Sorting tables that do not touch puts them one before the other. *)
LEMMA SortAscends ==
  ASSUME NEW s \in Seq(AnyTable), NoneTouch(s)
  PROVE  Ascending(SortBySmallest(s))
<1> DEFINE rank == [i \in DOMAIN s |-> Smallest(s[i])]
<1>1. \A i \in DOMAIN s : s[i] \in AnyTable
  BY SeqDomain
<1>2. \A i \in DOMAIN s : rank[i] = Smallest(s[i]) /\ rank[i] \in Int
  BY <1>1, TableEnds
<1>3. rank \in [DOMAIN s -> Int] /\ SortBySmallest(s) = StableSort(s, rank)
  BY <1>2 DEF SortBySmallest
<1> HIDE DEF rank
<1>4. PICK q : q = SortBySmallest(s)
  OBVIOUS
<1>5. DOMAIN q = DOMAIN s /\ \A m, n \in DOMAIN s :
              m < n => \E i, j \in DOMAIN s :
                          i # j /\ rank[i] <= rank[j] /\ q[m] = s[i] /\ q[n] = s[j]
  BY <1>3, <1>4, SortOrder
<1>6. ASSUME NEW m \in DOMAIN q, NEW n \in DOMAIN q, m < n
      PROVE  Before(q[m], q[n])
  <2>1. PICK i \in DOMAIN s, j \in DOMAIN s :
          i # j /\ rank[i] <= rank[j] /\ q[m] = s[i] /\ q[n] = s[j]
    BY <1>5, <1>6
  <2>2. Before(s[i], s[j]) \/ Before(s[j], s[i])
    BY <2>1 DEF NoneTouch
  <2>3. ASSUME Before(s[j], s[i]) PROVE FALSE
    <3>1. Smallest(s[j]) < Smallest(s[i]) /\ Smallest(s[i]) \in Nat /\ Smallest(s[j]) \in Nat
      BY <1>1, <2>3, BeforeFacts, TableEnds
    <3>2. Smallest(s[i]) <= Smallest(s[j])
      BY <1>2, <2>1
    <3> QED
      BY <3>1, <3>2
  <2> QED
    BY <2>1, <2>2, <2>3
<1> QED
  BY <1>4, <1>6 DEF Ascending

(* Sorting by id puts tables that got newer with their ids in order of age. *)
LEMMA SortChrono ==
  ASSUME NEW s \in Seq(AnyTable), Aged(ToSet(s))
  PROVE  Chrono(SortById(s))
<1> DEFINE rank == [i \in DOMAIN s |-> s[i].id]
<1>1. \A i \in DOMAIN s : s[i] \in AnyTable /\ s[i] \in ToSet(s)
  BY SeqDomain DEF ToSet
<1>2. \A i \in DOMAIN s : rank[i] = s[i].id /\ rank[i] \in Int
  BY <1>1, TableFacts
<1>3. rank \in [DOMAIN s -> Int] /\ SortById(s) = StableSort(s, rank)
  BY <1>2 DEF SortById
<1> HIDE DEF rank
<1>4. PICK q : q = SortById(s)
  OBVIOUS
<1>5. DOMAIN q = DOMAIN s /\ \A m, n \in DOMAIN s :
              m < n => \E i, j \in DOMAIN s :
                          i # j /\ rank[i] <= rank[j] /\ q[m] = s[i] /\ q[n] = s[j]
  BY <1>3, <1>4, SortOrder
<1>6. ASSUME NEW m \in DOMAIN q, NEW n \in DOMAIN q, m < n
      PROVE  NotNewer(q[m], q[n])
  <2>1. PICK i \in DOMAIN s, j \in DOMAIN s :
          i # j /\ rank[i] <= rank[j] /\ q[m] = s[i] /\ q[n] = s[j]
    BY <1>5, <1>6
  <2>2. s[i].id <= s[j].id
    BY <1>2, <2>1
  <2> QED
    BY <1>1, <2>1, <2>2 DEF Aged
<1> QED
  BY <1>4, <1>6 DEF Chrono

(* init_tables puts a level that is opened in its order. *)
LEMMA OpenedInOrder ==
  ASSUME NEW S \in SUBSET AnyTable, IsFiniteSet(S), NEW l
  PROVE  /\ l = 0 /\ Aged(S) => Chrono(InitTables(l, SetToSeq(S)))
         /\ l # 0 /\ Apart(S) => Ascending(InitTables(l, SetToSeq(S)))
<1>1. PICK c \in Nat : c = Cardinality(S)
  BY FS_CardinalityType
<1>2. \E f \in [1 .. c -> S] : IsInjective(f)
  <2>1. ExistsBijection(1 .. c, S)
    BY <1>1, FS_NatBijection, FS_CountingElements, FS_Interval
  <2> QED
    BY <2>1 DEF ExistsBijection, Bijection, Injection
<1>3. SetToSeq(S) \in [1 .. c -> S] /\ IsInjective(SetToSeq(S))
  BY <1>1, <1>2, Zenon DEF SetToSeq
<1>4. PICK s : s = SetToSeq(S)
  OBVIOUS
<1>5. s \in [1 .. c -> S] /\ \A m, n \in 1 .. c : s[m] = s[n] => m = n
  BY <1>3, <1>4 DEF IsInjective
<1>6. s \in Seq(AnyTable) /\ DOMAIN s = 1 .. c
  BY <1>5, SeqDef
<1>7. ToSet(s) \subseteq S
  BY <1>5, <1>6 DEF ToSet
<1>8. ASSUME l = 0, Aged(S) PROVE Chrono(InitTables(l, s))
  <2>1. Aged(ToSet(s))
    BY <1>7, <1>8 DEF Aged
  <2> QED
    BY <1>6, <1>8, <2>1, SortChrono DEF InitTables
<1>9. ASSUME l # 0, Apart(S) PROVE Ascending(InitTables(l, s))
  <2>1. NoneTouch(s)
    BY <1>5, <1>6, <1>9 DEF NoneTouch, Apart
  <2> QED
    BY <1>6, <1>9, <2>1, SortAscends DEF InitTables
<1> QED
  BY <1>4, <1>8, <1>9

-----------------------------------------------------------------------------
(***************************************************************************)
(* Binary searches in lists that are in order.                             *)
(***************************************************************************)

(* Indices from the first one on are counted by the last. *)
LEMMA FirstIndices ==
  ASSUME NEW N \in Nat, NEW I \in SUBSET (1 .. N),
         \A i \in I : \A j \in 1 .. N : j < i => j \in I
  PROVE  Cardinality(I) \in 0 .. N /\ I = 1 .. Cardinality(I)
<1>1. CASE I = {}
  <2>1. Cardinality(I) = 0 /\ 1 .. 0 = {}
    BY <1>1, FS_EmptySet
  <2> QED
    BY <1>1, <2>1
<1>2. CASE I # {}
  <2>a. IsFiniteSet(1 .. N)
    BY FS_Interval
  <2>b. I \in SUBSET Int
    OBVIOUS
  <2>1. IsFiniteSet(I) /\ I \in SUBSET Int
    BY <2>a, <2>b, FS_Subset
  <2>2. PICK m \in I : \A x \in I : x <= m
    BY <1>2, <2>1, MinMax
  <2>3. m \in 1 .. N /\ m \in Nat
    OBVIOUS
  <2>4. \A j \in 1 .. m : j \in I
    BY <2>2, <2>3
  <2>5. \A j \in I : j \in 1 .. m
    BY <2>2, <2>3
  <2>6. I = 1 .. m
    BY <2>4, <2>5
  <2>7. Cardinality(I) = m
    BY <2>3, <2>6, FS_Interval
  <2> QED
    BY <2>3, <2>6, <2>7
<1> QED
  BY <1>1, <1>2

(* The ends of the tables of an ascending list grow with the index. *)
LEMMA AscendingEnds ==
  ASSUME NEW s \in Seq(AnyTable), Ascending(s)
  PROVE  /\ \A i \in DOMAIN s : /\ i \in Nat /\ s[i] \in AnyTable /\ s[i] \in ToSet(s)
                                /\ Smallest(s[i]) \in Nat /\ Biggest(s[i]) \in Nat
                                /\ Smallest(s[i]) <= Biggest(s[i])
         /\ \A i, j \in DOMAIN s : i < j => /\ Smallest(s[i]) < Smallest(s[j])
                                            /\ Biggest(s[i]) < Biggest(s[j])
                                            /\ Biggest(s[i]) < Smallest(s[j])
<1>1. \A i \in DOMAIN s : i \in Nat /\ s[i] \in AnyTable /\ s[i] \in ToSet(s)
  BY SeqDomain DEF ToSet
<1>2. \A i, j \in DOMAIN s : i < j => Before(s[i], s[j])
  BY DEF Ascending
<1>3. \A t \in AnyTable : Smallest(t) \in Nat /\ Biggest(t) \in Nat /\ Smallest(t) <= Biggest(t)
  BY TableEnds
<1> QED
  BY <1>1, <1>2, <1>3, BeforeFacts DEF Before

(* The first search: the tables up to n end before the range. *)
LEMMA LeftSearch ==
  ASSUME NEW s \in Seq(AnyTable), Ascending(s), NEW k \in Nat
  PROVE  \E n \in 0 .. Len(s) :
           /\ BinarySearch(s, Biggest, k).at = {n}
           /\ \A i \in DOMAIN s : /\ i <= n => Biggest(s[i]) < k
                                  /\ i > n => Biggest(s[i]) >= k
<1> DEFINE matches == {i \in DOMAIN s : Biggest(s[i]) = k}
           below == {i \in DOMAIN s : Biggest(s[i]) < k}
<1>1. BinarySearch(s, Biggest, k).at =
        IF matches # {} THEN {i - 1 : i \in matches} ELSE {Cardinality(below)}
  BY DEF BinarySearch
<1>a. Len(s) \in Nat /\ DOMAIN s = 1 .. Len(s)
  BY SeqDomain
<1>b. /\ \A i \in DOMAIN s : i \in Nat /\ Biggest(s[i]) \in Nat
      /\ \A i, j \in DOMAIN s : i < j => Biggest(s[i]) < Biggest(s[j])
  BY AscendingEnds
<1>2. CASE matches # {}
  <2>1. PICK m \in DOMAIN s : Biggest(s[m]) = k
    BY <1>2
  <2>2. \A i \in DOMAIN s : (i < m => Biggest(s[i]) < k) /\ (i > m => Biggest(s[i]) > k)
    BY <1>b, <2>1
  <2>3. \A i \in matches : i = m
    BY <1>b, <2>1, <2>2
  <2>4. matches = {m}
    BY <2>1, <2>3
  <2>5. {i - 1 : i \in matches} = {m - 1}
    BY <2>4
  <2>6. m - 1 \in 0 .. Len(s) /\ m \in Nat /\ \A i \in DOMAIN s : (i <= m - 1 => i < m) /\ (i > m - 1 => i = m \/ i > m)
    BY <1>a
  <2>7. BinarySearch(s, Biggest, k).at = {m - 1}
    BY <1>1, <1>2, <2>5
  <2> HIDE DEF matches, below
  <2>8. \A i \in DOMAIN s : /\ i <= m - 1 => Biggest(s[i]) < k
                            /\ i > m - 1 => Biggest(s[i]) >= k
    BY <1>b, <2>1, <2>2, <2>6
  <2> QED
    BY <2>6, <2>7, <2>8
<1>3. CASE matches = {}
  <2>1. \A i \in DOMAIN s : Biggest(s[i]) # k
    BY <1>3
  <2>2. below \in SUBSET (1 .. Len(s)) /\ \A i \in below : \A j \in 1 .. Len(s) : j < i => j \in below
    BY <1>a, <1>b
  <2>3. PICK n \in 0 .. Len(s) : n = Cardinality(below) /\ below = 1 .. n
    <3> HIDE DEF below
    <3> QED
      BY <1>a, <2>2, FirstIndices
  <2>4. \A i \in DOMAIN s : i \in below <=> i <= n
    BY <1>a, <2>3
  <2>5. \A i \in DOMAIN s : i \in below <=> Biggest(s[i]) < k
    OBVIOUS
  <2> HIDE DEF below
  <2>6. BinarySearch(s, Biggest, k).at = {n}
    BY <1>1, <1>3, <2>3
  <2>7. \A i \in DOMAIN s : (i <= n => Biggest(s[i]) < k) /\ (i > n => Biggest(s[i]) >= k)
    BY <1>b, <2>4, <2>5
  <2> QED
    BY <2>6, <2>7
<1> QED
  BY <1>2, <1>3

(* The second search: the tables after n begin after the range. *)
LEMMA RightSearch ==
  ASSUME NEW s \in Seq(AnyTable), Ascending(s), NEW range, range.right \in Nat,
         NEW n \in OverlapRight(s, range)
  PROVE  /\ n \in 0 .. Len(s)
         /\ \A i \in DOMAIN s : /\ i <= n => Smallest(s[i]) <= range.right
                                /\ i > n => Smallest(s[i]) > range.right
<1>k. PICK k \in Nat : k = range.right
  OBVIOUS
<1> DEFINE matches == {i \in DOMAIN s : Smallest(s[i]) = k}
           below == {i \in DOMAIN s : Smallest(s[i]) < k}
<1>1. /\ matches # {} => n \in {x + 1 : x \in {i - 1 : i \in matches}}
      /\ matches = {} => n = Cardinality(below)
  BY <1>k DEF BinarySearch, OverlapRight
<1>a. Len(s) \in Nat /\ DOMAIN s = 1 .. Len(s)
  BY SeqDomain
<1>b. /\ \A i \in DOMAIN s : i \in Nat /\ Smallest(s[i]) \in Nat
      /\ \A i, j \in DOMAIN s : i < j => Smallest(s[i]) < Smallest(s[j])
  BY AscendingEnds
<1>2. CASE matches # {}
  <2>1. PICK m \in DOMAIN s : Smallest(s[m]) = k /\ n = (m - 1) + 1
    BY <1>1, <1>2
  <2>2. n = m
    BY <1>a, <2>1
  <2>3. \A i \in DOMAIN s : (i < m => Smallest(s[i]) < k) /\ (i > m => Smallest(s[i]) > k)
    BY <1>b, <2>1
  <2> QED
    BY <1>a, <1>b, <1>k, <2>1, <2>2, <2>3
<1>3. CASE matches = {}
  <2>1. \A i \in DOMAIN s : Smallest(s[i]) # k
    BY <1>3
  <2>2. below \in SUBSET (1 .. Len(s)) /\ \A i \in below : \A j \in 1 .. Len(s) : j < i => j \in below
    BY <1>a, <1>b
  <2>3. n \in 0 .. Len(s) /\ below = 1 .. n
    <3> HIDE DEF below
    <3> QED
      BY <1>1, <1>3, <1>a, <2>2, FirstIndices
  <2>4. \A i \in DOMAIN s : i \in below <=> i <= n
    BY <1>a, <2>3
  <2>5. \A i \in DOMAIN s : i \in below <=> Smallest(s[i]) < k
    OBVIOUS
  <2> HIDE DEF below
  <2> QED
    BY <1>b, <1>k, <2>1, <2>3, <2>4, <2>5
<1> QED
  BY <1>2, <1>3

(***************************************************************************)
(* What the two searches cut out of a level in order: the tables left      *)
(* behind lie before the range and everything cut out, or after them.      *)
(***************************************************************************)
LEMMA CutOut ==
  ASSUME NEW s \in Seq(AnyTable), Ascending(s), NEW range \in FiniteRange,
         NEW m \in OverlapLeft(s, range), NEW n \in OverlapRight(s, range)
  PROVE  /\ SliceOK(s, m, n) /\ Slice(s, m, n) \in Seq(AnyTable)
         /\ ToSet(Slice(s, m, n)) \subseteq ToSet(s)
         /\ Ascending(Slice(s, m, n))
         /\ \A u \in ToSet(s) \ ToSet(Slice(s, m, n)) :
              \/ /\ Biggest(u) < range.left
                 /\ \A t \in ToSet(Slice(s, m, n)) : Before(u, t)
              \/ /\ range.right < Smallest(u)
                 /\ \A t \in ToSet(Slice(s, m, n)) : Before(t, u)
<1>a. range.left \in Nat /\ range.right \in Nat /\ range.left <= range.right
  <2>1. range.left \in Keys /\ range.right \in Keys /\ range.left <= range.right
    BY DEF FiniteRange
  <2> QED
    BY <2>1, KeysAssumption
<1>b. Len(s) \in Nat /\ DOMAIN s = 1 .. Len(s)
  BY SeqDomain
<1>1. /\ m \in 0 .. Len(s)
      /\ \A i \in DOMAIN s : /\ i <= m => Biggest(s[i]) < range.left
                             /\ i > m => Biggest(s[i]) >= range.left
  <2>1. PICK x \in 0 .. Len(s) :
          /\ BinarySearch(s, Biggest, range.left).at = {x}
          /\ \A i \in DOMAIN s : /\ i <= x => Biggest(s[i]) < range.left
                                 /\ i > x => Biggest(s[i]) >= range.left
    BY <1>a, LeftSearch
  <2>2. m = x
    BY <2>1 DEF OverlapLeft
  <2> QED
    BY <2>1, <2>2
<1>2. /\ n \in 0 .. Len(s)
      /\ \A i \in DOMAIN s : /\ i <= n => Smallest(s[i]) <= range.right
                             /\ i > n => Smallest(s[i]) > range.right
  BY <1>a, RightSearch
<1>c. /\ \A i \in DOMAIN s : /\ i \in Nat /\ s[i] \in AnyTable
                             /\ Smallest(s[i]) \in Nat /\ Biggest(s[i]) \in Nat
                             /\ Smallest(s[i]) <= Biggest(s[i])
      /\ \A i, j \in DOMAIN s : i < j => Biggest(s[i]) < Smallest(s[j])
  BY AscendingEnds
<1>3. m <= n
  <2> SUFFICES ASSUME m > n PROVE FALSE
    BY <1>1, <1>2
  <2>1. m \in DOMAIN s /\ Biggest(s[m]) < range.left /\ Smallest(s[m]) > range.right
    BY <1>1, <1>2, <1>b
  <2> QED
    BY <2>1, <1>a, <1>c
<1>4. SliceOK(s, m, n) /\ m \in Nat /\ n \in Nat
  BY <1>1, <1>2, <1>3 DEF SliceOK
<1>5. PICK q \in Seq(AnyTable) : q = Slice(s, m, n) /\ ToSet(q) \in SUBSET ToSet(s)
  BY <1>4, PartFacts
<1>6. DOMAIN q = 1 .. n - m /\ \A i \in 1 .. n - m : q[i] = s[m + i] /\ m + i \in DOMAIN s
  <2>1. CASE m = n
    <3>1. q = <<>> /\ 1 .. n - m = {}
      BY <2>1, <1>4, <1>5 DEF Slice
    <3> QED
      BY <3>1
  <2>2. CASE m # n
    <3>1. q = SubSeq(s, m + 1, n) /\ m < n /\ n <= Len(s)
      BY <1>2, <1>3, <1>4, <1>5, <2>2 DEF Slice
    <3> QED
      BY <3>1, <1>4
  <2> QED
    BY <2>1, <2>2
<1>7. Ascending(q)
  <2> SUFFICES ASSUME NEW i \in 1 .. n - m, NEW j \in 1 .. n - m, i < j
               PROVE  Before(q[i], q[j])
    BY <1>6 DEF Ascending
  <2>1. q[i] = s[m + i] /\ q[j] = s[m + j] /\ m + i \in DOMAIN s /\ m + j \in DOMAIN s
    BY <1>6
  <2>2. m + i < m + j
    BY <1>4
  <2> QED
    BY <2>1, <2>2 DEF Ascending
<1>8. ASSUME NEW u \in ToSet(s) \ ToSet(q)
      PROVE  \/ Biggest(u) < range.left /\ \A t \in ToSet(q) : Before(u, t)
             \/ range.right < Smallest(u) /\ \A t \in ToSet(q) : Before(t, u)
  <2>1. PICK i \in DOMAIN s : u = s[i]
    BY DEF ToSet
  <2>2. ASSUME m < i, i <= n PROVE FALSE
    <3>1. i - m \in 1 .. n - m /\ m + (i - m) = i
      BY <2>2, <1>4, <1>c
    <3>2. q[i - m] = s[i]
      BY <3>1, <1>6
    <3> QED
      BY <3>1, <3>2, <2>1, <1>6 DEF ToSet
  <2>3. ASSUME NEW t \in ToSet(q) PROVE \E j \in DOMAIN s : t = s[j] /\ m < j /\ j <= n
    <3>1. PICK x \in 1 .. n - m : t = q[x]
      BY <1>6 DEF ToSet
    <3>2. m + x \in DOMAIN s /\ t = s[m + x] /\ m < m + x /\ m + x <= n
      BY <3>1, <1>6, <1>4
    <3> QED
      BY <3>2
  <2>4. CASE i <= m
    <3>1. \A j \in DOMAIN s : m < j => Before(s[i], s[j])
      BY <2>4, <1>c, <1>4 DEF Before
    <3> QED
      BY <3>1, <2>1, <2>3, <2>4, <1>1
  <2>5. CASE i > n
    <3>1. \A j \in DOMAIN s : j <= n => Before(s[j], s[i])
      BY <2>5, <1>c, <1>4 DEF Before
    <3> QED
      BY <3>1, <2>1, <2>3, <2>5, <1>2
  <2> QED
    BY <2>2, <2>4, <2>5, <1>c, <1>4
<1> QED
  BY <1>4, <1>5, <1>7, <1>8

-----------------------------------------------------------------------------
(***************************************************************************)
(* Reading: a level in order answers with the newest version it has.       *)
(***************************************************************************)

(* v is the newest version of k in the tables of T, 0 when there is none. *)
IsNewest(T, k, v) ==
  /\ \A t \in T : k \in TableKeys(t) => t.kv[k] <= v
  /\ v # 0 => \E t \in T : k \in TableKeys(t) /\ t.kv[k] = v

(* The order of a level's list: by age on level 0, by key above it *)
InOrder(l, s) == IF l = 0 THEN Chrono(s) ELSE Ascending(s)

(* get_table_for_key finds the newest version of a key on a level in order. *)
LEMMA LevelGetNewest ==
  ASSUME NEW s \in Seq(AnyTable), NEW l, InOrder(l, s), NEW k \in Keys
  PROVE  LevelGet(l, s, k) \in Nat /\ IsNewest(ToSet(s), k, LevelGet(l, s, k))
<1> DEFINE hits == {i \in DOMAIN s : k \in TableKeys(s[i])}
           index == Min(BinarySearch(s, Biggest, k).at) + 1
<1>a. k \in Nat /\ DOMAIN s \in SUBSET Int /\ IsFiniteSet(DOMAIN s)
      /\ \A i \in DOMAIN s : s[i] \in AnyTable
  BY SeqDomain, KeysAssumption
<1>b. \A i \in hits : s[i].kv[k] \in Nat
  BY <1>a, TableFacts
<1>c. \A t \in ToSet(s) : k \in TableKeys(t) => \E i \in hits : t = s[i]
  BY DEF ToSet
<1>d. \A i \in hits : s[i] \in ToSet(s) /\ k \in TableKeys(s[i])
  BY DEF ToSet
<1>1. CASE l = 0
  <2>1. LevelGet(l, s, k) = IF hits = {} THEN 0 ELSE s[Max(hits)].kv[k]
    BY <1>1 DEF LevelGet
  <2>2. Chrono(s)
    BY <1>1 DEF InOrder
  <2>3. CASE hits = {}
    BY <2>1, <2>3, <1>c DEF IsNewest
  <2>4. CASE hits # {}
    <3>1. IsFiniteSet(hits) /\ hits \in SUBSET Int
      BY <1>a, FS_Subset
    <3>2. PICK m \in hits : m = Max(hits) /\ \A x \in hits : x <= m
      BY <2>4, <3>1, MinMax
    <3>3. \A x \in hits : s[x].kv[k] <= s[m].kv[k]
      <4> SUFFICES ASSUME NEW x \in hits PROVE s[x].kv[k] <= s[m].kv[k]
        OBVIOUS
      <4>a. x \in Int /\ m \in Int /\ x <= m
        BY <3>1, <3>2
      <4>1. x = m \/ x < m
        BY <4>a
      <4>2. CASE x < m
        <5>1. x \in DOMAIN s /\ m \in DOMAIN s
          OBVIOUS
        <5>2. NotNewer(s[x], s[m])
          BY <2>2, <4>2, <5>1 DEF Chrono
        <5> QED
          BY <5>2, <1>d DEF NotNewer
      <4> QED
        BY <4>1, <4>2, <1>b
    <3>4. LevelGet(l, s, k) = s[m].kv[k]
      BY <2>1, <2>4, <3>2
    <3> HIDE DEF hits
    <3> QED
      BY <3>3, <3>4, <1>b, <1>c, <1>d DEF IsNewest
  <2> QED
    BY <2>3, <2>4
<1>2. CASE l # 0
  <2>1. LevelGet(l, s, k) = IF index \in hits THEN s[index].kv[k] ELSE 0
    BY <1>2 DEF LevelGet
  <2>2. Ascending(s)
    BY <1>2 DEF InOrder
  <2>3. PICK n \in 0 .. Len(s) :
           /\ BinarySearch(s, Biggest, k).at = {n}
           /\ \A i \in DOMAIN s : /\ i <= n => Biggest(s[i]) < k
                                  /\ i > n => Biggest(s[i]) >= k
    BY <2>2, <1>a, LeftSearch
  <2>4. index = n + 1
    <3>a. n \in Int
      BY SeqDomain
    <3>1. {n} \in SUBSET Int /\ IsFiniteSet({n}) /\ {n} # {}
      BY <3>a, FS_Singleton
    <3>2. Min({n}) \in {n}
      BY <3>1, MinMax
    <3> QED
      BY <3>2, <2>3
  <2>5. /\ DOMAIN s = 1 .. Len(s) /\ Len(s) \in Nat
        /\ \A i \in DOMAIN s : Smallest(s[i]) \in Nat /\ Biggest(s[i]) \in Nat
        /\ \A i, j \in DOMAIN s : i < j => Biggest(s[i]) < Smallest(s[j])
        /\ \A i \in hits : Smallest(s[i]) <= k /\ k <= Biggest(s[i])
    BY <1>a, <2>2, SeqDomain, AscendingEnds, TableEnds
  <2>6. ASSUME NEW i \in hits
        PROVE  i = n + 1
    <3>1. i \in 1 .. Len(s) /\ i > n
      BY <1>a, <2>3, <2>5
    <3>2. ASSUME i > n + 1 PROVE FALSE
      <4>1. n + 1 \in DOMAIN s /\ n + 1 < i /\ n + 1 > n /\ i \in DOMAIN s
        BY <3>1, <3>2, <2>5
      <4>2. Biggest(s[n + 1]) >= k /\ Biggest(s[n + 1]) < Smallest(s[i]) /\ Smallest(s[i]) <= k
        BY <4>1, <2>3, <2>5
      <4> QED
        BY <4>1, <4>2, <2>5, <1>a
    <3> QED
      BY <3>1, <3>2
  <2> HIDE DEF hits, index
  <2>7. CASE index \in hits
    BY <2>1, <2>4, <2>6, <2>7, <1>b, <1>c, <1>d DEF IsNewest
  <2>8. CASE index \notin hits
    BY <2>1, <2>4, <2>6, <2>8, <1>c DEF IsNewest
  <2> QED
    BY <2>7, <2>8
<1> QED
  BY <1>1, <1>2

(* The tables of each level, and of all levels *)
Sets(levels) == [l \in LevelSet |-> ToSet(levels[l])]
All(S) == UNION {S[l] : l \in LevelSet}

(* Every version is that of some flush. *)
Positive(T) == \A t \in T : \A k \in TableKeys(t) : t.kv[k] # 0

AllInOrder(levels) == \A l \in LevelSet : InOrder(l, levels[l])

(* A level that has k has a version of it no level further down surpasses. *)
Layered(S, k) ==
  \A a, b \in LevelSet : a < b =>
    \A x \in S[a], u \in S[b] :
      k \in TableKeys(x) /\ k \in TableKeys(u) =>
        \E t \in S[a] : k \in TableKeys(t) /\ u.kv[k] <= t.kv[k]

(* A search of the levels finds the newest version of all. *)
LEMMA LookupNewest ==
  ASSUME NEW levels \in [LevelSet -> Seq(AnyTable)], AllInOrder(levels),
         NEW k \in Keys, Layered(Sets(levels), k), Positive(All(Sets(levels)))
  PROVE  Lookup(levels, k) \in Nat /\ IsNewest(All(Sets(levels)), k, Lookup(levels, k))
<1> DEFINE S == Sets(levels)
           get(l) == LevelGet(l, levels[l], k)
           hits == {l \in LevelSet : get(l) # 0}
<1>a. DOMAIN levels = LevelSet /\ \A l \in LevelSet : levels[l] \in Seq(AnyTable) /\ S[l] = ToSet(levels[l])
  BY DEF Sets
<1>1. \A l \in LevelSet : get(l) \in Nat /\ IsNewest(S[l], k, get(l))
  BY <1>a, LevelGetNewest DEF AllInOrder
<1>2. Lookup(levels, k) = IF hits = {} THEN 0 ELSE get(Min(hits))
  BY <1>a DEF Lookup
<1>3. \A l \in LevelSet : \A t \in S[l] : t \in AnyTable /\ t \in All(S)
  <2>1. \A l \in LevelSet : \A t \in S[l] : t \in All(S)
    BY DEF All
  <2>2. \A l \in LevelSet : \A t \in ToSet(levels[l]) : t \in AnyTable
    BY <1>a, SeqDomain DEF ToSet
  <2> QED
    BY <1>a, <2>1, <2>2
<1>4. \A t \in All(S) : \E l \in LevelSet : t \in S[l]
  BY DEF All
<1>5. \A l \in LevelSet : \A t \in S[l] : k \in TableKeys(t) => t.kv[k] \in Nat \ {0}
  BY <1>3, TableFacts DEF Positive
<1> HIDE DEF S, get
<1>6. \A l \in LevelSet : \A t \in S[l] : k \in TableKeys(t) => l \in hits
  BY <1>1, <1>5 DEF IsNewest
<1>7. CASE hits = {}
  <2>1. \A t \in All(S) : k \notin TableKeys(t)
    BY <1>4, <1>6, <1>7
  <2> QED
    BY <1>2, <1>7, <2>1 DEF S, IsNewest
<1>8. CASE hits # {}
  <2>1. hits \in SUBSET Int /\ IsFiniteSet(hits)
    <3>1. IsFiniteSet(0 .. MaxLevels - 1) /\ 0 .. MaxLevels - 1 \in SUBSET Int
      BY MaxLevelsAssumption, FS_Interval
    <3>2. IsFiniteSet(LevelSet) /\ LevelSet \in SUBSET Int
      BY <3>1 DEF LevelSet
    <3>3. hits \in SUBSET LevelSet
      OBVIOUS
    <3> HIDE DEF hits
    <3> QED
      BY <3>2, <3>3, FS_Subset
  <2>2. PICK a \in hits : a = Min(hits) /\ \A b \in hits : a <= b
    <3> HIDE DEF hits
    <3> QED
      BY <1>8, <2>1, MinMax
  <2>3. a \in LevelSet /\ get(a) # 0 /\ get(a) \in Nat /\ Lookup(levels, k) = get(a)
    BY <1>1, <1>2, <1>8, <2>2
  <2>4. PICK x \in S[a] : k \in TableKeys(x) /\ x.kv[k] = get(a)
    BY <1>1, <2>3 DEF IsNewest
  <2>5. \A t \in S[a] : k \in TableKeys(t) => t.kv[k] <= get(a)
    BY <1>1, <2>3 DEF IsNewest
  <2>6. ASSUME NEW u \in All(S), k \in TableKeys(u)
        PROVE  u.kv[k] <= get(a)
    <3>1. PICK b \in LevelSet : u \in S[b]
      BY <1>4
    <3>2. b \in hits
      BY <1>6, <2>6, <3>1
    <3>3. a = b \/ a < b
      <4>1. a \in Int /\ b \in Int /\ a <= b
        BY <2>1, <2>2, <3>2
      <4> QED
        BY <4>1
    <3>4. CASE a < b
      <4>1. PICK t \in S[a] : k \in TableKeys(t) /\ u.kv[k] <= t.kv[k]
        BY <2>3, <2>4, <2>6, <3>1, <3>4 DEF Layered, S
      <4>2. t.kv[k] <= get(a) /\ t.kv[k] \in Nat /\ u.kv[k] \in Nat
        BY <4>1, <1>5, <2>3, <2>5, <2>6, <3>1
      <4> QED
        BY <4>1, <4>2, <2>3
    <3> QED
      BY <2>5, <2>6, <3>1, <3>3, <3>4
  <2>7. x \in All(S)
    BY <1>3, <2>3
  <2>8. IsNewest(All(S), k, get(a))
    BY <2>4, <2>6, <2>7 DEF IsNewest
  <2> QED
    BY <2>3, <2>8 DEF S
<1> QED
  BY <1>7, <1>8

(* There is only one newest version. *)
LEMMA NewestUnique ==
  ASSUME NEW T \in SUBSET AnyTable, Positive(T), NEW k, NEW v \in Nat, NEW x \in Nat,
         IsNewest(T, k, v), IsNewest(T, k, x)
  PROVE  v = x
<1>1. \A t \in T : k \in TableKeys(t) => t.kv[k] \in Nat \ {0} /\ t.kv[k] <= v /\ t.kv[k] <= x
  BY TableFacts DEF Positive, IsNewest
<1>2. CASE v # 0
  BY <1>1, <1>2 DEF IsNewest
<1>3. CASE x # 0
  BY <1>1, <1>3 DEF IsNewest
<1> QED
  BY <1>2, <1>3

-----------------------------------------------------------------------------
(***************************************************************************)
(* Merging and building: the new tables have the newest versions of the    *)
(* user keys of the merged ones, in order.                                 *)
(***************************************************************************)
NewestFirst(s) == \A i, j \in DOMAIN s : i < j => NotNewer(s[j], s[i])
NoHead(T) == \A t \in T : HeadKey \notin TableKeys(t)

(* For every user key of a table of A some table of B has as new a version. *)
Covers(A, B) ==
  \A t \in A : \A k \in TableKeys(t) \cap UserKeys :
    \E u \in B : k \in TableKeys(u) /\ u.kv[k] >= t.kv[k]

(* Every record of a table of A is a record of some table of B. *)
TakenOver(A, B) ==
  \A t \in A : \A k \in TableKeys(t) : \E u \in B : k \in TableKeys(u) /\ u.kv[k] = t.kv[k]

(* The result of merging the tables of M *)
NewOK(new, M) ==
  Ascending(new) /\ NoHead(ToSet(new)) /\ TakenOver(ToSet(new), M) /\ Covers(M, ToSet(new))

(* MergeIterator gives, per user key, the newest version. *)
LEMMA MergeNewest ==
  ASSUME NEW s \in Seq(AnyTable), NewestFirst(s)
  PROVE  /\ HeadKey \notin DOMAIN Merge(s)
         /\ \A k \in DOMAIN Merge(s) :
              \E i \in DOMAIN s : k \in TableKeys(s[i]) /\ s[i].kv[k] = Merge(s)[k]
         /\ \A i \in DOMAIN s : \A k \in TableKeys(s[i]) \ {HeadKey} :
              k \in DOMAIN Merge(s) /\ s[i].kv[k] <= Merge(s)[k]
<1> DEFINE ks == (UNION {TableKeys(s[i]) : i \in DOMAIN s}) \ {HeadKey}
           has(k) == {i \in DOMAIN s : k \in TableKeys(s[i])}
<1>1. /\ IsFiniteSet(DOMAIN s) /\ DOMAIN s \in SUBSET Int
      /\ \A i \in DOMAIN s : s[i] \in AnyTable
  BY SeqDomain
<1>2. ASSUME NEW k \in ks
      PROVE  /\ Min(has(k)) \in DOMAIN s /\ k \in TableKeys(s[Min(has(k))])
             /\ \A i \in DOMAIN s : k \in TableKeys(s[i]) => s[i].kv[k] <= s[Min(has(k))].kv[k]
  <2>1. has(k) \in SUBSET DOMAIN s /\ has(k) # {}
    OBVIOUS
  <2>2. has(k) \in SUBSET Int /\ IsFiniteSet(has(k))
    <3> HIDE DEF has
    <3> QED
      BY <1>1, <2>1, FS_Subset
  <2>3. PICK m : m = Min(has(k))
    OBVIOUS
  <2>4. m \in has(k) /\ \A i \in has(k) : m <= i
    <3> HIDE DEF has
    <3> QED
      BY <2>1, <2>2, <2>3, MinMax
  <2>5. ASSUME NEW i \in DOMAIN s, k \in TableKeys(s[i])
        PROVE  s[i].kv[k] <= s[m].kv[k]
    <3>1. m \in DOMAIN s /\ k \in TableKeys(s[m]) /\ m <= i /\ m \in Int /\ i \in Int
      BY <2>4, <2>5, <1>1
    <3>2. m = i \/ m < i
      BY <3>1
    <3>3. CASE m < i
      BY <3>1, <3>3, <2>5 DEF NewestFirst, NotNewer
    <3>4. s[m].kv[k] \in Nat
      BY <3>1, <1>1, TableFacts
    <3> QED
      BY <3>2, <3>3, <3>4
  <2> QED
    BY <2>3, <2>4, <2>5
<1>3. Merge(s) = [k \in ks |-> s[Min(has(k))].kv[k]]
  BY Zenon DEF Merge
<1>4. HeadKey \notin ks /\ \A i \in DOMAIN s : \A k \in TableKeys(s[i]) \ {HeadKey} : k \in ks
  OBVIOUS
<1> HIDE DEF ks, has
<1>5. DOMAIN Merge(s) = ks /\ \A k \in ks : Merge(s)[k] = s[Min(has(k))].kv[k]
  BY <1>3
<1> QED
  BY <1>2, <1>4, <1>5

(* The builder splits what was merged into tables that follow each other. *)
LEMMA BuildOrder ==
  ASSUME NEW ks \in SUBSET Keys, IsFiniteSet(ks), NEW kv \in [ks -> Nat],
         NEW firstId \in Nat \ {0}
  PROVE  /\ \A i \in DOMAIN BuildTables(kv, firstId) :
              \A k \in TableKeys(BuildTables(kv, firstId)[i]) :
                k \in ks /\ BuildTables(kv, firstId)[i].kv[k] = kv[k]
         /\ \A k \in ks : \E i \in DOMAIN BuildTables(kv, firstId) :
              k \in TableKeys(BuildTables(kv, firstId)[i])
         /\ Ascending(BuildTables(kv, firstId))
<1> DEFINE rank == RankIn(ks)
           chunk(i) == {k \in ks : rank[k] \div Capacity = i - 1}
           count == (Cardinality(ks) + Capacity - 1) \div Capacity
           table(i) == [id |-> firstId + i - 1, kv |-> [k \in chunk(i) |-> kv[k]]]
<1>1. ks \in SUBSET Nat
  BY KeysAssumption
<1>2. /\ \A k \in ks : rank[k] \in 0 .. Cardinality(ks) - 1
      /\ Cardinality(ks) \in Nat
  BY <1>1, RankFacts
<1>a. PICK N \in Nat : N = Cardinality(ks) + Capacity - 1
  BY <1>2, CapacityAssumption
<1>b. PICK c \in Nat : c = count
  BY <1>a, CapacityAssumption, Division
<1>c. PICK b : b = BuildTables(kv, firstId)
  OBVIOUS
<1>3. b = [i \in 1 .. c |-> table(i)]
  <2>1. DOMAIN kv = ks
    OBVIOUS
  <2>2. \A i : chunk(i) = {k \in ks : Cardinality({j \in ks : j < k}) \div Capacity = i - 1}
    BY DEF RankIn
  <2>3. BuildTables(kv, firstId) = [i \in 1 .. count |-> table(i)]
    <3> HIDE DEF rank, chunk
    <3> QED
      BY <2>1, <2>2 DEF BuildTables
  <2> QED
    BY <2>3, <1>b, <1>c
<1>4. \A j, k \in ks : rank[j] < rank[k] => j < k
  <2> SUFFICES ASSUME NEW j \in ks, NEW k \in ks, rank[j] < rank[k], k <= j PROVE FALSE
    BY <1>1
  <2>1. PICK A \in SUBSET ks, B \in SUBSET ks : A = {x \in ks : x < j} /\ B = {x \in ks : x < k}
    OBVIOUS
  <2>a. IsFiniteSet(A)
    BY FS_Subset
  <2>b. \A x \in ks : x \in Nat
    BY <1>1
  <2>c. \A x \in B : x \in A
    BY <2>1, <2>b
  <2>2. B \in SUBSET A /\ IsFiniteSet(A)
    BY <2>a, <2>c
  <2>3. Cardinality(B) <= Cardinality(A) /\ Cardinality(A) \in Nat /\ Cardinality(B) \in Nat
    BY <2>2, FS_Subset, FS_CardinalityType
  <2>4. rank[j] = Cardinality(A) /\ rank[k] = Cardinality(B)
    BY <2>1 DEF RankIn
  <2> QED
    BY <2>3, <2>4
<1> HIDE DEF rank
<1>5. /\ DOMAIN b = 1 .. c
      /\ \A i \in 1 .. c : TableKeys(b[i]) = chunk(i) /\ \A k \in chunk(i) : b[i].kv[k] = kv[k]
  <2> HIDE DEF chunk
  <2> QED
    BY <1>3 DEF TableKeys
<1>6. \A i \in 1 .. c : \A k \in TableKeys(b[i]) : k \in ks /\ b[i].kv[k] = kv[k]
  <2>1. \A i : \A k \in chunk(i) : k \in ks
    OBVIOUS
  <2> HIDE DEF chunk
  <2> QED
    BY <1>5, <2>1
<1>7. ASSUME NEW k \in ks
      PROVE  \E i \in 1 .. c : k \in TableKeys(b[i])
  <2>1. PICK a \in Nat : a = rank[k] /\ a <= Cardinality(ks) - 1
    BY <1>2
  <2>2. PICK q \in Nat : q = a \div Capacity
    BY CapacityAssumption, Division
  <2>3. Capacity * q <= a
    BY <2>2, CapacityAssumption, Division
  <2>4. N < Capacity * (c + 1)
    <3>1. N \div Capacity = c
      BY <1>a, <1>b
    <3> QED
      BY <3>1, CapacityAssumption, Division
  <2>5. q + 1 <= c
    <3> SUFFICES ASSUME c + 1 <= q + 1 PROVE FALSE
      OBVIOUS
    <3>1. c <= q
      OBVIOUS
    <3>2. Capacity * c <= Capacity * q
      BY <3>1, CapacityAssumption
    <3>3. Capacity * (c + 1) = Capacity * c + Capacity /\ Capacity * c \in Nat /\ Capacity * q \in Nat
      BY CapacityAssumption
    <3> QED
      BY <3>2, <3>3, <2>1, <2>3, <2>4, <1>a, <1>2, CapacityAssumption
  <2>6. q + 1 \in 1 .. c /\ q = (q + 1) - 1
    BY <2>5
  <2>7. k \in chunk(q + 1)
    BY <2>1, <2>2, <2>6
  <2> HIDE DEF chunk
  <2> QED
    BY <2>6, <2>7, <1>5
<1>8. ASSUME NEW i \in 1 .. c, NEW j \in 1 .. c, i < j
      PROVE  Before(b[i], b[j])
  <2>1. ASSUME NEW x \in chunk(i), NEW y \in chunk(j) PROVE x < y
    <3>1. x \in ks /\ y \in ks /\ rank[x] \div Capacity = i - 1 /\ rank[y] \div Capacity = j - 1
      OBVIOUS
    <3>2. PICK p \in Nat, q \in Nat : p = rank[x] /\ q = rank[y]
      BY <3>1, <1>2
    <3>3. PICK m \in Nat, n \in Nat : m = i - 1 /\ n = j - 1 /\ m + 1 <= n
      BY <1>8
    <3>4. p < Capacity * (m + 1) /\ Capacity * n <= q
      BY <3>1, <3>2, <3>3, CapacityAssumption, Division
    <3>5. Capacity * (m + 1) <= Capacity * n /\ Capacity * (m + 1) \in Nat /\ Capacity * n \in Nat
      BY <3>3, CapacityAssumption
    <3>6. p < q
      BY <3>4, <3>5
    <3> QED
      BY <3>1, <3>2, <3>6, <1>4
  <2>2. b[i] \in AnyTable /\ b[j] \in AnyTable
    BY <1>5, <1>c, BuildFacts, SeqDomain
  <2>3. Biggest(b[i]) \in chunk(i) /\ Smallest(b[j]) \in chunk(j)
    <3> HIDE DEF chunk
    <3> QED
      BY <2>2, <1>5, TableEnds
  <2> QED
    BY <2>1, <2>3 DEF Before
<1>9. Ascending(b)
  BY <1>5, <1>8 DEF Ascending
<1> HIDE DEF table, chunk, count
<1> QED
  BY <1>5, <1>6, <1>7, <1>9, <1>c

(* The top tables, from the newest on, and then the bottom ones *)
LEMMA OrderIs ==
  ASSUME NEW l, NEW top \in Seq(AnyTable), NEW bot \in Seq(AnyTable),
         Chrono(top), l = 0 \/ Len(top) = 1, Ascending(bot),
         \A t \in ToSet(top), u \in ToSet(bot) : NotNewer(u, t)
  PROVE  /\ MergeOrder(l, top, bot) \in Seq(AnyTable)
         /\ ToSet(MergeOrder(l, top, bot)) = ToSet(top) \cup ToSet(bot)
         /\ NewestFirst(MergeOrder(l, top, bot))
<1>a. /\ Len(top) \in Nat /\ DOMAIN top = 1 .. Len(top)
      /\ \A i \in DOMAIN top : top[i] \in AnyTable /\ top[i] \in ToSet(top)
  BY SeqDomain DEF ToSet
<1>b. \A i \in DOMAIN bot : bot[i] \in AnyTable /\ bot[i] \in ToSet(bot)
  BY SeqDomain DEF ToSet
<1>1. PICK r : r = IF l = 0 THEN Reverse(top) ELSE top
  OBVIOUS
<1>2. /\ r \in Seq(AnyTable) /\ DOMAIN r = 1 .. Len(top) /\ Len(r) = Len(top)
      /\ ToSet(r) = ToSet(top) /\ NewestFirst(r)
  <2>1. CASE l = 0
    <3> DEFINE back(i) == (Len(top) - i) + 1
    <3>1. r = [i \in 1 .. Len(top) |-> top[back(i)]]
      BY <1>1, <2>1 DEF Reverse
    <3>2. \A i \in 1 .. Len(top) : back(i) \in 1 .. Len(top) /\ back(back(i)) = i
      BY <1>a
    <3>3. \A i, j \in 1 .. Len(top) : i < j => back(j) < back(i)
      BY <1>a
    <3> HIDE DEF back
    <3>4. r \in [1 .. Len(top) -> AnyTable] /\ \A i \in 1 .. Len(top) : r[i] = top[back(i)]
      BY <3>1, <3>2, <1>a
    <3>5. r \in Seq(AnyTable) /\ DOMAIN r = 1 .. Len(top) /\ Len(r) = Len(top)
      <4>1. PICK n \in Nat : n = Len(top)
        BY <1>a
      <4>2. r \in [1 .. n -> AnyTable]
        BY <3>4, <4>1
      <4>3. r \in Seq(AnyTable) /\ DOMAIN r = 1 .. n /\ Len(r) = n
        BY <4>2, SeqDef
      <4> QED
        BY <4>1, <4>3
    <3>6. ToSet(r) = ToSet(top)
      <4>1. ToSet(r) \subseteq ToSet(top)
        BY <3>2, <3>4, <3>5, <1>a DEF ToSet
      <4>2. \A i \in 1 .. Len(top) : r[back(i)] = top[i] /\ back(i) \in DOMAIN r
        BY <3>2, <3>4, <3>5
      <4>3. ToSet(top) \subseteq ToSet(r)
        BY <4>2, <1>a DEF ToSet
      <4> QED
        BY <4>1, <4>3
    <3>7. NewestFirst(r)
      BY <3>2, <3>3, <3>4, <3>5, <1>a DEF NewestFirst, Chrono
    <3> QED
      BY <3>5, <3>6, <3>7
  <2>2. CASE l # 0
    <3>1. r = top /\ Len(top) = 1
      BY <1>1, <2>2
    <3>2. \A i, j \in 1 .. 1 : ~ (i < j)
      OBVIOUS
    <3> QED
      BY <3>1, <3>2, <1>a DEF NewestFirst
  <2> QED
    BY <2>1, <2>2
<1>3. PICK q : q = r \o bot
  OBVIOUS
<1>4. MergeOrder(l, top, bot) = q
  BY <1>1, <1>3 DEF MergeOrder
<1>5. q \in Seq(AnyTable) /\ ToSet(q) = ToSet(top) \cup ToSet(bot)
  BY <1>2, <1>3, ConcatFacts
<1>6. PICK m \in Nat, n \in Nat : m = Len(r) /\ n = Len(bot)
  BY <1>2, SeqDomain
<1>7. /\ DOMAIN q = 1 .. m + n /\ DOMAIN r = 1 .. m /\ DOMAIN bot = 1 .. n
      /\ \A i \in 1 .. m : q[i] = r[i]
      /\ \A i \in 1 .. n : q[m + i] = bot[i]
  <2>1. /\ q \in Seq(AnyTable) /\ Len(q) = m + n
        /\ \A i \in 1 .. m : q[i] = r[i]
        /\ \A i \in 1 .. n : q[m + i] = bot[i]
    <3>1. r \in Seq(AnyTable)
      BY <1>2
    <3>2. \A i \in 1 .. Len(bot) : (r \o bot)[Len(r) + i] = bot[i]
      BY <3>1
    <3>3. \A i \in 1 .. Len(r) : (r \o bot)[i] = r[i]
      BY <3>1
    <3>4. r \o bot \in Seq(AnyTable) /\ Len(r \o bot) = Len(r) + Len(bot)
      BY <3>1
    <3> QED
      BY <3>2, <3>3, <3>4, <1>3, <1>6
  <2>2. DOMAIN q = 1 .. m + n /\ DOMAIN r = 1 .. m /\ DOMAIN bot = 1 .. n
    BY <2>1, <1>2, <1>6, SeqDomain
  <2> QED
    BY <2>1, <2>2
<1>c. \A i \in 1 .. m : r[i] \in ToSet(top)
  <2>1. \A i \in DOMAIN r : r[i] \in ToSet(r)
    BY DEF ToSet
  <2> QED
    BY <2>1, <1>2, <1>7
<1>8. ASSUME NEW i \in 1 .. m + n, NEW j \in 1 .. m + n, i < j
      PROVE  NotNewer(q[j], q[i])
  <2>1. CASE j <= m
    <3>1. i \in 1 .. m /\ j \in 1 .. m
      BY <2>1, <1>8
    <3>2. i \in DOMAIN r /\ j \in DOMAIN r /\ q[i] = r[i] /\ q[j] = r[j]
      BY <3>1, <1>7
    <3> QED
      BY <3>2, <1>2, <1>8 DEF NewestFirst
  <2>2. CASE i <= m /\ m < j
    <3>1. j - m \in 1 .. n /\ m + (j - m) = j /\ i \in 1 .. m
      BY <2>2
    <3>2. q[j] = bot[j - m] /\ q[i] = r[i]
      BY <3>1, <1>7
    <3> QED
      BY <3>1, <3>2, <1>7, <1>b, <1>c
  <2>3. CASE m < i
    <3>1. /\ i - m \in 1 .. n /\ j - m \in 1 .. n /\ i - m < j - m
          /\ m + (i - m) = i /\ m + (j - m) = j
      BY <2>3, <1>8
    <3>2. q[i] = bot[i - m] /\ q[j] = bot[j - m] /\ i - m \in DOMAIN bot /\ j - m \in DOMAIN bot
      BY <3>1, <1>7
    <3>3. Before(bot[i - m], bot[j - m])
      BY <3>1, <3>2 DEF Ascending
    <3> QED
      BY <3>2, <3>3, <1>b, BeforeFacts
  <2> QED
    BY <2>1, <2>2, <2>3
<1> QED
  BY <1>4, <1>5, <1>7, <1>8 DEF NewestFirst

(* What a compaction builds is what it should be. *)
LEMMA BuiltOK ==
  ASSUME NEW l, NEW top \in Seq(AnyTable), NEW bot \in Seq(AnyTable),
         Chrono(top), l = 0 \/ Len(top) = 1, Ascending(bot),
         \A t \in ToSet(top), u \in ToSet(bot) : NotNewer(u, t),
         NEW firstId \in Nat \ {0}
  PROVE  NewOK(BuildTables(Merge(MergeOrder(l, top, bot)), firstId), ToSet(top) \cup ToSet(bot))
<1>1. PICK q \in Seq(AnyTable) : /\ q = MergeOrder(l, top, bot) /\ NewestFirst(q)
                                 /\ ToSet(q) = ToSet(top) \cup ToSet(bot)
  BY OrderIs
<1>2. PICK ks \in SUBSET Keys : IsFiniteSet(ks) /\ Merge(q) \in [ks -> Nat]
  BY MergeFacts
<1>3. PICK kv \in [ks -> Nat] : kv = Merge(q)
  BY <1>2
<1>4. /\ HeadKey \notin ks
      /\ \A k \in ks : \E u \in ToSet(q) : k \in TableKeys(u) /\ u.kv[k] = kv[k]
      /\ \A u \in ToSet(q) : \A k \in TableKeys(u) \ {HeadKey} : k \in ks /\ u.kv[k] <= kv[k]
  <2>1. DOMAIN Merge(q) = ks /\ Merge(q) = kv
    BY <1>2, <1>3
  <2> QED
    BY <2>1, MergeNewest, <1>1 DEF ToSet
<1>5. PICK b \in Seq(AnyTable) : b = BuildTables(kv, firstId)
  BY <1>2, BuildFacts
<1>6. /\ \A i \in DOMAIN b : \A k \in TableKeys(b[i]) : k \in ks /\ b[i].kv[k] = kv[k]
      /\ \A k \in ks : \E i \in DOMAIN b : k \in TableKeys(b[i])
      /\ Ascending(b)
  <2>1. /\ \A i \in DOMAIN BuildTables(kv, firstId) :
              \A k \in TableKeys(BuildTables(kv, firstId)[i]) :
                k \in ks /\ BuildTables(kv, firstId)[i].kv[k] = kv[k]
        /\ \A k \in ks : \E i \in DOMAIN BuildTables(kv, firstId) :
              k \in TableKeys(BuildTables(kv, firstId)[i])
        /\ Ascending(BuildTables(kv, firstId))
    <3>1. IsFiniteSet(ks)
      BY <1>2
    <3> QED
      BY <3>1, BuildOrder, Zenon
  <2> QED
    BY <2>1, <1>5, Zenon
<1>7. /\ \A n \in ToSet(b) : \A k \in TableKeys(n) : k \in ks /\ n.kv[k] = kv[k]
      /\ \A k \in ks : \E n \in ToSet(b) : k \in TableKeys(n)
  BY <1>6 DEF ToSet
<1>8. NoHead(ToSet(b))
  BY <1>4, <1>7 DEF NoHead
<1>9. TakenOver(ToSet(b), ToSet(q))
  BY <1>4, <1>7 DEF TakenOver
<1>10. Covers(ToSet(q), ToSet(b))
  <2> SUFFICES ASSUME NEW u \in ToSet(q), NEW k \in TableKeys(u) \cap UserKeys
               PROVE  \E n \in ToSet(b) : k \in TableKeys(n) /\ n.kv[k] >= u.kv[k]
    BY DEF Covers
  <2>1. k \in TableKeys(u) \ {HeadKey}
    BY DEF UserKeys
  <2>2. k \in ks /\ u.kv[k] <= kv[k]
    BY <2>1, <1>4
  <2>3. PICK n \in ToSet(b) : k \in TableKeys(n) /\ n.kv[k] = kv[k]
    BY <2>2, <1>7
  <2>4. u \in AnyTable
    BY SeqDomain DEF ToSet
  <2>5. u.kv[k] \in Nat /\ kv[k] \in Nat
    BY <2>1, <2>2, <2>4, TableFacts
  <2> QED
    BY <2>2, <2>3, <2>5
<1> QED
  BY <1>1, <1>3, <1>5, <1>6, <1>8, <1>9, <1>10 DEF NewOK

-----------------------------------------------------------------------------
(***************************************************************************)
(* replace_tables and delete_tables.                                       *)
(***************************************************************************)

(* Each table of R lies before all of M or after all of M. *)
Gap(R, M) == \A u \in R : (\A m \in M : Before(u, m)) \/ (\A m \in M : Before(m, u))

(* What lies outside of the merged tables lies outside of the new ones. *)
LEMMA NewGap ==
  ASSUME NEW R \in SUBSET AnyTable, NEW M \in SUBSET AnyTable, NEW new \in SUBSET AnyTable,
         Gap(R, M), TakenOver(new, M)
  PROVE  Gap(R, new)
<1> SUFFICES ASSUME NEW u \in R
             PROVE  (\A n \in new : Before(u, n)) \/ (\A n \in new : Before(n, u))
  BY DEF Gap
<1>1. ASSUME NEW n \in new, NEW k \in TableKeys(n)
      PROVE  \E m \in M : /\ Smallest(m) <= k /\ k <= Biggest(m) /\ k \in Nat
                          /\ Smallest(m) \in Nat /\ Biggest(m) \in Nat
  <2>1. PICK m \in M : k \in TableKeys(m)
    BY DEF TakenOver
  <2> QED
    BY <2>1, TableEnds
<1>2. /\ \A n \in new : Smallest(n) \in TableKeys(n) /\ Biggest(n) \in TableKeys(n)
      /\ Smallest(u) \in Nat /\ Biggest(u) \in Nat
  BY TableEnds
<1>3. CASE \A m \in M : Before(u, m)
  <2>1. ASSUME NEW n \in new PROVE Biggest(u) < Smallest(n)
    <3>1. PICK m \in M : /\ Smallest(m) <= Smallest(n)
                         /\ Smallest(n) \in Nat /\ Smallest(m) \in Nat
      BY <1>1, <1>2
    <3>2. Biggest(u) < Smallest(m)
      BY <1>3 DEF Before
    <3> QED
      BY <3>1, <3>2, <1>2
  <2> QED
    BY <2>1 DEF Before
<1>4. CASE \A m \in M : Before(m, u)
  <2>1. ASSUME NEW n \in new PROVE Biggest(n) < Smallest(u)
    <3>1. PICK m \in M : /\ Biggest(n) <= Biggest(m)
                         /\ Biggest(n) \in Nat /\ Biggest(m) \in Nat
      BY <1>1, <1>2
    <3>2. Biggest(m) < Smallest(u)
      BY <1>4 DEF Before
    <3> QED
      BY <3>1, <3>2, <1>2
  <2> QED
    BY <2>1 DEF Before
<1> QED
  BY <1>3, <1>4 DEF Gap

(* The range that replace_tables searches is that of all the new tables. *)
LEMMA NewEnds ==
  ASSUME NEW s \in Seq(AnyTable), s # <<>>, Ascending(s)
  PROVE  /\ Head(s) \in ToSet(s) /\ Last(s) \in ToSet(s)
         /\ Smallest(Head(s)) \in Nat /\ Biggest(Last(s)) \in Nat
         /\ \A t \in ToSet(s) : \A k \in TableKeys(t) :
              k \in Nat /\ Smallest(Head(s)) <= k /\ k <= Biggest(Last(s))
<1>1. /\ Len(s) \in Nat \ {0} /\ DOMAIN s = 1 .. Len(s) /\ Head(s) = s[1] /\ Last(s) = s[Len(s)]
  BY DEF Last
<1>2. 1 \in DOMAIN s /\ Len(s) \in DOMAIN s
  BY <1>1
<1>3. Head(s) \in ToSet(s) /\ Last(s) \in ToSet(s)
  BY <1>1, <1>2 DEF ToSet
<1>4. \A i \in DOMAIN s : /\ s[i] \in AnyTable
                          /\ Smallest(s[i]) \in Nat /\ Biggest(s[i]) \in Nat
                          /\ Smallest(Head(s)) <= Smallest(s[i]) /\ Biggest(s[i]) <= Biggest(Last(s))
  <2> SUFFICES ASSUME NEW i \in DOMAIN s
               PROVE  /\ s[i] \in AnyTable
                      /\ Smallest(s[i]) \in Nat /\ Biggest(s[i]) \in Nat
                      /\ Smallest(s[1]) <= Smallest(s[i]) /\ Biggest(s[i]) <= Biggest(s[Len(s)])
    BY <1>1
  <2>1. 1 = i \/ 1 < i
    BY <1>1
  <2>2. i = Len(s) \/ i < Len(s)
    BY <1>1
  <2> QED
    BY <2>1, <2>2, <1>2, AscendingEnds
<1>5. \A i \in DOMAIN s : \A k \in TableKeys(s[i]) :
        k \in Nat /\ Smallest(s[i]) <= k /\ k <= Biggest(s[i])
  BY <1>4, TableEnds
<1>6. Smallest(Head(s)) \in Nat /\ Biggest(Last(s)) \in Nat
  BY <1>1, <1>2, <1>4
<1> QED
  BY <1>3, <1>4, <1>5, <1>6 DEF ToSet

(* A table of two keys or more has two ends. *)
LEMMA TwoEnds ==
  ASSUME NEW t \in AnyTable, Size(t) >= 2
  PROVE  Smallest(t) < Biggest(t)
<1>1. /\ \A k \in TableKeys(t) : k \in Nat /\ Smallest(t) <= k /\ k <= Biggest(t)
      /\ Smallest(t) \in TableKeys(t) /\ Biggest(t) \in TableKeys(t)
  BY TableEnds
<1> SUFFICES ASSUME Smallest(t) = Biggest(t) PROVE FALSE
  BY <1>1
<1>2. \A k \in TableKeys(t) : k = Smallest(t)
  BY <1>1
<1>3. TableKeys(t) = {Smallest(t)}
  BY <1>1, <1>2
<1>4. Size(t) = 1
  BY <1>3, FS_Singleton DEF Size
<1> QED
  BY <1>4

(***************************************************************************)
(* What replace_tables takes off a level in order is what was merged, if   *)
(* none of it has only one key.                                            *)
(***************************************************************************)
LEMMA TakesMerged ==
  ASSUME NEW s \in Seq(AnyTable), NoHead(ToSet(s)), NEW new \in Seq(AnyTable), new # <<>>,
         NEW M \in SUBSET AnyTable, NEW B \in SUBSET ToSet(s), B \subseteq M,
         NewOK(new, M), Gap(ToSet(s) \ B, M), \A t \in B : Size(t) >= 2
  PROVE  ToSet(Replaced(s, new)) = B
<1> DEFINE left == Smallest(Head(new))
           right == Biggest(Last(new))
           out(t) == ~ (Biggest(t) <= left \/ Smallest(t) > right)
           I == {i \in DOMAIN s : out(s[i])}
<1>1. I \in SUBSET DOMAIN s /\ Replaced(s, new) = Filter(s, I)
  BY DEF Replaced
<1>2. ToSet(Replaced(s, new)) = {s[i] : i \in I}
  <2> HIDE DEF I
  <2> QED
    BY <1>1, FilterFacts
<1>a. \A t \in ToSet(s) : t \in AnyTable
  BY SeqDomain DEF ToSet
<1>b. ToSet(new) \in SUBSET AnyTable /\ ToSet(s) \ B \in SUBSET AnyTable
  BY <1>a, SeqDomain DEF ToSet
<1>c. /\ Head(new) \in ToSet(new) /\ Last(new) \in ToSet(new) /\ left \in Nat /\ right \in Nat
      /\ \A t \in ToSet(new) : \A k \in TableKeys(t) : k \in Nat /\ left <= k /\ k <= right
  BY NewEnds DEF NewOK
<1>d. left <= right
  <2>1. \E k : k \in TableKeys(Head(new))
    BY <1>b, <1>c, TableFacts
  <2> QED
    BY <2>1, <1>c
<1>3. ASSUME NEW t \in B PROVE out(t)
  <2>1. t \in AnyTable /\ Size(t) >= 2 /\ t \in M
    BY <1>a
  <2>2. /\ Smallest(t) \in TableKeys(t) /\ Biggest(t) \in TableKeys(t)
        /\ Smallest(t) \in Nat /\ Biggest(t) \in Nat /\ Smallest(t) < Biggest(t)
    BY <2>1, TwoEnds, TableEnds
  <2>3. \A k \in TableKeys(t) : \E n \in ToSet(new) : k \in TableKeys(n)
    <3>1. \A k \in TableKeys(t) : k \in UserKeys
      BY <2>1, TableEnds DEF NoHead, UserKeys
    <3> QED
      BY <3>1, <2>1 DEF NewOK, Covers
  <2>4. left <= Smallest(t) /\ Biggest(t) <= right
    BY <2>2, <2>3, <1>c
  <2> HIDE DEF left, right
  <2> QED
    BY <2>2, <2>4, <1>c
<1>4. ASSUME NEW u \in ToSet(s) \ B PROVE ~ out(u)
  <2>1. Gap(ToSet(s) \ B, ToSet(new))
    BY <1>b, NewGap DEF NewOK
  <2>2. Before(u, Head(new)) \/ Before(Last(new), u)
    BY <2>1, <1>c DEF Gap
  <2>3. Smallest(u) \in Nat /\ Biggest(u) \in Nat
    BY <1>a, TableEnds
  <2> QED
    BY <2>2, <2>3, <1>c DEF Before
<1>5. \A t \in ToSet(s) : t \in B <=> out(t)
  BY <1>3, <1>4
<1> HIDE DEF out
<1>6. {s[i] : i \in I} = {t \in ToSet(s) : out(t)}
  BY DEF ToSet
<1> QED
  BY <1>2, <1>5, <1>6

UniqueIds(T) == \A t, u \in T : t.id = u.id => t = u

(* delete_tables takes off the tables it is given and keeps the order. *)
LEMMA DeletesGiven ==
  ASSUME NEW s \in Seq(AnyTable), NEW A, UniqueIds(ToSet(s) \cup A)
  PROVE  /\ DeleteTables(s, {t.id : t \in A}) \in Seq(AnyTable)
         /\ ToSet(DeleteTables(s, {t.id : t \in A})) = ToSet(s) \ A
         /\ Chrono(s) => Chrono(DeleteTables(s, {t.id : t \in A}))
         /\ Ascending(s) => Ascending(DeleteTables(s, {t.id : t \in A}))
<1> DEFINE ids == {t.id : t \in A}
           I == {i \in DOMAIN s : s[i].id \notin ids}
<1>1. I \in SUBSET DOMAIN s /\ DeleteTables(s, ids) = Filter(s, I)
  BY DEF DeleteTables
<1>2. \A i \in DOMAIN s : s[i].id \in ids <=> s[i] \in A
  BY DEF UniqueIds, ToSet
<1>3. {s[i] : i \in I} = ToSet(s) \ A
  BY <1>2 DEF ToSet
<1> HIDE DEF I, ids
<1>4. /\ Filter(s, I) \in Seq(AnyTable) /\ ToSet(Filter(s, I)) = {s[i] : i \in I}
      /\ Chrono(s) => Chrono(Filter(s, I))
      /\ Ascending(s) => Ascending(Filter(s, I))
  BY <1>1, FilterFacts, FilterKeeps
<1> QED
  BY <1>1, <1>3, <1>4 DEF ids

(* The ids of a list are those of its tables. *)
LEMMA IdsAre == \A s : Ids(s) = {t.id : t \in ToSet(s)}
  BY DEF Ids, ToSet

(* replace_tables puts the new tables in the place of the merged ones. *)
LEMMA ReplacesInOrder ==
  ASSUME NEW s \in Seq(AnyTable), Ascending(s), NoHead(ToSet(s)), UniqueIds(ToSet(s)),
         NEW new \in Seq(AnyTable),
         NEW M \in SUBSET AnyTable, NEW B \in SUBSET ToSet(s), B \subseteq M,
         NewOK(new, M), Gap(ToSet(s) \ B, M), \A t \in B : Size(t) >= 2
  PROVE  /\ ToSet(ReplaceTables(s, new)) = (ToSet(s) \ B) \cup ToSet(new)
         /\ Ascending(ReplaceTables(s, new))
<1>a. \A t \in ToSet(s) : t \in AnyTable
  BY SeqDomain DEF ToSet
<1>1. CASE new = <<>>
  <2>1. ToSet(new) = {}
    BY <1>1, PartFacts
  <2>2. B = {}
    <3> SUFFICES ASSUME NEW t \in B PROVE FALSE
      OBVIOUS
    <3>1. PICK k \in TableKeys(t) : k \in UserKeys
      BY <1>a, TableEnds DEF NoHead, UserKeys
    <3> QED
      BY <3>1, <2>1 DEF NewOK, Covers
  <2> QED
    BY <1>1, <2>1, <2>2 DEF ReplaceTables
<1>2. CASE new # <<>>
  <2>1. Ids(Replaced(s, new)) = {t.id : t \in B}
    BY <1>2, TakesMerged, IdsAre
  <2>2. PICK q : q = DeleteTables(s, {t.id : t \in B})
    OBVIOUS
  <2>3. UniqueIds(ToSet(s) \cup B)
    BY DEF UniqueIds
  <2>4. q \in Seq(AnyTable) /\ ToSet(q) = ToSet(s) \ B /\ Ascending(q)
    BY <2>2, <2>3, DeletesGiven
  <2>5. ReplaceTables(s, new) = SortBySmallest(q \o new)
    BY <1>2, <2>1, <2>2 DEF ReplaceTables
  <2>6. PICK r : r = q \o new
    OBVIOUS
  <2>7. r \in Seq(AnyTable) /\ ToSet(r) = ToSet(q) \cup ToSet(new)
    BY <2>4, <2>6, ConcatFacts
  <2>8. ToSet(SortBySmallest(r)) = ToSet(r)
    BY <2>7, SortedLists
  <2>9. PICK m \in Nat, n \in Nat : m = Len(q) /\ n = Len(new)
    BY <2>4, SeqDomain
  <2>10. /\ DOMAIN r = 1 .. m + n /\ DOMAIN q = 1 .. m /\ DOMAIN new = 1 .. n
         /\ \A i \in 1 .. m : r[i] = q[i] /\ q[i] \in ToSet(q)
         /\ \A i \in 1 .. n : r[m + i] = new[i] /\ new[i] \in ToSet(new)
    <3>1. q \in Seq(AnyTable)
      BY <2>4
    <3>2. \A i \in 1 .. Len(new) : (q \o new)[Len(q) + i] = new[i]
      BY <3>1
    <3>3. \A i \in 1 .. Len(q) : (q \o new)[i] = q[i]
      BY <3>1
    <3>4. q \o new \in Seq(AnyTable) /\ Len(q \o new) = Len(q) + Len(new)
      BY <3>1
    <3>5. DOMAIN r = 1 .. m + n /\ DOMAIN q = 1 .. m /\ DOMAIN new = 1 .. n
      BY <3>1, <3>4, <2>6, <2>9, SeqDomain
    <3> QED
      BY <3>2, <3>3, <3>5, <2>6, <2>9 DEF ToSet
  <2>11. Gap(ToSet(q), ToSet(new))
    <3>1. ToSet(q) \in SUBSET AnyTable /\ ToSet(new) \in SUBSET AnyTable
      BY <1>a, <2>4, SeqDomain DEF ToSet
    <3>2. Gap(ToSet(q), M)
      BY <2>4
    <3> QED
      BY <3>1, <3>2, NewGap DEF NewOK
  <2>12. Ascending(new)
    BY DEF NewOK
  <2>13. ASSUME NEW i \in 1 .. m + n, NEW j \in 1 .. m + n, i < j
         PROVE  Before(r[i], r[j]) \/ Before(r[j], r[i])
    <3>1. CASE j <= m
      <4>1. i \in DOMAIN q /\ j \in DOMAIN q /\ r[i] = q[i] /\ r[j] = q[j]
        BY <2>10, <2>13, <3>1
      <4> QED
        BY <4>1, <2>4, <2>13 DEF Ascending
    <3>2. CASE i <= m /\ m < j
      <4>1. j - m \in 1 .. n /\ m + (j - m) = j /\ i \in 1 .. m
        BY <3>2
      <4>2. r[i] \in ToSet(q) /\ r[j] \in ToSet(new)
        BY <4>1, <2>10
      <4> QED
        BY <4>2, <2>11 DEF Gap
    <3>3. CASE m < i
      <4>1. /\ i - m \in 1 .. n /\ j - m \in 1 .. n /\ i - m < j - m
            /\ m + (i - m) = i /\ m + (j - m) = j
        BY <3>3, <2>13
      <4>2. r[i] = new[i - m] /\ r[j] = new[j - m] /\ i - m \in DOMAIN new /\ j - m \in DOMAIN new
        BY <4>1, <2>10
      <4> QED
        BY <4>1, <4>2, <2>12 DEF Ascending
    <3> QED
      BY <3>1, <3>2, <3>3
  <2>14. NoneTouch(r)
    <3> SUFFICES ASSUME NEW i \in 1 .. m + n, NEW j \in 1 .. m + n, i # j
                 PROVE  Before(r[i], r[j]) \/ Before(r[j], r[i])
      BY <2>10 DEF NoneTouch
    <3>1. i < j \/ j < i
      OBVIOUS
    <3> QED
      BY <3>1, <2>13
  <2>15. Ascending(SortBySmallest(r))
    BY <2>7, <2>14, SortAscends
  <2> QED
    BY <2>4, <2>5, <2>6, <2>7, <2>8, <2>15
<1> QED
  BY <1>1, <1>2

-----------------------------------------------------------------------------
(***************************************************************************)
(* Stores: the sets of tables of all levels, and what a flush and a        *)
(* compaction make of them.                                                *)
(***************************************************************************)
Stores == [LevelSet -> SUBSET AnyTable]

(* What is further down is not newer. *)
Ordered(S) == \A a, b \in LevelSet : a < b => \A t \in S[a], u \in S[b] : NotNewer(u, t)

(* A store that can be put in order and searched *)
StoreGood(S) ==
  /\ Ordered(S) /\ Aged(S[0])
  /\ \A l \in LevelSet \ {0} : Apart(S[l]) /\ NoHead(S[l])

(* The store has these versions of the user keys. *)
Latest(S, versions) == \A k \in UserKeys : IsNewest(All(S), k, versions[k])

(* No table of A is newer than another table of T. *)
Later(A, T) == \A t \in A : \A u \in T \ A : NotNewer(t, u)

(* Tables go, others that have their records come: the newest version stays. *)
LEMMA NewestKept ==
  ASSUME NEW T \in SUBSET AnyTable, NEW R \in SUBSET AnyTable, NEW M, NEW N \in SUBSET R,
         R \subseteq T \cup N, T \ M \subseteq R, TakenOver(N, T), Covers(M, N),
         NEW k \in UserKeys, NEW v, IsNewest(T, k, v)
  PROVE  IsNewest(R, k, v)
<1>1. \A t \in T : k \in TableKeys(t) => t.kv[k] <= v
  BY DEF IsNewest
<1>2. ASSUME NEW r \in R, k \in TableKeys(r) PROVE r.kv[k] <= v
  <2>1. CASE r \in T
    BY <1>1, <1>2, <2>1
  <2>2. CASE r \in N
    <3>1. PICK t \in T : k \in TableKeys(t) /\ t.kv[k] = r.kv[k]
      BY <1>2, <2>2 DEF TakenOver
    <3> QED
      BY <3>1, <1>1
  <2> QED
    BY <2>1, <2>2
<1>3. ASSUME v # 0 PROVE \E r \in R : k \in TableKeys(r) /\ r.kv[k] = v
  <2>1. PICK t \in T : k \in TableKeys(t) /\ t.kv[k] = v
    BY <1>3 DEF IsNewest
  <2>2. CASE t \notin M
    BY <2>1, <2>2
  <2>3. CASE t \in M
    <3>1. PICK n \in N : k \in TableKeys(n) /\ n.kv[k] >= t.kv[k]
      BY <2>1, <2>3 DEF Covers
    <3>2. n \in R /\ n.kv[k] <= v /\ n.kv[k] \in Nat /\ t.kv[k] \in Nat
      BY <2>1, <3>1, <1>2, TableFacts
    <3> QED
      BY <2>1, <3>1, <3>2
  <2> QED
    BY <2>2, <2>3
<1> QED
  BY <1>2, <1>3 DEF IsNewest

(* The store R is S after a compaction of level l. *)
Compacted(S, R, l, top, bot, new) ==
  \A b \in LevelSet :
    R[b] = IF b = l THEN S[b] \ top ELSE IF b = l + 1 THEN (S[b] \ bot) \cup new ELSE S[b]

(* What is needed for that *)
Compactable(S, l, top, bot) ==
  /\ top \subseteq S[l] /\ bot \subseteq S[l + 1] /\ Later(top, S[l])
  /\ Gap(S[l + 1] \ bot, top \cup bot)

(* The new tables are not newer than what stays above them. *)
LEMMA CompactedOrdered ==
  ASSUME NEW S \in Stores, NEW R \in Stores, NEW l \in LevelSet, l + 1 \in LevelSet,
         NEW top, NEW bot, NEW new \in SUBSET AnyTable,
         Compactable(S, l, top, bot), TakenOver(new, top \cup bot),
         Compacted(S, R, l, top, bot, new), Ordered(S)
  PROVE  Ordered(R)
<1> SUFFICES ASSUME NEW a \in LevelSet, NEW b \in LevelSet, a < b, NEW t \in R[a], NEW u \in R[b],
                    NEW k \in TableKeys(u) \cap TableKeys(t)
             PROVE  u.kv[k] <= t.kv[k]
  BY DEF Ordered, NotNewer
<1>a. l \in Nat /\ a \in Nat /\ b \in Nat /\ l < l + 1
  BY MaxLevelsAssumption DEF LevelSet
<1>b. /\ t \in S[a] \/ (a = l + 1 /\ t \in new)
      /\ u \in S[b] \/ (b = l + 1 /\ u \in new)
      /\ a = l => t \in S[l] \ top
  BY <1>a DEF Compacted
<1>c. top \subseteq S[l] /\ bot \subseteq S[l + 1]
  BY DEF Compactable
<1>1. CASE t \in S[a] /\ u \in S[b]
  BY <1>1 DEF Ordered, NotNewer
<1>2. CASE a = l + 1 /\ t \in new
  <2>1. PICK m \in top \cup bot : k \in TableKeys(m) /\ m.kv[k] = t.kv[k]
    BY <1>2 DEF TakenOver
  <2>2. u \in S[b] /\ l < b /\ l + 1 < b
    BY <1>a, <1>b, <1>2
  <2>3. NotNewer(u, m)
    BY <2>2, <1>c DEF Ordered
  <2> QED
    BY <2>1, <2>3 DEF NotNewer
<1>3. CASE b = l + 1 /\ u \in new
  <2>1. PICK m \in top \cup bot : k \in TableKeys(m) /\ m.kv[k] = u.kv[k]
    BY <1>3 DEF TakenOver
  <2>2. t \in S[a] /\ a < l + 1 /\ (a < l \/ a = l)
    BY <1>a, <1>b, <1>3
  <2>3. NotNewer(m, t)
    <3>1. CASE m \in bot
      BY <3>1, <2>2, <1>c DEF Ordered
    <3>2. CASE m \in top /\ a < l
      BY <3>2, <2>2, <1>c DEF Ordered
    <3>3. CASE m \in top /\ a = l
      BY <3>3, <1>b DEF Compactable, Later
    <3> QED
      BY <2>2, <3>1, <3>2, <3>3
  <2> QED
    BY <2>1, <2>3 DEF NotNewer
<1> QED
  BY <1>b, <1>1, <1>2, <1>3

(* A compaction, once the manifest has it, leaves a good store with the same versions. *)
LEMMA CompactedGood ==
  ASSUME NEW S \in Stores, NEW R \in Stores, NEW l \in LevelSet, l + 1 \in LevelSet,
         NEW top, NEW bot, NEW new \in Seq(AnyTable),
         Compactable(S, l, top, bot), NewOK(new, top \cup bot),
         Compacted(S, R, l, top, bot, ToSet(new)), StoreGood(S)
  PROVE  StoreGood(R) /\ \A versions : Latest(S, versions) => Latest(R, versions)
<1>a. l \in Nat /\ l + 1 # 0 /\ l # l + 1 /\ 0 \in LevelSet
  BY MaxLevelsAssumption DEF LevelSet
<1>b. ToSet(new) \in SUBSET AnyTable
  BY SeqDomain DEF ToSet
<1>c. top \subseteq S[l] /\ bot \subseteq S[l + 1]
  BY DEF Compactable
<1>d. \A b \in LevelSet : S[b] \in SUBSET AnyTable /\ R[b] \in SUBSET AnyTable
  BY DEF Stores
<1>1. Ordered(R)
  BY <1>b, CompactedOrdered DEF NewOK, StoreGood
<1>2. Aged(R[0])
  <2>1. R[0] \subseteq S[0]
    BY <1>a DEF Compacted
  <2> QED
    BY <2>1 DEF StoreGood, Aged
<1>3. ASSUME NEW b \in LevelSet \ {0}
      PROVE  Apart(R[b]) /\ NoHead(R[b])
  <2>1. Apart(S[b]) /\ NoHead(S[b])
    BY DEF StoreGood
  <2>2. CASE b # l + 1
    <3>1. R[b] \subseteq S[b]
      BY <2>2 DEF Compacted
    <3> QED
      BY <3>1, <2>1 DEF Apart, NoHead
  <2>3. CASE b = l + 1
    <3>1. R[b] = (S[b] \ bot) \cup ToSet(new)
      BY <2>3, <1>a DEF Compacted
    <3>2. NoHead(ToSet(new)) /\ Ascending(new)
      BY DEF NewOK
    <3>3. \A t, u \in ToSet(new) : t # u => Before(t, u) \/ Before(u, t)
      <4> SUFFICES ASSUME NEW i \in DOMAIN new, NEW j \in DOMAIN new, new[i] # new[j]
                   PROVE  Before(new[i], new[j]) \/ Before(new[j], new[i])
        BY DEF ToSet
      <4>1. i \in Nat /\ j \in Nat /\ (i < j \/ j < i)
        BY SeqDomain
      <4> QED
        BY <4>1, <3>2 DEF Ascending
    <3>4. Gap(S[b] \ bot, ToSet(new))
      <4>1. Gap(S[b] \ bot, top \cup bot)
        BY <2>3 DEF Compactable
      <4>2. S[b] \ bot \in SUBSET AnyTable /\ top \cup bot \in SUBSET AnyTable
        BY <1>c, <1>d
      <4> QED
        BY <4>1, <4>2, <1>b, NewGap DEF NewOK
    <3>5. Apart(R[b])
      BY <3>1, <3>3, <3>4, <2>1 DEF Apart, Gap
    <3> QED
      BY <3>1, <3>2, <3>5, <2>1 DEF NoHead
  <2> QED
    BY <2>2, <2>3
<1>4. ASSUME NEW versions, Latest(S, versions), NEW k \in UserKeys
      PROVE  IsNewest(All(R), k, versions[k])
  <2>1. All(S) \in SUBSET AnyTable /\ All(R) \in SUBSET AnyTable
    BY <1>d DEF All
  <2>2. ToSet(new) \in SUBSET All(R)
    BY <1>a DEF All, Compacted
  <2>3. All(R) \subseteq All(S) \cup ToSet(new)
    BY DEF All, Compacted
  <2>4. All(S) \ (top \cup bot) \subseteq All(R)
    BY DEF All, Compacted
  <2>5. TakenOver(ToSet(new), All(S))
    <3>1. top \cup bot \subseteq All(S)
      BY <1>c DEF All
    <3> QED
      BY <3>1 DEF NewOK, TakenOver
  <2>6. IsNewest(All(S), k, versions[k])
    BY <1>4 DEF Latest
  <2> QED
    BY <2>1, <2>2, <2>3, <2>4, <2>5, <2>6, NewestKept DEF NewOK
<1> QED
  BY <1>1, <1>2, <1>3, <1>4 DEF StoreGood, Latest

(* The store R is S with x on level 0. *)
Grown(S, R, x) == \A b \in LevelSet : R[b] = IF b = 0 THEN S[b] \cup {x} ELSE S[b]

(* A flushed table, newer than all there is, comes to level 0. *)
LEMMA GrownGood ==
  ASSUME NEW S \in Stores, NEW R \in Stores, NEW x \in AnyTable, Grown(S, R, x),
         \A u \in All(S) : NotNewer(u, x)
  PROVE  /\ Ordered(S) => Ordered(R)
         /\ \A versions : Latest(S, versions) => Latest(R, Newest(versions, x))
<1>a. 0 \in LevelSet /\ \A b \in LevelSet : b \in Nat
  BY MaxLevelsAssumption DEF LevelSet
<1>1. ASSUME Ordered(S),
             NEW a \in LevelSet, NEW b \in LevelSet, a < b, NEW t \in R[a], NEW u \in R[b]
      PROVE  NotNewer(u, t)
  <2>a. a \in Nat /\ b \in Nat /\ b # 0
    BY <1>a, <1>1
  <2>b. R[b] = S[b] /\ (R[a] = S[a] \/ R[a] = S[a] \cup {x})
    BY <2>a DEF Grown
  <2>1. b # 0 /\ u \in S[b] /\ (t \in S[a] \/ t = x)
    BY <2>a, <2>b
  <2>2. u \in All(S)
    BY <2>1 DEF All
  <2> QED
    BY <1>1, <2>1, <2>2 DEF Ordered
<1>2. ASSUME NEW versions, Latest(S, versions), NEW k \in UserKeys
      PROVE  IsNewest(All(R), k, Newest(versions, x)[k])
  <2>1. \A t : t \in All(R) <=> t \in All(S) \/ t = x
    BY <1>a DEF All, Grown
  <2>2. k \in Keys
    BY DEF UserKeys
  <2>3. IsNewest(All(S), k, versions[k])
    BY <1>2 DEF Latest
  <2>4. CASE k \in TableKeys(x)
    <3>1. Newest(versions, x)[k] = x.kv[k]
      BY <2>2, <2>4 DEF Newest
    <3>2. \A t \in All(R) : k \in TableKeys(t) => t.kv[k] <= x.kv[k]
      <4>1. x.kv[k] \in Nat
        BY <2>4, TableFacts
      <4> QED
        BY <4>1, <2>1, <2>4 DEF NotNewer
    <3> QED
      BY <3>1, <3>2, <2>1, <2>4 DEF IsNewest
  <2>5. CASE k \notin TableKeys(x)
    <3>1. Newest(versions, x)[k] = versions[k]
      BY <2>2, <2>5 DEF Newest
    <3> QED
      BY <3>1, <2>1, <2>3, <2>5 DEF IsNewest
  <2> QED
    BY <2>4, <2>5
<1> QED
  BY <1>1, <1>2 DEF Ordered, Latest

-----------------------------------------------------------------------------
(***************************************************************************)
(* The inductive invariant, for one compaction worker.                     *)
(***************************************************************************)
Worker == CHOOSE w \in Workers : TRUE
OneWorker == Workers = {Worker}

(* The tables in the lists, and those that a restart would find *)
Lists == Sets(tables)
Disk == [l \in LevelSet |-> OnDisk(l)]

(* The flushed table while the manifest has it and level 0 does not *)
Pending == IF flusher.at \in {"adding", "stalled"} THEN {flusher.table} ELSE {}

(* Versions are numbers of flushes, and the table being flushed has the last one. *)
VersionsOK ==
  /\ All(Lists) \subseteq files
  /\ \A t \in files : \A k \in TableKeys(t) : t.kv[k] \in 1 .. flushes
  /\ flusher.at # "idle" => \A k \in TableKeys(flusher.table) : flusher.table.kv[k] = flushes
  /\ visible \in [Keys -> Nat] /\ durable \in [Keys -> Nat]

(* The lists are in order, and above level 0 without the head key. *)
SortedOK ==
  /\ AllInOrder(tables)
  /\ \A l \in LevelSet \ {0} : NoHead(ToSet(tables[l]))

(* The levels are ordered, except while two of them have the same records. *)
OrderOK ==
  /\ at[Worker] # "delete" => Ordered(Lists)
  /\ Latest(Lists, visible)

(* The store on disk can be opened at any time. *)
DiskGood ==
  /\ StoreGood(Disk)
  /\ Latest(Disk, durable)
  /\ DOMAIN manifest \subseteq {t.id : t \in files}

(***************************************************************************)
(* How the store on disk differs from the lists: a compaction at a has     *)
(* taken the first set of tables off the disk and put the second one on,   *)
(* and not yet done so in the lists.                                       *)
(***************************************************************************)
OffDisk(a, d, l) ==
  IF a \in {"replace", "delete"} /\ l = d.level THEN ToSet(d.top)
  ELSE IF a = "replace" /\ l = d.level + 1 THEN ToSet(d.bot) ELSE {}

OnlyDisk(a, d, l) == IF a = "replace" /\ l = d.level + 1 THEN ToSet(d.new) ELSE {}

Matches(S, L, a, d, P) ==
  \A l \in LevelSet :
    S[l] = ((L[l] \ OffDisk(a, d, l)) \cup OnlyDisk(a, d, l)) \cup (IF l = 0 THEN P ELSE {})

DiskMatches == Matches(Disk, Lists, at[Worker], cd[Worker], Pending)

(* The table being flushed is nowhere else, and newer than level 0. *)
FlushOK ==
  flusher.at # "idle" =>
    /\ flusher.table \in files
    /\ flusher.table \notin TablesIn(cd[Worker])
    /\ flusher.table \notin All(Lists)
    /\ flusher.at = "created" => flusher.table.id \notin DOMAIN manifest
    /\ \A t \in Disk[0] : t # flusher.table => t.id < flusher.table.id

(* The worker looks for tables: what it knows is still true. *)
Searching(T, a, d) ==
  /\ d.level = 0 => d.top = T[0]
  /\ d.level > 0 => ToSet(d.cands) \subseteq ToSet(T[d.level])
  /\ a \in {"right", "slice"} =>
       /\ d.level > 0 => \E t \in ToSet(T[d.level]) : d.top = <<t>>
       /\ d.left \in OverlapLeft(T[d.level + 1], GetRange(d.top))
  /\ a = "slice" => d.right \in OverlapRight(T[d.level + 1], GetRange(d.top))

(* What it took is there to be compacted; *)
Taken(L, d) == Compactable(L, d.level, ToSet(d.top), ToSet(d.bot))

(* it can be merged, *)
Mergeable(d) ==
  /\ Chrono(d.top) /\ (d.level = 0 \/ Len(d.top) = 1)
  /\ Ascending(d.bot)

(* and has been, *)
Merged(d) == NewOK(d.new, ToSet(d.top) \cup ToSet(d.bot))

(* into files the manifest does not know, or as the table that is moved. *)
Logged(F, I, d) == ToSet(d.new) \subseteq F /\ Ids(d.new) \cap I \subseteq Outdated(d)

(* Only the tables of the upper level are still to be deleted. *)
TopHolds(L, top, l) ==
  \A b \in LevelSet : l < b =>
    \A u \in L[b], t \in top : \A k \in TableKeys(u) \cap TableKeys(t) :
      \E x \in top : k \in TableKeys(x) /\ u.kv[k] <= x.kv[k]

Deletable(L, d) ==
  /\ ToSet(d.top) \subseteq L[d.level]
  /\ Covers(ToSet(d.top), L[d.level + 1])
  /\ TopHolds(L, ToSet(d.top), d.level)

WorkerGood(T, F, I, a, d) ==
  /\ a \in {"left", "right", "slice"} => Searching(T, a, d)
  /\ a \in {"build", "manifest", "replace"} => Taken(Sets(T), d)
  /\ a = "build" => Mergeable(d)
  /\ a \in {"manifest", "replace"} => Merged(d)
  /\ a = "manifest" => Logged(F, I, d)
  /\ a = "delete" => Deletable(Sets(T), d)

WorkerOK == WorkerGood(tables, files, DOMAIN manifest, at[Worker], cd[Worker])

SInv == VersionsOK /\ SortedOK /\ OrderOK /\ DiskGood /\ DiskMatches /\ FlushOK /\ WorkerOK

(* A get that began with a version still has one as new ahead of it. *)
ReaderOK ==
  \/ reader = [at |-> "idle", missed |-> FALSE]
  \/ /\ reader \in [at : {"busy"}, key : UserKeys, done : LevelSet, floor : Nat]
     /\ reader.floor > 0 =>
          \E l \in LevelSet : reader.done <= l /\
             \E t \in Lists[l] :
               reader.key \in TableKeys(t) /\ t.kv[reader.key] >= reader.floor

(* The hypothesis that replace_tables needs: no table below level 0 has just one key. *)
NoSingles == \A l \in LevelSet \ {0} : \A t \in ToSet(tables[l]) : Size(t) >= 2

-----------------------------------------------------------------------------
(***************************************************************************)
(* What the types of part one say about the parts of SInv.                 *)
(***************************************************************************)

(* There is one worker. *)
LEMMA WorkerIs ==
  ASSUME OneWorker
  PROVE  Worker \in Workers /\ \A w \in Workers : w = Worker
BY DEF OneWorker

(* The tables in lists, files, the CompactDef and the flush task, and their ids *)
LEMMA TableTypes ==
  ASSUME LInv, OneWorker
  PROVE  /\ Known \in SUBSET AnyTable /\ UniqueIds(Known)
         /\ \A t \in Known : t.id \in Nat /\ t.id < nextFileId
         /\ files \subseteq Known /\ files \in SUBSET AnyTable
         /\ TablesIn(cd[Worker]) \subseteq Known
         /\ All(Lists) \subseteq Known
         /\ flusher.at # "idle" => flusher.table \in Known /\ flusher.table \in AnyTable
<1>1. Within(Known)
  BY WithinKnown
<1>2. Known \in SUBSET AnyTable /\ IdsOK(Known, nextFileId)
  BY DEF LInv, KnownOK
<1>3. \A l \in LevelSet : ToSet(tables[l]) \subseteq Known
  BY <1>1 DEF Within
<1>4. All(Lists) \subseteq Known
  BY <1>3 DEF All, Lists, Sets
<1>5. \A t \in Known : t.id \in Nat /\ t.id < nextFileId
  BY <1>2, TableFacts DEF IdsOK
<1>6. UniqueIds(Known)
  BY <1>2 DEF IdsOK, UniqueIds
<1>7. files \subseteq Known /\ TablesIn(cd[Worker]) \subseteq Known
  BY <1>1, WorkerIs DEF Within
<1>8. flusher.at # "idle" => flusher.table \in Known
  BY <1>1 DEF Within
<1> QED
  BY <1>2, <1>4, <1>5, <1>6, <1>7, <1>8

(* The stores in the lists and on disk *)
LEMMA StoreTypes ==
  ASSUME LInv
  PROVE  /\ tables \in [LevelSet -> Seq(AnyTable)]
         /\ Lists \in Stores /\ Disk \in Stores
         /\ \A l \in LevelSet : /\ Lists[l] = ToSet(tables[l]) /\ Disk[l] = OnDisk(l)
                                /\ Lists[l] \subseteq All(Lists) /\ Disk[l] \subseteq files
                                /\ Disk[l] \in SUBSET AnyTable /\ IsFiniteSet(Disk[l])
         /\ All(Disk) \subseteq files
<1>1. tables \in [LevelSet -> Seq(AnyTable)] /\ IsFiniteSet(files)
  BY DEF LInv, ListsOK, DiskOK
<1>2. \A l \in LevelSet : tables[l] \in Seq(AnyTable)
  BY <1>1
<1>3. \A l \in LevelSet : ToSet(tables[l]) \in SUBSET AnyTable
  BY <1>2, SeqDomain DEF ToSet
<1>4. Lists \in Stores /\ \A l \in LevelSet : Lists[l] = ToSet(tables[l])
  BY <1>3 DEF Lists, Sets, Stores
<1>5. files \subseteq AnyTable
  BY WithinKnown DEF Within, LInv, KnownOK
<1>6. \A l \in LevelSet : OnDisk(l) \subseteq files /\ Disk[l] = OnDisk(l)
  BY DEF OnDisk, Disk
<1>7. \A l \in LevelSet : OnDisk(l) \in SUBSET AnyTable
  BY <1>5, <1>6
<1>8. Disk \in Stores
  BY <1>7 DEF Disk, Stores
<1>9. \A l \in LevelSet : IsFiniteSet(OnDisk(l))
  BY <1>1, <1>6, FS_Subset
<1> QED
  BY <1>1, <1>4, <1>6, <1>7, <1>8, <1>9 DEF All

(* The worker *)
LEMMA WorkerTypes ==
  ASSUME LInv, OneWorker
  PROVE  /\ at[Worker] \in Points /\ cd[Worker] \in CompactDefs
         /\ PhaseOK(at[Worker], cd[Worker])
         /\ cd[Worker].level \in LevelSet /\ cd[Worker].level + 1 \in LevelSet
         /\ cd[Worker].level \in Nat /\ 0 \in LevelSet
         /\ cd[Worker].top \in Seq(AnyTable) /\ cd[Worker].bot \in Seq(AnyTable)
         /\ cd[Worker].new \in Seq(AnyTable) /\ cd[Worker].cands \in Seq(AnyTable)
<1>1. /\ at[Worker] \in Points /\ cd[Worker] \in CompactDefs
      /\ PhaseOK(at[Worker], cd[Worker])
  BY WorkerIs DEF LInv, WorkersOK
<1>2. cd[Worker].level \in 0 .. MaxLevels - 2
  BY <1>1 DEF CompactDefs
<1>3. /\ cd[Worker].level \in LevelSet /\ cd[Worker].level + 1 \in LevelSet
      /\ cd[Worker].level \in Nat /\ 0 \in LevelSet
  BY <1>2, MaxLevelsAssumption DEF LevelSet
<1> QED
  BY <1>1, <1>3 DEF CompactDefs

-----------------------------------------------------------------------------
(***************************************************************************)
(* What the invariant implies.                                             *)
(***************************************************************************)

(* Levels that are ordered are layered. *)
LEMMA OrderedLayered ==
  ASSUME NEW S \in Stores, Ordered(S), NEW k
  PROVE  Layered(S, k)
<1>1. SUFFICES ASSUME NEW a \in LevelSet, NEW b \in LevelSet, a < b,
                      NEW x \in S[a], NEW u \in S[b], k \in TableKeys(x), k \in TableKeys(u)
               PROVE  u.kv[k] <= x.kv[k]
  BY DEF Layered
<1> QED
  BY <1>1 DEF Ordered, NotNewer

(* Outside of a compaction's own tables the lists are part of the store on disk. *)
LEMMA ListedOnDisk ==
  ASSUME NEW S, NEW L, NEW a, NEW d, NEW P, Matches(S, L, a, d, P), NEW l \in LevelSet
  PROVE  /\ a \notin {"replace", "delete"} => L[l] \subseteq S[l]
         /\ a = "delete" /\ l # d.level => L[l] \subseteq S[l]
         /\ a = "delete" => L[l] \ ToSet(d.top) \subseteq S[l]
         /\ a # "replace" /\ l # 0 /\ l # d.level => S[l] = L[l]
BY DEF Matches, OffDisk, OnlyDisk

(* While a compaction deletes, its top tables answer for what they cover. *)
LEMMA DeletingLayered ==
  ASSUME NEW S \in Stores, NEW L \in Stores, NEW d, NEW P, Matches(S, L, "delete", d, P),
         d.level \in LevelSet, d.level + 1 \in LevelSet, d.level \in Nat,
         ToSet(d.top) \in SUBSET AnyTable,
         Ordered(S), Deletable(L, d), NEW k \in UserKeys
  PROVE  Layered(L, k)
<1> DEFINE l == d.level
           top == ToSet(d.top)
<1>1. SUFFICES ASSUME NEW a \in LevelSet, NEW b \in LevelSet, a < b,
                      NEW x \in L[a], NEW u \in L[b], k \in TableKeys(x), k \in TableKeys(u)
               PROVE  \E t \in L[a] : k \in TableKeys(t) /\ u.kv[k] <= t.kv[k]
  BY DEF Layered
<1>a. /\ \A c \in LevelSet : c # l => L[c] \subseteq S[c]
      /\ \A c \in LevelSet : L[c] \ top \subseteq S[c]
  BY ListedOnDisk
<1>b. top \subseteq L[l] /\ Covers(top, L[l + 1]) /\ TopHolds(L, top, l)
  BY DEF Deletable
<1>c. a \in Int /\ b \in Int /\ l \in Int
  BY DEF LevelSet
<1>2. CASE (a # l \/ x \notin top) /\ (b # l \/ u \notin top)
  <2>1. x \in S[a] /\ u \in S[b]
    BY <1>2, <1>a
  <2> QED
    BY <2>1, <1>1 DEF Ordered, NotNewer
<1>3. CASE a = l /\ x \in top
  <2>1. \E t \in top : k \in TableKeys(t) /\ u.kv[k] <= t.kv[k]
    BY <1>3, <1>b, <1>1 DEF TopHolds
  <2> QED
    BY <2>1, <1>3, <1>b
<1>4. CASE b = l /\ u \in top /\ a # l
  <2>1. PICK y \in L[l + 1] : k \in TableKeys(y) /\ y.kv[k] >= u.kv[k]
    BY <1>4, <1>b, <1>1 DEF Covers
  <2>2. l + 1 # l /\ a < l + 1
    BY <1>c, <1>4, <1>1
  <2>3. y \in S[l + 1] /\ x \in S[a]
    BY <1>a, <1>4, <2>2
  <2>4. y.kv[k] <= x.kv[k]
    BY <2>1, <2>2, <2>3, <1>1 DEF Ordered, NotNewer
  <2>5. y \in AnyTable /\ x \in AnyTable /\ u \in AnyTable
    BY <2>3, <1>4 DEF Stores
  <2>6. y.kv[k] \in Nat /\ x.kv[k] \in Nat /\ u.kv[k] \in Nat
    BY <2>5, <2>1, <1>1, TableFacts
  <2>7. u.kv[k] <= x.kv[k]
    BY <2>1, <2>4, <2>6
  <2> QED
    BY <2>7, <1>1
<1>5. a = l => b # l
  BY <1>c, <1>1
<1> QED
  BY <1>2, <1>3, <1>4, <1>5

(* A search may take a level's answer, at every moment. *)
LEMMA ListsLayered ==
  ASSUME LInv, SInv, OneWorker, NEW k \in UserKeys
  PROVE  Layered(Lists, k)
<1>a. Lists \in Stores /\ Disk \in Stores
  BY StoreTypes
<1>1. CASE at[Worker] # "delete"
  BY <1>1, <1>a, OrderedLayered DEF SInv, OrderOK
<1>2. CASE at[Worker] = "delete"
  <2>1. PICK d : d = cd[Worker]
    OBVIOUS
  <2>2. d.level \in LevelSet /\ d.level + 1 \in LevelSet /\ d.level \in Nat
    BY <2>1, WorkerTypes
  <2>3. ToSet(d.top) \in SUBSET AnyTable
    BY <2>1, TableTypes DEF TablesIn
  <2>4. Deletable(Lists, d)
    BY <2>1, <1>2 DEF SInv, WorkerOK, WorkerGood, Lists
  <2>5. Matches(Disk, Lists, "delete", d, Pending)
    BY <2>1, <1>2 DEF SInv, DiskMatches
  <2>6. Ordered(Disk)
    BY DEF SInv, DiskGood, StoreGood
  <2> QED
    BY <1>a, <2>2, <2>3, <2>4, <2>5, <2>6, DeletingLayered
<1> QED
  BY <1>1, <1>2

(* Keys of users are keys. *)
LEMMA UserKeyIs == \A k \in UserKeys : k \in Keys
BY DEF UserKeys

(* LookupIsLatest *)
LEMMA InvLookup ==
  ASSUME LInv, SInv, OneWorker
  PROVE  LookupIsLatest
<1>1. SUFFICES ASSUME NEW k \in UserKeys
               PROVE  Lookup(tables, k) = visible[k]
  BY DEF LookupIsLatest
<1>2. tables \in [LevelSet -> Seq(AnyTable)] /\ AllInOrder(tables)
  BY StoreTypes DEF SInv, SortedOK
<1>3. k \in Keys
  BY <1>1, UserKeyIs
<1>4. Layered(Sets(tables), k)
  BY <1>1, ListsLayered DEF Lists
<1>5. \A t \in All(Lists) : \A j \in TableKeys(t) : t.kv[j] \in 1 .. flushes
  BY DEF SInv, VersionsOK
<1>6. Positive(All(Sets(tables)))
  BY <1>5 DEF Positive, Lists
<1>7. Lookup(tables, k) \in Nat /\ IsNewest(All(Sets(tables)), k, Lookup(tables, k))
  BY <1>2, <1>3, <1>4, <1>6, LookupNewest
<1>8. visible[k] \in Nat /\ IsNewest(All(Sets(tables)), k, visible[k])
  BY <1>1, <1>3 DEF SInv, VersionsOK, OrderOK, Latest, Lists
<1>9. All(Sets(tables)) \in SUBSET AnyTable
  BY TableTypes DEF Lists
<1> QED
  BY <1>6, <1>7, <1>8, <1>9, NewestUnique

(* A level in order validates. *)
LEMMA InOrderValid ==
  ASSUME NEW s \in Seq(AnyTable), NEW l \in LevelSet, InOrder(l, s)
  PROVE  Validate(l, s)
<1>1. SUFFICES ASSUME l > 0, NEW j \in 2 .. Len(s)
               PROVE  Biggest(s[j - 1]) < Smallest(s[j])
  BY DEF Validate
<1>2. Len(s) \in Nat /\ DOMAIN s = 1 .. Len(s)
  BY SeqDomain
<1>3. j - 1 \in DOMAIN s /\ j \in DOMAIN s /\ j - 1 < j
  BY <1>1, <1>2
<1>4. Ascending(s)
  BY <1>1 DEF InOrder, LevelSet
<1> QED
  BY <1>3, <1>4 DEF Ascending, Before

(* LevelsSorted *)
LEMMA InvSorted ==
  ASSUME LInv, SInv
  PROVE  LevelsSorted
<1>1. \A l \in LevelSet : tables[l] \in Seq(AnyTable)
  BY StoreTypes
<1>2. \A l \in LevelSet : InOrder(l, tables[l])
  BY DEF SInv, SortedOK, AllInOrder
<1> QED
  BY <1>1, <1>2, InOrderValid DEF LevelsSorted

(* A good store on disk is opened as lists in order. *)
LEMMA RecoveredGood ==
  ASSUME LInv, StoreGood(Disk)
  PROVE  /\ Recovered \in [LevelSet -> Seq(AnyTable)]
         /\ Sets(Recovered) = Disk /\ AllInOrder(Recovered)
         /\ \A l \in LevelSet : ToSet(Recovered[l]) = Disk[l]
<1>1. \A l \in LevelSet : Disk[l] \in SUBSET AnyTable /\ IsFiniteSet(Disk[l])
  BY StoreTypes
<1>2. \A l \in LevelSet : Recovered[l] = InitTables(l, SetToSeq(Disk[l]))
  BY DEF Recovered, Disk
<1>3. \A l \in LevelSet : Recovered[l] \in Seq(AnyTable) /\ ToSet(Recovered[l]) = Disk[l]
  BY <1>1, <1>2, RecoveredFacts
<1>4. Recovered \in [LevelSet -> Seq(AnyTable)]
  <2>1. Recovered = [l \in LevelSet |-> Recovered[l]]
    BY DEF Recovered
  <2> QED
    BY <2>1, <1>3
<1>5. ASSUME NEW l \in LevelSet
      PROVE  InOrder(l, Recovered[l])
  <2>1. CASE l = 0
    <3>1. Aged(Disk[l])
      BY <2>1 DEF StoreGood
    <3>2. Chrono(Recovered[l])
      BY <3>1, <2>1, <1>1, <1>2, OpenedInOrder
    <3> QED
      BY <3>2, <2>1 DEF InOrder
  <2>2. CASE l # 0
    <3>1. Apart(Disk[l])
      BY <2>2 DEF StoreGood
    <3>2. Ascending(Recovered[l])
      BY <3>1, <2>2, <1>1, <1>2, OpenedInOrder
    <3> QED
      BY <3>2, <2>2 DEF InOrder
  <2> QED
    BY <2>1, <2>2
<1>6. Sets(Recovered) = Disk
  BY <1>3 DEF Sets, Disk
<1> QED
  BY <1>3, <1>4, <1>5, <1>6 DEF AllInOrder

(* CrashSafe *)
LEMMA InvCrash ==
  ASSUME LInv, SInv, OneWorker
  PROVE  CrashSafe
<1>0. StoreGood(Disk) /\ Latest(Disk, durable) /\ DOMAIN manifest \subseteq {t.id : t \in files}
  BY DEF SInv, DiskGood
<1>1. /\ Recovered \in [LevelSet -> Seq(AnyTable)]
      /\ Sets(Recovered) = Disk /\ AllInOrder(Recovered)
  BY <1>0, RecoveredGood
<1>2. \A l \in LevelSet : Validate(l, Recovered[l])
  BY <1>1, InOrderValid DEF AllInOrder
<1>3. ASSUME NEW k \in UserKeys
      PROVE  Lookup(Recovered, k) = durable[k]
  <2>1. k \in Keys
    BY <1>3, UserKeyIs
  <2>2. Disk \in Stores /\ Ordered(Disk)
    BY <1>0, StoreTypes DEF StoreGood
  <2>3. Layered(Disk, k)
    BY <2>2, OrderedLayered
  <2>4. All(Disk) \subseteq files /\ files \in SUBSET AnyTable
    BY StoreTypes, TableTypes
  <2>5. \A t \in files : \A j \in TableKeys(t) : t.kv[j] \in 1 .. flushes
    BY DEF SInv, VersionsOK
  <2>6. Positive(All(Disk))
    BY <2>4, <2>5 DEF Positive
  <2>7. Lookup(Recovered, k) \in Nat /\ IsNewest(All(Disk), k, Lookup(Recovered, k))
    BY <1>1, <2>1, <2>3, <2>6, LookupNewest
  <2>8. durable[k] \in Nat /\ IsNewest(All(Disk), k, durable[k])
    BY <1>0, <1>3, <2>1 DEF SInv, VersionsOK, Latest
  <2> QED
    BY <2>4, <2>6, <2>7, <2>8, NewestUnique
<1> QED
  BY <1>0, <1>2, <1>3 DEF CrashSafe, OpenSucceeds

(* ManifestAccepts *)
LEMMA InvAccepts ==
  ASSUME LInv, SInv, OneWorker
  PROVE  ManifestAccepts
<1>1. SUFFICES ASSUME at[Worker] \in {"build", "manifest"}
               PROVE  Outdated(cd[Worker]) \subseteq DOMAIN manifest
  BY WorkerIs DEF ManifestAccepts
<1>2. PICK d : d = cd[Worker]
  OBVIOUS
<1>3. Taken(Lists, d)
  BY <1>1, <1>2 DEF SInv, WorkerOK, WorkerGood, Lists
<1>4. d.level \in LevelSet /\ d.level + 1 \in LevelSet
  BY <1>2, WorkerTypes
<1>5. \A l \in LevelSet : Lists[l] \subseteq Disk[l]
  BY <1>1, ListedOnDisk DEF SInv, DiskMatches
<1>6. ToSet(d.top) \subseteq Disk[d.level] /\ ToSet(d.bot) \subseteq Disk[d.level + 1]
  BY <1>3, <1>4, <1>5 DEF Taken, Compactable
<1>7. \A l \in LevelSet : \A t \in Disk[l] : t.id \in DOMAIN manifest
  BY DEF Disk, OnDisk
<1> QED
  BY <1>2, <1>4, <1>6, <1>7, IdsAre DEF Outdated

(* ReplacesMerged *)
LEMMA InvReplaces ==
  ASSUME LInv, SInv, OneWorker, NoSingles
  PROVE  ReplacesMerged
<1>1. SUFFICES ASSUME at[Worker] = "replace", cd[Worker].new # <<>>
               PROVE  Ids(Replaced(tables[cd[Worker].level + 1], cd[Worker].new))
                        = Ids(cd[Worker].bot)
  BY WorkerIs DEF ReplacesMerged
<1>2. PICK d : d = cd[Worker]
  OBVIOUS
<1>3. PICK s : s = tables[d.level + 1]
  OBVIOUS
<1>4. /\ d.level \in Nat /\ d.level + 1 \in LevelSet /\ d.top \in Seq(AnyTable)
      /\ d.bot \in Seq(AnyTable) /\ d.new \in Seq(AnyTable)
  BY <1>2, WorkerTypes
<1>5. s \in Seq(AnyTable) /\ Lists[d.level + 1] = ToSet(s)
  BY <1>3, <1>4, StoreTypes
<1>6. d.level + 1 \in LevelSet \ {0}
  BY <1>4
<1>7. NoHead(ToSet(s)) /\ \A t \in ToSet(s) : Size(t) >= 2
  BY <1>3, <1>6 DEF SInv, SortedOK, NoSingles
<1>8. Taken(Lists, d) /\ Merged(d)
  BY <1>1, <1>2 DEF SInv, WorkerOK, WorkerGood, Lists
<1>9. ToSet(d.bot) \subseteq ToSet(s) /\ Gap(ToSet(s) \ ToSet(d.bot), ToSet(d.top) \cup ToSet(d.bot))
  BY <1>8, <1>5 DEF Taken, Compactable
<1>10. PICK M : M = ToSet(d.top) \cup ToSet(d.bot)
  OBVIOUS
<1>11. M \in SUBSET AnyTable
  BY <1>10, <1>4, SeqDomain DEF ToSet
<1>12. PICK B : B = ToSet(d.bot)
  OBVIOUS
<1>13. PICK new : new = d.new
  OBVIOUS
<1>14. /\ B \in SUBSET ToSet(s) /\ B \subseteq M /\ NewOK(new, M) /\ Gap(ToSet(s) \ B, M)
       /\ \A t \in B : Size(t) >= 2
       /\ new \in Seq(AnyTable) /\ new # <<>>
  BY <1>1, <1>2, <1>4, <1>7, <1>8, <1>9, <1>10, <1>12, <1>13 DEF Merged
<1>15. ToSet(Replaced(s, new)) = B
  BY <1>5, <1>7, <1>11, <1>14, TakesMerged
<1>16. Ids(Replaced(s, new)) = Ids(d.bot)
  BY <1>15, <1>12, IdsAre
<1> QED
  BY <1>16, <1>2, <1>3, <1>13

-----------------------------------------------------------------------------
(***************************************************************************)
(* Steps that change neither lists nor disk.                               *)
(***************************************************************************)
SameStore == UNCHANGED <<tables, manifest, files, flusher, visible, durable, flushes>>

(* The worker is at a with the CompactDef d. *)
Goes(a, d) == at'[Worker] = a /\ cd'[Worker] = d

(* Between its changes of the store a worker only has to keep its own part. *)
LEMMA QuietStep ==
  ASSUME LInv, SInv, OneWorker, SameStore, NEW a, NEW d, Goes(a, d),
         at[Worker] \notin {"replace", "delete"}, a \notin {"replace", "delete"},
         TablesIn(d) \subseteq TablesIn(cd[Worker]) \cup All(Lists),
         WorkerGood(tables, files, DOMAIN manifest, a, d)
  PROVE  SInv'
<1>1. /\ tables' = tables /\ manifest' = manifest /\ files' = files /\ flusher' = flusher
      /\ visible' = visible /\ durable' = durable /\ flushes' = flushes
  BY DEF SameStore
<1>2. at'[Worker] = a /\ cd'[Worker] = d
  BY DEF Goes
<1>3. Lists' = Lists
  BY <1>1 DEF Lists
<1>4. Disk' = Disk
  BY <1>1 DEF Disk, OnDisk
<1>5. Pending' = Pending
  BY <1>1 DEF Pending
<1>6. VersionsOK' /\ SortedOK' /\ DiskGood'
  BY <1>1, <1>3, <1>4 DEF SInv, VersionsOK, SortedOK, DiskGood
<1>7. OrderOK'
  BY <1>1, <1>2, <1>3 DEF SInv, OrderOK
<1>8. DiskMatches'
  <2>1. \A l : /\ OffDisk(a, d, l) = {} /\ OnlyDisk(a, d, l) = {}
               /\ OffDisk(at[Worker], cd[Worker], l) = {}
               /\ OnlyDisk(at[Worker], cd[Worker], l) = {}
    BY DEF OffDisk, OnlyDisk
  <2>2. Matches(Disk, Lists, a, d, Pending)
    BY <2>1 DEF SInv, DiskMatches, Matches
  <2> QED
    BY <2>2, <1>2, <1>3, <1>4, <1>5 DEF DiskMatches
<1>9. FlushOK'
  BY <1>1, <1>2, <1>3, <1>4 DEF SInv, FlushOK
<1>10. WorkerOK'
  BY <1>1, <1>2 DEF WorkerOK
<1> QED
  BY <1>6, <1>7, <1>8, <1>9, <1>10 DEF SInv

(* Places where a worker has nothing to keep *)
AtRest == {"idle", "dead", "this", "stuck", "finish", "lost"}

(* It is enough that the worker's CompactDef has no new tables. *)
LEMMA RestStep ==
  ASSUME LInv, SInv, OneWorker, SameStore, NEW a \in AtRest, NEW d, Goes(a, d),
         at[Worker] \notin {"replace", "delete"}, TablesIn(d) \subseteq TablesIn(cd[Worker])
  PROVE  SInv'
<1>1. a \notin {"replace", "delete"} /\ WorkerGood(tables, files, DOMAIN manifest, a, d)
  BY DEF AtRest, WorkerGood
<1> QED
  BY <1>1, QuietStep

(* The worker's places and its CompactDef after an assignment to them *)
LEMMA Assigned ==
  ASSUME LInv, OneWorker
  PROVE  /\ \A a : at' = [at EXCEPT ![Worker] = a] => at'[Worker] = a
         /\ \A d : cd' = [cd EXCEPT ![Worker] = d] => cd'[Worker] = d
         /\ UNCHANGED cd => cd'[Worker] = cd[Worker]
BY WorkerIs DEF LInv, WorkersOK

(* The steps after which a worker has nothing to keep *)
LEMMA RestActions ==
  ASSUME LInv, SInv, OneWorker,
         \/ Tick(Worker) \/ SanityPanics(Worker) \/ LockThis(Worker)
         \/ (at[Worker] \in {"left", "slice"} /\ ReturnFalse(Worker))
         \/ SlicePanics(Worker) \/ BuildFails(Worker) \/ BuildPanics(Worker)
         \/ ManifestRefuses(Worker)
  PROVE  SInv'
<1>1. CASE Tick(Worker)
  <2>1. SameStore /\ at'[Worker] = "idle" /\ at[Worker] = "idle" /\ cd'[Worker] = cd[Worker]
    BY <1>1 DEF Tick, SameStore, levelVars, diskVars, clientVars, boundVars
  <2> QED
    BY <2>1, RestStep DEF Goes, AtRest
<1>2. CASE SanityPanics(Worker)
  <2>1. SameStore /\ at'[Worker] = "dead" /\ at[Worker] = "idle" /\ cd'[Worker] = cd[Worker]
    BY <1>2, Assigned DEF SanityPanics, SameStore, levelVars, diskVars, clientVars, boundVars
  <2> QED
    BY <2>1, RestStep DEF Goes, AtRest
<1>3. CASE LockThis(Worker)
  <2>1. PICK l : l = Head(picks[Worker])
    OBVIOUS
  <2>2. /\ SameStore /\ at'[Worker] = "this" /\ at[Worker] = "idle" /\ cd'[Worker] = NewCd(l)
        /\ picks[Worker] # <<>> /\ l + 1 < MaxLevels
    BY <1>3, <2>1, Assigned DEF LockThis, SameStore, levelVars, diskVars, clientVars, boundVars
  <2>3. picks[Worker] \in Seq(LevelSet)
    BY WorkerIs DEF LInv, WorkersOK
  <2>4. l \in LevelSet
    BY <2>1, <2>2, <2>3
  <2>5. l \in 0 .. MaxLevels - 2
    BY <2>2, <2>4, MaxLevelsAssumption DEF LevelSet
  <2>6. TablesIn(NewCd(l)) = {}
    BY <2>5, NewCdFacts
  <2> QED
    BY <2>2, <2>6, RestStep DEF Goes, AtRest
<1>4. CASE at[Worker] \in {"left", "slice"} /\ ReturnFalse(Worker)
  <2>1. /\ SameStore /\ at'[Worker] = "idle" /\ cd'[Worker] = NewCd(0)
        /\ at[Worker] \notin {"replace", "delete"}
    BY <1>4, Assigned DEF ReturnFalse, SameStore, levelVars, diskVars, clientVars, boundVars
  <2>2. 0 \in 0 .. MaxLevels - 2
    BY MaxLevelsAssumption
  <2>3. TablesIn(NewCd(0)) = {}
    BY <2>2, NewCdFacts
  <2> QED
    BY <2>1, <2>3, RestStep DEF Goes, AtRest
<1>5. CASE SlicePanics(Worker)
  <2>1. SameStore /\ at'[Worker] = "stuck" /\ at[Worker] = "slice" /\ cd'[Worker] = cd[Worker]
    BY <1>5, Assigned DEF SlicePanics, SameStore, levelVars, diskVars, clientVars, boundVars
  <2> QED
    BY <2>1, RestStep DEF Goes, AtRest
<1>6. CASE BuildFails(Worker)
  <2>1. SameStore /\ at'[Worker] = "finish" /\ at[Worker] = "build" /\ cd'[Worker] = cd[Worker]
    BY <1>6, Assigned DEF BuildFails, SameStore, levelVars, diskVars, clientVars, boundVars
  <2> QED
    BY <2>1, RestStep DEF Goes, AtRest
<1>7. CASE BuildPanics(Worker)
  <2>1. SameStore /\ at'[Worker] = "lost" /\ at[Worker] = "build" /\ cd'[Worker] = cd[Worker]
    BY <1>7, Assigned DEF BuildPanics, SameStore, levelVars, diskVars, clientVars, boundVars
  <2> QED
    BY <2>1, RestStep DEF Goes, AtRest
<1>8. CASE ManifestRefuses(Worker)
  <2>1. SameStore /\ at'[Worker] = "finish" /\ at[Worker] = "manifest" /\ cd'[Worker] = cd[Worker]
    BY <1>8, Assigned DEF ManifestRefuses, SameStore, levelVars, diskVars, clientVars, boundVars
  <2> QED
    BY <2>1, RestStep DEF Goes, AtRest
<1> QED
  BY <1>1, <1>2, <1>3, <1>4, <1>5, <1>6, <1>7, <1>8

(* A worker that searches may go on when what it found is right. *)
LEMMA SearchStep ==
  ASSUME LInv, SInv, OneWorker, SameStore, NEW a \in {"left", "right", "slice"}, NEW d, Goes(a, d),
         at[Worker] \in {"this", "left", "right", "slice"},
         TablesIn(d) \subseteq TablesIn(cd[Worker]) \cup All(Lists), Searching(tables, a, d)
  PROVE  SInv'
<1>1. a \notin {"replace", "delete"} /\ at[Worker] \notin {"replace", "delete"}
  OBVIOUS
<1>2. WorkerGood(tables, files, DOMAIN manifest, a, d)
  BY DEF WorkerGood
<1> QED
  BY <1>1, <1>2, QuietStep

(* LockNext *)
LEMMA LockNextStep ==
  ASSUME LInv, SInv, OneWorker, LockNext(Worker)
  PROVE  SInv'
<1>1. PICK e \in CompactDefs : e = cd[Worker]
  BY WorkerTypes
<1>2. e.level \in LevelSet /\ e.level \in Nat /\ \A l \in LevelSet : tables[l] \in Seq(AnyTable)
  BY <1>1, WorkerTypes, StoreTypes
<1>3. PICK q \in Seq(AnyTable) : q = SortBySize(tables[e.level]) /\ ToSet(q) = ToSet(tables[e.level])
  BY <1>2, SortedLists
<1>4. PICK d : d = IF e.level = 0 THEN [e EXCEPT !.top = tables[0]] ELSE [e EXCEPT !.cands = q]
  OBVIOUS
<1>5. cd' = [cd EXCEPT ![Worker] = d]
  <2>1. cd' = [cd EXCEPT ![Worker] =
                 IF cd[Worker].level = 0 THEN [cd[Worker] EXCEPT !.top = tables[0]]
                 ELSE [cd[Worker] EXCEPT !.cands = SortBySize(tables[cd[Worker].level])]]
    BY DEF LockNext
  <2> QED
    BY <2>1, <1>1, <1>3, <1>4
<1>6. /\ SameStore /\ at[Worker] = "this" /\ at'[Worker] = "left" /\ cd'[Worker] = d
  BY <1>5, Assigned DEF LockNext, SameStore, levelVars, diskVars, clientVars, boundVars
<1>7. \A l \in LevelSet : ToSet(tables[l]) \subseteq All(Lists)
  BY StoreTypes
<1>8. CASE e.level = 0
  <2>1. d = [e EXCEPT !.top = tables[0]]
    BY <1>4, <1>8
  <2>2. d.level = 0 /\ d.top = tables[0] /\ d.bot = e.bot /\ d.cands = e.cands /\ d.new = e.new
    BY <2>1, <1>8 DEF CompactDefs
  <2>3. TablesIn(d) \subseteq TablesIn(cd[Worker]) \cup All(Lists)
    BY <2>2, <1>1, <1>2, <1>7, <1>8 DEF TablesIn
  <2>4. Searching(tables, "left", d)
    BY <2>2 DEF Searching
  <2> QED
    BY <1>6, <2>3, <2>4, SearchStep DEF Goes
<1>9. CASE e.level # 0
  <2>1. d = [e EXCEPT !.cands = q]
    BY <1>4, <1>9
  <2>2. d.level = e.level /\ d.top = e.top /\ d.bot = e.bot /\ d.cands = q /\ d.new = e.new
    BY <2>1 DEF CompactDefs
  <2>3. TablesIn(d) \subseteq TablesIn(cd[Worker]) \cup All(Lists)
    BY <2>2, <1>1, <1>2, <1>3, <1>7 DEF TablesIn
  <2>4. Searching(tables, "left", d)
    BY <2>2, <1>3, <1>9 DEF Searching
  <2> QED
    BY <1>6, <2>3, <2>4, SearchStep DEF Goes
<1> QED
  BY <1>8, <1>9

(* SearchLeft *)
LEMMA SearchLeftStep ==
  ASSUME LInv, SInv, OneWorker, SearchLeft(Worker)
  PROVE  SInv'
<1>1. PICK e \in CompactDefs : e = cd[Worker]
  BY WorkerTypes
<1>2. /\ e.level \in LevelSet /\ e.level \in Nat /\ e.level + 1 \in LevelSet
      /\ \A l \in LevelSet : tables[l] \in Seq(AnyTable)
  BY <1>1, WorkerTypes, StoreTypes
<1>3. at[Worker] = "left" /\ at'[Worker] = "right" /\ SameStore
  BY Assigned DEF SearchLeft, SameStore, levelVars, diskVars, clientVars, boundVars
<1>4. Searching(tables, "left", e)
  BY <1>1, <1>3 DEF SInv, WorkerOK, WorkerGood
<1>5. PICK F \in Seq(AnyTable) : F = FreeCands(Worker) /\ ToSet(F) \subseteq ToSet(e.cands)
  BY <1>1, FreeFacts, WorkerIs DEF LInv
<1>6. PICK c : c = IF e.level = 0 THEN [e EXCEPT !.this_range = InfoRange]
                   ELSE [e EXCEPT !.top = <<Head(F)>>, !.this_range = GetRange(<<Head(F)>>),
                                  !.this_size = Size(Head(F)), !.cands = Tail(F)]
  OBVIOUS
<1>7. PICK n \in OverlapLeft(tables[e.level + 1], SearchRange(c)) :
        cd' = [cd EXCEPT ![Worker] = [c EXCEPT !.left = n]]
  BY <1>1, <1>5, <1>6 DEF SearchLeft
<1>8. n \in Nat
  BY <1>2, <1>7, SearchFacts
<1>9. PICK d : d = [c EXCEPT !.left = n]
  OBVIOUS
<1>10. cd'[Worker] = d
  BY <1>7, <1>9, Assigned
<1>11. CASE e.level = 0
  <2>1. c = [e EXCEPT !.this_range = InfoRange]
    BY <1>6, <1>11
  <2>2. c \in CompactDefs /\ c.top = e.top /\ c.bot = e.bot /\ c.cands = e.cands /\ c.new = e.new
        /\ c.level = 0
    BY <2>1, <1>11 DEF CompactDefs, KeyRange
  <2>3. d.top = e.top /\ d.bot = e.bot /\ d.cands = e.cands /\ d.new = e.new
        /\ d.level = 0 /\ d.left = n
    BY <1>8, <1>9, <2>2 DEF CompactDefs
  <2>4. TablesIn(d) \subseteq TablesIn(cd[Worker]) \cup All(Lists)
    BY <2>3, <1>1 DEF TablesIn
  <2>5. d.left \in OverlapLeft(tables[d.level + 1], GetRange(d.top))
    BY <1>7, <1>11, <2>2, <2>3 DEF SearchRange
  <2>6. d.top = tables[0]
    BY <1>4, <1>11, <2>3 DEF Searching
  <2>7. Searching(tables, "right", d)
    BY <2>3, <2>5, <2>6 DEF Searching
  <2> QED
    BY <1>3, <1>10, <2>4, <2>7, SearchStep DEF Goes
<1>12. CASE e.level # 0
  <2>1. F # <<>>
    BY <1>1, <1>5, <1>12 DEF SearchLeft
  <2>2. PICK t \in AnyTable : t = Head(F) /\ t \in ToSet(F)
    BY <2>1, <1>5, PartFacts, SeqDomain DEF ToSet
  <2>3. PICK u \in Seq(AnyTable) : u = <<t>> /\ u # <<>> /\ ToSet(u) = {t}
    BY PartFacts, EmptySeq
  <2>4. PICK q \in Seq(AnyTable) : q = Tail(F) /\ ToSet(q) \subseteq ToSet(F)
    BY <2>1, PartFacts
  <2>5. PICK r \in FiniteRange : r = GetRange(u)
    BY <2>3, RangeFacts
  <2>6. PICK z \in 0 .. Word - 1 : z = Size(t)
    BY TableFacts, WordAssumption
  <2>7. c = [e EXCEPT !.top = u, !.this_range = r, !.this_size = z, !.cands = q]
    BY <1>6, <1>12, <2>2, <2>3, <2>4, <2>5, <2>6
  <2>8. c \in CompactDefs /\ c.top = u /\ c.bot = e.bot /\ c.cands = q /\ c.new = e.new
        /\ c.level = e.level
    BY <2>7 DEF CompactDefs, KeyRange
  <2>9. d.top = u /\ d.bot = e.bot /\ d.cands = q /\ d.new = e.new
        /\ d.level = e.level /\ d.left = n
    BY <1>8, <1>9, <2>8 DEF CompactDefs
  <2>10. ToSet(e.cands) \subseteq ToSet(tables[e.level])
    BY <1>2, <1>4, <1>12 DEF Searching
  <2>11. ToSet(tables[e.level]) \subseteq All(Lists)
    BY <1>2, StoreTypes
  <2>12. TablesIn(d) \subseteq TablesIn(cd[Worker]) \cup All(Lists)
    BY <2>2, <2>3, <2>4, <2>9, <2>10, <2>11, <1>1, <1>5 DEF TablesIn
  <2>13. d.left \in OverlapLeft(tables[d.level + 1], GetRange(d.top))
    BY <1>7, <2>8, <2>9 DEF SearchRange
  <2>14. d.top = <<t>> /\ t \in ToSet(tables[d.level]) /\ ToSet(d.cands) \subseteq ToSet(tables[d.level])
    BY <2>2, <2>3, <2>4, <2>9, <2>10, <1>5
  <2>15. Searching(tables, "right", d)
    BY <2>13, <2>14, <2>9, <1>12 DEF Searching
  <2> QED
    BY <1>3, <1>10, <2>12, <2>15, SearchStep DEF Goes
<1> QED
  BY <1>11, <1>12

(* SearchRight *)
LEMMA SearchRightStep ==
  ASSUME LInv, SInv, OneWorker, SearchRight(Worker)
  PROVE  SInv'
<1>1. PICK e \in CompactDefs : e = cd[Worker]
  BY WorkerTypes
<1>2. /\ e.level \in LevelSet /\ e.level \in Nat /\ e.level + 1 \in LevelSet
      /\ \A l \in LevelSet : tables[l] \in Seq(AnyTable)
  BY <1>1, WorkerTypes, StoreTypes
<1>3. at[Worker] = "right" /\ at'[Worker] = "slice" /\ SameStore
  BY Assigned DEF SearchRight, SameStore, levelVars, diskVars, clientVars, boundVars
<1>4. Searching(tables, "right", e)
  BY <1>1, <1>3 DEF SInv, WorkerOK, WorkerGood
<1>5. PICK n \in OverlapRight(tables[e.level + 1], SearchRange(e)) :
        cd' = [cd EXCEPT ![Worker] = [e EXCEPT !.right = n]]
  BY <1>1 DEF SearchRight
<1>6. n \in Nat
  BY <1>2, <1>5, SearchFacts
<1>7. PICK d : d = [e EXCEPT !.right = n]
  OBVIOUS
<1>8. cd'[Worker] = d
  BY <1>5, <1>7, Assigned
<1>9. d.top = e.top /\ d.bot = e.bot /\ d.cands = e.cands /\ d.new = e.new
      /\ d.level = e.level /\ d.left = e.left /\ d.right = n
  BY <1>6, <1>7 DEF CompactDefs
<1>10. TablesIn(d) \subseteq TablesIn(cd[Worker]) \cup All(Lists)
  BY <1>9, <1>1 DEF TablesIn
<1>11. d.right \in OverlapRight(tables[d.level + 1], GetRange(d.top))
  BY <1>5, <1>9 DEF SearchRange
<1>12. Searching(tables, "slice", d)
  BY <1>4, <1>9, <1>11 DEF Searching
<1> QED
  BY <1>3, <1>8, <1>10, <1>12, SearchStep DEF Goes

(* The fields of a CompactDef that was filled *)
LEMMA FilledParts ==
  ASSUME LInv, NEW e \in CompactDefs, Chosen(e), e.level + 1 \in LevelSet,
         SliceOK(tables[e.level + 1], e.left, e.right)
  PROVE  /\ Filled(e) \in CompactDefs /\ Filled(e).level = e.level /\ Filled(e).cands = e.cands
         /\ Filled(e).top = e.top
         /\ Filled(e).bot = Slice(tables[e.level + 1], e.left, e.right)
         /\ IsMove(Filled(e)) => Filled(e).new = e.top
         /\ Filled(e).new \in {e.new, e.top}
<1>2. PICK b \in Seq(AnyTable) : b = Slice(tables[e.level + 1], e.left, e.right)
  <2>1. tables[e.level + 1] \in Seq(AnyTable)
    BY StoreTypes
  <2>2. e.left \in Nat /\ e.right \in Nat
    BY DEF CompactDefs
  <2> QED
    BY <2>1, <2>2, PartFacts
<1>3. PICK r \in FiniteRange : r = IF b = <<>> THEN SearchRange(e) ELSE GetRange(b)
  <2>1. GetRange(e.top) \in FiniteRange
    BY RangeFacts DEF CompactDefs, Chosen
  <2>2. b # <<>> => GetRange(b) \in FiniteRange
    BY RangeFacts
  <2> QED
    BY <2>1, <2>2 DEF SearchRange
<1>4. PICK f : f = [e EXCEPT !.bot = b, !.left = 0, !.right = 0, !.next_range = r]
  OBVIOUS
<1>5. /\ f \in CompactDefs /\ f.level = e.level /\ f.cands = e.cands /\ f.top = e.top
      /\ f.bot = b /\ f.new = e.new
  BY <1>4 DEF CompactDefs, KeyRange
<1>6. Filled(e) = IF IsMove(f) THEN [f EXCEPT !.new = f.top] ELSE f
  BY <1>2, <1>3, <1>4 DEF Filled
<1>7. CASE IsMove(f)
  <2>1. PICK t \in Seq(AnyTable) : t = f.top
    BY <1>5 DEF CompactDefs
  <2>2. PICK g : g = [f EXCEPT !.new = t]
    OBVIOUS
  <2>3. Filled(e) = g
    BY <1>6, <1>7, <2>1, <2>2
  <2>4. /\ g \in CompactDefs /\ g.level = f.level /\ g.cands = f.cands /\ g.top = f.top
        /\ g.bot = f.bot /\ g.new = t
    BY <1>5, <2>2 DEF CompactDefs
  <2> QED
    BY <1>2, <1>5, <2>1, <2>3, <2>4
<1>8. CASE ~ IsMove(f)
  BY <1>2, <1>5, <1>6, <1>8
<1> QED
  BY <1>7, <1>8

(* Tables of a list in order are apart. *)
LEMMA AscendingApart ==
  ASSUME NEW s \in Seq(AnyTable), Ascending(s)
  PROVE  Apart(ToSet(s))
<1>1. SUFFICES ASSUME NEW t \in ToSet(s), NEW u \in ToSet(s), t # u
               PROVE  Before(t, u) \/ Before(u, t)
  BY DEF Apart
<1>2. PICK i \in DOMAIN s, j \in DOMAIN s : s[i] = t /\ s[j] = u
  BY DEF ToSet
<1>3. i \in Int /\ j \in Int
  BY SeqDomain
<1>4. i < j \/ j < i
  BY <1>1, <1>2, <1>3
<1> QED
  BY <1>2, <1>4 DEF Ascending

(* What the searches found can be compacted. *)
LEMMA FilledTaken ==
  ASSUME LInv, SInv, OneWorker, at[Worker] = "slice",
         NEW e \in CompactDefs, e = cd[Worker], NEW d, d = Filled(e),
         SliceOK(tables[e.level + 1], e.left, e.right)
  PROVE  Taken(Lists, d) /\ Mergeable(d)
<1>1. /\ e.level \in LevelSet /\ e.level \in Nat /\ e.level + 1 \in LevelSet
      /\ 0 \in LevelSet /\ e.top \in Seq(AnyTable) /\ PhaseOK("slice", e)
  BY WorkerTypes
<1>2. Chosen(e) /\ e.top # <<>>
  BY <1>1 DEF PhaseOK, Chosen
<1>3. PICK s \in Seq(AnyTable), p \in Seq(AnyTable) : s = tables[e.level + 1] /\ p = tables[e.level]
  BY <1>1, StoreTypes
<1>4. Lists[e.level + 1] = ToSet(s) /\ Lists[e.level] = ToSet(p)
  BY <1>1, <1>3, StoreTypes
<1>5. InOrder(e.level + 1, s) /\ InOrder(e.level, p)
  BY <1>1, <1>3 DEF SInv, SortedOK, AllInOrder
<1>6. Ascending(s)
  BY <1>1, <1>5 DEF InOrder
<1>7. PICK r \in FiniteRange : r = GetRange(e.top)
  BY <1>1, <1>2, RangeFacts
<1>8. Searching(tables, "slice", e)
  BY DEF SInv, WorkerOK, WorkerGood
<1>9. e.left \in OverlapLeft(s, r) /\ e.right \in OverlapRight(s, r)
  BY <1>3, <1>7, <1>8 DEF Searching
<1>10. PICK m \in OverlapLeft(s, r), n \in OverlapRight(s, r) : m = e.left /\ n = e.right
  BY <1>9
<1>11. PICK b : b = Slice(s, m, n)
  OBVIOUS
<1>12. /\ b \in Seq(AnyTable) /\ ToSet(b) \subseteq ToSet(s) /\ Ascending(b)
       /\ \A u \in ToSet(s) \ ToSet(b) :
            \/ Biggest(u) < r.left /\ \A t \in ToSet(b) : Before(u, t)
            \/ r.right < Smallest(u) /\ \A t \in ToSet(b) : Before(t, u)
  BY <1>6, <1>10, <1>11, CutOut
<1>13. d.level = e.level /\ d.top = e.top /\ d.bot = b
  BY <1>1, <1>2, <1>3, <1>10, <1>11, FilledParts
<1>14. ASSUME NEW t \in ToSet(e.top)
       PROVE  t \in AnyTable /\ r.left <= Smallest(t) /\ Biggest(t) <= r.right
  <2>1. PICK i \in DOMAIN e.top : t = e.top[i]
    BY <1>14 DEF ToSet
  <2> QED
    BY <2>1, <1>1, <1>2, <1>7, RangeFacts, SeqDomain
<1>15. Gap(ToSet(s) \ ToSet(b), ToSet(e.top) \cup ToSet(b))
  <2>1. SUFFICES ASSUME NEW u \in ToSet(s) \ ToSet(b)
                 PROVE  \/ \A t \in ToSet(e.top) \cup ToSet(b) : Before(u, t)
                        \/ \A t \in ToSet(e.top) \cup ToSet(b) : Before(t, u)
    BY DEF Gap
  <2>2. u \in AnyTable
    BY <2>1, SeqDomain DEF ToSet
  <2>3. Biggest(u) \in Int /\ Smallest(u) \in Int
    BY <2>2, TableEnds
  <2>4. \A t \in ToSet(e.top) : Biggest(t) \in Int /\ Smallest(t) \in Int
    BY <1>14, TableEnds
  <2>5. r.left \in Int /\ r.right \in Int
    <3>1. r \in [left : Keys, right : Keys, inf : {FALSE}]
      BY DEF FiniteRange
    <3>2. r.left \in Keys /\ r.right \in Keys
      BY <3>1
    <3>3. \A k \in Keys : k \in Int
      BY KeysAssumption
    <3> QED
      BY <3>2, <3>3, Zenon
  <2>6. CASE Biggest(u) < r.left /\ \A t \in ToSet(b) : Before(u, t)
    <3>1. \A t \in ToSet(e.top) : Biggest(u) < Smallest(t)
      BY <2>3, <2>4, <2>5, <2>6, <1>14
    <3> QED
      BY <3>1, <2>6 DEF Before
  <2>7. CASE r.right < Smallest(u) /\ \A t \in ToSet(b) : Before(t, u)
    <3>1. \A t \in ToSet(e.top) : Biggest(t) < Smallest(u)
      BY <2>3, <2>4, <2>5, <2>7, <1>14
    <3> QED
      BY <3>1, <2>7 DEF Before
  <2> QED
    BY <2>6, <2>7, <1>12
<1>16. CASE e.level = 0
  <2>1. e.top = p
    BY <1>3, <1>8, <1>16 DEF Searching
  <2>2. Chrono(e.top) /\ Later(ToSet(e.top), ToSet(p))
    BY <2>1, <1>5, <1>16 DEF InOrder, Later
  <2> QED
    BY <2>1, <2>2, <1>4, <1>12, <1>13, <1>15, <1>16 DEF Taken, Compactable, Mergeable
<1>17. CASE e.level # 0
  <2>1. PICK t \in ToSet(p) : e.top = <<t>>
    BY <1>1, <1>3, <1>8, <1>17 DEF Searching
  <2>2. t \in AnyTable
    BY SeqDomain DEF ToSet
  <2>3. ToSet(e.top) = {t} /\ Len(e.top) = 1 /\ DOMAIN e.top = {1}
    BY <2>1, <2>2, PartFacts
  <2>4. Chrono(e.top)
    BY <2>3 DEF Chrono
  <2>5. Apart(ToSet(p))
    BY <1>5, <1>17, AscendingApart DEF InOrder
  <2>6. \A u \in ToSet(p) : u \in AnyTable
    BY SeqDomain DEF ToSet
  <2>7. Later(ToSet(e.top), ToSet(p))
    BY <2>2, <2>3, <2>5, <2>6, BeforeFacts DEF Later, Apart
  <2> QED
    BY <2>3, <2>4, <2>7, <1>4, <1>12, <1>13, <1>15 DEF Taken, Compactable, Mergeable
<1> QED
  BY <1>16, <1>17

(* A table that is moved is itself the result of the merge. *)
LEMMA MovedGood ==
  ASSUME LInv, SInv, NEW d \in CompactDefs, IsMove(d), d.level \in LevelSet,
         Taken(Lists, d), Mergeable(d), d.new = d.top
  PROVE  Merged(d) /\ \A I : Logged(files, I, d)
<1>1. d.level # 0 /\ d.bot = <<>> /\ d.top \in Seq(AnyTable)
  BY DEF IsMove, CompactDefs
<1>2. Len(d.top) = 1 /\ DOMAIN d.top = {1}
  BY <1>1, SeqDomain DEF Mergeable
<1>3. ToSet(d.bot) = {}
  BY <1>1, PartFacts
<1>4. Ascending(d.top)
  BY <1>2 DEF Ascending
<1>5. ToSet(d.top) \subseteq Lists[d.level] /\ Lists[d.level] = ToSet(tables[d.level])
      /\ Lists[d.level] \subseteq All(Lists)
  BY StoreTypes DEF Taken, Compactable
<1>6. NoHead(ToSet(d.top))
  BY <1>1, <1>5 DEF SInv, SortedOK, NoHead
<1>7. ToSet(d.top) \in SUBSET AnyTable
  BY <1>1, SeqDomain DEF ToSet
<1>8. \A t \in ToSet(d.top) : \A k \in TableKeys(t) : t.kv[k] \in Nat
  BY <1>7, TableFacts
<1>9. TakenOver(ToSet(d.top), ToSet(d.top)) /\ Covers(ToSet(d.top), ToSet(d.top))
  BY <1>8 DEF TakenOver, Covers
<1>10. Merged(d)
  BY <1>3, <1>4, <1>6, <1>9 DEF Merged, NewOK
<1>11. \A I : Logged(files, I, d)
  BY <1>5 DEF Logged, Outdated, SInv, VersionsOK
<1> QED
  BY <1>10, <1>11

(* FillTables *)
LEMMA FillTablesStep ==
  ASSUME LInv, SInv, OneWorker, FillTables(Worker)
  PROVE  SInv'
<1>1. PICK e \in CompactDefs : e = cd[Worker]
  BY WorkerTypes
<1>2. /\ e.level \in LevelSet /\ e.level \in Nat /\ e.level + 1 \in LevelSet
      /\ PhaseOK(at[Worker], e) /\ tables[e.level + 1] \in Seq(AnyTable)
  BY <1>1, WorkerTypes, StoreTypes
<1>3. at[Worker] = "slice" /\ SliceOK(tables[e.level + 1], e.left, e.right) /\ SameStore
  BY <1>1 DEF FillTables, SameStore, levelVars, diskVars, clientVars, boundVars
<1>4. Chosen(e)
  BY <1>2, <1>3 DEF PhaseOK
<1>5. PICK f : f = Filled(e)
  OBVIOUS
<1>6. /\ f \in CompactDefs /\ f.level = e.level /\ f.top = e.top
      /\ f.bot = Slice(tables[e.level + 1], e.left, e.right)
      /\ (IsMove(f) => f.new = f.top) /\ f.new \in {e.new, e.top}
  BY <1>2, <1>3, <1>4, <1>5, FilledParts
<1>7. Taken(Lists, f) /\ Mergeable(f)
  BY <1>1, <1>3, <1>5, FilledTaken
<1>b. <<>> \in Seq(AnyTable)
  OBVIOUS
<1>a. PICK z \in Seq(AnyTable) : z = <<>>
  BY <1>b, Zenon
<1>8. PICK d : d = [f EXCEPT !.cands = z]
  OBVIOUS
<1>9. /\ d \in CompactDefs /\ d.level = f.level /\ d.top = f.top /\ d.bot = f.bot
      /\ d.new = f.new /\ d.cands = z
  BY <1>6, <1>8 DEF CompactDefs
<1>10. Taken(Lists, d) /\ Mergeable(d)
  BY <1>7, <1>9 DEF Taken, Mergeable
<1>11. IsMove(d) <=> IsMove(f)
  BY <1>9 DEF IsMove
<1>12. PICK a \in {"manifest", "build"} : a = IF IsMove(f) THEN "manifest" ELSE "build"
  OBVIOUS
<1>13. Goes(a, d)
  <2>1. at' = [at EXCEPT ![Worker] = a]
    BY <1>1, <1>5, <1>12 DEF FillTables
  <2>2. cd' = [cd EXCEPT ![Worker] = d]
    BY <1>1, <1>5, <1>a, <1>8 DEF FillTables
  <2> QED
    BY <2>1, <2>2, Assigned DEF Goes
<1>14. TablesIn(d) \subseteq TablesIn(cd[Worker]) \cup All(Lists)
  <2>1. ToSet(z) = {}
    BY <1>a, PartFacts
  <2>2. ToSet(d.bot) \subseteq All(Lists)
    BY <1>2, <1>6, <1>9, <1>10, StoreTypes DEF Taken, Compactable
  <2>3. ToSet(d.new) \subseteq ToSet(e.new) \cup ToSet(e.top) /\ d.top = e.top
    BY <1>6, <1>9
  <2> QED
    BY <1>1, <1>9, <2>1, <2>2, <2>3 DEF TablesIn
<1>15. WorkerGood(tables, files, DOMAIN manifest, a, d)
  <2>1. CASE IsMove(d)
    <3>1. a = "manifest"
      BY <2>1, <1>11, <1>12
    <3>2. d.new = d.top
      BY <2>1, <1>6, <1>9, <1>11
    <3>3. Merged(d) /\ \A I : Logged(files, I, d)
      BY <2>1, <3>2, <1>2, <1>6, <1>9, <1>10, MovedGood
    <3> QED
      BY <3>1, <3>3, <1>10 DEF WorkerGood, Lists
  <2>2. CASE ~ IsMove(d)
    <3>1. a = "build"
      BY <2>2, <1>11, <1>12
    <3> QED
      BY <3>1, <1>10 DEF WorkerGood, Lists
  <2> QED
    BY <2>1, <2>2
<1>16. a \notin {"replace", "delete"} /\ at[Worker] \notin {"replace", "delete"}
  BY <1>3, <1>12
<1> QED
  BY <1>3, <1>13, <1>14, <1>15, <1>16, QuietStep

(* Refused *)
LEMMA RefusedStep ==
  ASSUME LInv, SInv, OneWorker, Refused(Worker)
  PROVE  SInv'
<1>1. PICK e \in CompactDefs : e = cd[Worker]
  BY WorkerTypes
<1>2. /\ e.level \in LevelSet /\ e.level \in Nat /\ e.level + 1 \in LevelSet
      /\ PhaseOK(at[Worker], e)
  BY <1>1, WorkerTypes
<1>3. at[Worker] = "slice" /\ SliceOK(tables[e.level + 1], e.left, e.right)
  BY <1>1 DEF Refused
<1>4. CASE ReturnFalse(Worker)
  BY <1>3, <1>4, RestActions
<1>5. CASE ~ ReturnFalse(Worker)
  <2>1. PICK f : f = Filled(e)
    OBVIOUS
  <2>2. f.level = e.level /\ f.cands = e.cands
    BY <1>2, <1>3, <2>1, FilledParts DEF PhaseOK
  <2>3. PICK d : d = [NewCd(e.level) EXCEPT !.cands = e.cands]
    OBVIOUS
  <2>4. /\ e.level > 0 /\ SameStore /\ at' = [at EXCEPT ![Worker] = "left"]
        /\ cd' = [cd EXCEPT ![Worker] = d]
    BY <1>1, <1>5, <2>1, <2>2, <2>3
      DEF Refused, SameStore, levelVars, diskVars, clientVars, boundVars
  <2>5. Goes("left", d)
    BY <2>4, Assigned DEF Goes
  <2>6. d.level = e.level /\ d.top = <<>> /\ d.bot = <<>> /\ d.new = <<>> /\ d.cands = e.cands
    BY <2>3 DEF NewCd
  <2>7. ToSet(<<>>) = {}
    BY PartFacts DEF ToSet
  <2>8. TablesIn(d) \subseteq TablesIn(cd[Worker]) \cup All(Lists)
    BY <1>1, <2>6, <2>7 DEF TablesIn
  <2>9. Searching(tables, "slice", e)
    BY <1>1, <1>3 DEF SInv, WorkerOK, WorkerGood
  <2>10. Searching(tables, "left", d)
    BY <2>4, <2>6, <2>9 DEF Searching
  <2> QED
    BY <1>3, <2>4, <2>5, <2>8, <2>10, SearchStep
<1> QED
  BY <1>4, <1>5

-----------------------------------------------------------------------------
(***************************************************************************)
(* Steps that change files, manifest or lists.                             *)
(***************************************************************************)

(* Files the manifest does not have come and go without being seen. *)
LEMMA DiskKept ==
  ASSUME UNCHANGED manifest, \A t : t.id \in DOMAIN manifest => (t \in files' <=> t \in files)
  PROVE  Disk' = Disk
<1>1. \A l : OnDisk(l)' = OnDisk(l)
  BY DEF OnDisk
<1> QED
  BY <1>1 DEF Disk

(* The merged tables, top ones newer than bottom ones *)
LEMMA BottomOlder ==
  ASSUME NEW L \in Stores, Ordered(L), NEW d, Taken(L, d),
         d.level \in LevelSet, d.level + 1 \in LevelSet, d.level \in Nat
  PROVE  \A t \in ToSet(d.top), u \in ToSet(d.bot) : NotNewer(u, t)
<1>1. d.level < d.level + 1
  OBVIOUS
<1> QED
  BY <1>1 DEF Ordered, Taken, Compactable

(* Build *)
LEMMA BuildStep ==
  ASSUME LInv, SInv, OneWorker, Build(Worker)
  PROVE  SInv'
<1>1. PICK e \in CompactDefs : e = cd[Worker]
  BY WorkerTypes
<1>2. /\ e.level \in LevelSet /\ e.level \in Nat /\ e.level + 1 \in LevelSet
      /\ e.top \in Seq(AnyTable) /\ e.bot \in Seq(AnyTable)
  BY <1>1, WorkerTypes
<1>a. nextFileId \in Nat \ {0} /\ DOMAIN manifest \subseteq 1 .. nextFileId - 1
  BY DEF LInv, DiskOK
<1>3. PICK b \in Seq(AnyTable) :
         b = Built(e) /\ \A t \in ToSet(b) : nextFileId <= t.id
  BY <1>a, BuiltFacts
<1>4. PICK d : d = [e EXCEPT !.new = b]
  OBVIOUS
<1>5. /\ d \in CompactDefs /\ d.level = e.level /\ d.top = e.top /\ d.bot = e.bot
      /\ d.cands = e.cands /\ d.new = b
  BY <1>4 DEF CompactDefs
<1>6. /\ at[Worker] = "build" /\ files' = files \cup ToSet(b)
      /\ UNCHANGED <<tables, manifest, flusher, visible, durable, flushes>>
      /\ at' = [at EXCEPT ![Worker] = "manifest"]
      /\ cd' = [cd EXCEPT ![Worker] = d]
  BY <1>1, <1>3, <1>4 DEF Build, levelVars, diskVars, clientVars, boundVars
<1>7. at'[Worker] = "manifest" /\ cd'[Worker] = d
  BY <1>6, Assigned
<1>8. Taken(Lists, e) /\ Mergeable(e)
  BY <1>1, <1>6 DEF SInv, WorkerOK, WorkerGood, Lists
<1>9. Lists \in Stores /\ Ordered(Lists)
  BY <1>6, StoreTypes DEF SInv, OrderOK
<1>10. \A t \in ToSet(e.top), u \in ToSet(e.bot) : NotNewer(u, t)
  BY <1>2, <1>8, <1>9, BottomOlder
<1>11. NewOK(b, ToSet(e.top) \cup ToSet(e.bot))
  <2>1. b = BuildTables(Merge(MergeOrder(e.level, e.top, e.bot)), nextFileId)
    BY <1>3 DEF Built, Order
  <2> QED
    BY <2>1, <1>2, <1>8, <1>10, <1>a, BuiltOK DEF Mergeable
<1>12. \A t \in ToSet(b) : t \in AnyTable /\ t.id \in Nat /\ nextFileId <= t.id
  BY <1>3, SeqDomain, TableFacts DEF ToSet
<1>13. \A t \in ToSet(b) : t.id \notin DOMAIN manifest
  BY <1>12, <1>a
<1>14. Lists' = Lists /\ Pending' = Pending
  BY <1>6 DEF Lists, Pending
<1>15. Disk' = Disk
  BY <1>6, <1>13, DiskKept
<1>16. VersionsOK'
  <2>1. ASSUME NEW t \in ToSet(b), NEW k \in TableKeys(t)
        PROVE  t.kv[k] \in 1 .. flushes
    <3>1. PICK u \in ToSet(e.top) \cup ToSet(e.bot) : k \in TableKeys(u) /\ u.kv[k] = t.kv[k]
      BY <1>11, <2>1 DEF NewOK, TakenOver
    <3>2. u \in All(Lists)
      BY <3>1, <1>2, <1>8, StoreTypes DEF Taken, Compactable
    <3> QED
      BY <3>1, <3>2 DEF SInv, VersionsOK
  <2>2. \A t \in files' : \A k \in TableKeys(t) : t.kv[k] \in 1 .. flushes
    BY <2>1, <1>6 DEF SInv, VersionsOK
  <2>3. All(Lists) \subseteq files'
    BY <1>6 DEF SInv, VersionsOK
  <2> QED
    BY <2>2, <2>3, <1>6, <1>14 DEF SInv, VersionsOK
<1>17. SortedOK' /\ OrderOK'
  BY <1>6, <1>7, <1>9, <1>14 DEF SInv, SortedOK, OrderOK
<1>18. DiskGood'
  BY <1>6, <1>15 DEF SInv, DiskGood
<1>19. DiskMatches'
  <2>1. \A l : /\ OffDisk("manifest", d, l) = {} /\ OnlyDisk("manifest", d, l) = {}
               /\ OffDisk("build", e, l) = {} /\ OnlyDisk("build", e, l) = {}
    BY DEF OffDisk, OnlyDisk
  <2>2. Matches(Disk, Lists, "build", e, Pending)
    BY <1>1, <1>6 DEF SInv, DiskMatches
  <2>3. Matches(Disk, Lists, "manifest", d, Pending)
    BY <2>1, <2>2 DEF Matches
  <2> QED
    BY <2>3, <1>7, <1>14, <1>15 DEF DiskMatches
<1>20. FlushOK'
  <2>1. ASSUME flusher.at # "idle"
        PROVE  flusher.table \notin ToSet(b)
    <3>1. flusher.table.id \in Nat /\ flusher.table.id < nextFileId
      BY <2>1, TableTypes
    <3> QED
      BY <3>1, <1>12, <1>a
  <2>2. TablesIn(d) \subseteq TablesIn(e) \cup ToSet(b)
    BY <1>5 DEF TablesIn
  <2>3. flusher.at # "idle" => flusher.table \notin TablesIn(d)
    BY <2>1, <2>2, <1>1 DEF SInv, FlushOK
  <2> QED
    BY <2>3, <1>6, <1>7, <1>14, <1>15 DEF SInv, FlushOK
<1>21. WorkerOK'
  <2>1. Taken(Lists, d) /\ Merged(d)
    BY <1>5, <1>8, <1>11 DEF Taken, Merged
  <2>2. Logged(files', DOMAIN manifest, d)
    BY <1>5, <1>6, <1>13, IdsAre DEF Logged
  <2>3. WorkerGood(tables, files', DOMAIN manifest, "manifest", d)
    BY <2>1, <2>2 DEF WorkerGood, Lists
  <2> QED
    BY <2>3, <1>6, <1>7 DEF WorkerOK
<1> QED
  BY <1>16, <1>17, <1>18, <1>19, <1>20, <1>21 DEF SInv

(* The change set of a compaction, applied to the store on disk *)
LEMMA ManifestDisk ==
  ASSUME LInv, SInv, OneWorker, WriteManifest(Worker), NEW d, d = cd[Worker]
  PROVE  /\ Compacted(Disk, Disk', d.level, ToSet(d.top), ToSet(d.bot), ToSet(d.new))
         /\ DOMAIN manifest' = Ids(d.new) \cup (DOMAIN manifest \ Outdated(d))
<1>1. /\ d.level \in LevelSet /\ d.level \in Nat /\ d.level + 1 \in LevelSet
      /\ d.level # d.level + 1
  BY WorkerTypes
<1>2. /\ at[Worker] = "manifest" /\ files' = files
      /\ manifest' = [i \in Ids(d.new) \cup (DOMAIN manifest \ Outdated(d)) |->
                        IF i \in Ids(d.new) THEN d.level + 1 ELSE manifest[i]]
  BY DEF WriteManifest
<1>3. /\ DOMAIN manifest' = Ids(d.new) \cup (DOMAIN manifest \ Outdated(d))
      /\ \A i \in DOMAIN manifest' :
           manifest'[i] = IF i \in Ids(d.new) THEN d.level + 1 ELSE manifest[i]
  BY <1>2
<1>4. Taken(Lists, d) /\ Logged(files, DOMAIN manifest, d)
  BY <1>2 DEF SInv, WorkerOK, WorkerGood, Lists
<1>5. \A l \in LevelSet : Lists[l] \subseteq Disk[l]
  BY <1>2, ListedOnDisk DEF SInv, DiskMatches
<1>6. ToSet(d.top) \subseteq Disk[d.level] /\ ToSet(d.bot) \subseteq Disk[d.level + 1]
  BY <1>1, <1>4, <1>5 DEF Taken, Compactable
<1>7. \A l \in LevelSet : \A t :
        /\ t \in Disk[l] <=> t \in files /\ t.id \in DOMAIN manifest /\ manifest[t.id] = l
        /\ t \in Disk'[l] <=> t \in files /\ t.id \in DOMAIN manifest' /\ manifest'[t.id] = l
  BY <1>2 DEF Disk, OnDisk
<1>8. UniqueIds(files)
  BY TableTypes DEF UniqueIds
<1>9. ToSet(d.new) \subseteq files /\ ToSet(d.top) \subseteq files /\ ToSet(d.bot) \subseteq files
  BY <1>1, <1>4, <1>6, <1>7 DEF Logged
<1>10. \A t \in files : /\ t.id \in Ids(d.new) <=> t \in ToSet(d.new)
                        /\ t.id \in Ids(d.top) <=> t \in ToSet(d.top)
                        /\ t.id \in Ids(d.bot) <=> t \in ToSet(d.bot)
  BY <1>8, <1>9, IdsAre DEF UniqueIds
<1>11. \A t \in files : t \in ToSet(d.new) /\ t.id \in DOMAIN manifest
                          => t \in ToSet(d.top) \cup ToSet(d.bot)
  BY <1>4, <1>10 DEF Logged, Outdated
<1>12. \A t \in files : t.id \in DOMAIN manifest' <=>
          \/ t \in ToSet(d.new)
          \/ t.id \in DOMAIN manifest /\ t \notin ToSet(d.top) /\ t \notin ToSet(d.bot)
  BY <1>3, <1>10 DEF Outdated
<1>13. \A t \in files : /\ t \in ToSet(d.new) => manifest'[t.id] = d.level + 1
                        /\ t \notin ToSet(d.new) /\ t.id \in DOMAIN manifest' =>
                             manifest'[t.id] = manifest[t.id]
  BY <1>3, <1>10, <1>12
<1>14. ASSUME NEW b \in LevelSet
       PROVE  Disk'[b] = IF b = d.level THEN Disk[b] \ ToSet(d.top)
                         ELSE IF b = d.level + 1 THEN (Disk[b] \ ToSet(d.bot)) \cup ToSet(d.new)
                         ELSE Disk[b]
  <2>1. \A t \in files : t \in ToSet(d.top) => t.id \in DOMAIN manifest /\ manifest[t.id] = d.level
    BY <1>1, <1>6, <1>7
  <2>2. \A t \in files : t \in ToSet(d.bot) => t.id \in DOMAIN manifest /\ manifest[t.id] = d.level + 1
    BY <1>1, <1>6, <1>7
  <2>3. ASSUME NEW t \in files
        PROVE  t \in Disk'[b] <=>
                 \/ t \in ToSet(d.new) /\ b = d.level + 1
                 \/ t \in Disk[b] /\ t \notin ToSet(d.top) /\ t \notin ToSet(d.bot)
    <3>1. CASE t \in ToSet(d.new)
      <4>1. t \in Disk'[b] <=> b = d.level + 1
        BY <3>1, <2>3, <1>7, <1>12, <1>13, <1>14
      <4>2. t \in Disk[b] => t \in ToSet(d.top) \cup ToSet(d.bot)
        BY <3>1, <2>3, <1>7, <1>11, <1>14
      <4> QED
        BY <3>1, <4>1, <4>2
    <3>2. CASE t \notin ToSet(d.new)
      BY <3>2, <2>3, <1>7, <1>12, <1>13, <1>14
    <3> QED
      BY <3>1, <3>2
  <2>4. Disk'[b] \subseteq files /\ Disk[b] \subseteq files
    BY <1>7, <1>14
  <2>5. CASE b = d.level
    <3>1. \A t \in files : t \in Disk[b] => t \notin ToSet(d.bot)
      BY <2>2, <2>5, <1>1, <1>7
    <3>2. \A t : t \in Disk'[b] <=> t \in Disk[b] /\ t \notin ToSet(d.top)
      BY <3>1, <2>3, <2>4, <2>5, <1>1
    <3> QED
      BY <3>2, <2>5
  <2>6. CASE b = d.level + 1
    <3>1. \A t \in files : t \in Disk[b] => t \notin ToSet(d.top)
      BY <2>1, <2>6, <1>1, <1>7
    <3>2. \A t : t \in Disk'[b] <=> t \in ToSet(d.new) \/ (t \in Disk[b] /\ t \notin ToSet(d.bot))
      BY <3>1, <2>3, <2>4, <2>6, <1>9
    <3> QED
      BY <3>2, <2>6, <1>1
  <2>7. CASE b # d.level /\ b # d.level + 1
    <3>1. \A t \in files : t \in Disk[b] => t \notin ToSet(d.top) /\ t \notin ToSet(d.bot)
      BY <2>1, <2>2, <2>7, <1>7, <1>14
    <3>2. \A t : t \in Disk'[b] <=> t \in Disk[b]
      BY <3>1, <2>3, <2>4, <2>7
    <3> QED
      BY <3>2, <2>7
  <2> QED
    BY <2>5, <2>6, <2>7
<1> QED
  BY <1>3, <1>14 DEF Compacted

(* The types of both stores, now and after a step *)
LEMMA StoresNow == LInv => Lists \in Stores /\ Disk \in Stores
BY StoreTypes

(* After a step *)
LEMMA StoresNext == LInv' => Lists' \in Stores /\ Disk' \in Stores
<1>1. LInv' => (Lists \in Stores /\ Disk \in Stores)'
  BY StoresNow, PTL
<1> QED
  BY <1>1

(* WriteManifest *)
LEMMA WriteManifestStep ==
  ASSUME LInv, SInv, OneWorker, WriteManifest(Worker)
  PROVE  SInv'
<1>0. LInv'
  BY ManifestInv, WorkerIs
<1>1. PICK d \in CompactDefs : d = cd[Worker]
  BY WorkerTypes
<1>2. /\ d.level \in LevelSet /\ d.level \in Nat /\ d.level + 1 \in LevelSet
      /\ d.top \in Seq(AnyTable) /\ d.bot \in Seq(AnyTable) /\ d.new \in Seq(AnyTable)
      /\ d.level # d.level + 1 /\ d.level + 1 # 0
  BY <1>1, WorkerTypes
<1>3. /\ at[Worker] = "manifest" /\ at'[Worker] = "replace" /\ cd'[Worker] = d
      /\ UNCHANGED <<tables, files, flusher, visible, durable, flushes>>
  BY <1>1, Assigned DEF WriteManifest, levelVars, clientVars, boundVars
<1>4. Taken(Lists, d) /\ Merged(d) /\ Logged(files, DOMAIN manifest, d)
  BY <1>1, <1>3 DEF SInv, WorkerOK, WorkerGood, Lists
<1>5. Lists' = Lists /\ Pending' = Pending
  BY <1>3 DEF Lists, Pending
<1>6. PICK S \in Stores, R \in Stores : S = Disk /\ R = Disk'
  BY <1>0, StoresNow, StoresNext
<1>7. PICK top, bot, new : top = ToSet(d.top) /\ bot = ToSet(d.bot) /\ new = ToSet(d.new)
  OBVIOUS
<1>8. /\ Compacted(S, R, d.level, top, bot, new)
      /\ DOMAIN manifest' = Ids(d.new) \cup (DOMAIN manifest \ Outdated(d))
  BY <1>1, <1>6, <1>7, ManifestDisk
<1>9. \A l \in LevelSet : S[l] = Lists[l] \cup (IF l = 0 THEN Pending ELSE {})
  <2>1. \A l : OffDisk("manifest", d, l) = {} /\ OnlyDisk("manifest", d, l) = {}
    BY DEF OffDisk, OnlyDisk
  <2>2. Matches(S, Lists, "manifest", d, Pending)
    BY <1>1, <1>3, <1>6 DEF SInv, DiskMatches
  <2> QED
    BY <2>1, <2>2 DEF Matches
<1>10. \A t \in Pending : /\ t = flusher.table /\ flusher.at # "idle"
                          /\ t \notin TablesIn(d) /\ t \notin All(Lists)
                          /\ \A k \in TableKeys(t) : t.kv[k] = flushes
  BY <1>1 DEF Pending, SInv, FlushOK, VersionsOK
<1>11. top \cap Pending = {} /\ bot \cap Pending = {} /\ new \cap Pending = {}
  BY <1>7, <1>10 DEF TablesIn
<1>12. Compactable(S, d.level, top, bot)
  <2>1. Compactable(Lists, d.level, top, bot)
    BY <1>4, <1>7 DEF Taken
  <2>2. top \subseteq S[d.level] /\ bot \subseteq S[d.level + 1]
    BY <2>1, <1>2, <1>9 DEF Compactable
  <2>3. S[d.level + 1] = Lists[d.level + 1]
    BY <1>2, <1>9
  <2>4. Gap(S[d.level + 1] \ bot, top \cup bot)
    BY <2>1, <2>3 DEF Compactable
  <2>5. ASSUME NEW t \in top, NEW u \in S[d.level] \ top
        PROVE  NotNewer(t, u)
    <3>1. CASE u \in Lists[d.level]
      BY <3>1, <2>1, <2>5 DEF Compactable, Later
    <3>2. CASE u \notin Lists[d.level]
      <4>1. u \in Pending
        BY <3>2, <2>5, <1>2, <1>9
      <4>2. t \in All(Lists)
        BY <2>1, <2>5, <1>2, StoreTypes DEF Compactable
      <4>3. \A k \in TableKeys(t) : t.kv[k] \in 1 .. flushes
        BY <4>2 DEF SInv, VersionsOK
      <4>4. \A k \in TableKeys(u) : u.kv[k] = flushes
        BY <4>1, <1>10
      <4>5. flushes \in Nat
        BY DEF LInv, DiskOK
      <4> QED
        BY <4>3, <4>4, <4>5 DEF NotNewer
    <3> QED
      BY <3>1, <3>2
  <2>6. Later(top, S[d.level])
    BY <2>5 DEF Later
  <2> QED
    BY <2>2, <2>4, <2>6 DEF Compactable
<1>13. NewOK(d.new, top \cup bot)
  BY <1>4, <1>7 DEF Merged
<1>14. StoreGood(R) /\ Latest(R, durable)
  <2>1. StoreGood(S) /\ Latest(S, durable)
    BY <1>6 DEF SInv, DiskGood
  <2> QED
    BY <2>1, <1>2, <1>7, <1>8, <1>12, <1>13, CompactedGood
<1>15. VersionsOK' /\ SortedOK'
  BY <1>3, <1>5 DEF SInv, VersionsOK, SortedOK
<1>16. OrderOK'
  BY <1>3, <1>5 DEF SInv, OrderOK
<1>17. DiskGood'
  <2>1. DOMAIN manifest' \subseteq {t.id : t \in files}
    BY <1>4, <1>8, IdsAre DEF Logged, SInv, DiskGood
  <2> QED
    BY <2>1, <1>3, <1>6, <1>14 DEF DiskGood
<1>18. DiskMatches'
  <2>1. ASSUME NEW l \in LevelSet
        PROVE  R[l] = ((Lists[l] \ OffDisk("replace", d, l)) \cup OnlyDisk("replace", d, l))
                        \cup (IF l = 0 THEN Pending ELSE {})
    <3>1. CASE l = d.level
      <4>1. OffDisk("replace", d, l) = top /\ OnlyDisk("replace", d, l) = {}
        BY <3>1, <1>2, <1>7 DEF OffDisk, OnlyDisk
      <4>2. R[l] = S[l] \ top
        BY <3>1, <1>8 DEF Compacted
      <4> QED
        BY <4>1, <4>2, <1>9, <1>11
    <3>2. CASE l = d.level + 1
      <4>1. OffDisk("replace", d, l) = bot /\ OnlyDisk("replace", d, l) = new /\ l # 0
        BY <3>2, <1>2, <1>7 DEF OffDisk, OnlyDisk
      <4>2. R[l] = (S[l] \ bot) \cup new
        BY <3>2, <1>2, <1>8 DEF Compacted
      <4> QED
        BY <4>1, <4>2, <1>9
    <3>3. CASE l # d.level /\ l # d.level + 1
      <4>1. OffDisk("replace", d, l) = {} /\ OnlyDisk("replace", d, l) = {}
        BY <3>3 DEF OffDisk, OnlyDisk
      <4>2. R[l] = S[l]
        BY <3>3, <1>8 DEF Compacted
      <4> QED
        BY <4>1, <4>2, <1>9
    <3> QED
      BY <3>1, <3>2, <3>3
  <2>2. Matches(R, Lists, "replace", d, Pending)
    BY <2>1 DEF Matches
  <2> QED
    BY <2>2, <1>3, <1>5, <1>6 DEF DiskMatches
<1>19. FlushOK'
  <2>1. R[0] \subseteq S[0]
    <3>1. 0 \in LevelSet
      BY WorkerTypes
    <3> QED
      BY <3>1, <1>2, <1>8 DEF Compacted
  <2>2. ASSUME flusher.at = "created"
        PROVE  flusher.table.id \notin DOMAIN manifest'
    <3>1. flusher.table \notin ToSet(d.new) /\ flusher.table.id \notin DOMAIN manifest
      BY <2>2, <1>1 DEF SInv, FlushOK, TablesIn
    <3>2. flusher.table \in Known /\ ToSet(d.new) \subseteq Known /\ UniqueIds(Known)
      BY <2>2, <1>1, TableTypes DEF TablesIn
    <3>3. flusher.table.id \notin Ids(d.new)
      BY <3>1, <3>2, IdsAre DEF UniqueIds
    <3> QED
      BY <3>1, <3>3, <1>8
  <2> QED
    BY <2>1, <2>2, <1>1, <1>3, <1>5, <1>6 DEF SInv, FlushOK
<1>20. WorkerOK'
  <2>1. \A F, I : WorkerGood(tables, F, I, "replace", d)
    BY <1>4 DEF WorkerGood, Lists
  <2> QED
    BY <2>1, <1>3 DEF WorkerOK
<1> QED
  BY <1>15, <1>16, <1>17, <1>18, <1>19, <1>20 DEF SInv

Relisted(c, q) == tables' = [tables EXCEPT ![c] = q]

(* The lists after the list of one level has changed *)
LEMMA ListChanged ==
  ASSUME LInv, NEW c \in LevelSet, NEW q, Relisted(c, q)
  PROVE  /\ \A l \in LevelSet : tables'[l] = IF l = c THEN q ELSE tables[l]
         /\ \A l \in LevelSet : Lists'[l] = IF l = c THEN ToSet(q) ELSE Lists[l]
<1>1. \A l \in LevelSet : tables'[l] = IF l = c THEN q ELSE tables[l]
  BY DEF LInv, ListsOK, Relisted
<1>2. \A l \in LevelSet : Lists'[l] = ToSet(tables'[l]) /\ Lists[l] = ToSet(tables[l])
  BY DEF Lists, Sets
<1> QED
  BY <1>1, <1>2

(* The order of the lists and the head key, level by level *)
LEMMA SortedNext ==
  ASSUME LInv, SortedOK, NEW c \in LevelSet, NEW q, Relisted(c, q),
         InOrder(c, q), c # 0 => NoHead(ToSet(q))
  PROVE  SortedOK'
<1>1. \A l \in LevelSet : tables'[l] = IF l = c THEN q ELSE tables[l]
  BY ListChanged
<1>2. \A l \in LevelSet : InOrder(l, tables'[l])
  BY <1>1 DEF SortedOK, AllInOrder
<1>3. \A l \in LevelSet \ {0} : NoHead(ToSet(tables'[l]))
  BY <1>1 DEF SortedOK
<1> QED
  BY <1>2, <1>3 DEF SortedOK, AllInOrder

(* replace_tables on the next level: what it makes of the list *)
LEMMA ReplaceEffect ==
  ASSUME LInv, SInv, OneWorker, NoSingles, at[Worker] = "replace",
         NEW d \in CompactDefs, d = cd[Worker], NEW q,
         q = ReplaceTables(tables[d.level + 1], d.new)
  PROVE  /\ ToSet(q) = (Lists[d.level + 1] \ ToSet(d.bot)) \cup ToSet(d.new)
         /\ Ascending(q) /\ NoHead(ToSet(q))
<1>1. /\ d.level \in Nat /\ d.level + 1 \in LevelSet \ {0}
      /\ d.top \in Seq(AnyTable) /\ d.bot \in Seq(AnyTable) /\ d.new \in Seq(AnyTable)
  BY WorkerTypes
<1>2. PICK s \in Seq(AnyTable) : s = tables[d.level + 1]
  BY <1>1, StoreTypes
<1>3. Lists[d.level + 1] = ToSet(s) /\ ToSet(s) \subseteq All(Lists)
  BY <1>1, <1>2, StoreTypes
<1>4. /\ Ascending(s) /\ NoHead(ToSet(s)) /\ \A t \in ToSet(s) : Size(t) >= 2
  BY <1>1, <1>2 DEF SInv, SortedOK, AllInOrder, InOrder, NoSingles
<1>5. UniqueIds(ToSet(s))
  BY <1>3, TableTypes DEF UniqueIds
<1>6. Taken(Lists, d) /\ Merged(d)
  BY DEF SInv, WorkerOK, WorkerGood, Lists
<1>7. PICK new, B, M : /\ new = d.new /\ new \in Seq(AnyTable)
                       /\ B = ToSet(d.bot) /\ M = ToSet(d.top) \cup ToSet(d.bot)
  BY <1>1
<1>8. M \in SUBSET AnyTable
  BY <1>1, <1>7, SeqDomain DEF ToSet
<1>9. /\ B \in SUBSET ToSet(s) /\ B \subseteq M /\ NewOK(new, M) /\ Gap(ToSet(s) \ B, M)
  BY <1>3, <1>6, <1>7 DEF Taken, Compactable, Merged
<1>10. \A t \in B : Size(t) >= 2
  BY <1>4, <1>9
<1>11. q = ReplaceTables(s, new)
  BY <1>2, <1>7
<1>12. ToSet(q) = (ToSet(s) \ B) \cup ToSet(new) /\ Ascending(q)
  BY <1>4, <1>5, <1>7, <1>8, <1>9, <1>10, <1>11, ReplacesInOrder
<1>13. NoHead(ToSet(new))
  BY <1>9 DEF NewOK
<1>14. NoHead(ToSet(q))
  BY <1>4, <1>12, <1>13 DEF NoHead
<1> QED
  BY <1>3, <1>7, <1>12, <1>14

(* ReplaceNext *)
LEMMA ReplaceNextStep ==
  ASSUME LInv, SInv, OneWorker, NoSingles, ReplaceNext(Worker)
  PROVE  SInv'
<1>1. PICK d \in CompactDefs : d = cd[Worker]
  BY WorkerTypes
<1>2. /\ d.level \in LevelSet /\ d.level \in Nat /\ d.level + 1 \in LevelSet
      /\ d.top \in Seq(AnyTable) /\ d.bot \in Seq(AnyTable) /\ d.new \in Seq(AnyTable)
      /\ d.level # d.level + 1 /\ d.level + 1 # 0 /\ 0 \in LevelSet
  BY <1>1, WorkerTypes
<1>3. PICK q : q = ReplaceTables(tables[d.level + 1], d.new)
  OBVIOUS
<1>4. /\ at[Worker] = "replace" /\ at'[Worker] = "delete" /\ cd'[Worker] = d
      /\ Relisted(d.level + 1, q)
      /\ UNCHANGED <<manifest, files, flusher, visible, durable, flushes>>
  BY <1>1, <1>3, Assigned DEF ReplaceNext, Relisted, diskVars, clientVars, boundVars
<1>5. PICK L \in Stores : L = Lists
  BY StoresNow
<1>6. PICK top, bot, new : top = ToSet(d.top) /\ bot = ToSet(d.bot) /\ new = ToSet(d.new)
  OBVIOUS
<1>7. ToSet(q) = (L[d.level + 1] \ bot) \cup new /\ Ascending(q) /\ NoHead(ToSet(q))
  BY <1>1, <1>3, <1>4, <1>5, <1>6, ReplaceEffect
<1>8. \A l \in LevelSet : Lists'[l] = IF l = d.level + 1 THEN (L[l] \ bot) \cup new ELSE L[l]
  <2>1. PICK c \in LevelSet : c = d.level + 1
    BY <1>2
  <2>2. Relisted(c, q)
    BY <2>1, <1>4
  <2>3. \A l \in LevelSet : Lists'[l] = IF l = c THEN ToSet(q) ELSE Lists[l]
    BY <2>2, ListChanged
  <2> QED
    BY <2>1, <2>3, <1>5, <1>7
<1>9. top \in SUBSET AnyTable /\ bot \in SUBSET AnyTable /\ new \in SUBSET AnyTable
  BY <1>2, <1>6, SeqDomain DEF ToSet
<1>10. /\ Compactable(L, d.level, top, bot) /\ NewOK(d.new, top \cup bot)
  BY <1>1, <1>4, <1>5, <1>6 DEF SInv, WorkerOK, WorkerGood, Taken, Merged, Lists
<1>11. /\ top \subseteq L[d.level] /\ bot \subseteq L[d.level + 1]
       /\ TakenOver(new, top \cup bot) /\ Covers(top \cup bot, new)
  BY <1>6, <1>10 DEF Compactable, NewOK
<1>12. Disk' = Disk /\ Pending' = Pending
  BY <1>4 DEF Disk, OnDisk, Pending
<1>13. Matches(Disk, L, "replace", d, Pending)
  BY <1>1, <1>4, <1>5 DEF SInv, DiskMatches
<1>14. /\ Disk[d.level + 1] = (L[d.level + 1] \ bot) \cup new
  <2>1. OffDisk("replace", d, d.level + 1) = bot /\ OnlyDisk("replace", d, d.level + 1) = new
    BY <1>2, <1>6 DEF OffDisk, OnlyDisk
  <2> QED
    BY <2>1, <1>2, <1>13 DEF Matches
<1>15. All(Lists') \subseteq All(L) \cup new /\ new \subseteq All(Lists')
       /\ All(L) \ bot \subseteq All(Lists')
  <2>a. PICK R : R = Lists'
    OBVIOUS
  <2>1. PICK c \in LevelSet : c = d.level + 1
    BY <1>2
  <2>2. \A l \in LevelSet : R[l] = IF l = c THEN (L[l] \ bot) \cup new ELSE L[l]
    BY <2>a, <2>1, <1>8
  <2>3. All(R) \subseteq All(L) \cup new
    BY <2>2 DEF All
  <2>4. new \subseteq All(R)
    BY <2>2 DEF All
  <2>5. All(L) \ bot \subseteq All(R)
    BY <2>2 DEF All
  <2> QED
    BY <2>a, <2>3, <2>4, <2>5
<1>16. new \subseteq files
  BY <1>2, <1>14, StoreTypes
<1>17. VersionsOK'
  BY <1>4, <1>5, <1>15, <1>16 DEF SInv, VersionsOK
<1>18. SortedOK'
  BY <1>2, <1>4, <1>7, SortedNext DEF SInv, InOrder
<1>19. OrderOK'
  <2>1. PICK T, R : T = All(L) /\ R = All(Lists')
    OBVIOUS
  <2>2. T \in SUBSET AnyTable /\ R \in SUBSET AnyTable
    BY <2>1, <1>5, <1>9, <1>15, TableTypes
  <2>3. /\ new \in SUBSET R /\ R \subseteq T \cup new /\ T \ bot \subseteq R
    BY <2>1, <1>15
  <2>4. TakenOver(new, T)
    BY <2>1, <1>2, <1>11 DEF TakenOver, All
  <2>5. Covers(bot, new)
    BY <1>11 DEF Covers
  <2>6. \A k \in UserKeys : IsNewest(T, k, visible[k])
    BY <2>1, <1>5 DEF SInv, OrderOK, Latest
  <2>7. \A k \in UserKeys : IsNewest(R, k, visible[k])
    BY <2>2, <2>3, <2>4, <2>5, <2>6, NewestKept
  <2> QED
    BY <2>1, <2>7, <1>4 DEF OrderOK, Latest
<1>20. DiskGood'
  BY <1>4, <1>12 DEF SInv, DiskGood
<1>21. DiskMatches'
  <2>1. ASSUME NEW l \in LevelSet
        PROVE  Disk[l] = ((Lists'[l] \ OffDisk("delete", d, l)) \cup OnlyDisk("delete", d, l))
                           \cup (IF l = 0 THEN Pending ELSE {})
    <3>1. OnlyDisk("delete", d, l) = {} /\ OffDisk("delete", d, l) = IF l = d.level THEN top ELSE {}
      BY <1>6 DEF OffDisk, OnlyDisk
    <3>2. CASE l = d.level + 1
      BY <3>1, <3>2, <1>2, <1>8, <1>14
    <3>3. CASE l # d.level + 1
      <4>1. OnlyDisk("replace", d, l) = {} /\ OffDisk("replace", d, l) = IF l = d.level THEN top ELSE {}
        BY <3>3, <1>6 DEF OffDisk, OnlyDisk
      <4> QED
        BY <3>1, <3>3, <4>1, <1>8, <1>13 DEF Matches
    <3> QED
      BY <3>2, <3>3
  <2>2. Matches(Disk, Lists', "delete", d, Pending)
    BY <2>1 DEF Matches
  <2> QED
    BY <2>2, <1>4, <1>12 DEF DiskMatches
<1>22. FlushOK'
  <2>1. flusher.at # "idle" => flusher.table \notin All(Lists')
    BY <1>1, <1>5, <1>6, <1>15 DEF SInv, FlushOK, TablesIn
  <2> QED
    BY <2>1, <1>1, <1>4, <1>12 DEF SInv, FlushOK
<1>23. WorkerOK'
  <2>1. top \subseteq Lists'[d.level]
    BY <1>2, <1>8, <1>11
  <2>2. Covers(top, Lists'[d.level + 1])
    BY <1>2, <1>8, <1>11 DEF Covers
  <2>3. TopHolds(Lists', top, d.level)
    <3>1. Ordered(L)
      BY <1>4, <1>5 DEF SInv, OrderOK
    <3>2. SUFFICES ASSUME NEW b \in LevelSet, d.level < b, NEW u \in Lists'[b], NEW t \in top,
                          NEW k \in TableKeys(u) \cap TableKeys(t)
                   PROVE  \E x \in top : k \in TableKeys(x) /\ u.kv[k] <= x.kv[k]
      BY DEF TopHolds
    <3>3. CASE u \in L[b]
      <4>1. NotNewer(u, t)
        BY <3>1, <3>2, <3>3, <1>2, <1>11 DEF Ordered
      <4> QED
        BY <4>1, <3>2 DEF NotNewer
    <3>4. CASE u \notin L[b]
      <4>1. u \in new /\ b = d.level + 1
        BY <3>2, <3>4, <1>8
      <4>2. PICK y \in top \cup bot : k \in TableKeys(y) /\ y.kv[k] = u.kv[k]
        BY <4>1, <3>2, <1>11 DEF TakenOver
      <4>3. y.kv[k] \in Nat
        BY <4>2, <1>9, TableFacts
      <4>4. CASE y \in top
        BY <4>2, <4>3, <4>4
      <4>5. CASE y \in bot
        <5>1. NotNewer(y, t)
          BY <4>1, <4>5, <3>1, <3>2, <1>2, <1>11 DEF Ordered
        <5> QED
          BY <5>1, <4>2, <3>2 DEF NotNewer
      <4> QED
        BY <4>2, <4>4, <4>5
    <3> QED
      BY <3>3, <3>4
  <2>4. Deletable(Lists', d)
    BY <2>1, <2>2, <2>3, <1>6 DEF Deletable
  <2>5. \A F, I : WorkerGood(tables', F, I, "delete", d)
    BY <2>4 DEF WorkerGood, Lists
  <2> QED
    BY <2>5, <1>4 DEF WorkerOK
<1> QED
  BY <1>17, <1>18, <1>19, <1>20, <1>21, <1>22, <1>23 DEF SInv

(* DeleteThis *)
LEMMA DeleteThisStep ==
  ASSUME LInv, SInv, OneWorker, DeleteThis(Worker)
  PROVE  SInv'
<1>1. PICK d \in CompactDefs : d = cd[Worker]
  BY WorkerTypes
<1>2. /\ d.level \in LevelSet /\ d.level \in Nat /\ d.level + 1 \in LevelSet
      /\ d.top \in Seq(AnyTable) /\ d.level # d.level + 1
  BY <1>1, WorkerTypes
<1>3. PICK p \in Seq(AnyTable), c \in LevelSet : c = d.level /\ p = tables[c]
  BY <1>2, StoreTypes
<1>4. PICK top : top = ToSet(d.top)
  OBVIOUS
<1>5. PICK q : q = DeleteTables(p, {t.id : t \in top})
  OBVIOUS
<1>6. /\ at[Worker] = "delete" /\ at'[Worker] = "finish" /\ cd'[Worker] = d
      /\ UNCHANGED <<manifest, files, flusher, visible, durable, flushes>>
  BY <1>1, Assigned DEF DeleteThis, diskVars, clientVars, boundVars
<1>7. Relisted(c, q)
  <2>1. tables' = [tables EXCEPT ![d.level] = DeleteTables(tables[d.level], Ids(d.top))]
    BY <1>1 DEF DeleteThis
  <2>2. Ids(d.top) = {t.id : t \in top}
    BY <1>4, IdsAre
  <2> QED
    BY <2>1, <2>2, <1>3, <1>5 DEF Relisted
<1>8. PICK L \in Stores : L = Lists
  BY StoresNow
<1>9. L[c] = ToSet(p) /\ InOrder(c, p) /\ (c # 0 => NoHead(ToSet(p))) /\ L[c] \subseteq All(L)
  BY <1>3, <1>8, StoreTypes DEF SInv, SortedOK, AllInOrder
<1>10. UniqueIds(ToSet(p) \cup top)
  BY <1>1, <1>4, <1>8, <1>9, TableTypes DEF UniqueIds, TablesIn
<1>11. /\ ToSet(q) = ToSet(p) \ top
       /\ (Chrono(p) => Chrono(q)) /\ (Ascending(p) => Ascending(q))
  BY <1>5, <1>10, DeletesGiven
<1>12. InOrder(c, q) /\ (c # 0 => NoHead(ToSet(q)))
  BY <1>9, <1>11 DEF InOrder, NoHead
<1>13. \A l \in LevelSet : Lists'[l] = IF l = c THEN L[l] \ top ELSE L[l]
  BY <1>7, <1>8, <1>9, <1>11, ListChanged
<1>14. Disk' = Disk /\ Pending' = Pending
  BY <1>6 DEF Disk, OnDisk, Pending
<1>15. Matches(Disk, L, "delete", d, Pending)
  BY <1>1, <1>6, <1>8 DEF SInv, DiskMatches
<1>16. \A l \in LevelSet : Disk[l] = Lists'[l] \cup (IF l = 0 THEN Pending ELSE {})
  <2>1. \A l : /\ OnlyDisk("delete", d, l) = {}
               /\ OffDisk("delete", d, l) = IF l = c THEN top ELSE {}
    BY <1>3, <1>4 DEF OffDisk, OnlyDisk
  <2> QED
    BY <2>1, <1>13, <1>15 DEF Matches
<1>17. All(Lists') \subseteq All(L) /\ All(L) \ top \subseteq All(Lists')
  BY <1>13 DEF All
<1>18. Deletable(L, d)
  BY <1>1, <1>6, <1>8 DEF SInv, WorkerOK, WorkerGood, Lists
<1>19. Covers(top, L[d.level + 1]) /\ Lists'[d.level + 1] = L[d.level + 1]
  BY <1>2, <1>3, <1>4, <1>13, <1>18 DEF Deletable
<1>20. VersionsOK'
  BY <1>6, <1>8, <1>17 DEF SInv, VersionsOK
<1>21. SortedOK'
  BY <1>7, <1>12, SortedNext DEF SInv
<1>22. OrderOK'
  <2>1. PICK T, R, N : T = All(L) /\ R = All(Lists') /\ N = L[d.level + 1]
    OBVIOUS
  <2>2. T \in SUBSET AnyTable /\ R \in SUBSET AnyTable
    BY <2>1, <1>8, <1>17, TableTypes
  <2>3. N \in SUBSET R /\ N \subseteq T
    BY <2>1, <1>2, <1>19 DEF All
  <2>4. R \subseteq T \cup N /\ T \ top \subseteq R
    BY <2>1, <1>17
  <2>5. TakenOver(N, T) /\ Covers(top, N)
    BY <2>1, <2>3, <1>19 DEF TakenOver
  <2>6. \A k \in UserKeys : IsNewest(T, k, visible[k])
    BY <2>1, <1>8 DEF SInv, OrderOK, Latest
  <2>7. \A k \in UserKeys : IsNewest(R, k, visible[k])
    BY <2>2, <2>3, <2>4, <2>5, <2>6, NewestKept
  <2>8. Ordered(Lists')
    <3>1. Ordered(Disk)
      BY DEF SInv, DiskGood, StoreGood
    <3> QED
      BY <3>1, <1>16 DEF Ordered
  <2> QED
    BY <2>1, <2>7, <2>8, <1>6 DEF OrderOK, Latest
<1>23. DiskGood'
  BY <1>6, <1>14 DEF SInv, DiskGood
<1>24. DiskMatches'
  <2>1. \A l : OffDisk("finish", d, l) = {} /\ OnlyDisk("finish", d, l) = {}
    BY DEF OffDisk, OnlyDisk
  <2>2. Matches(Disk, Lists', "finish", d, Pending)
    BY <2>1, <1>16 DEF Matches
  <2> QED
    BY <2>2, <1>6, <1>14 DEF DiskMatches
<1>25. FlushOK'
  BY <1>1, <1>6, <1>8, <1>14, <1>17 DEF SInv, FlushOK
<1>26. WorkerOK'
  BY <1>6 DEF WorkerOK, WorkerGood
<1> QED
  BY <1>20, <1>21, <1>22, <1>23, <1>24, <1>25, <1>26 DEF SInv

(* Finish: the files of tables that no list has any more are removed. *)
LEMMA FinishStep ==
  ASSUME LInv, SInv, OneWorker, Finish(Worker)
  PROVE  SInv'
<1>1. PICK d \in CompactDefs : d = cd[Worker]
  BY WorkerTypes
<1>2. /\ at[Worker] = "finish" /\ at'[Worker] = "idle" /\ cd'[Worker] = NewCd(0)
      /\ files' = files \ Dropped(d)
      /\ UNCHANGED <<tables, manifest, flusher, visible, durable, flushes>>
  BY <1>1, Assigned DEF Finish, levelVars, diskVars, clientVars, boundVars
<1>3. Lists' = Lists /\ Pending' = Pending
  BY <1>2 DEF Lists, Pending
<1>4. \A l \in LevelSet : Disk[l] = Lists[l] \cup (IF l = 0 THEN Pending ELSE {})
  <2>1. \A l : OffDisk("finish", d, l) = {} /\ OnlyDisk("finish", d, l) = {}
    BY DEF OffDisk, OnlyDisk
  <2>2. Matches(Disk, Lists, "finish", d, Pending)
    BY <1>1, <1>2 DEF SInv, DiskMatches
  <2> QED
    BY <2>1, <2>2 DEF Matches
<1>5. d.top \in Seq(AnyTable) /\ d.bot \in Seq(AnyTable)
  BY <1>1, WorkerTypes
<1>6. Dropped(d) \subseteq TablesIn(d)
  BY <1>5, ConcatFacts DEF Dropped, TablesIn
<1>7. \A t \in Dropped(d) : t \notin All(Lists)
  <2>1. ASSUME NEW t \in Dropped(d), NEW l \in LevelSet
        PROVE  t \notin Lists[l]
    <3>1. t.id \notin Ids(tables[l])
      BY <2>1 DEF Dropped
    <3>2. Lists[l] = ToSet(tables[l])
      BY StoreTypes
    <3> QED
      BY <3>1, <3>2, IdsAre
  <2> QED
    BY <2>1 DEF All
<1>8. flusher.at # "idle" => flusher.table \notin Dropped(d)
  BY <1>1, <1>6 DEF SInv, FlushOK
<1>9. \A t \in Dropped(d) : t \notin All(Disk)
  <2>1. All(Disk) \subseteq All(Lists) \cup Pending
    BY <1>4 DEF All
  <2>2. \A t \in Dropped(d) : t \notin Pending
    BY <1>8 DEF Pending
  <2> QED
    BY <2>1, <2>2, <1>7
<1>10. Disk' = Disk
  <2>1. \A l \in LevelSet : OnDisk(l) \cap Dropped(d) = {}
    BY <1>9 DEF All, Disk
  <2>2. \A l \in LevelSet : OnDisk(l)' = OnDisk(l)
    BY <2>1, <1>2 DEF OnDisk
  <2> QED
    BY <2>2 DEF Disk
<1>11. VersionsOK'
  BY <1>2, <1>3, <1>7 DEF SInv, VersionsOK
<1>12. SortedOK' /\ OrderOK'
  BY <1>2, <1>3 DEF SInv, SortedOK, OrderOK
<1>13. DiskGood'
  <2>1. ASSUME NEW i \in DOMAIN manifest
        PROVE  \E t \in files' : t.id = i
    <3>1. PICK t \in files : t.id = i
      BY <2>1 DEF SInv, DiskGood
    <3>2. manifest[i] \in LevelSet
      BY <2>1 DEF LInv, DiskOK
    <3>3. t \in All(Disk)
      BY <3>1, <3>2, <2>1 DEF All, Disk, OnDisk
    <3> QED
      BY <3>1, <3>3, <1>2, <1>9
  <2> QED
    BY <2>1, <1>2, <1>10 DEF SInv, DiskGood
<1>14. DiskMatches'
  <2>1. \A l : OffDisk("idle", NewCd(0), l) = {} /\ OnlyDisk("idle", NewCd(0), l) = {}
    BY DEF OffDisk, OnlyDisk
  <2>2. Matches(Disk, Lists, "idle", NewCd(0), Pending)
    BY <2>1, <1>4 DEF Matches
  <2> QED
    BY <2>2, <1>2, <1>3, <1>10 DEF DiskMatches
<1>15. FlushOK'
  <2>1. 0 \in 0 .. MaxLevels - 2
    BY MaxLevelsAssumption
  <2>2. TablesIn(NewCd(0)) = {}
    BY <2>1, NewCdFacts
  <2> QED
    BY <2>2, <1>2, <1>3, <1>8, <1>10 DEF SInv, FlushOK
<1>16. WorkerOK'
  BY <1>2 DEF WorkerOK, WorkerGood
<1> QED
  BY <1>11, <1>12, <1>13, <1>14, <1>15, <1>16 DEF SInv

-----------------------------------------------------------------------------
(***************************************************************************)
(* The flush task, readers, and the start.                                 *)
(***************************************************************************)

(* No table in a file is newer than the one being flushed. *)
LEMMA FlushedNewest ==
  ASSUME LInv, SInv, OneWorker, flusher.at # "idle"
  PROVE  /\ flusher.table \in AnyTable /\ flusher.table.id \in Nat
         /\ \A u \in files : NotNewer(u, flusher.table)
         /\ NotNewer(flusher.table, flusher.table)
<1>1. PICK t \in AnyTable : t = flusher.table
  BY TableTypes
<1>2. \A k \in TableKeys(t) : t.kv[k] = flushes
  BY <1>1 DEF SInv, VersionsOK
<1>3. flushes \in Nat
  BY DEF LInv, DiskOK
<1>4. \A u \in files : \A k \in TableKeys(u) : u.kv[k] \in 1 .. flushes
  BY DEF SInv, VersionsOK
<1>5. \A u \in files : NotNewer(u, t)
  BY <1>2, <1>3, <1>4 DEF NotNewer
<1>6. NotNewer(t, t)
  BY <1>2, <1>3 DEF NotNewer
<1> QED
  BY <1>1, <1>5, <1>6, TableFacts

(* Flush *)
LEMMA FlushStep ==
  ASSUME LInv, SInv, OneWorker, NEW ks \in FlushKeySets, Flush(ks)
  PROVE  SInv'
<1>1. PICK t : t = [id |-> nextFileId, kv |-> [k \in ks |-> flushes + 1]]
  OBVIOUS
<1>2. /\ flusher.at = "idle" /\ flushes' = flushes + 1 /\ files' = files \cup {t}
      /\ flusher' = [at |-> "created", table |-> t]
      /\ UNCHANGED <<tables, manifest, at, cd, visible, durable>>
  BY <1>1 DEF Flush, levelVars
<1>3. nextFileId \in Nat \ {0} /\ DOMAIN manifest \subseteq 1 .. nextFileId - 1 /\ flushes \in Nat
  BY DEF LInv, DiskOK
<1>4. t.id = nextFileId /\ TableKeys(t) = ks /\ \A k \in ks : t.kv[k] = flushes + 1
  BY <1>1 DEF TableKeys
<1>5. t \notin Known /\ t.id \notin DOMAIN manifest
  BY <1>3, <1>4, TableTypes
<1>6. Lists' = Lists
  BY <1>2 DEF Lists
<1>7. Disk' = Disk
  BY <1>2, <1>5, DiskKept
<1>8. Pending' = {} /\ Pending = {}
  BY <1>2 DEF Pending
<1>9. flusher'.at = "created" /\ flusher'.table = t
  BY <1>2
<1>10. VersionsOK'
  <2>1. \A u \in files : \A k \in TableKeys(u) : u.kv[k] \in 1 .. flushes + 1
    <3>1. \A n \in 1 .. flushes : n \in 1 .. flushes + 1
      BY <1>3
    <3> QED
      BY <3>1 DEF SInv, VersionsOK
  <2>2. flushes + 1 \in 1 .. flushes + 1
    BY <1>3
  <2>3. \A u \in files' : \A k \in TableKeys(u) : u.kv[k] \in 1 .. flushes + 1
    BY <2>1, <2>2, <1>2, <1>4
  <2>4. All(Lists) \subseteq files'
    BY <1>2 DEF SInv, VersionsOK
  <2> QED
    BY <2>3, <2>4, <1>2, <1>4, <1>6, <1>9 DEF SInv, VersionsOK
<1>11. SortedOK' /\ OrderOK'
  BY <1>2, <1>6 DEF SInv, SortedOK, OrderOK
<1>12. DiskGood'
  BY <1>2, <1>7 DEF SInv, DiskGood
<1>13. DiskMatches'
  BY <1>2, <1>6, <1>7, <1>8 DEF SInv, DiskMatches
<1>14. FlushOK'
  <2>1. t \notin TablesIn(cd[Worker]) /\ t \notin All(Lists)
    BY <1>5, TableTypes
  <2>2. \A u \in Disk[0] : u.id < t.id
    <3>1. Disk[0] \subseteq files
      BY WorkerTypes, StoreTypes
    <3> QED
      BY <3>1, <1>4, TableTypes
  <2> QED
    BY <2>1, <2>2, <1>2, <1>5, <1>6, <1>7, <1>9 DEF FlushOK
<1>15. WorkerOK'
  <2>1. \A d : Logged(files, DOMAIN manifest, d) => Logged(files', DOMAIN manifest, d)
    BY <1>2 DEF Logged
  <2> QED
    BY <2>1, <1>2 DEF SInv, WorkerOK, WorkerGood
<1> QED
  BY <1>10, <1>11, <1>12, <1>13, <1>14, <1>15 DEF SInv

(* LogTable *)
LEMMA LogTableStep ==
  ASSUME LInv, SInv, OneWorker, LogTable
  PROVE  SInv'
<1>0. LInv'
  BY ClientInv DEF FlusherStep
<1>1. flusher.at = "created"
  BY DEF LogTable
<1>2. PICK t \in AnyTable : /\ t = flusher.table /\ t.id \in Nat
                            /\ NotNewer(t, t) /\ \A u \in files : NotNewer(u, t)
  BY <1>1, FlushedNewest
<1>3. /\ durable' = Newest(durable, t) /\ flusher' = [flusher EXCEPT !.at = "adding"]
      /\ manifest' = [i \in DOMAIN manifest \cup {t.id} |-> IF i = t.id THEN 0 ELSE manifest[i]]
      /\ UNCHANGED <<tables, files, at, cd, visible, flushes>>
  BY <1>2 DEF LogTable, levelVars, boundVars
<1>4. flusher'.at = "adding" /\ flusher'.table = t
  <2>1. flusher \in [at : {"created", "adding", "stalled"}, table : AnyTable]
    BY <1>1 DEF LInv, DiskOK
  <2> QED
    BY <2>1, <1>2, <1>3
<1>5. /\ t \in files /\ t \notin TablesIn(cd[Worker]) /\ t \notin All(Lists)
      /\ t.id \notin DOMAIN manifest /\ \A u \in Disk[0] : u # t => u.id < t.id
  BY <1>1, <1>2 DEF SInv, FlushOK
<1>6. Lists' = Lists
  BY <1>3 DEF Lists
<1>7. Pending' = {t} /\ Pending = {}
  BY <1>1, <1>4 DEF Pending
<1>8. UniqueIds(files) /\ UniqueIds(Known) /\ files \subseteq Known
      /\ TablesIn(cd[Worker]) \subseteq Known
  BY TableTypes DEF UniqueIds
<1>9. PICK S \in Stores, R \in Stores : S = Disk /\ R = Disk'
  BY <1>0, StoresNow, StoresNext
<1>a. 0 \in LevelSet /\ \A l \in LevelSet : S[l] \subseteq files
  BY <1>9, WorkerTypes, StoreTypes
<1>10. Grown(S, R, t)
  <2>1. \A l \in LevelSet : \A u :
          /\ u \in S[l] <=> u \in files /\ u.id \in DOMAIN manifest /\ manifest[u.id] = l
          /\ u \in R[l] <=> u \in files /\ u.id \in DOMAIN manifest' /\ manifest'[u.id] = l
    BY <1>3, <1>9 DEF Disk, OnDisk
  <2>2. /\ DOMAIN manifest' = DOMAIN manifest \cup {t.id} /\ manifest'[t.id] = 0
        /\ \A i \in DOMAIN manifest : manifest'[i] = manifest[i]
    BY <1>3, <1>5
  <2>3. \A u \in files : u.id = t.id => u = t
    BY <1>5, <1>8 DEF UniqueIds
  <2>4. ASSUME NEW l \in LevelSet, NEW u \in files
        PROVE  u \in R[l] <=> u \in S[l] \/ (l = 0 /\ u = t)
    <3>1. CASE u = t
      BY <3>1, <2>1, <2>2, <2>4, <1>5
    <3>2. CASE u # t
      <4>1. u.id # t.id
        BY <3>2, <2>3, <2>4
      <4> QED
        BY <3>2, <4>1, <2>1, <2>2, <2>4
    <3> QED
      BY <3>1, <3>2
  <2>5. \A l \in LevelSet : \A u : u \in R[l] <=> u \in S[l] \/ (l = 0 /\ u = t)
    BY <2>1, <2>4, <1>5
  <2>6. \A l \in LevelSet : R[l] = IF l = 0 THEN S[l] \cup {t} ELSE S[l]
    BY <2>5
  <2> QED
    BY <2>6 DEF Grown
<1>11. \A u \in All(S) : NotNewer(u, t)
  BY <1>2, <1>a DEF All
<1>12. StoreGood(S) /\ Latest(S, durable)
  BY <1>9 DEF SInv, DiskGood
<1>13. Ordered(R) /\ Latest(R, Newest(durable, t))
  BY <1>10, <1>11, <1>12, GrownGood DEF StoreGood
<1>14. Aged(R[0])
  <2>1. R[0] = S[0] \cup {t}
    BY <1>10, <1>a DEF Grown
  <2>2. SUFFICES ASSUME NEW u \in R[0], NEW v \in R[0], u.id <= v.id
                 PROVE  NotNewer(u, v)
    BY DEF Aged
  <2>3. CASE u \in S[0] /\ v \in S[0]
    BY <2>2, <2>3, <1>12 DEF StoreGood, Aged
  <2>4. CASE v = t
    BY <2>1, <2>2, <2>4, <1>2, <1>a
  <2>5. CASE u = t /\ v \in S[0] /\ v # t
    <3>1. v.id < t.id /\ v \in AnyTable
      BY <2>5, <1>5, <1>9, <1>a DEF Stores
    <3>2. v.id \in Nat
      BY <3>1, TableFacts
    <3> QED
      BY <3>1, <3>2, <2>2, <2>5, <1>2
  <2> QED
    BY <2>1, <2>3, <2>4, <2>5
<1>15. StoreGood(R)
  <2>1. \A l \in LevelSet \ {0} : R[l] = S[l]
    BY <1>10 DEF Grown
  <2> QED
    BY <2>1, <1>12, <1>13, <1>14 DEF StoreGood
<1>16. VersionsOK'
  <2>1. durable' \in [Keys -> Nat]
    <3>1. durable \in [Keys -> Nat]
      BY DEF SInv, VersionsOK
    <3>2. \A k \in TableKeys(t) : t.kv[k] \in Nat
      BY TableFacts
    <3> QED
      BY <3>1, <3>2, <1>3 DEF Newest
  <2> QED
    BY <2>1, <1>1, <1>2, <1>3, <1>4, <1>6 DEF SInv, VersionsOK
<1>17. SortedOK' /\ OrderOK'
  BY <1>3, <1>6 DEF SInv, SortedOK, OrderOK
<1>18. DiskGood'
  <2>1. DOMAIN manifest' \subseteq {u.id : u \in files}
    BY <1>3, <1>5 DEF SInv, DiskGood
  <2> QED
    BY <2>1, <1>3, <1>9, <1>13, <1>15 DEF DiskGood
<1>19. DiskMatches'
  <2>1. Matches(S, Lists, at[Worker], cd[Worker], {})
    BY <1>7, <1>9 DEF SInv, DiskMatches
  <2>2. Matches(R, Lists, at[Worker], cd[Worker], {t})
    BY <2>1, <1>10 DEF Matches, Grown
  <2> QED
    BY <2>2, <1>3, <1>6, <1>7, <1>9 DEF DiskMatches
<1>20. FlushOK'
  <2>1. R[0] = S[0] \cup {t}
    BY <1>10, <1>a DEF Grown
  <2> QED
    BY <2>1, <1>3, <1>4, <1>5, <1>6, <1>9 DEF FlushOK
<1>21. WorkerOK'
  <2>1. ASSUME at[Worker] = "manifest", Logged(files, DOMAIN manifest, cd[Worker])
        PROVE  Logged(files', DOMAIN manifest', cd[Worker])
    <3>1. \A u \in ToSet(cd[Worker].new) : u.id # t.id
      BY <1>5, <1>8 DEF UniqueIds, TablesIn
    <3>2. t.id \notin Ids(cd[Worker].new)
      BY <3>1, IdsAre
    <3> QED
      BY <3>2, <2>1, <1>3 DEF Logged
  <2> QED
    BY <2>1, <1>3 DEF SInv, WorkerOK, WorkerGood
<1> QED
  BY <1>16, <1>17, <1>18, <1>19, <1>20, <1>21 DEF SInv

(* TryAdd *)
LEMMA TryAddStep ==
  ASSUME LInv, SInv, OneWorker, TryAdd
  PROVE  SInv'
<1>0. LInv'
  BY ClientInv DEF FlusherStep
<1>1. flusher.at = "adding"
  BY DEF TryAdd
<1>2. PICK t \in AnyTable : /\ t = flusher.table
                            /\ NotNewer(t, t) /\ \A u \in files : NotNewer(u, t)
  BY <1>1, FlushedNewest
<1>3. PICK s \in Seq(AnyTable) : s = tables[0]
  BY WorkerTypes, StoreTypes
<1>4. PICK q : q = Append(s, t)
  OBVIOUS
<1>5. 0 \in LevelSet /\ \A l \in LevelSet : l \in Nat
  BY MaxLevelsAssumption DEF LevelSet
<1>6. /\ ~ L0ListLocked /\ Relisted(0, q) /\ visible' = Newest(visible, t)
      /\ flusher' = [at |-> "idle"]
      /\ UNCHANGED <<manifest, files, at, cd, durable, flushes>>
  BY <1>2, <1>3, <1>4 DEF TryAdd, Relisted, diskVars, boundVars
<1>7. q \in Seq(AnyTable) /\ ToSet(q) = ToSet(s) \cup {t}
  BY <1>4, AppendFacts
<1>8. PICK S \in Stores, R \in Stores : S = Lists /\ R = Lists'
  BY <1>0, StoresNow, StoresNext
<1>9. S[0] = ToSet(s)
  BY <1>3, <1>5, <1>8, StoreTypes
<1>10. /\ \A l \in LevelSet : tables'[l] = IF l = 0 THEN q ELSE tables[l]
       /\ \A l \in LevelSet : R[l] = IF l = 0 THEN S[0] \cup {t} ELSE S[l]
  <2>1. \A l \in LevelSet : tables'[l] = IF l = 0 THEN q ELSE tables[l]
    BY <1>5, <1>6, ListChanged
  <2>2. \A l \in LevelSet : Lists'[l] = IF l = 0 THEN ToSet(q) ELSE Lists[l]
    BY <1>5, <1>6, ListChanged
  <2>3. \A l \in LevelSet : R[l] = IF l = 0 THEN S[0] \cup {t} ELSE S[l]
    BY <2>2, <1>7, <1>8, <1>9
  <2> QED
    BY <2>1, <2>3
<1>11. Grown(S, R, t)
  BY <1>10 DEF Grown
<1>12. All(S) \subseteq files
  BY <1>8 DEF SInv, VersionsOK
<1>13. \A u \in All(S) : NotNewer(u, t)
  BY <1>2, <1>12
<1>14. (Ordered(S) => Ordered(R)) /\ Latest(R, Newest(visible, t))
  BY <1>8, <1>11, <1>13, GrownGood DEF SInv, OrderOK
<1>15. t \in files /\ t \notin TablesIn(cd[Worker])
  BY <1>1, <1>2 DEF SInv, FlushOK
<1>16. Disk' = Disk
  BY <1>6 DEF Disk, OnDisk
<1>17. Pending = {t} /\ Pending' = {} /\ flusher'.at = "idle"
  BY <1>1, <1>2, <1>6 DEF Pending
<1>18. VersionsOK'
  <2>1. visible' \in [Keys -> Nat]
    <3>1. visible \in [Keys -> Nat]
      BY DEF SInv, VersionsOK
    <3>2. \A k \in TableKeys(t) : t.kv[k] \in Nat
      BY TableFacts
    <3> QED
      BY <3>1, <3>2, <1>6 DEF Newest
  <2>2. All(R) \subseteq files
    BY <1>10, <1>12, <1>15 DEF All
  <2> QED
    BY <2>1, <2>2, <1>6, <1>8, <1>17 DEF SInv, VersionsOK
<1>19. SortedOK'
  <2>1. Chrono(s)
    BY <1>3, <1>5 DEF SInv, SortedOK, AllInOrder, InOrder
  <2>2. Len(s) \in Nat /\ DOMAIN s = 1 .. Len(s) /\ DOMAIN q = 1 .. Len(s) + 1
        /\ q[Len(s) + 1] = t /\ \A i \in 1 .. Len(s) : q[i] = s[i] /\ s[i] \in ToSet(s)
    BY <1>4, SeqDomain DEF ToSet
  <2>3. \A i \in 1 .. Len(s) : NotNewer(s[i], t)
    BY <2>2, <1>5, <1>9, <1>13 DEF All
  <2>4. ASSUME NEW i \in DOMAIN q, NEW j \in DOMAIN q, i < j
        PROVE  NotNewer(q[i], q[j])
    <3>1. CASE j = Len(s) + 1
      <4>1. i \in 1 .. Len(s)
        BY <2>2, <2>4, <3>1
      <4> QED
        BY <4>1, <3>1, <2>2, <2>3
    <3>2. CASE j # Len(s) + 1
      <4>1. i \in 1 .. Len(s) /\ j \in 1 .. Len(s)
        BY <2>2, <2>4, <3>2
      <4> QED
        BY <4>1, <2>1, <2>2, <2>4 DEF Chrono
    <3> QED
      BY <3>1, <3>2
  <2>5. InOrder(0, q)
    BY <2>4 DEF InOrder, Chrono
  <2> QED
    BY <2>5, <1>5, <1>6, SortedNext DEF SInv
<1>20. OrderOK'
  BY <1>6, <1>8, <1>14 DEF SInv, OrderOK
<1>21. DiskGood'
  BY <1>6, <1>16 DEF SInv, DiskGood
<1>22. DiskMatches'
  <2>1. Matches(Disk, S, at[Worker], cd[Worker], {t})
    BY <1>8, <1>17 DEF SInv, DiskMatches
  <2>2. \A l : t \notin OffDisk(at[Worker], cd[Worker], l)
    BY <1>15 DEF OffDisk, TablesIn
  <2>3. Matches(Disk, R, at[Worker], cd[Worker], {})
    BY <2>1, <2>2, <1>10 DEF Matches
  <2> QED
    BY <2>3, <1>6, <1>8, <1>16, <1>17 DEF DiskMatches
<1>23. FlushOK'
  BY <1>17 DEF FlushOK
<1>24. WorkerOK'
  <2>1. PICK a, d : a = at[Worker] /\ d = cd[Worker]
    OBVIOUS
  <2>2. d.level \in LevelSet /\ d.level + 1 \in LevelSet /\ d.level \in Nat /\ d.level + 1 # 0
    BY <2>1, WorkerTypes
  <2>3. WorkerGood(tables, files, DOMAIN manifest, a, d)
    BY <2>1 DEF SInv, WorkerOK
  <2>4. Sets(tables) = S /\ Sets(tables') = R
    BY <1>8 DEF Lists
  <2>5. a \in {"left", "right", "slice"} => Searching(tables', a, d)
    <3>1. SUFFICES ASSUME a \in {"left", "right", "slice"}
                   PROVE  Searching(tables', a, d)
      OBVIOUS
    <3>2. d.level # 0
      BY <3>1, <2>1, <1>6, WorkerIs DEF L0ListLocked
    <3>3. tables'[d.level] = tables[d.level] /\ tables'[d.level + 1] = tables[d.level + 1]
      BY <3>2, <2>2, <1>10
    <3>4. Searching(tables, a, d)
      BY <3>1, <2>3 DEF WorkerGood
    <3> QED
      BY <3>2, <3>3, <3>4 DEF Searching
  <2>6. ASSUME Taken(S, d)
        PROVE  Taken(R, d)
    <3>1. R[d.level + 1] = S[d.level + 1] /\ S[d.level] \subseteq R[d.level]
          /\ R[d.level] \subseteq S[d.level] \cup {t}
      BY <2>2, <1>10
    <3>2. Later(ToSet(d.top), R[d.level])
      <4>1. \A u \in ToSet(d.top) : u \in All(S)
        BY <2>2, <2>6 DEF Taken, Compactable, All
      <4>2. \A u \in ToSet(d.top) : NotNewer(u, t)
        BY <4>1, <1>13
      <4> QED
        BY <4>2, <3>1, <2>6 DEF Taken, Compactable, Later
    <3> QED
      BY <3>1, <3>2, <2>6 DEF Taken, Compactable
  <2>7. ASSUME Deletable(S, d)
        PROVE  Deletable(R, d)
    <3>1. R[d.level + 1] = S[d.level + 1] /\ S[d.level] \subseteq R[d.level]
      BY <2>2, <1>10
    <3>2. \A b \in LevelSet : d.level < b => R[b] = S[b]
      BY <2>2, <1>5, <1>10
    <3>3. TopHolds(R, ToSet(d.top), d.level)
      BY <3>2, <2>7 DEF Deletable, TopHolds
    <3> QED
      BY <3>1, <3>3, <2>7 DEF Deletable
  <2>8. WorkerGood(tables', files, DOMAIN manifest, a, d)
    BY <2>3, <2>4, <2>5, <2>6, <2>7 DEF WorkerGood
  <2> QED
    BY <2>1, <2>8, <1>6 DEF WorkerOK
<1> QED
  BY <1>18, <1>19, <1>20, <1>21, <1>22, <1>23, <1>24 DEF SInv

(* The flush task waits, and readers leave the store alone. *)
LEMMA WaitStep ==
  ASSUME LInv, SInv, OneWorker, Stall \/ Unstall \/ GetLevel \/ \E k \in ReadKeys : StartGet(k)
  PROVE  SInv'
<1>1. UNCHANGED <<tables, manifest, files, at, cd, visible, durable, flushes>>
  BY DEF Stall, Unstall, GetLevel, StartGet, levelVars, diskVars, boundVars
<1>2. \/ flusher' = flusher
      \/ /\ flusher.at \in {"adding", "stalled"} /\ flusher'.at \in {"adding", "stalled"}
         /\ flusher'.table = flusher.table
  <2>1. CASE Stall \/ Unstall
    <3>1. PICK a \in {"adding", "stalled"} : flusher' = [flusher EXCEPT !.at = a]
      BY <2>1 DEF Stall, Unstall
    <3>2. flusher.at \in {"adding", "stalled"}
      BY <2>1 DEF Stall, Unstall
    <3>3. flusher \in [at : {"created", "adding", "stalled"}, table : AnyTable]
      BY <3>2 DEF LInv, DiskOK
    <3>4. flusher'.at = a /\ flusher'.table = flusher.table
      BY <3>1, <3>3
    <3> QED
      BY <3>2, <3>4
  <2>2. CASE GetLevel \/ \E k \in ReadKeys : StartGet(k)
    BY <2>2 DEF GetLevel, StartGet
  <2> QED
    BY <2>1, <2>2
<1>3. /\ flusher'.at # "idle" <=> flusher.at # "idle"
      /\ flusher'.at # "idle" => flusher'.table = flusher.table
      /\ flusher'.at = "created" => flusher.at = "created"
  BY <1>2
<1>4. Lists' = Lists /\ Disk' = Disk
  BY <1>1 DEF Lists, Disk, OnDisk
<1>5. Pending' = Pending
  BY <1>2 DEF Pending
<1>6. VersionsOK' /\ SortedOK' /\ OrderOK' /\ DiskGood'
  BY <1>1, <1>3, <1>4 DEF SInv, VersionsOK, SortedOK, OrderOK, DiskGood
<1>7. DiskMatches' /\ WorkerOK'
  BY <1>1, <1>4, <1>5 DEF SInv, DiskMatches, WorkerOK
<1>8. FlushOK'
  BY <1>1, <1>3, <1>4 DEF SInv, FlushOK
<1> QED
  BY <1>6, <1>7, <1>8 DEF SInv

(* A store that was just opened: nothing is under way, and the lists are what is on disk. *)
Opened ==
  /\ at[Worker] = "idle" /\ cd[Worker] = NewCd(0) /\ flusher.at = "idle"
  /\ visible = durable /\ durable \in [Keys -> Nat]
  /\ \A t \in files : \A k \in TableKeys(t) : t.kv[k] \in 1 .. flushes
  /\ AllInOrder(tables) /\ Lists = Disk /\ DiskGood

(* A store that has just been opened satisfies the invariant. *)
LEMMA OpenedInv == Opened => SInv
<1>1. SUFFICES ASSUME Opened PROVE SInv
  OBVIOUS
<1>2. /\ at[Worker] = "idle" /\ cd[Worker] = NewCd(0) /\ flusher.at = "idle"
      /\ visible = durable /\ Lists = Disk /\ DiskGood
  BY <1>1 DEF Opened
<1>3. \A l \in LevelSet : Lists[l] = ToSet(tables[l]) /\ Disk[l] \subseteq files
  BY DEF Lists, Sets, Disk, OnDisk
<1>4. VersionsOK
  <2>1. All(Lists) \subseteq files
    BY <1>2, <1>3 DEF All
  <2> QED
    BY <2>1, <1>1, <1>2 DEF Opened, VersionsOK
<1>5. SortedOK
  <2>1. \A l \in LevelSet \ {0} : NoHead(Disk[l])
    BY <1>2 DEF DiskGood, StoreGood
  <2> QED
    BY <2>1, <1>1, <1>2, <1>3 DEF Opened, SortedOK
<1>6. OrderOK
  BY <1>2 DEF OrderOK, DiskGood, StoreGood
<1>7. DiskMatches
  <2>1. \A l : OffDisk("idle", NewCd(0), l) = {} /\ OnlyDisk("idle", NewCd(0), l) = {}
    BY DEF OffDisk, OnlyDisk
  <2>2. Pending = {}
    BY <1>2 DEF Pending
  <2>3. Matches(Disk, Lists, "idle", NewCd(0), {})
    BY <2>1, <1>2 DEF Matches
  <2> QED
    BY <2>2, <2>3, <1>2 DEF DiskMatches
<1>8. FlushOK
  BY <1>2 DEF FlushOK
<1>9. WorkerOK
  BY <1>2 DEF WorkerOK, WorkerGood
<1> QED
  BY <1>2, <1>4, <1>5, <1>6, <1>7, <1>8, <1>9 DEF SInv

(* The same, after a step *)
LEMMA OpenedNext == Opened' => SInv'
BY OpenedInv, PTL

(* Reopen *)
LEMMA ReopenStep ==
  ASSUME LInv, SInv, OneWorker, Reopen
  PROVE  SInv'
<1>1. /\ tables' = Recovered /\ files' = {t \in files : t.id \in DOMAIN manifest}
      /\ at' = [w \in Workers |-> "idle"] /\ cd' = [w \in Workers |-> NewCd(0)]
      /\ flusher' = [at |-> "idle"] /\ visible' = durable
      /\ UNCHANGED <<manifest, durable, flushes>>
  BY DEF Reopen
<1>2. at'[Worker] = "idle" /\ cd'[Worker] = NewCd(0) /\ flusher'.at = "idle"
  BY <1>1, WorkerIs
<1>3. Disk' = Disk
  <2>1. \A l : OnDisk(l)' = OnDisk(l)
    BY <1>1 DEF OnDisk
  <2> QED
    BY <2>1 DEF Disk
<1>4. DiskGood
  BY DEF SInv
<1>5. Sets(Recovered) = Disk /\ AllInOrder(Recovered)
  BY <1>4, RecoveredGood DEF DiskGood
<1>6. Lists' = Disk' /\ AllInOrder(tables')
  BY <1>1, <1>3, <1>5 DEF Lists
<1>7. DOMAIN manifest' \subseteq {t.id : t \in files'}
  BY <1>1, <1>4 DEF DiskGood
<1>8. DiskGood'
  BY <1>1, <1>3, <1>4, <1>7 DEF DiskGood
<1>9. \A t \in files' : \A k \in TableKeys(t) : t.kv[k] \in 1 .. flushes'
  BY <1>1 DEF SInv, VersionsOK
<1>10. durable' \in [Keys -> Nat] /\ visible' = durable'
  BY <1>1 DEF SInv, VersionsOK
<1>11. Opened'
  BY <1>2, <1>6, <1>8, <1>9, <1>10 DEF Opened
<1> QED
  BY <1>11, OpenedNext

(* The store that is found at open, with at most one table *)
LEMMA InitSInv ==
  ASSUME Init, OneWorker
  PROVE  SInv
<1>0. LInv
  BY InitInv
<1>1. /\ tables = [l \in LevelSet |-> IF l = 0 THEN Inherited ELSE <<>>]
      /\ at = [w \in Workers |-> "idle"] /\ cd = [w \in Workers |-> NewCd(0)]
      /\ manifest = [i \in Ids(Inherited) |-> 0] /\ files = ToSet(Inherited)
      /\ flusher = [at |-> "idle"] /\ durable = visible
      /\ visible = [k \in Keys |-> IF k \in OpenedWith THEN 1 ELSE 0]
      /\ flushes = Len(Inherited)
  BY DEF Init
<1>2. at[Worker] = "idle" /\ cd[Worker] = NewCd(0) /\ flusher.at = "idle"
  BY <1>1, WorkerIs
<1>3. 0 \in LevelSet /\ tables[0] = Inherited /\ \A l \in LevelSet : l # 0 => tables[l] = <<>>
  BY <1>1, MaxLevelsAssumption DEF LevelSet
<1>4. durable \in [Keys -> Nat] /\ visible = durable
      /\ \A k \in Keys : visible[k] = IF k \in OpenedWith THEN 1 ELSE 0
  BY <1>1
<1>5. Inherited \in Seq(AnyTable)
  BY <1>0, <1>3, StoreTypes
<1>6. Lists[0] = ToSet(Inherited) /\ \A l \in LevelSet : l # 0 => Lists[l] = {}
  BY <1>0, <1>3, PartFacts, StoreTypes
<1>7. \A l \in LevelSet : Disk[l] = Lists[l]
  <2>1. DOMAIN manifest = {t.id : t \in files} /\ \A i \in DOMAIN manifest : manifest[i] = 0
    BY <1>1, IdsAre
  <2>2. \A l \in LevelSet : OnDisk(l) = IF l = 0 THEN files ELSE {}
    BY <2>1 DEF OnDisk
  <2> QED
    BY <2>2, <1>1, <1>6 DEF Disk
<1>8. Lists = Disk
  BY <1>7 DEF Lists, Sets, Disk
<1>9. \/ OpenedWith = {} /\ ToSet(Inherited) = {} /\ Inherited = <<>>
      \/ /\ OpenedWith # {} /\ Len(Inherited) = 1 /\ DOMAIN Inherited = {1}
         /\ \E t : /\ ToSet(Inherited) = {t} /\ TableKeys(t) = OpenedWith
                   /\ \A k \in OpenedWith : t.kv[k] = 1
  <2>1. CASE OpenedWith = {}
    <3>1. ToSet(<<>>) = {}
      BY DEF ToSet
    <3> QED
      BY <2>1, <3>1 DEF Inherited
  <2>2. CASE OpenedWith # {}
    <3>1. PICK t : t = [id |-> 1, kv |-> [k \in OpenedWith |-> 1]]
      OBVIOUS
    <3>2. TableKeys(t) = OpenedWith /\ \A k \in OpenedWith : t.kv[k] = 1
      BY <3>1 DEF TableKeys
    <3>3. Inherited = <<t>>
      BY <2>2, <3>1 DEF Inherited
    <3>4. ToSet(<<t>>) = {t} /\ Len(<<t>>) = 1 /\ DOMAIN <<t>> = {1}
      BY DEF ToSet
    <3> QED
      BY <2>2, <3>2, <3>3, <3>4
  <2> QED
    BY <2>1, <2>2
<1>10. \A t \in files : \A k \in TableKeys(t) : t.kv[k] \in 1 .. flushes
  <2>1. 1 \in 1 .. 1
    OBVIOUS
  <2>2. files = {} \/ (flushes = 1 /\ \A t \in files : \A k \in TableKeys(t) : t.kv[k] = 1)
    BY <1>1, <1>9
  <2> QED
    BY <2>1, <2>2
<1>11. AllInOrder(tables)
  <2>1. \A i, j \in DOMAIN Inherited : ~ (i < j)
    <3>1. DOMAIN <<>> = {}
      OBVIOUS
    <3> QED
      BY <3>1, <1>9
  <2>2. Chrono(Inherited)
    BY <2>1 DEF Chrono
  <2>3. Ascending(<<>>)
    BY DEF Ascending
  <2> QED
    BY <2>2, <2>3, <1>3 DEF AllInOrder, InOrder
<1>12. \A t \in ToSet(Inherited) : \A u \in ToSet(Inherited) : NotNewer(t, u)
  BY <1>9 DEF NotNewer
<1>13. StoreGood(Disk)
  <2>1. Ordered(Disk)
    <3>1. \A a, b \in LevelSet : a < b => b # 0
      BY DEF LevelSet
    <3> QED
      BY <3>1, <1>6, <1>7 DEF Ordered
  <2>2. Aged(Disk[0])
    BY <1>3, <1>6, <1>7, <1>12 DEF Aged
  <2>3. \A l \in LevelSet \ {0} : Apart(Disk[l]) /\ NoHead(Disk[l])
    BY <1>6, <1>7 DEF Apart, NoHead
  <2> QED
    BY <2>1, <2>2, <2>3 DEF StoreGood
<1>14. Latest(Disk, durable)
  <2>1. All(Disk) = ToSet(Inherited)
    BY <1>3, <1>6, <1>7 DEF All
  <2>2. SUFFICES ASSUME NEW k \in UserKeys
                 PROVE  IsNewest(ToSet(Inherited), k, durable[k])
    BY <2>1 DEF Latest
  <2>3. durable[k] = IF k \in OpenedWith THEN 1 ELSE 0
    BY <2>2, <1>4, UserKeyIs
  <2> QED
    BY <2>3, <1>9 DEF IsNewest
<1>15. DiskGood
  BY <1>1, <1>13, <1>14, IdsAre DEF DiskGood
<1>16. Opened
  BY <1>2, <1>4, <1>8, <1>10, <1>11, <1>15 DEF Opened
<1> QED
  BY <1>16, OpenedInv

(* Every step of the one worker keeps the invariant. *)
LEMMA WorkerKeeps ==
  ASSUME LInv, SInv, OneWorker, NoSingles, WorkerStep(Worker)
  PROVE  SInv'
<1>1. CASE Tick(Worker) \/ SanityPanics(Worker) \/ LockThis(Worker) \/ SlicePanics(Worker)
  BY <1>1, RestActions
<1>2. CASE NothingToCompact(Worker)
  BY <1>2, RestActions DEF NothingToCompact
<1>3. CASE BuildFails(Worker) \/ BuildPanics(Worker) \/ ManifestRefuses(Worker)
  BY <1>3, RestActions
<1>4. CASE LockNext(Worker)
  BY <1>4, LockNextStep
<1>5. CASE SearchLeft(Worker)
  BY <1>5, SearchLeftStep
<1>6. CASE SearchRight(Worker)
  BY <1>6, SearchRightStep
<1>7. CASE FillTables(Worker)
  BY <1>7, FillTablesStep
<1>8. CASE Refused(Worker)
  BY <1>8, RefusedStep
<1>9. CASE Build(Worker)
  BY <1>9, BuildStep
<1>10. CASE WriteManifest(Worker)
  BY <1>10, WriteManifestStep
<1>11. CASE ReplaceNext(Worker)
  BY <1>11, ReplaceNextStep
<1>12. CASE DeleteThis(Worker)
  BY <1>12, DeleteThisStep
<1>13. CASE Finish(Worker)
  BY <1>13, FinishStep
<1> QED
  BY <1>1, <1>2, <1>3, <1>4, <1>5, <1>6, <1>7, <1>8, <1>9, <1>10, <1>11, <1>12, <1>13
    DEF WorkerStep

(* A step that changes nothing *)
LEMMA StutterKeeps ==
  ASSUME SInv, UNCHANGED vars
  PROVE  SInv'
<1>1. UNCHANGED <<tables, at, cd, manifest, files, flusher, visible, durable, flushes>>
  BY DEF vars
<1>2. Lists' = Lists /\ Disk' = Disk /\ Pending' = Pending
  BY <1>1 DEF Lists, Disk, OnDisk, Pending
<1> QED
  BY <1>1, <1>2 DEF SInv, VersionsOK, SortedOK, OrderOK, DiskGood, DiskMatches, FlushOK, WorkerOK

(* SInv is inductive. *)
LEMMA SStep ==
  ASSUME OneWorker
  PROVE  LInv /\ SInv /\ NoSingles /\ [Next]_vars => SInv'
<1> SUFFICES ASSUME LInv, SInv, NoSingles, [Next]_vars
             PROVE  SInv'
  OBVIOUS
<1>1. CASE \E w \in Workers : WorkerStep(w)
  BY <1>1, WorkerIs, WorkerKeeps
<1>2. CASE \E ks \in FlushKeySets : Flush(ks)
  BY <1>2, FlushStep
<1>3. CASE FlusherStep
  BY <1>3, LogTableStep, TryAddStep, WaitStep DEF FlusherStep
<1>4. CASE (\E k \in ReadKeys : StartGet(k)) \/ GetLevel
  BY <1>4, WaitStep
<1>5. CASE Reopen
  BY <1>5, ReopenStep
<1>6. CASE UNCHANGED vars
  BY <1>6, StutterKeeps
<1> QED
  BY <1>1, <1>2, <1>3, <1>4, <1>5, <1>6 DEF Next

(* SInv is an invariant of the specification. *)
LEMMA SInvariant ==
  ASSUME OneWorker
  PROVE  Spec /\ []NoSingles => []SInv
<1>1. Init => SInv
  BY InitSInv
<1>2. LInv /\ SInv /\ NoSingles /\ [Next]_vars => SInv'
  BY SStep
<1> QED
  BY <1>1, <1>2, LInvariant, PTL DEF Spec

-----------------------------------------------------------------------------
(***************************************************************************)
(* Readers.                                                                *)
(***************************************************************************)

(* No record of a user key is lost or gets older as tables move down the levels. *)
Sinks(L, R) ==
  \A c \in LevelSet : \A t \in L[c] : \A k \in TableKeys(t) \cap UserKeys :
    \E b \in LevelSet : c <= b /\ \E u \in R[b] : k \in TableKeys(u) /\ u.kv[k] >= t.kv[k]

(* A get that is under way finds what it would have found. *)
LEMMA ReaderKept ==
  ASSUME LInv, LInv', ReaderOK, UNCHANGED reader, Sinks(Lists, Lists')
  PROVE  ReaderOK'
<1>1. CASE reader = [at |-> "idle", missed |-> FALSE]
  BY <1>1 DEF ReaderOK
<1>2. CASE /\ reader \in [at : {"busy"}, key : UserKeys, done : LevelSet, floor : Nat]
           /\ reader.floor > 0 =>
                \E l \in LevelSet : reader.done <= l /\
                   \E t \in Lists[l] :
                     reader.key \in TableKeys(t) /\ t.kv[reader.key] >= reader.floor
  <2>1. PICK k \in UserKeys, n \in LevelSet, f \in Nat :
          k = reader.key /\ n = reader.done /\ f = reader.floor
    BY <1>2
  <2>2. ASSUME f > 0
        PROVE  \E l \in LevelSet : n <= l /\ \E t \in Lists'[l] : k \in TableKeys(t) /\ t.kv[k] >= f
    <3>a. PICK l \in LevelSet :
            n <= l /\ \E t \in Lists[l] : k \in TableKeys(t) /\ t.kv[k] >= f
      BY <1>2, <2>1, <2>2
    <3>1. PICK t \in Lists[l] : n <= l /\ k \in TableKeys(t) /\ t.kv[k] >= f
      BY <3>a
    <3>b. PICK b \in LevelSet :
            l <= b /\ \E u \in Lists'[b] : k \in TableKeys(u) /\ u.kv[k] >= t.kv[k]
      BY <3>1, <2>1 DEF Sinks
    <3>2. PICK u \in Lists'[b] : l <= b /\ k \in TableKeys(u) /\ u.kv[k] >= t.kv[k]
      BY <3>b
    <3>3. t \in AnyTable /\ u \in AnyTable
      BY <3>1, <3>2, StoresNow, StoresNext DEF Stores
    <3>4. t.kv[k] \in Nat /\ u.kv[k] \in Nat
      BY <3>1, <3>2, <3>3, TableFacts
    <3>5. n \in Int /\ l \in Int /\ b \in Int
      BY DEF LevelSet
    <3>6. n <= b /\ u.kv[k] >= f
      BY <3>1, <3>2, <3>4, <3>5
    <3> QED
      BY <3>2, <3>6
  <2> QED
    BY <1>2, <2>1, <2>2 DEF ReaderOK
<1> QED
  BY <1>1, <1>2 DEF ReaderOK

(* Lists that only grow *)
LEMMA GrowsSinks ==
  ASSUME NEW L \in Stores, NEW R \in Stores, \A l \in LevelSet : L[l] \subseteq R[l]
  PROVE  Sinks(L, R)
<1>1. SUFFICES ASSUME NEW c \in LevelSet, NEW t \in L[c], NEW k \in TableKeys(t) \cap UserKeys
               PROVE  c <= c /\ t \in R[c] /\ k \in TableKeys(t) /\ t.kv[k] >= t.kv[k]
  BY DEF Sinks
<1>2. t \in AnyTable /\ c \in Int
  BY <1>1 DEF Stores, LevelSet
<1>3. t.kv[k] \in Nat
  BY <1>2, TableFacts
<1> QED
  BY <1>1, <1>2, <1>3

(* The merged tables of the next level are covered there, those of this level below. *)
LEMMA CompactionSinks ==
  ASSUME LInv, SInv, OneWorker, NoSingles, ReplaceNext(Worker) \/ DeleteThis(Worker)
  PROVE  Sinks(Lists, Lists')
<1>0. LInv'
  BY ListInv, WorkerIs
<1>1. PICK d \in CompactDefs : d = cd[Worker]
  BY WorkerTypes
<1>2. /\ d.level \in LevelSet /\ d.level \in Nat /\ d.level + 1 \in LevelSet
      /\ d.level # d.level + 1 /\ d.level <= d.level + 1 /\ d.level + 1 <= d.level + 1
  BY <1>1, WorkerTypes
<1>3. PICK L \in Stores, R \in Stores : L = Lists /\ R = Lists'
  BY <1>0, StoresNow, StoresNext
<1>4. PICK top, bot, new : top = ToSet(d.top) /\ bot = ToSet(d.bot) /\ new = ToSet(d.new)
  OBVIOUS
<1>5. \A c \in LevelSet, t \in AnyTable : \A k \in TableKeys(t) : c <= c /\ t.kv[k] >= t.kv[k]
  <2>1. \A c \in LevelSet : c \in Int
    BY DEF LevelSet
  <2> QED
    BY <2>1, TableFacts
<1>6. CASE ReplaceNext(Worker)
  <2>1. PICK q : q = ReplaceTables(tables[d.level + 1], d.new)
    OBVIOUS
  <2>2. at[Worker] = "replace" /\ Relisted(d.level + 1, q)
    BY <1>1, <1>6, <2>1 DEF ReplaceNext, Relisted
  <2>3. ToSet(q) = (L[d.level + 1] \ bot) \cup new
    BY <1>1, <1>3, <1>4, <2>1, <2>2, ReplaceEffect
  <2>4. \A l \in LevelSet : R[l] = IF l = d.level + 1 THEN (L[l] \ bot) \cup new ELSE L[l]
    <3>1. PICK c \in LevelSet : c = d.level + 1
      BY <1>2
    <3>2. Relisted(c, q)
      BY <3>1, <2>2
    <3>3. \A l \in LevelSet : Lists'[l] = IF l = c THEN ToSet(q) ELSE Lists[l]
      BY <3>2, ListChanged
    <3> QED
      BY <3>1, <3>3, <1>3, <2>3
  <2>5. Covers(bot, new)
    BY <1>1, <1>4, <2>2 DEF SInv, WorkerOK, WorkerGood, Merged, NewOK, Covers
  <2>6. ASSUME NEW c \in LevelSet, NEW t \in L[c], NEW k \in TableKeys(t) \cap UserKeys
        PROVE  \E b \in LevelSet : c <= b /\ \E u \in R[b] : k \in TableKeys(u) /\ u.kv[k] >= t.kv[k]
    <3>1. t \in AnyTable
      BY <2>6 DEF Stores
    <3>2. CASE t \in R[c]
      BY <3>1, <3>2, <2>6, <1>5
    <3>3. CASE t \notin R[c]
      <4>1. c = d.level + 1 /\ t \in bot /\ new \subseteq R[c]
        BY <3>3, <2>4, <2>6
      <4>2. \E u \in new : k \in TableKeys(u) /\ u.kv[k] >= t.kv[k]
        BY <4>1, <2>5, <2>6 DEF Covers
      <4>3. \E u \in R[c] : k \in TableKeys(u) /\ u.kv[k] >= t.kv[k]
        BY <4>1, <4>2
      <4>4. c <= c
        BY <4>1, <1>2
      <4> QED
        BY <4>3, <4>4
    <3> QED
      BY <3>2, <3>3
  <2> QED
    BY <2>6, <1>3 DEF Sinks
<1>7. CASE DeleteThis(Worker)
  <2>1. PICK q, c, p : q = DeleteTables(p, Ids(d.top)) /\ c = d.level /\ p = tables[c]
    OBVIOUS
  <2>2. at[Worker] = "delete" /\ Relisted(c, q)
    BY <1>1, <1>7, <2>1 DEF DeleteThis, Relisted
  <2>3. Ids(d.top) = {t.id : t \in top}
    BY <1>4, IdsAre
  <2>4. p \in Seq(AnyTable) /\ ToSet(p) = L[c] /\ L[c] \subseteq All(L)
    BY <1>2, <1>3, <2>1, StoreTypes
  <2>5. UniqueIds(ToSet(p) \cup top)
    BY <1>1, <1>3, <1>4, <2>4, TableTypes DEF UniqueIds, TablesIn
  <2>6. ToSet(q) = L[c] \ top
    <3>1. ToSet(DeleteTables(p, {t.id : t \in top})) = ToSet(p) \ top
      BY <2>4, <2>5, DeletesGiven
    <3> QED
      BY <3>1, <2>1, <2>3, <2>4
  <2>7. \A l \in LevelSet : R[l] = IF l = c THEN L[l] \ top ELSE L[l]
    <3>1. c \in LevelSet
      BY <1>2, <2>1
    <3>2. \A l \in LevelSet : Lists'[l] = IF l = c THEN ToSet(q) ELSE Lists[l]
      BY <3>1, <2>2, ListChanged
    <3> QED
      BY <3>2, <2>6, <1>3
  <2>8. Covers(top, L[d.level + 1])
    BY <1>1, <1>3, <1>4, <2>2 DEF SInv, WorkerOK, WorkerGood, Deletable, Lists
  <2>9. ASSUME NEW a \in LevelSet, NEW t \in L[a], NEW k \in TableKeys(t) \cap UserKeys
        PROVE  \E b \in LevelSet : a <= b /\ \E u \in R[b] : k \in TableKeys(u) /\ u.kv[k] >= t.kv[k]
    <3>1. t \in AnyTable
      BY <2>9 DEF Stores
    <3>2. CASE t \in R[a]
      BY <3>1, <3>2, <2>9, <1>5
    <3>3. CASE t \notin R[a]
      <4>1. a = d.level /\ t \in top /\ R[d.level + 1] = L[d.level + 1]
        BY <3>3, <2>1, <2>7, <2>9, <1>2
      <4>2. \E u \in R[d.level + 1] : k \in TableKeys(u) /\ u.kv[k] >= t.kv[k]
        BY <4>1, <2>8, <2>9 DEF Covers
      <4> QED
        BY <4>1, <4>2, <1>2
    <3> QED
      BY <3>2, <3>3
  <2> QED
    BY <2>9, <1>3 DEF Sinks
<1> QED
  BY <1>6, <1>7

(* StartGet: the newest version there is, or none, is ahead. *)
LEMMA StartGetStep ==
  ASSUME LInv, SInv, NEW k \in UserKeys, StartGet(k)
  PROVE  ReaderOK'
<1>1. PICK f \in Nat : f = visible[k]
  BY UserKeyIs DEF SInv, VersionsOK
<1>2. UNCHANGED tables /\ reader' = [at |-> "busy", key |-> k, done |-> 0, floor |-> f]
  BY <1>1 DEF StartGet, levelVars
<1>3. 0 \in LevelSet /\ \A l \in LevelSet : 0 <= l
  BY MaxLevelsAssumption DEF LevelSet
<1>4. ASSUME f > 0
      PROVE  \E l \in LevelSet : 0 <= l /\ \E t \in Lists[l] : k \in TableKeys(t) /\ t.kv[k] >= f
  <2>1. IsNewest(All(Lists), k, f)
    BY <1>1 DEF SInv, OrderOK, Latest
  <2>2. PICK t \in All(Lists) : k \in TableKeys(t) /\ t.kv[k] = f
    BY <1>4, <2>1 DEF IsNewest
  <2>3. t.kv[k] >= f
    BY <2>2
  <2> QED
    BY <2>2, <2>3, <1>3 DEF All
<1>5. Lists' = Lists
  BY <1>2 DEF Lists
<1> QED
  BY <1>2, <1>3, <1>4, <1>5 DEF ReaderOK

(* GetLevel: what the level has is new enough, or that is still ahead. *)
LEMMA GetLevelStep ==
  ASSUME LInv, SInv, OneWorker, ReaderOK, GetLevel
  PROVE  ReaderOK'
<1>1. reader.at = "busy"
  BY DEF GetLevel
<1>2. PICK k \in UserKeys, n \in LevelSet, f \in Nat :
        /\ reader = [at |-> "busy", key |-> k, done |-> n, floor |-> f]
        /\ f > 0 => \E l \in LevelSet : n <= l /\
                      \E t \in Lists[l] : k \in TableKeys(t) /\ t.kv[k] >= f
  BY <1>1 DEF ReaderOK
<1>3. n \in Int /\ n + 1 \in 1 .. MaxLevels /\ SearchOrder[n + 1] = n /\ k \in Keys
  BY UserKeyIs, MaxLevelsAssumption DEF LevelSet, SearchOrder
<1>4. PICK s : s = tables[n]
  OBVIOUS
<1>5. s \in Seq(AnyTable) /\ InOrder(n, s) /\ ToSet(s) = Lists[n]
  BY <1>4, StoreTypes DEF SInv, SortedOK, AllInOrder, Lists, Sets
<1>6. PICK v \in Nat : v = LevelGet(n, s, k) /\ IsNewest(Lists[n], k, v)
  BY <1>3, <1>5, LevelGetNewest
<1>7. /\ UNCHANGED tables
      /\ reader' = IF v # 0 \/ n + 1 = MaxLevels
                   THEN [at |-> "idle", missed |-> v < f]
                   ELSE [at |-> "busy", key |-> k, done |-> n + 1, floor |-> f]
  BY <1>2, <1>3, <1>4, <1>6 DEF GetLevel, levelVars
<1>8. Lists' = Lists
  BY <1>7 DEF Lists
<1>9. Lists \in Stores /\ \A t \in All(Lists) : \A j \in TableKeys(t) : t.kv[j] \in Nat /\ t.kv[j] # 0
  <2>1. \A t \in All(Lists) : \A j \in TableKeys(t) : t.kv[j] \in 1 .. flushes
    BY DEF SInv, VersionsOK
  <2>2. Lists \in Stores
    BY StoresNow
  <2>3. All(Lists) \in SUBSET AnyTable
    BY <2>2 DEF Stores, All
  <2> QED
    BY <2>1, <2>2, <2>3, TableFacts
(* Unless the version is found, it is further down. *)
<1>10. ASSUME f > 0, v < f
       PROVE  v = 0 /\ \E l \in LevelSet : n + 1 <= l /\
                         \E t \in Lists[l] : k \in TableKeys(t) /\ t.kv[k] >= f
  <2>1. PICK l \in LevelSet : n <= l /\ \E t \in Lists[l] : k \in TableKeys(t) /\ t.kv[k] >= f
    BY <1>2, <1>10
  <2>2. PICK t \in Lists[l] : k \in TableKeys(t) /\ t.kv[k] >= f
    BY <2>1
  <2>3. t \in All(Lists) /\ t.kv[k] \in Nat
    BY <2>2, <1>9 DEF All
  <2>4. \A u \in Lists[n] : k \in TableKeys(u) => u.kv[k] \in Nat /\ u.kv[k] # 0 /\ u.kv[k] <= v
    BY <1>6, <1>9 DEF IsNewest, All
  <2>5. l # n
    BY <2>2, <2>3, <2>4, <1>10
  <2>6. l \in Int /\ n < l /\ n + 1 <= l
    BY <2>1, <2>5, <1>3 DEF LevelSet
  <2>7. \A u \in Lists[n] : k \notin TableKeys(u)
    <3>1. SUFFICES ASSUME NEW u \in Lists[n], k \in TableKeys(u)
                   PROVE  FALSE
      OBVIOUS
    <3>2. PICK x \in Lists[n] : k \in TableKeys(x) /\ t.kv[k] <= x.kv[k]
      BY <2>2, <2>6, <3>1, ListsLayered DEF Layered
    <3> QED
      BY <3>2, <2>2, <2>3, <2>4, <1>10
  <2>8. v = 0
    BY <2>7, <1>6 DEF IsNewest
  <2> QED
    BY <2>2, <2>6, <2>8
<1>11. CASE v # 0 \/ n + 1 = MaxLevels
  <2>1. ~ (v < f)
    <3>1. ASSUME v < f
          PROVE  FALSE
      <4>1. f > 0
        BY <3>1
      <4>2. n + 1 = MaxLevels
        BY <3>1, <4>1, <1>10, <1>11
      <4> QED
        BY <3>1, <4>1, <4>2, <1>10 DEF LevelSet
    <3> QED
      BY <3>1
  <2>2. PICK m : m = (v < f)
    OBVIOUS
  <2>3. (v < f) = FALSE
    BY <2>1
  <2>4. m = FALSE
    BY <2>2, <2>3, Zenon
  <2>5. reader' = [at |-> "idle", missed |-> m]
    BY <1>7, <1>11, <2>2, Zenon
  <2> QED
    BY <2>4, <2>5 DEF ReaderOK
<1>12. CASE v = 0 /\ n + 1 # MaxLevels
  <2>1. n + 1 \in LevelSet
    BY <1>12, <1>3, MaxLevelsAssumption DEF LevelSet
  <2>2. f > 0 => v < f
    BY <1>12
  <2>3. reader' = [at |-> "busy", key |-> k, done |-> n + 1, floor |-> f]
    BY <1>7, <1>12
  <2> QED
    BY <1>8, <1>10, <2>1, <2>2, <2>3 DEF ReaderOK
<1> QED
  BY <1>11, <1>12

(* Lists that stay as they are *)
LEMMA SameSinks ==
  ASSUME LInv, UNCHANGED tables
  PROVE  Sinks(Lists, Lists')
<1>1. Lists' = Lists /\ Lists \in Stores
  BY StoresNow DEF Lists
<1>2. \A l \in LevelSet : Lists[l] \subseteq Lists[l]
  OBVIOUS
<1> QED
  BY <1>1, <1>2, GrowsSinks

(* TryAdd *)
LEMMA TryAddSinks ==
  ASSUME LInv, LInv', TryAdd
  PROVE  Sinks(Lists, Lists')
<1>1. PICK t, q : t = flusher.table /\ q = Append(tables[0], t)
  OBVIOUS
<1>2. Relisted(0, q)
  BY <1>1 DEF TryAdd, Relisted
<1>3. 0 \in LevelSet
  BY MaxLevelsAssumption DEF LevelSet
<1>4. \A l \in LevelSet : Lists'[l] = IF l = 0 THEN ToSet(q) ELSE Lists[l]
  BY <1>2, <1>3, ListChanged
<1>5. Lists[0] \subseteq ToSet(q)
  <2>1. tables[0] \in Seq(AnyTable) /\ Lists[0] = ToSet(tables[0])
    BY <1>3, StoreTypes DEF Lists, Sets
  <2>2. PICK s \in Seq(AnyTable) : s = tables[0]
    BY <2>1
  <2>3. \A i \in DOMAIN s : i \in DOMAIN Append(s, t) /\ Append(s, t)[i] = s[i]
    OBVIOUS
  <2> QED
    BY <1>1, <2>1, <2>2, <2>3 DEF ToSet
<1>6. \A l \in LevelSet : Lists[l] \subseteq Lists'[l]
  BY <1>4, <1>5
<1> QED
  BY <1>6, StoresNow, StoresNext, GrowsSinks

(* ReaderOK is inductive, given SInv. *)
LEMMA ReaderStep ==
  ASSUME OneWorker, ReadKeys \subseteq UserKeys
  PROVE  LInv /\ SInv /\ NoSingles /\ ReaderOK /\ [Next]_vars => ReaderOK'
<1> SUFFICES ASSUME LInv, SInv, NoSingles, ReaderOK, [Next]_vars
             PROVE  ReaderOK'
  OBVIOUS
<1>1. LInv'
  BY StepInv
<1>2. CASE \E w \in Workers : WorkerStep(w)
  <2>1. WorkerStep(Worker)
    BY <1>2, WorkerIs
  <2>2. UNCHANGED reader
    BY <2>1 DEF WorkerStep, Tick, SanityPanics, LockThis, LockNext, NothingToCompact, ReturnFalse,
           SearchLeft, SearchRight, SlicePanics, FillTables, Refused, Build, BuildFails,
           BuildPanics, WriteManifest, ManifestRefuses, ReplaceNext, DeleteThis, Finish, clientVars
  <2>3. CASE ReplaceNext(Worker) \/ DeleteThis(Worker)
    BY <2>2, <2>3, <1>1, CompactionSinks, ReaderKept
  <2>4. CASE ~ (ReplaceNext(Worker) \/ DeleteThis(Worker))
    <3>1. UNCHANGED tables
      BY <2>1, <2>4 DEF WorkerStep, Tick, SanityPanics, LockThis, LockNext, NothingToCompact,
             ReturnFalse, SearchLeft, SearchRight, SlicePanics, FillTables, Refused, Build,
             BuildFails, BuildPanics, WriteManifest, ManifestRefuses, Finish, levelVars
    <3> QED
      BY <2>2, <3>1, <1>1, SameSinks, ReaderKept
  <2> QED
    BY <2>3, <2>4
<1>3. CASE TryAdd
  <2>1. UNCHANGED reader
    BY <1>3 DEF TryAdd
  <2> QED
    BY <1>1, <1>3, <2>1, TryAddSinks, ReaderKept
<1>4. CASE (\E ks \in FlushKeySets : Flush(ks)) \/ LogTable \/ Stall \/ Unstall \/ UNCHANGED vars
  <2>1. UNCHANGED reader /\ UNCHANGED tables
    BY <1>4 DEF Flush, LogTable, Stall, Unstall, vars, levelVars
  <2> QED
    BY <1>1, <2>1, SameSinks, ReaderKept
<1>5. CASE \E k \in ReadKeys : StartGet(k)
  BY <1>5, StartGetStep
<1>6. CASE GetLevel
  BY <1>6, GetLevelStep
<1>7. CASE Reopen
  BY <1>7 DEF Reopen, ReaderOK
<1> QED
  BY <1>2, <1>3, <1>4, <1>5, <1>6, <1>7 DEF Next, FlusherStep

-----------------------------------------------------------------------------
(***************************************************************************)
(* The theorems, for every set of keys, capacity, number of levels and     *)
(* size limits, one compaction worker, and as long as no table below       *)
(* level 0 has a single key.                                               *)
(***************************************************************************)

(***************************************************************************)
(* LevelHandlerInner: above level 0 the tables are always sorted by key    *)
(* range and apart; replace_tables, which finds the place of the new       *)
(* tables by searching again, and the sort of a restart keep it so.        *)
(***************************************************************************)
THEOREM SpecLevelsSorted ==
  ASSUME OneWorker
  PROVE  Spec /\ []NoSingles => []LevelsSorted
<1>1. LInv /\ SInv => LevelsSorted
  BY InvSorted
<1> QED
  BY <1>1, LInvariant, SInvariant, PTL

(***************************************************************************)
(* At every point of a compaction, failed or not, of a flush and of a      *)
(* restart, LevelsController::get of all levels at once finds the newest   *)
(* version of every user key that was added to level 0.                    *)
(***************************************************************************)
THEOREM SpecLookup ==
  ASSUME OneWorker
  PROVE  Spec /\ []NoSingles => []LookupIsLatest
<1>1. LInv /\ SInv => LookupIsLatest
  BY InvLookup
<1> QED
  BY <1>1, LInvariant, SInvariant, PTL

(***************************************************************************)
(* Whenever the process dies, LevelsController::new opens what is there:   *)
(* every file the manifest names exists, every level validates, and every  *)
(* version whose table add_changes had logged is found.                    *)
(***************************************************************************)
THEOREM SpecCrashSafe ==
  ASSUME OneWorker
  PROVE  Spec /\ []NoSingles => []CrashSafe
<1>1. LInv /\ SInv => CrashSafe
  BY InvCrash
<1> QED
  BY <1>1, LInvariant, SInvariant, PTL

(***************************************************************************)
(* add_changes never refuses the change set of run_compact_def: the tables *)
(* it deletes are in the manifest from the moment they are chosen.         *)
(***************************************************************************)
THEOREM SpecManifestAccepts ==
  ASSUME OneWorker
  PROVE  Spec /\ []NoSingles => []ManifestAccepts
<1>1. LInv /\ SInv => ManifestAccepts
  BY InvAccepts
<1> QED
  BY <1>1, LInvariant, SInvariant, PTL

(***************************************************************************)
(* The tables that replace_tables takes off the next level, which it looks *)
(* for by the range of the new tables, are those that were merged.         *)
(***************************************************************************)
THEOREM SpecReplacesMerged ==
  ASSUME OneWorker
  PROVE  Spec /\ []NoSingles => []ReplacesMerged
<1>1. LInv /\ SInv /\ NoSingles => ReplacesMerged
  BY InvReplaces
<1> QED
  BY <1>1, LInvariant, SInvariant, PTL

(***************************************************************************)
(* LevelsController::get, which locks one level at a time, never misses    *)
(* what was there when it started: run_compact_def replaces on the next    *)
(* level before it deletes from this one, and get looks from the top down. *)
(***************************************************************************)
THEOREM SpecReads ==
  ASSUME OneWorker, ReadKeys \subseteq UserKeys
  PROVE  Spec /\ []NoSingles => []ReadsNotStale
<1>1. Init => ReaderOK
  BY DEF Init, ReaderOK
<1>2. LInv /\ SInv /\ NoSingles /\ ReaderOK /\ [Next]_vars => ReaderOK'
  BY ReaderStep
<1>3. ReaderOK => ReadsNotStale
  BY DEF ReaderOK, ReadsNotStale
<1> QED
  BY <1>1, <1>2, <1>3, LInvariant, SInvariant, PTL DEF Spec
=============================================================================
