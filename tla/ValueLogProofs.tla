--------------------------- MODULE ValueLogProofs ---------------------------
(***************************************************************************)
(* Value pointers, counters, the room in the log and a clean shutdown, for *)
(* all batches that fit into a file, both values of sync_writes, and any   *)
(* number of writes, sessions, crashes and replays.                        *)
(***************************************************************************)
EXTENDS ValueLog, FiniteSetFacts

Pointers == [fid : Nat, off : Nat, len : Nat]
Values == [cas : Nat, ptr : Pointers]

(* A map of keys to values *)
IsStore(f) ==
  /\ f = [k \in DOMAIN f |-> f[k]]
  /\ \A k \in DOMAIN f : f[k] \in Values

TypeInv ==
  /\ syncWrites \in BOOLEAN /\ emptyKey \in BOOLEAN
  /\ spilled \in BOOLEAN /\ misread \in BOOLEAN /\ forgot \in BOOLEAN
  /\ phase \in {"down", "replay", "up"} /\ writer \in {"alive", "dead"}
  /\ fileLen \in Nat /\ maxFid \in Nat /\ woff \in Nat /\ rpos \in Nat /\ cas \in Nat
  /\ vptr \in Pointers /\ head \in Values
  /\ IsStore(mt) /\ IsStore(tables) /\ IsStore(acked)

(* The records of a log L; what they hold is bounded. *)
IsLog(L) ==
  /\ \A r \in L : r.off \in Nat /\ r.len \in Nat /\ r.len > 0 /\ r.cas \in Nat
  /\ \E n \in Nat : \A r \in L : r.cas <= n

(* No record of L is behind n. *)
Inside(L, n) == \A r \in L : r.off + r.len <= n

(* Where records end: the offset of the next one while the store is up. *)
End == IF phase = "up" THEN woff ELSE fileLen

(***************************************************************************)
(* The file.  Once the log was rotated max_fid names a file that is not    *)
(* there, and woff says nothing about the one that is.                     *)
(***************************************************************************)
FileInv ==
  /\ Inside(log, fileLen) /\ fileLen <= MapLen
  /\ phase # "down" => vlogs = {0}
  /\ phase = "replay" => maxFid = 0 /\ vptr = NoPtr /\ mt = Empty
  /\ phase = "up" => fileLen = MapLen
  /\ phase = "up" /\ maxFid = 0 => Inside(log, woff) /\ woff <= fileLen
  /\ writer = "alive" => phase = "up"
  /\ phase = "up" /\ writer = "dead" => spilled
  /\ ~ spilled => End <= FileSize /\ (phase = "up" => maxFid = 0)

(* The value pointers of f lead to the records of log L that they were made for. *)
Resolves(f, L) ==
  \A k \in DOMAIN f :
    f[k].ptr # NoPtr =>
      /\ f[k].ptr.fid = 0
      /\ \E r \in L : /\ r.off = f[k].ptr.off /\ r.len = f[k].ptr.len
                      /\ r.key = k /\ r.cas = f[k].cas

PointerInv == Resolves(mt, log) /\ Resolves(tables, log)

(* No counter in f is above n. *)
Below(f, n) == \A k \in DOMAIN f : f[k].cas <= n

(***************************************************************************)
(* The counter is ahead of the store while it is open, and so is the one   *)
(* in a stored head, of the tables.  With sync_writes a session that has   *)
(* something to flush has a pointer to store.                              *)
(***************************************************************************)
CasInv ==
  syncWrites =>
    /\ phase # "down" /\ vptr = NoPtr => mt = Empty
    /\ ~ forgot =>
         /\ head # NoHead => Below(tables, head.cas)
         /\ phase # "down" => head.cas <= cas /\ Below(tables, cas) /\ Below(mt, cas)

(* Something ends at n: a record, or the empty log. *)
Reached(L, n) == n = 0 \/ \E r \in L : r.off + r.len = n

(* The end of what p points to *)
Behind(p) == p.off + p.len

(***************************************************************************)
(* Without a rotation or a crash the log ends where the next record goes;  *)
(* a pointer of this session ends there, and a head of an earlier one as   *)
(* long as nothing was logged since.                                       *)
(***************************************************************************)
CleanInv ==
  ~ spilled =>
    /\ Inside(log, End) /\ Reached(log, End)
    /\ phase = "up" /\ vptr # NoPtr => Behind(vptr) = woff
    /\ ~ misread =>
         /\ ~ emptyKey
         /\ phase = "replay" => rpos = Behind(head.ptr)
         /\ head # NoHead /\ (phase # "up" \/ vptr = NoPtr) => Behind(head.ptr) = End
         /\ acked = IF phase = "up" THEN Store ELSE tables

IInv == TypeInv /\ IsLog(log) /\ FileInv /\ PointerInv /\ CasInv /\ CleanInv

-----------------------------------------------------------------------------
(* A bounded set of naturals has a maximum. *)
LEMMA BoundedMax ==
  ASSUME NEW S \in SUBSET Nat, S # {}, NEW n \in Nat, \A x \in S : x <= n
  PROVE  Max(S) \in S /\ \A x \in S : x <= Max(S)
<1> DEFINE T == {m \in Nat : (\E x \in S : x >= n - m) => \E x \in S : \A y \in S : x >= y}
<1>1. 0 \in T
  <2>1. ASSUME NEW x \in S, x >= n - 0
        PROVE  \A y \in S : x >= y
    BY <2>1
  <2> QED
    BY <2>1
<1>2. ASSUME NEW m \in T
      PROVE  m + 1 \in T
  <2>1. m \in Nat /\ m + 1 \in Nat
    OBVIOUS
  <2> SUFFICES ASSUME NEW x \in S, x >= n - (m + 1)
               PROVE  \E z \in S : \A y \in S : z >= y
    BY <2>1
  <2>2. CASE \E z \in S : z >= n - m
    BY <2>2
  <2>3. CASE \A z \in S : ~ (z >= n - m)
    <3>1. \A y \in S : x >= y
      BY <2>1, <2>3
    <3> QED
      BY <3>1
  <2> QED
    BY <2>2, <2>3
<1>3. n \in T
  <2>1. (\A m \in T : m + 1 \in T) /\ T \in SUBSET Nat
    BY <1>2
  <2> HIDE DEF T
  <2> QED
    BY <1>1, <2>1, SetInduction
<1>4. \E x \in S : \A y \in S : x >= y
  <2>1. \E x \in S : x >= n - n
    <3>1. PICK x \in S : TRUE
      OBVIOUS
    <3>2. x \in Nat /\ n - n = 0
      OBVIOUS
    <3>3. x >= n - n
      BY <3>2
    <3> QED
      BY <3>3
  <2> QED
    BY <1>3, <2>1
<1>5. Max(S) \in S /\ \A y \in S : Max(S) >= y
  BY <1>4 DEF Max
<1> QED
  BY <1>5

(* SumOf is zero at first and then grows by one length after the other. *)
LEMMA SumFacts ==
  ASSUME NEW lengths \in Seq(Nat)
  PROVE  /\ SumOf(lengths, 0) = 0
         /\ \A i \in 0 .. Len(lengths) : SumOf(lengths, i) \in Nat
         /\ \A i \in 1 .. Len(lengths) : SumOf(lengths, i) = SumOf(lengths, i - 1) + lengths[i]
<1> DEFINE n == Len(lengths)
           step == [i \in 1 .. n |-> [a \in Nat |-> a + lengths[i]]]
           Sums(f) == [i \in 0 .. n |-> IF i = 0 THEN 0 ELSE f[i - 1] + lengths[i]]
<1>1. n \in Nat /\ \A i \in 1 .. n : lengths[i] \in Nat
  OBVIOUS
<1>2. step \in [1 .. n -> [Nat -> Nat]]
  BY <1>1
<1>3. \A i \in 1 .. n : \A a \in Nat : step[i][a] = a + lengths[i]
  OBVIOUS
<1> HIDE DEF step, n
<1>4. PICK f : f \in [0 .. n -> Nat] /\ f[0] = 0 /\ \A i \in 1 .. n : f[i] = step[i][f[i - 1]]
  <2>1. \E f : Steps(f, n, Nat, 0, step)
    BY <1>1, <1>2, RecursionExists
  <2> QED
    BY <2>1 DEF Steps
<1>5. \A i \in 1 .. n : f[i] = f[i - 1] + lengths[i]
  <2> SUFFICES ASSUME NEW i \in 1 .. n
               PROVE  f[i] = f[i - 1] + lengths[i]
    OBVIOUS
  <2>1. f[i - 1] \in Nat
    BY <1>1, <1>4
  <2> QED
    BY <2>1, <1>3, <1>4
<1>6. f = Sums(f)
  <2>1. \A i \in 0 .. n : f[i] = Sums(f)[i]
    <3> SUFFICES ASSUME NEW i \in 0 .. n
                 PROVE  f[i] = IF i = 0 THEN 0 ELSE f[i - 1] + lengths[i]
      OBVIOUS
    <3>1. i # 0 => i \in 1 .. n
      BY <1>1
    <3> QED
      BY <3>1, <1>4, <1>5
  <2>2. f = [i \in 0 .. n |-> f[i]]
    BY <1>4
  <2>3. Sums(f) = [i \in 0 .. n |-> Sums(f)[i]]
    OBVIOUS
  <2> HIDE DEF Sums
  <2> QED
    BY <2>1, <2>2, <2>3, Zenon
<1> DEFINE sum == CHOOSE g : g = Sums(g)
<1>7. sum = Sums(sum)
  BY <1>6, Zenon
<1>8. \A i : SumOf(lengths, i) = sum[i]
  BY DEF SumOf, n
<1>9. /\ sum[0] = 0
      /\ \A i \in 1 .. n : sum[i] = sum[i - 1] + lengths[i]
  <2> HIDE DEF sum
  <2>1. \A i \in 0 .. n : Sums(sum)[i] = IF i = 0 THEN 0 ELSE sum[i - 1] + lengths[i]
    OBVIOUS
  <2> HIDE DEF Sums
  <2>2. \A i \in 0 .. n : sum[i] = IF i = 0 THEN 0 ELSE sum[i - 1] + lengths[i]
    BY <2>1, <1>7, Zenon
  <2>3. 0 \in 0 .. n /\ \A i \in 1 .. n : i \in 0 .. n /\ i # 0
    BY <1>1
  <2> QED
    BY <2>2, <2>3
<1> HIDE DEF sum, Sums
<1>10. \A i \in Nat : i <= n => sum[i] \in Nat
  <2> DEFINE S == {i \in Nat : i <= n => sum[i] \in Nat}
  <2>1. 0 \in S
    BY <1>9
  <2>2. ASSUME NEW i \in S
        PROVE  i + 1 \in S
    <3>0. i \in Nat /\ i + 1 \in Nat /\ (i <= n => sum[i] \in Nat)
      OBVIOUS
    <3> SUFFICES ASSUME i + 1 <= n
                 PROVE  sum[i + 1] \in Nat
      BY <3>0
    <3>1. i + 1 \in 1 .. n /\ (i + 1) - 1 = i /\ i <= n
      BY <3>0, <1>1
    <3>2. sum[i + 1] = sum[i] + lengths[i + 1]
      BY <3>1, <1>9
    <3> QED
      BY <3>0, <3>1, <3>2, <1>1
  <2>3. (\A i \in S : i + 1 \in S) /\ S \in SUBSET Nat
    BY <2>2
  <2>4. \A i \in Nat : i \in S
    <3> HIDE DEF S
    <3> QED
      BY <2>1, <2>3, SetInduction
  <2> QED
    BY <2>4
<1>11. \A i \in 0 .. n : sum[i] \in Nat
  BY <1>1, <1>10
<1> HIDE DEF n
<1>12. /\ SumOf(lengths, 0) = 0
       /\ \A i \in 0 .. n : SumOf(lengths, i) \in Nat
       /\ \A i \in 1 .. n : SumOf(lengths, i) = SumOf(lengths, i - 1) + lengths[i]
  BY <1>8, <1>9, <1>11, Zenon
<1> QED
  BY <1>12 DEF n

(* A sum does not fall. *)
LEMMA SumGrows ==
  ASSUME NEW lengths \in Seq(Nat), NEW i \in 0 .. Len(lengths)
  PROVE  \A j \in Nat : i <= j /\ j <= Len(lengths) => SumOf(lengths, i) <= SumOf(lengths, j)
<1> DEFINE n == Len(lengths)
           S == {j \in Nat : i <= j /\ j <= n => SumOf(lengths, i) <= SumOf(lengths, j)}
<1>0. /\ n \in Nat
      /\ \A h \in 0 .. n : SumOf(lengths, h) \in Nat
      /\ \A h \in 1 .. n : /\ lengths[h] \in Nat
                           /\ SumOf(lengths, h) = SumOf(lengths, h - 1) + lengths[h]
  BY SumFacts
<1> HIDE DEF n
<1>a. i \in 0 .. n
  BY DEF n
<1>1. 0 \in S
  BY <1>0, <1>a
<1>2. ASSUME NEW j \in S
      PROVE  j + 1 \in S
  <2>0. j \in Nat /\ j + 1 \in Nat /\ (i <= j /\ j <= n => SumOf(lengths, i) <= SumOf(lengths, j))
    OBVIOUS
  <2> SUFFICES ASSUME i <= j + 1, j + 1 <= n
               PROVE  SumOf(lengths, i) <= SumOf(lengths, j + 1)
    BY <2>0
  <2>1. CASE i = j + 1
    BY <2>1, <1>0, <1>a
  <2>2. CASE i <= j
    <3>1. j + 1 \in 1 .. n /\ (j + 1) - 1 = j /\ j <= n /\ j \in 0 .. n
      BY <2>0, <1>0
    <3>2. SumOf(lengths, i) <= SumOf(lengths, j) /\ SumOf(lengths, j) \in Nat /\ lengths[j + 1] \in Nat
      BY <2>0, <2>2, <3>1, <1>0
    <3>3. SumOf(lengths, j + 1) = SumOf(lengths, j) + lengths[j + 1] /\ SumOf(lengths, i) \in Nat
      BY <3>1, <1>0, <1>a
    <3> QED
      BY <3>2, <3>3
  <2> QED
    BY <2>0, <2>1, <2>2, <1>a
<1>3. (\A j \in S : j + 1 \in S) /\ S \in SUBSET Nat
  BY <1>2
<1>4. \A j \in Nat : j \in S
  <2> HIDE DEF S
  <2> QED
    BY <1>1, <1>3, SetInduction
<1> QED
  BY <1>4 DEF n

(* Shorter lengths have a smaller sum. *)
LEMMA SumLess ==
  ASSUME NEW a \in Seq(Nat), NEW b \in Seq(Nat), Len(a) = Len(b),
         \A i \in 1 .. Len(a) : a[i] <= b[i]
  PROVE  SumOf(a, Len(a)) <= SumOf(b, Len(a))
<1> DEFINE n == Len(a)
           S == {j \in Nat : j <= n => SumOf(a, j) <= SumOf(b, j)}
<1>0. /\ n \in Nat
      /\ \A h \in 0 .. n : SumOf(a, h) \in Nat /\ SumOf(b, h) \in Nat
      /\ \A h \in 1 .. n : /\ a[h] \in Nat /\ b[h] \in Nat /\ a[h] <= b[h]
                           /\ SumOf(a, h) = SumOf(a, h - 1) + a[h]
                           /\ SumOf(b, h) = SumOf(b, h - 1) + b[h]
      /\ SumOf(a, 0) = 0 /\ SumOf(b, 0) = 0
  BY SumFacts
<1> HIDE DEF n
<1>1. 0 \in S
  BY <1>0
<1>2. ASSUME NEW j \in S
      PROVE  j + 1 \in S
  <2>0. j \in Nat /\ j + 1 \in Nat /\ (j <= n => SumOf(a, j) <= SumOf(b, j))
    OBVIOUS
  <2> SUFFICES ASSUME j + 1 <= n
               PROVE  SumOf(a, j + 1) <= SumOf(b, j + 1)
    BY <2>0
  <2>1. j + 1 \in 1 .. n /\ (j + 1) - 1 = j /\ j <= n /\ j \in 0 .. n
    BY <2>0, <1>0
  <2>2. SumOf(a, j) <= SumOf(b, j) /\ SumOf(a, j) \in Nat /\ SumOf(b, j) \in Nat
    BY <2>0, <2>1, <1>0
  <2>3. /\ SumOf(a, j + 1) = SumOf(a, j) + a[j + 1] /\ SumOf(b, j + 1) = SumOf(b, j) + b[j + 1]
        /\ a[j + 1] \in Nat /\ b[j + 1] \in Nat /\ a[j + 1] <= b[j + 1]
    BY <2>1, <1>0
  <2> QED
    BY <2>2, <2>3
<1>3. (\A j \in S : j + 1 \in S) /\ S \in SUBSET Nat
  BY <1>2
<1>4. \A j \in Nat : j \in S
  <2> HIDE DEF S
  <2> QED
    BY <1>1, <1>3, SetInduction
<1> QED
  BY <1>0, <1>4 DEF n

(* Nothing is added behind the last length that is not zero. *)
LEMMA SumRest ==
  ASSUME NEW lengths \in Seq(Nat), NEW m \in 0 .. Len(lengths),
         \A i \in 1 .. Len(lengths) : i > m => lengths[i] = 0
  PROVE  SumOf(lengths, Len(lengths)) = SumOf(lengths, m)
<1> DEFINE n == Len(lengths)
           S == {j \in Nat : m <= j /\ j <= n => SumOf(lengths, j) = SumOf(lengths, m)}
<1>0. /\ n \in Nat
      /\ \A h \in 0 .. n : SumOf(lengths, h) \in Nat
      /\ \A h \in 1 .. n : /\ h > m => lengths[h] = 0
                           /\ SumOf(lengths, h) = SumOf(lengths, h - 1) + lengths[h]
  BY SumFacts
<1> HIDE DEF n
<1>a. m \in 0 .. n
  BY DEF n
<1>1. 0 \in S
  BY <1>0, <1>a
<1>2. ASSUME NEW j \in S
      PROVE  j + 1 \in S
  <2>0. j \in Nat /\ j + 1 \in Nat /\ (m <= j /\ j <= n => SumOf(lengths, j) = SumOf(lengths, m))
    OBVIOUS
  <2> SUFFICES ASSUME m <= j + 1, j + 1 <= n
               PROVE  SumOf(lengths, j + 1) = SumOf(lengths, m)
    BY <2>0
  <2>1. CASE m = j + 1
    BY <2>1
  <2>2. CASE m <= j
    <3>1. j + 1 \in 1 .. n /\ (j + 1) - 1 = j /\ j <= n /\ j \in 0 .. n /\ j + 1 > m
      BY <2>0, <2>2, <1>0, <1>a
    <3>2. SumOf(lengths, j) = SumOf(lengths, m) /\ SumOf(lengths, j) \in Nat
      BY <2>0, <2>2, <3>1, <1>0
    <3>3. SumOf(lengths, j + 1) = SumOf(lengths, j) + lengths[j + 1] /\ lengths[j + 1] = 0
      BY <3>1, <1>0
    <3> QED
      BY <3>2, <3>3
  <2> QED
    BY <2>0, <2>1, <2>2, <1>a
<1>3. (\A j \in S : j + 1 \in S) /\ S \in SUBSET Nat
  BY <1>2
<1>4. \A j \in Nat : j \in S
  <2> HIDE DEF S
  <2> QED
    BY <1>1, <1>3, SetInduction
<1> QED
  BY <1>0, <1>4, <1>a DEF n

-----------------------------------------------------------------------------
(* The entries of a batch *)
LEMMA BatchEntries ==
  ASSUME NEW b \in Batches
  PROVE  /\ Len(b) \in Nat /\ DOMAIN b = 1 .. Len(b)
         /\ \A i \in 1 .. Len(b) : b[i].big \in BOOLEAN /\ Length(b[i]) \in {1, 2}
<1>1. b \in Seq({b[i] : i \in DOMAIN b}) /\ \A i \in DOMAIN b : b[i].big \in BOOLEAN
  BY BatchAssumption
<1>2. Len(b) \in Nat /\ DOMAIN b = 1 .. Len(b)
  BY <1>1
<1> QED
  BY <1>1, <1>2 DEF Length

(***************************************************************************)
(* Where the entries of a batch that are logged lie in the buffer: one     *)
(* behind the other, the last one up to its end, all within a file size.   *)
(***************************************************************************)
LEMMA BufferFacts ==
  ASSUME NEW b \in Batches, syncWrites \in BOOLEAN
  PROVE  /\ LoggedIn(b) \in SUBSET (1 .. Len(b))
         /\ Before(b, Len(b) + 1) \in Nat /\ Before(b, Len(b) + 1) <= FileSize
         /\ \A i \in 1 .. Len(b) : Before(b, i) \in Nat
         /\ \A i \in LoggedIn(b) : Before(b, i) + Length(b[i]) <= Before(b, Len(b) + 1)
         /\ LoggedIn(b) = {} => Before(b, Len(b) + 1) = 0
         /\ LoggedIn(b) # {} =>
              /\ Max(LoggedIn(b)) \in LoggedIn(b)
              /\ LET m == Max(LoggedIn(b))
                 IN  Before(b, m) + Length(b[m]) = Before(b, Len(b) + 1)
<1> DEFINE n == Len(b)
           all == [i \in 1 .. Len(b) |-> Length(b[i])]
           lens == [j \in 1 .. Len(b) |-> IF Logged(b[j]) THEN Length(b[j]) ELSE 0]
<1>1. n \in Nat /\ DOMAIN b = 1 .. n /\ \A i \in 1 .. n : Length(b[i]) \in {1, 2}
  BY BatchEntries
<1>2. all \in Seq(Nat) /\ Len(all) = n /\ lens \in Seq(Nat) /\ Len(lens) = n
  <2>1. all \in [1 .. n -> Nat] /\ lens \in [1 .. n -> Nat]
    BY <1>1
  <2> QED
    BY <2>1, <1>1
<1>3. \A i \in 1 .. n : /\ i \in LoggedIn(b) => lens[i] = Length(b[i])
                        /\ i \notin LoggedIn(b) => lens[i] = 0
                        /\ lens[i] <= all[i]
  BY <1>1 DEF LoggedIn
<1>4. SumOf(all, n) <= FileSize
  BY BatchAssumption
<1>5. \A i : Before(b, i) = SumOf(lens, i - 1)
  BY DEF Before
<1>6. LoggedIn(b) \in SUBSET (1 .. n)
  BY <1>1 DEF LoggedIn
<1> HIDE DEF all, lens, n
<1>7. /\ SumOf(lens, 0) = 0
      /\ \A i \in 0 .. n : SumOf(lens, i) \in Nat
      /\ \A i \in 1 .. n : SumOf(lens, i) = SumOf(lens, i - 1) + lens[i]
  BY <1>2, SumFacts
<1>8. SumOf(lens, n) <= FileSize
  <2>1. SumOf(lens, n) <= SumOf(all, n)
    BY <1>2, <1>3, SumLess
  <2>2. SumOf(all, n) \in Nat /\ SumOf(lens, n) \in Nat
    BY <1>1, <1>2, <1>7, SumFacts
  <2> QED
    BY <2>1, <2>2, <1>4, BoundsAssumption
<1>9. Before(b, n + 1) = SumOf(lens, n) /\ SumOf(lens, n) \in Nat
  <2>1. (n + 1) - 1 = n
    BY <1>1
  <2> QED
    BY <2>1, <1>1, <1>5, <1>7
<1>10. \A i \in 1 .. n : Before(b, i) \in Nat /\ Before(b, i) + lens[i] = SumOf(lens, i)
  <2> SUFFICES ASSUME NEW i \in 1 .. n
               PROVE  Before(b, i) \in Nat /\ Before(b, i) + lens[i] = SumOf(lens, i)
    OBVIOUS
  <2>1. i - 1 \in 0 .. n
    BY <1>1
  <2> QED
    BY <2>1, <1>5, <1>7
<1>11. ASSUME NEW i \in LoggedIn(b)
       PROVE  Before(b, i) + Length(b[i]) <= SumOf(lens, n)
  <2>1. i \in 1 .. n /\ lens[i] = Length(b[i])
    BY <1>3, <1>6
  <2>2. i \in 0 .. Len(lens) /\ n \in Nat /\ i <= n /\ n <= Len(lens)
    BY <2>1, <1>1, <1>2
  <2>3. SumOf(lens, i) <= SumOf(lens, n)
    BY <2>2, <1>2, SumGrows
  <2> QED
    BY <2>1, <2>3, <1>10
<1>12. ASSUME LoggedIn(b) = {}
       PROVE  SumOf(lens, n) = 0
  <2>1. 0 \in 0 .. Len(lens) /\ \A i \in 1 .. Len(lens) : i > 0 => lens[i] = 0
    BY <1>1, <1>2, <1>3, <1>12
  <2>2. SumOf(lens, Len(lens)) = SumOf(lens, 0)
    BY <2>1, <1>2, SumRest
  <2> QED
    BY <2>2, <1>2, <1>7
<1>13. ASSUME LoggedIn(b) # {}
       PROVE  /\ Max(LoggedIn(b)) \in LoggedIn(b)
              /\ Before(b, Max(LoggedIn(b))) + Length(b[Max(LoggedIn(b))]) = SumOf(lens, n)
  <2>1. PICK m : m = Max(LoggedIn(b))
    OBVIOUS
  <2>2. LoggedIn(b) \in SUBSET Nat /\ \A x \in LoggedIn(b) : x <= n
    BY <1>1, <1>6
  <2>3. m \in LoggedIn(b) /\ \A x \in LoggedIn(b) : x <= m
    BY <2>1, <2>2, <1>1, <1>13, BoundedMax
  <2>4. m \in 1 .. n /\ lens[m] = Length(b[m])
    BY <2>3, <1>3, <1>6
  <2>5. m \in 0 .. Len(lens) /\ \A i \in 1 .. Len(lens) : i > m => lens[i] = 0
    BY <2>2, <2>3, <2>4, <1>1, <1>2, <1>3
  <2>6. SumOf(lens, Len(lens)) = SumOf(lens, m)
    BY <2>5, <1>2, SumRest
  <2> QED
    BY <2>1, <2>3, <2>4, <2>6, <1>2, <1>10
<1> QED
  BY <1>6, <1>8, <1>9, <1>10, <1>11, <1>12, <1>13 DEF n

-----------------------------------------------------------------------------
(* The empty map *)
LEMMA EmptyFacts ==
  /\ IsStore(Empty) /\ DOMAIN Empty = {}
  /\ \A f : IsStore(f) => Over(Empty, f) = f /\ (DOMAIN f = {} => f = Empty)
<1>1. IsStore(Empty) /\ DOMAIN Empty = {}
  BY DEF IsStore, Empty
<1>2. ASSUME NEW f, IsStore(f)
      PROVE  Over(Empty, f) = f /\ (DOMAIN f = {} => f = Empty)
  <2>1. f = [k \in DOMAIN f |-> f[k]]
    BY <1>2 DEF IsStore
  <2>2. Over(Empty, f) = [k \in DOMAIN f |-> f[k]]
    BY <1>1 DEF Over
  <2>3. DOMAIN f = {} => f = Empty
    BY <2>1 DEF Empty
  <2> QED
    BY <2>1, <2>2, <2>3
<1> QED
  BY <1>1, <1>2

(* One map over another *)
LEMMA OverFacts ==
  ASSUME NEW f, NEW g
  PROVE  /\ DOMAIN Over(f, g) = DOMAIN f \cup DOMAIN g
         /\ \A k \in DOMAIN f : Over(f, g)[k] = f[k]
         /\ \A k \in DOMAIN g : k \notin DOMAIN f => Over(f, g)[k] = g[k]
         /\ IsStore(f) /\ IsStore(g) => IsStore(Over(f, g))
<1>1. PICK h : h = Over(f, g)
  OBVIOUS
<1>2. h = [k \in DOMAIN f \cup DOMAIN g |-> IF k \in DOMAIN f THEN f[k] ELSE g[k]]
  BY <1>1 DEF Over
<1>3. /\ DOMAIN h = DOMAIN f \cup DOMAIN g
      /\ \A k \in DOMAIN f : h[k] = f[k]
      /\ \A k \in DOMAIN g : k \notin DOMAIN f => h[k] = g[k]
      /\ h = [k \in DOMAIN h |-> h[k]]
  BY <1>2
<1>4. IsStore(f) /\ IsStore(g) => IsStore(h)
  BY <1>3 DEF IsStore
<1> QED
  BY <1>1, <1>3, <1>4

(* What holds of two maps holds of one over the other. *)
LEMMA OverKeeps ==
  ASSUME NEW f, NEW g, NEW L, NEW n
  PROVE  /\ Resolves(f, L) /\ Resolves(g, L) => Resolves(Over(f, g), L)
         /\ Below(f, n) /\ Below(g, n) => Below(Over(f, g), n)
<1>1. PICK h : h = Over(f, g)
  OBVIOUS
<1>2. /\ DOMAIN h = DOMAIN f \cup DOMAIN g
      /\ \A k \in DOMAIN f : h[k] = f[k]
      /\ \A k \in DOMAIN g : k \notin DOMAIN f => h[k] = g[k]
  BY <1>1 DEF Over
<1>3. ASSUME NEW k \in DOMAIN h
      PROVE  (k \in DOMAIN f /\ h[k] = f[k]) \/ (k \in DOMAIN g /\ h[k] = g[k])
  BY <1>2
<1>4. Resolves(f, L) /\ Resolves(g, L) => Resolves(h, L)
  BY <1>3 DEF Resolves
<1>5. Below(f, n) /\ Below(g, n) => Below(h, n)
  BY <1>3 DEF Below
<1> QED
  BY <1>1, <1>4, <1>5

(* Putting a batch into the memtable is putting it into the store. *)
LEMMA OverOver ==
  ASSUME NEW f, NEW g, NEW h
  PROVE  Over(Over(f, g), h) = Over(f, Over(g, h))
<1>1. PICK fg, gh : fg = Over(f, g) /\ gh = Over(g, h)
  OBVIOUS
<1>2. /\ DOMAIN fg = DOMAIN f \cup DOMAIN g /\ DOMAIN gh = DOMAIN g \cup DOMAIN h
      /\ \A k \in DOMAIN f : fg[k] = f[k]
      /\ \A k \in DOMAIN g : k \notin DOMAIN f => fg[k] = g[k]
      /\ \A k \in DOMAIN g : gh[k] = g[k]
      /\ \A k \in DOMAIN h : k \notin DOMAIN g => gh[k] = h[k]
  BY <1>1 DEF Over
<1>3. DOMAIN fg \cup DOMAIN h = DOMAIN f \cup DOMAIN gh
  BY <1>2
<1>4. \A k \in DOMAIN fg \cup DOMAIN h :
        (IF k \in DOMAIN fg THEN fg[k] ELSE h[k]) = IF k \in DOMAIN f THEN f[k] ELSE gh[k]
  BY <1>2
<1>5. Over(fg, h) = [k \in DOMAIN fg \cup DOMAIN h |-> IF k \in DOMAIN f THEN f[k] ELSE gh[k]]
  BY <1>4 DEF Over
<1> QED
  BY <1>1, <1>3, <1>5 DEF Over

(* Entry i of a batch as it is put into the memtable *)
Put(b, i) == [cas |-> cas + i, ptr |-> IF b[i].big THEN Ptr(b, i) ELSE NoPtr]

(* Map a has keys of entries of the batch, with what those put. *)
FromBatch(a, b) ==
  /\ a = [k \in DOMAIN a |-> a[k]]
  /\ \A k \in DOMAIN a : \E i \in 1 .. Len(b) : k = b[i].key /\ a[k] = Put(b, i)

(* The next entry of a batch *)
AfterEntry(a, b, i, s0) ==
  IF ~Applies(b[i], Over(a, s0)) THEN a ELSE Over([k \in {b[i].key} |-> Put(b, i)], a)

(* write_to_lsm puts nothing but the entries of the batch. *)
LEMMA AppliedIsBatch ==
  ASSUME NEW b \in Batches, NEW s0
  PROVE  FromBatch(Applied(b, s0), b)
<1> DEFINE n == Len(b)
           V == {Put(b, i) : i \in 1 .. n}
           K == {b[i].key : i \in 1 .. n}
           M == {a \in UNION {[S -> V] : S \in SUBSET K} : FromBatch(a, b)}
           step == [i \in 1 .. n |-> [a \in M |-> AfterEntry(a, b, i, s0)]]
           After(f) == [i \in 0 .. n |-> IF i = 0 THEN Empty ELSE AfterEntry(f[i - 1], b, i, s0)]
<1>1. n \in Nat
  BY BatchEntries
<1>2. Empty \in M
  <2>1. Empty \in [{} -> V] /\ DOMAIN Empty = {}
    BY DEF Empty
  <2>2. FromBatch(Empty, b)
    BY <2>1 DEF FromBatch
  <2> QED
    BY <2>1, <2>2
<1>3. ASSUME NEW a \in M, NEW i \in 1 .. n
      PROVE  AfterEntry(a, b, i, s0) \in M
  <2>1. CASE ~Applies(b[i], Over(a, s0))
    BY <2>1 DEF AfterEntry
  <2>2. CASE Applies(b[i], Over(a, s0))
    <3>1. PICK one, h : one = [k \in {b[i].key} |-> Put(b, i)] /\ h = Over(one, a)
      OBVIOUS
    <3>2. AfterEntry(a, b, i, s0) = h
      BY <2>2, <3>1 DEF AfterEntry
    <3>3. PICK S \in SUBSET K : a \in [S -> V]
      OBVIOUS
    <3>4. /\ DOMAIN h = {b[i].key} \cup S
          /\ h[b[i].key] = Put(b, i)
          /\ \A k \in S : k # b[i].key => h[k] = a[k]
          /\ h = [k \in DOMAIN h |-> h[k]]
      BY <3>1, <3>3 DEF Over
    <3>5. {b[i].key} \cup S \in SUBSET K
      OBVIOUS
    <3>6. h \in [{b[i].key} \cup S -> V]
      BY <3>3, <3>4
    <3>7. FromBatch(a, b) /\ DOMAIN a = S
      BY <3>3
    <3> HIDE DEF V, K
    <3>8. \A k \in DOMAIN h : \E j \in 1 .. Len(b) : k = b[j].key /\ h[k] = Put(b, j)
      BY <3>4, <3>7 DEF FromBatch
    <3>9. FromBatch(h, b)
      BY <3>4, <3>8 DEF FromBatch
    <3> QED
      BY <3>2, <3>5, <3>6, <3>9
  <2> QED
    BY <2>1, <2>2
<1>4. step \in [1 .. n -> [M -> M]] /\ \A i \in 1 .. n : \A a \in M : step[i][a] = AfterEntry(a, b, i, s0)
  <2> HIDE DEF M
  <2> QED
    BY <1>3
<1>5. \A a \in M : FromBatch(a, b)
  OBVIOUS
<1> HIDE DEF step, M, n
<1>6. PICK f : f \in [0 .. n -> M] /\ f[0] = Empty /\ \A i \in 1 .. n : f[i] = step[i][f[i - 1]]
  <2>1. \E f : Steps(f, n, M, Empty, step)
    BY <1>1, <1>2, <1>4, RecursionExists
  <2> QED
    BY <2>1 DEF Steps
<1>7. \A i \in 1 .. n : f[i] = AfterEntry(f[i - 1], b, i, s0)
  <2> SUFFICES ASSUME NEW i \in 1 .. n
               PROVE  f[i] = AfterEntry(f[i - 1], b, i, s0)
    OBVIOUS
  <2>1. f[i - 1] \in M
    BY <1>1, <1>6
  <2> QED
    BY <2>1, <1>4, <1>6
<1>8. f = After(f)
  <2>1. \A i \in 0 .. n : f[i] = After(f)[i]
    <3> SUFFICES ASSUME NEW i \in 0 .. n
                 PROVE  f[i] = IF i = 0 THEN Empty ELSE AfterEntry(f[i - 1], b, i, s0)
      OBVIOUS
    <3>1. i # 0 => i \in 1 .. n
      BY <1>1
    <3> QED
      BY <3>1, <1>6, <1>7
  <2>2. f = [i \in 0 .. n |-> f[i]]
    BY <1>6
  <2>3. After(f) = [i \in 0 .. n |-> After(f)[i]]
    OBVIOUS
  <2> HIDE DEF After
  <2> QED
    BY <2>1, <2>2, <2>3, Zenon
<1> DEFINE after == CHOOSE g : g = After(g)
<1>9. after = After(after)
  BY <1>8, Zenon
<1>10. Applied(b, s0) = after[n]
  BY DEF Applied, AfterEntry, Put, n
<1>11. after[0] = Empty /\ \A i \in 1 .. n : after[i] = AfterEntry(after[i - 1], b, i, s0)
  <2> HIDE DEF after
  <2>1. \A i \in 0 .. n : After(after)[i] = IF i = 0 THEN Empty ELSE AfterEntry(after[i - 1], b, i, s0)
    OBVIOUS
  <2> HIDE DEF After
  <2>2. \A i \in 0 .. n : after[i] = IF i = 0 THEN Empty ELSE AfterEntry(after[i - 1], b, i, s0)
    BY <2>1, <1>9, Zenon
  <2>3. 0 \in 0 .. n /\ \A i \in 1 .. n : i \in 0 .. n /\ i # 0
    BY <1>1
  <2> QED
    BY <2>2, <2>3
<1> HIDE DEF after, After
<1>12. \A i \in Nat : i <= n => after[i] \in M
  <2> DEFINE S == {i \in Nat : i <= n => after[i] \in M}
  <2>1. 0 \in S
    BY <1>2, <1>11
  <2>2. ASSUME NEW i \in S
        PROVE  i + 1 \in S
    <3>0. i \in Nat /\ i + 1 \in Nat /\ (i <= n => after[i] \in M)
      OBVIOUS
    <3> SUFFICES ASSUME i + 1 <= n
                 PROVE  after[i + 1] \in M
      BY <3>0
    <3>1. i + 1 \in 1 .. n /\ (i + 1) - 1 = i /\ i <= n
      BY <3>0, <1>1
    <3>2. after[i + 1] = AfterEntry(after[i], b, i + 1, s0) /\ after[i] \in M
      BY <3>0, <3>1, <1>11
    <3> QED
      BY <3>1, <3>2, <1>3
  <2>3. (\A i \in S : i + 1 \in S) /\ S \in SUBSET Nat
    BY <2>2
  <2>4. \A i \in Nat : i \in S
    <3> HIDE DEF S
    <3> QED
      BY <2>1, <2>3, SetInduction
  <2> QED
    BY <2>4
<1> QED
  BY <1>1, <1>5, <1>10, <1>12

(* The pointers and records of a batch *)
LEMMA BatchPointers ==
  ASSUME TypeInv, NEW b \in Batches, NEW i \in 1 .. Len(b)
  PROVE  /\ Ptr(b, i) \in Pointers /\ Ptr(b, i) # NoPtr
         /\ Ptr(b, i).fid = maxFid
         /\ Ptr(b, i).off = woff + Before(b, i) /\ Ptr(b, i).len = Length(b[i])
         /\ Put(b, i) \in Values
         /\ Put(b, i).cas = cas + i
         /\ Put(b, i).ptr = IF b[i].big THEN Ptr(b, i) ELSE NoPtr
<1>1. Before(b, i) \in Nat
  BY BufferFacts DEF TypeInv
<1>2. /\ Length(b[i]) \in Nat /\ Length(b[i]) # 0 /\ b[i].big \in BOOLEAN
      /\ i \in Nat
  BY BatchEntries
<1>3. woff + Before(b, i) \in Nat /\ cas + i \in Nat /\ maxFid \in Nat
  BY <1>1, <1>2 DEF TypeInv
<1>4. Ptr(b, i) = [fid |-> maxFid, off |-> woff + Before(b, i), len |-> Length(b[i])]
  BY DEF Ptr
<1>5. Ptr(b, i) \in Pointers /\ NoPtr \in Pointers /\ Ptr(b, i) # NoPtr
  BY <1>2, <1>3, <1>4 DEF Pointers, NoPtr
<1>6. Put(b, i) \in Values
  BY <1>3, <1>5 DEF Put, Values
<1> QED
  BY <1>4, <1>5, <1>6 DEF Put

(* What a batch puts is typed, counted, and points to what it logs. *)
LEMMA AppliedFacts ==
  ASSUME TypeInv, NEW b \in Batches, NEW s0
  PROVE  /\ IsStore(Applied(b, s0))
         /\ Below(Applied(b, s0), cas + Len(b))
         /\ maxFid = 0 => Resolves(Applied(b, s0), {Record(b, i) : i \in LoggedIn(b)})
         /\ syncWrites /\ LoggedIn(b) = {} => Applied(b, s0) = Empty
<1>1. PICK a : a = Applied(b, s0)
  OBVIOUS
<1>2. /\ a = [k \in DOMAIN a |-> a[k]]
      /\ \A k \in DOMAIN a : \E i \in 1 .. Len(b) : k = b[i].key /\ a[k] = Put(b, i)
  BY <1>1, AppliedIsBatch DEF FromBatch
<1>3. Len(b) \in Nat /\ DOMAIN b = 1 .. Len(b) /\ cas \in Nat
  BY BatchEntries DEF TypeInv
<1>4. IsStore(a)
  BY <1>2, BatchPointers DEF IsStore
<1>5. Below(a, cas + Len(b))
  <2> SUFFICES ASSUME NEW k \in DOMAIN a
               PROVE  a[k].cas <= cas + Len(b)
    BY DEF Below
  <2>1. PICK i \in 1 .. Len(b) : a[k] = Put(b, i)
    BY <1>2
  <2>2. a[k].cas = cas + i
    BY <2>1, BatchPointers
  <2> QED
    BY <2>2, <1>3
<1>6. ASSUME maxFid = 0
      PROVE  Resolves(a, {Record(b, i) : i \in LoggedIn(b)})
  <2> SUFFICES ASSUME NEW k \in DOMAIN a, a[k].ptr # NoPtr
               PROVE  /\ a[k].ptr.fid = 0
                      /\ \E r \in {Record(b, i) : i \in LoggedIn(b)} :
                           /\ r.off = a[k].ptr.off /\ r.len = a[k].ptr.len
                           /\ r.key = k /\ r.cas = a[k].cas
    BY DEF Resolves
  <2>1. PICK i \in 1 .. Len(b) : k = b[i].key /\ a[k] = Put(b, i)
    BY <1>2
  <2>2. b[i].big /\ a[k].ptr = Ptr(b, i) /\ a[k].cas = cas + i
    <3>1. a[k].cas = cas + i /\ a[k].ptr = IF b[i].big THEN Ptr(b, i) ELSE NoPtr
      BY <2>1, BatchPointers
    <3> QED
      BY <3>1
  <2>3. Ptr(b, i).fid = maxFid /\ Ptr(b, i).len = Length(b[i])
    BY BatchPointers
  <2>4. i \in LoggedIn(b)
    BY <2>2, <1>3 DEF LoggedIn, Logged
  <2>5. /\ Record(b, i).off = Ptr(b, i).off /\ Record(b, i).len = Length(b[i])
        /\ Record(b, i).key = b[i].key /\ Record(b, i).cas = cas + i
    BY DEF Record
  <2> QED
    BY <2>1, <2>2, <2>3, <2>4, <2>5, <1>6
<1>7. ASSUME syncWrites, LoggedIn(b) = {}
      PROVE  a = Empty
  <2>1. 1 .. Len(b) = {}
    BY <1>3, <1>7 DEF LoggedIn, Logged
  <2>2. DOMAIN a = {}
    BY <2>1, <1>2
  <2> QED
    BY <2>2, <1>4, EmptyFacts
<1> QED
  BY <1>1, <1>4, <1>5, <1>6, <1>7

(***************************************************************************)
(* A batch in the log: its records lie behind the others and inside the    *)
(* map, the offset moves to their end or the log was rotated, and the next *)
(* value pointer is the one of the last of them.                           *)
(***************************************************************************)
LEMMA AppendFacts ==
  ASSUME IInv, phase = "up", NEW b \in Batches, ~ LogPanics(b), AppendBatch(b)
  PROVE  /\ maxFid = 0 /\ vlogs = {0} /\ vlogs' = vlogs
         /\ log' = log \cup {Record(b, i) : i \in LoggedIn(b)} /\ IsLog(log')
         /\ fileLen' = MapLen /\ Inside(log', MapLen)
         /\ maxFid' \in Nat /\ woff' \in Nat /\ woff' <= MapLen
         /\ maxFid' = 0 => Inside(log', woff')
         /\ spilled' \in BOOLEAN /\ misread' = misread
         /\ maxFid' # 0 => spilled'
         /\ ~ spilled' => /\ ~ spilled /\ woff' <= FileSize /\ Reached(log', woff')
                          /\ NextVptr(b) # NoPtr => Behind(NextVptr(b)) = woff'
                          /\ NextVptr(b) = NoPtr => woff' = woff
         /\ NextVptr(b) \in Pointers
         /\ NextVptr(b) = NoPtr => vptr = NoPtr /\ LoggedIn(b) = {}
<1> DEFINE n == Len(b)
           new == {Record(b, i) : i \in LoggedIn(b)}
           size == Before(b, n + 1)
<1>1. /\ TypeInv /\ n \in Nat /\ cas \in Nat /\ woff \in Nat /\ FileSize \in Nat
      /\ vptr \in Pointers /\ syncWrites \in BOOLEAN /\ spilled \in BOOLEAN
  BY BatchEntries, BoundsAssumption DEF IInv, TypeInv
<1>2. /\ maxFid = 0 /\ vlogs = {0} /\ fileLen = MapLen
      /\ Inside(log, woff) /\ woff <= fileLen /\ MapLen = 2 * FileSize
      /\ LoggedIn(b) # {} => woff + size <= MapLen
  <2>1. vlogs = {0} /\ fileLen = MapLen /\ maxFid = 0
    BY DEF IInv, FileInv, LogPanics
  <2>2. size \in Nat /\ MapLen \in Nat
    BY <1>1, BufferFacts DEF MapLen
  <2> QED
    BY <2>1, <2>2, <1>1 DEF IInv, FileInv, LogPanics, MapLen
<1>3. /\ LoggedIn(b) \in SUBSET (1 .. n)
      /\ size \in Nat /\ size <= FileSize
      /\ \A i \in LoggedIn(b) : Before(b, i) \in Nat /\ Before(b, i) + Length(b[i]) <= size
      /\ LoggedIn(b) = {} => size = 0
      /\ LoggedIn(b) # {} => /\ Max(LoggedIn(b)) \in LoggedIn(b)
                             /\ Before(b, Max(LoggedIn(b))) + Length(b[Max(LoggedIn(b))]) = size
  BY <1>1, BufferFacts
<1>4. \A i \in LoggedIn(b) : Length(b[i]) \in Nat /\ Length(b[i]) > 0 /\ i \in 1 .. n
  BY <1>3, BatchEntries
<1>5. ASSUME NEW i \in LoggedIn(b)
      PROVE  /\ Record(b, i).off = woff + Before(b, i) /\ Record(b, i).len = Length(b[i])
             /\ Record(b, i).cas = cas + i
             /\ Ptr(b, i).off = woff + Before(b, i) /\ Ptr(b, i).len = Length(b[i])
             /\ Ptr(b, i) \in Pointers /\ Ptr(b, i) # NoPtr
  <2>1. /\ Ptr(b, i).off = woff + Before(b, i) /\ Ptr(b, i).len = Length(b[i])
        /\ Ptr(b, i) \in Pointers /\ Ptr(b, i) # NoPtr
    BY <1>1, <1>4, BatchPointers
  <2>2. Record(b, i).off = Ptr(b, i).off /\ Record(b, i).len = Length(b[i]) /\ Record(b, i).cas = cas + i
    BY DEF Record
  <2> QED
    BY <2>1, <2>2
<1>6. /\ log' = log \cup new
      /\ IF woff + size > FileSize /\ LoggedIn(b) # {} THEN Rotate
         ELSE woff' = woff + size /\ UNCHANGED <<fileLen, maxFid>>
      /\ spilled' = (spilled \/ maxFid' # maxFid)
      /\ vlogs' = vlogs /\ misread' = misread
  BY DEF AppendBatch
<1> HIDE DEF n, size
<1>7. IsLog(log') /\ Inside(log', MapLen)
  <2>1. \A r \in new : /\ r.off \in Nat /\ r.len \in Nat /\ r.len > 0 /\ r.cas \in Nat
                       /\ r.off + r.len <= woff + size /\ r.cas <= cas + n
    <3> SUFFICES ASSUME NEW i \in LoggedIn(b)
                 PROVE  LET r == Record(b, i)
                        IN  /\ r.off \in Nat /\ r.len \in Nat /\ r.len > 0 /\ r.cas \in Nat
                            /\ r.off + r.len <= woff + size /\ r.cas <= cas + n
      OBVIOUS
    <3>1. Before(b, i) \in Nat /\ Before(b, i) + Length(b[i]) <= size
      BY <1>3
    <3> QED
      BY <3>1, <1>1, <1>3, <1>4, <1>5
  <2>2. new # {} => woff + size <= MapLen
    BY <1>2
  <2> HIDE DEF new
  <2>3. PICK c \in Nat : \A r \in log : r.cas <= c
    BY DEF IInv, IsLog
  <2>4. \A r \in log' : r.cas <= c + (cas + n)
    <3> SUFFICES ASSUME NEW r \in log'
                 PROVE  r.cas <= c + (cas + n)
      OBVIOUS
    <3>1. CASE r \in log
      <4>1. r.cas \in Nat /\ r.cas <= c
        BY <3>1, <2>3 DEF IInv, IsLog
      <4> QED
        BY <4>1, <1>1
    <3>2. CASE r \in new
      <4>1. r.cas \in Nat /\ r.cas <= cas + n
        BY <3>2, <2>1
      <4> QED
        BY <4>1, <1>1
    <3> QED
      BY <3>1, <3>2, <1>6
  <2>5. c + (cas + n) \in Nat
    BY <1>1
  <2>6. \A r \in log' : r.off \in Nat /\ r.len \in Nat /\ r.len > 0 /\ r.cas \in Nat
    BY <2>1, <1>6 DEF IInv, IsLog
  <2>7. IsLog(log')
    BY <2>4, <2>5, <2>6 DEF IsLog
  <2>8. Inside(log', MapLen)
    <3>1. \A r \in new : r.off + r.len <= MapLen
      BY <2>1, <2>2, <1>1, <1>2, <1>3
    <3>2. \A r \in log : r.off + r.len <= MapLen
      BY <1>2 DEF IInv, FileInv, Inside
    <3> QED
      BY <3>1, <3>2, <1>6 DEF Inside
  <2> QED
    BY <2>7, <2>8
<1>8. Inside(log', woff + size) /\ woff + size \in Nat /\ woff + size <= MapLen
  <2>1. \A r \in new : r.off + r.len <= woff + size
    <3> SUFFICES ASSUME NEW i \in LoggedIn(b)
                 PROVE  Record(b, i).off + Record(b, i).len <= woff + size
      OBVIOUS
    <3>1. /\ Before(b, i) \in Nat /\ Before(b, i) + Length(b[i]) <= size
          /\ Length(b[i]) \in Nat
      BY <1>3, <1>4
    <3> QED
      BY <3>1, <1>1, <1>3, <1>5
  <2>2. \A r \in log : r.off + r.len <= woff + size
    <3> SUFFICES ASSUME NEW r \in log
                 PROVE  r.off + r.len <= woff + size
      OBVIOUS
    <3>1. r.off \in Nat /\ r.len \in Nat /\ r.off + r.len <= woff
      BY <1>2 DEF IInv, IsLog, Inside
    <3> QED
      BY <3>1, <1>1, <1>3
  <2>3. Inside(log', woff + size)
    BY <2>1, <2>2, <1>6 DEF Inside
  <2>4. LoggedIn(b) = {} => woff + size = woff
    BY <1>1, <1>3
  <2> QED
    BY <2>3, <2>4, <1>1, <1>2, <1>3
<1>9. /\ NextVptr(b) \in Pointers
      /\ NextVptr(b) = NoPtr => vptr = NoPtr /\ LoggedIn(b) = {}
      /\ LoggedIn(b) # {} => Behind(NextVptr(b)) = woff + size /\ Reached(log', woff + size)
      /\ LoggedIn(b) = {} => NextVptr(b) = vptr
  <2>1. CASE LoggedIn(b) = {}
    BY <2>1, <1>1 DEF NextVptr
  <2>2. CASE LoggedIn(b) # {}
    <3>1. PICK m : m = Max(LoggedIn(b))
      OBVIOUS
    <3>2. m \in LoggedIn(b) /\ Before(b, m) + Length(b[m]) = size /\ NextVptr(b) = Ptr(b, m)
      BY <2>2, <3>1, <1>3 DEF NextVptr
    <3>3. Before(b, m) \in Nat /\ Length(b[m]) \in Nat
      BY <3>2, <1>3, <1>4
    <3>4. (woff + Before(b, m)) + Length(b[m]) = woff + size
      BY <3>2, <3>3, <1>1
    <3>5. Behind(Ptr(b, m)) = woff + size
      BY <3>2, <3>4, <1>5 DEF Behind
    <3>6. Record(b, m) \in log' /\ Record(b, m).off + Record(b, m).len = woff + size
      BY <3>2, <3>4, <1>5, <1>6
    <3>7. Reached(log', woff + size)
      BY <3>6 DEF Reached
    <3> QED
      BY <2>2, <3>2, <3>5, <3>7, <1>5
  <2> QED
    BY <2>1, <2>2
<1>10. CASE woff + size > FileSize /\ LoggedIn(b) # {}
  <2>1. maxFid' = maxFid + 1 /\ woff' = 0 /\ fileLen' = MapLen
    BY <1>6, <1>10 DEF Rotate
  <2>2. maxFid' = 1 /\ spilled'
    <3>1. maxFid' = 1 /\ maxFid' # maxFid
      BY <2>1, <1>2
    <3>2. spilled' = (spilled \/ maxFid' # maxFid)
      BY <1>6
    <3> QED
      BY <3>1, <3>2, Zenon
  <2>3. 0 <= MapLen
    BY <1>1, <1>2
  <2> QED
    BY <2>1, <2>2, <2>3, <1>2, <1>6, <1>7, <1>9
<1>11. CASE ~ (woff + size > FileSize /\ LoggedIn(b) # {})
  <2>1. woff' = woff + size /\ fileLen' = fileLen /\ maxFid' = maxFid /\ spilled' = spilled
    BY <1>1, <1>6, <1>11
  <2>2. ASSUME ~ spilled
        PROVE  /\ woff' <= FileSize /\ Reached(log', woff')
               /\ NextVptr(b) # NoPtr => Behind(NextVptr(b)) = woff'
               /\ NextVptr(b) = NoPtr => woff' = woff
    <3>1. CASE LoggedIn(b) = {}
      <4>1. woff' = woff /\ size = 0
        BY <2>1, <3>1, <1>1, <1>3
      <4>2. woff <= FileSize /\ Reached(log, woff) /\ (vptr # NoPtr => Behind(vptr) = woff)
        BY <2>2 DEF IInv, FileInv, CleanInv, End
      <4>3. Reached(log', woff)
        BY <4>2, <1>6 DEF Reached
      <4> QED
        BY <4>1, <4>2, <4>3, <3>1, <1>9
    <3>2. CASE LoggedIn(b) # {}
      <4>1. woff' <= FileSize
        BY <2>1, <3>2, <1>1, <1>3, <1>8, <1>11
      <4> QED
        BY <4>1, <2>1, <3>2, <1>9
    <3> QED
      BY <3>1, <3>2
  <2> QED
    BY <2>1, <2>2, <1>1, <1>2, <1>6, <1>7, <1>8, <1>9
<1> QED
  BY <1>10, <1>11

-----------------------------------------------------------------------------
(* Constants of the model *)
LEMMA ConstantFacts ==
  /\ NoPtr \in Pointers /\ NoHead \in Values /\ Behind(NoPtr) = 0
  /\ NoHead.ptr = NoPtr /\ NoHead.cas = 0
  /\ FileSize \in Nat /\ MapLen \in Nat /\ FileSize <= MapLen /\ 0 <= MapLen
<1>1. NoPtr \in Pointers /\ Behind(NoPtr) = 0
  BY DEF NoPtr, Pointers, Behind
<1>2. NoHead \in Values /\ NoHead.ptr = NoPtr /\ NoHead.cas = 0
  BY <1>1 DEF NoHead, Values
<1>3. FileSize \in Nat /\ MapLen \in Nat /\ FileSize <= MapLen /\ 0 <= MapLen
  BY BoundsAssumption DEF MapLen
<1> QED
  BY <1>1, <1>2, <1>3

(* Raising the bound of counters, and growing the log *)
LEMMA KeepsBelow ==
  ASSUME NEW f, IsStore(f), NEW m \in Nat, NEW n \in Nat, m <= n, Below(f, m)
  PROVE  Below(f, n)
<1> SUFFICES ASSUME NEW k \in DOMAIN f
             PROVE  f[k].cas <= n
  BY DEF Below
<1>1. f[k].cas \in Nat /\ f[k].cas <= m
  BY DEF IsStore, Values, Below
<1> QED
  BY <1>1

(* Pointers that resolve in a log resolve in a longer one. *)
LEMMA KeepsResolving ==
  ASSUME NEW f, NEW L, NEW more, L \subseteq more, Resolves(f, L)
  PROVE  Resolves(f, more)
BY DEF Resolves

(***************************************************************************)
(* A flush: the head it stores has a counter that is ahead of the tables,  *)
(* and points to the end of the log as far as vptr does.                   *)
(***************************************************************************)
LEMMA FlushFacts ==
  ASSUME IInv, phase = "up", NEW counter \in Nat, cas <= counter, Flush(counter)
  PROVE  /\ IsStore(tables') /\ head' \in Values /\ Resolves(tables', log)
         /\ syncWrites /\ ~ forgot =>
              /\ head' # NoHead => Below(tables', head'.cas)
              /\ head'.cas <= counter /\ Below(tables', counter)
         /\ ~ emptyKey => tables' = Store
         /\ vptr = NoPtr => head' = head
         /\ ~ emptyKey /\ vptr # NoPtr => head'.ptr = vptr
<1>1. /\ IsStore(mt) /\ IsStore(tables) /\ head \in Values /\ vptr \in Pointers /\ cas \in Nat
      /\ Resolves(mt, log) /\ Resolves(tables, log)
  BY DEF IInv, TypeInv, PointerInv
<1>2. syncWrites /\ ~ forgot =>
        /\ vptr = NoPtr => mt = Empty
        /\ head # NoHead => Below(tables, head.cas)
        /\ head.cas <= cas /\ Below(tables, cas) /\ Below(mt, cas)
  BY DEF IInv, CasInv
<1>3. head.cas \in Nat
  BY <1>1 DEF Values
<1>4. ASSUME syncWrites, ~ forgot
      PROVE  head.cas <= counter /\ Below(tables, counter) /\ Below(mt, counter)
  BY <1>1, <1>2, <1>3, <1>4, KeepsBelow
<1>5. CASE emptyKey
  <2>1. tables' = tables /\ head' = head
    BY <1>5 DEF Flush
  <2> QED
    BY <2>1, <1>1, <1>2, <1>4, <1>5
<1>6. CASE ~ emptyKey
  <2>1. tables' = Over(mt, tables) /\ head' = FlushedHead(counter)
    BY <1>6 DEF Flush
  <2>2. IsStore(tables') /\ Resolves(tables', log)
    BY <2>1, <1>1, OverFacts, OverKeeps
  <2>3. syncWrites /\ ~ forgot => Below(tables', counter)
    BY <2>1, <1>4, OverKeeps
  <2>4. CASE vptr = NoPtr
    <3>1. head' = head
      BY <2>1, <2>4 DEF FlushedHead
    <3>2. syncWrites => tables' = tables
      <4>1. ASSUME syncWrites
            PROVE  mt = Empty
        BY <4>1, <2>4 DEF IInv, CasInv
      <4> QED
        BY <4>1, <2>1, <1>1, EmptyFacts
    <3> QED
      BY <3>1, <3>2, <2>1, <2>2, <2>3, <2>4, <1>1, <1>2, <1>4 DEF Store
  <2>5. CASE vptr # NoPtr
    <3>1. head' = [ptr |-> vptr, cas |-> counter]
      BY <2>1, <2>5 DEF FlushedHead
    <3>2. head' \in Values /\ head'.ptr = vptr /\ head'.cas = counter
      BY <3>1, <1>1 DEF Values
    <3> QED
      BY <3>2, <2>1, <2>2, <2>3, <2>5 DEF Store
  <2> QED
    BY <2>4, <2>5
<1> QED
  BY <1>5, <1>6

(* Before the first opening *)
LEMMA InitInv == Init => IInv
<1> SUFFICES ASSUME Init
             PROVE  IInv
  OBVIOUS
<1> USE ConstantFacts, EmptyFacts DEF Init
<1>1. TypeInv
  BY DEF TypeInv
<1>2. IsLog(log)
  <2>1. 0 \in Nat /\ log = {}
    OBVIOUS
  <2> QED
    BY <2>1 DEF IsLog
<1>3. FileInv
  BY DEF FileInv, Inside, End
<1>4. PointerInv
  BY DEF PointerInv, Resolves
<1>5. CasInv
  BY DEF CasInv
<1>6. CleanInv
  BY DEF CleanInv, Inside, Reached, End
<1> QED
  BY <1>1, <1>2, <1>3, <1>4, <1>5, <1>6 DEF IInv

(* Opening the store *)
LEMMA OpenInv ==
  ASSUME IInv, Open
  PROVE  IInv'
<1> USE ConstantFacts, EmptyFacts
<1>1. /\ phase = "down" /\ phase' = "replay" /\ vlogs' = {0} /\ maxFid' = 0 /\ woff' = 0
      /\ rpos' = Behind(head.ptr) /\ mt' = Empty /\ emptyKey' = FALSE /\ vptr' = NoPtr
      /\ cas' = head.cas /\ forgot' = (forgot \/ (head = NoHead /\ tables # Empty))
      /\ UNCHANGED <<syncWrites, writer, log, fileLen, tables, head, acked, spilled, misread>>
  BY DEF Open, OpenCreateFiles, ReplayFrom, Behind
<1>2. head.cas \in Nat /\ head.ptr \in Pointers /\ Behind(head.ptr) \in Nat
  BY DEF IInv, TypeInv, Values, Pointers, Behind
<1>3. TypeInv'
  BY <1>1, <1>2 DEF IInv, TypeInv
<1>4. IsLog(log)'
  BY <1>1 DEF IInv
<1>5. FileInv'
  BY <1>1 DEF IInv, FileInv, End
<1>6. PointerInv'
  BY <1>1 DEF IInv, PointerInv, Resolves
<1>7. CasInv'
  <2> SUFFICES ASSUME syncWrites, ~ forgot'
               PROVE  /\ head # NoHead => Below(tables, head.cas)
                      /\ head.cas <= head.cas /\ Below(tables, head.cas) /\ Below(Empty, head.cas)
    BY <1>1 DEF CasInv
  <2>1. ~ forgot /\ (head # NoHead \/ tables = Empty)
    BY <1>1
  <2>2. head # NoHead => Below(tables, head.cas)
    BY <2>1 DEF IInv, CasInv
  <2>3. Below(Empty, head.cas)
    BY DEF Below
  <2> QED
    BY <2>1, <2>2, <2>3, <1>2
<1>8. CleanInv'
  BY <1>1 DEF IInv, CleanInv, End
<1> QED
  BY <1>3, <1>4, <1>5, <1>6, <1>7, <1>8 DEF IInv

(* Replaying what is behind the head *)
LEMMA ReplayInv ==
  ASSUME IInv, Replay
  PROVE  IInv'
<1>1. /\ phase = "replay" /\ rpos' = fileLen /\ emptyKey' = TRUE /\ misread' = TRUE
      /\ UNCHANGED <<syncWrites, phase, writer, log, fileLen, maxFid, vlogs, woff, mt, vptr, tables,
                     head, acked, spilled, forgot>>
  BY DEF Replay, fileVars
<1>2. cas' \in Nat /\ cas <= cas'
  <2> DEFINE S == {cas} \cup {r.cas : r \in Aligned}
             seen == Max(S)
  <2>1. cas' \in IF Aligned = {} THEN {seen} ELSE seen .. seen + Garbage
    BY DEF Replay
  <2>2. PICK c \in Nat : \A r \in log : r.cas \in Nat /\ r.cas <= c
    BY DEF IInv, IsLog
  <2>3. cas \in Nat /\ Garbage \in Nat
    BY BoundsAssumption DEF IInv, TypeInv
  <2>4. S \in SUBSET Nat /\ S # {} /\ cas \in S
    BY <2>2, <2>3 DEF Aligned
  <2>5. c + cas \in Nat /\ \A x \in S : x <= c + cas
    BY <2>2, <2>3 DEF Aligned
  <2> HIDE DEF S
  <2>6. seen \in S /\ \A x \in S : x <= seen
    BY <2>4, <2>5, BoundedMax
  <2>7. seen \in Nat /\ cas <= seen
    BY <2>4, <2>6
  <2> HIDE DEF seen
  <2> QED
    BY <2>1, <2>3, <2>7
<1>3. TypeInv'
  BY <1>1, <1>2 DEF IInv, TypeInv
<1>4. IsLog(log)'
  BY <1>1 DEF IInv
<1>5. FileInv'
  BY <1>1 DEF IInv, FileInv, End
<1>6. PointerInv'
  BY <1>1 DEF IInv, PointerInv
<1>7. CasInv'
  <2> SUFFICES ASSUME syncWrites, ~ forgot
               PROVE  /\ head # NoHead => Below(tables, head.cas)
                      /\ head.cas <= cas' /\ Below(tables, cas') /\ Below(mt, cas')
                      /\ vptr = NoPtr => mt = Empty
    BY <1>1 DEF IInv, CasInv, FileInv
  <2>1. /\ head # NoHead => Below(tables, head.cas)
        /\ head.cas <= cas /\ Below(tables, cas) /\ Below(mt, cas)
        /\ vptr = NoPtr => mt = Empty
    BY <1>1 DEF IInv, CasInv
  <2>2. IsStore(mt) /\ IsStore(tables) /\ cas \in Nat /\ head.cas \in Nat
    BY DEF IInv, TypeInv, Values
  <2> QED
    BY <2>1, <2>2, <1>2, KeepsBelow
<1>8. CleanInv'
  BY <1>1 DEF IInv, CleanInv, End
<1> QED
  BY <1>3, <1>4, <1>5, <1>6, <1>7, <1>8 DEF IInv

(* An error in the replay *)
LEMMA OpenFailsInv ==
  ASSUME IInv, OpenFails
  PROVE  IInv'
<1>1. /\ phase = "replay" /\ phase' = "down" /\ misread' = TRUE
      /\ UNCHANGED <<syncWrites, writer, log, fileLen, maxFid, vlogs, woff, rpos, mt, emptyKey, tables,
                     head, vptr, cas, acked, spilled, forgot>>
  BY DEF OpenFails, fileVars, lsmVars
<1>2. TypeInv'
  BY <1>1 DEF IInv, TypeInv
<1>3. IsLog(log)' /\ PointerInv'
  BY <1>1 DEF IInv, PointerInv
<1>4. FileInv'
  BY <1>1 DEF IInv, FileInv, End
<1>5. CasInv'
  BY <1>1 DEF IInv, CasInv
<1>6. CleanInv'
  BY <1>1 DEF IInv, CleanInv, End
<1> QED
  BY <1>2, <1>3, <1>4, <1>5, <1>6 DEF IInv

(* Replay is done: the file is made longer. *)
LEMMA ReadyInv ==
  ASSUME IInv, Ready
  PROVE  IInv'
<1> USE ConstantFacts
<1>1. /\ phase = "replay" /\ rpos >= fileLen /\ phase' = "up" /\ writer' = "alive"
      /\ woff' = fileLen /\ fileLen' = MapLen
      /\ UNCHANGED <<syncWrites, log, maxFid, vlogs, rpos, mt, emptyKey, tables,
                     head, vptr, cas, acked, spilled, misread, forgot>>
  BY DEF Ready, fileVars, lsmVars
<1>2. /\ Inside(log, fileLen) /\ fileLen <= MapLen /\ fileLen \in Nat
      /\ maxFid = 0 /\ vlogs = {0} /\ vptr = NoPtr /\ mt = Empty
      /\ ~ spilled => fileLen <= FileSize
  BY <1>1 DEF IInv, TypeInv, FileInv, End
<1>3. TypeInv'
  BY <1>1 DEF IInv, TypeInv
<1>4. IsLog(log)' /\ PointerInv'
  BY <1>1 DEF IInv, PointerInv
<1>5. Inside(log, MapLen)
  <2> SUFFICES ASSUME NEW r \in log
               PROVE  r.off + r.len <= MapLen
    BY DEF Inside
  <2>1. r.off + r.len <= fileLen /\ r.off \in Nat /\ r.len \in Nat
    BY <1>2 DEF Inside, IInv, IsLog
  <2> QED
    BY <2>1, <1>2
<1>6. FileInv'
  BY <1>1, <1>2, <1>5 DEF FileInv, End
<1>7. CasInv'
  BY <1>1 DEF IInv, CasInv
<1>8. CleanInv'
  <2>1. Over(mt, tables) = tables
    BY <1>2, EmptyFacts DEF IInv, TypeInv
  <2> QED
    BY <2>1, <1>1, <1>2 DEF IInv, CleanInv, End, Store
<1> QED
  BY <1>3, <1>4, <1>6, <1>7, <1>8 DEF IInv

(* A batch, with room in the memtable *)
LEMMA WriteInv ==
  ASSUME IInv, NEW b \in Batches, Write(b)
  PROVE  IInv'
<1>1. /\ phase = "up" /\ phase' = "up" /\ writer = "alive" /\ writer' = "alive"
      /\ ~ LogPanics(b) /\ AppendBatch(b) /\ cas' = cas + Len(b) /\ vptr' = NextVptr(b)
      /\ UNCHANGED <<syncWrites, rpos, emptyKey, tables, head, forgot>>
  BY DEF Write
<1>2. PICK a : a = Applied(b, Store)
  OBVIOUS
<1>3. mt' = Over(a, mt) /\ acked' = Over(a, acked)
  BY <1>2 DEF Write
<1>4. /\ maxFid = 0 /\ vlogs = {0} /\ vlogs' = vlogs
      /\ log' = log \cup {Record(b, i) : i \in LoggedIn(b)} /\ IsLog(log')
      /\ fileLen' = MapLen /\ Inside(log', MapLen)
      /\ maxFid' \in Nat /\ woff' \in Nat /\ woff' <= MapLen
      /\ maxFid' = 0 => Inside(log', woff')
      /\ spilled' \in BOOLEAN /\ misread' = misread
      /\ maxFid' # 0 => spilled'
      /\ ~ spilled' => /\ ~ spilled /\ woff' <= FileSize /\ Reached(log', woff')
                       /\ vptr' # NoPtr => Behind(vptr') = woff'
                       /\ vptr' = NoPtr => woff' = woff
      /\ vptr' \in Pointers
      /\ vptr' = NoPtr => vptr = NoPtr /\ LoggedIn(b) = {}
  BY <1>1, AppendFacts
<1>5. /\ TypeInv /\ cas \in Nat /\ Len(b) \in Nat /\ cas + Len(b) \in Nat /\ cas <= cas + Len(b)
      /\ IsStore(mt) /\ IsStore(tables) /\ IsStore(acked) /\ head.cas \in Nat
  BY BatchEntries DEF IInv, TypeInv, Values
<1>6. /\ IsStore(a) /\ Below(a, cas + Len(b))
      /\ Resolves(a, {Record(b, i) : i \in LoggedIn(b)})
      /\ syncWrites /\ LoggedIn(b) = {} => a = Empty
  BY <1>2, <1>4, <1>5, AppliedFacts
<1>7. TypeInv'
  <2>1. IsStore(Over(a, mt)) /\ IsStore(Over(a, acked))
    BY <1>5, <1>6, OverFacts
  <2>2. IsStore(mt') /\ IsStore(acked') /\ IsStore(tables')
    BY <2>1, <1>1, <1>3, <1>5
  <2>3. fileLen' \in Nat /\ cas' \in Nat
    BY <1>1, <1>4, <1>5, ConstantFacts
  <2> QED
    BY <2>2, <2>3, <1>1, <1>4, <1>5 DEF TypeInv
<1>8. FileInv'
  BY <1>1, <1>4, ConstantFacts DEF FileInv, End
<1>9. PointerInv'
  <2>1. Resolves(a, log') /\ Resolves(mt, log') /\ Resolves(tables, log')
    BY <1>4, <1>6, KeepsResolving DEF IInv, PointerInv
  <2>2. Resolves(Over(a, mt), log')
    BY <2>1, OverKeeps
  <2> QED
    BY <2>1, <2>2, <1>1, <1>3 DEF PointerInv
<1>10. CasInv'
  <2>1. ASSUME syncWrites, vptr' = NoPtr
        PROVE  mt' = Empty
    <3>1. a = Empty /\ mt = Empty
      BY <2>1, <1>1, <1>4, <1>6 DEF IInv, CasInv
    <3> QED
      BY <3>1, <1>3, <1>5, EmptyFacts
  <2>2. ASSUME syncWrites, ~ forgot
        PROVE  /\ head # NoHead => Below(tables, head.cas)
               /\ head.cas <= cas' /\ Below(tables, cas') /\ Below(mt', cas')
    <3>1. /\ head # NoHead => Below(tables, head.cas)
          /\ head.cas <= cas /\ Below(tables, cas) /\ Below(mt, cas)
      BY <2>2, <1>1 DEF IInv, CasInv
    <3>2. head.cas <= cas' /\ Below(tables, cas') /\ Below(mt, cas')
      BY <3>1, <1>1, <1>5, KeepsBelow
    <3>3. Below(Over(a, mt), cas')
      BY <3>2, <1>1, <1>6, OverKeeps
    <3> QED
      BY <3>1, <3>2, <3>3, <1>3
  <2> QED
    BY <2>1, <2>2, <1>1 DEF CasInv
<1>11. CleanInv'
  <2> SUFFICES ASSUME ~ spilled'
               PROVE  CleanInv'
    BY DEF CleanInv
  <2>1. ~ spilled /\ maxFid' = 0
    BY <1>4
  <2>2. Inside(log', woff') /\ Reached(log', woff') /\ (vptr' # NoPtr => Behind(vptr') = woff')
    BY <2>1, <1>4
  <2>3. ASSUME ~ misread
        PROVE  /\ ~ emptyKey
               /\ head # NoHead /\ vptr' = NoPtr => Behind(head.ptr) = woff'
               /\ acked' = Over(mt', tables)
    <3>1. /\ ~ emptyKey /\ acked = Over(mt, tables)
          /\ head # NoHead /\ vptr = NoPtr => Behind(head.ptr) = woff
      BY <2>1, <2>3, <1>1 DEF IInv, CleanInv, End, Store
    <3>2. acked' = Over(mt', tables)
      BY <3>1, <1>3, OverOver
    <3> QED
      BY <3>1, <3>2, <1>4
  <2> QED
    BY <2>2, <2>3, <1>1, <1>4 DEF CleanInv, End, Store
<1> QED
  BY <1>4, <1>7, <1>8, <1>9, <1>10, <1>11 DEF IInv

(* A batch that has the memtable flushed *)
LEMMA WriteFullInv ==
  ASSUME IInv, NEW b \in Batches, WriteFull(b)
  PROVE  IInv'
<1> DEFINE dead == ~syncWrites /\ maxFid' \notin vlogs
<1>1. /\ phase = "up" /\ phase' = "up" /\ writer = "alive"
      /\ ~ LogPanics(b) /\ AppendBatch(b) /\ cas' = cas + Len(b) /\ Flush(cas + Len(b))
      /\ UNCHANGED <<syncWrites, rpos, forgot>>
  BY DEF WriteFull
<1>2. PICK a, next : a = Applied(b, Store) /\ next = NextVptr(b)
  OBVIOUS
<1>3. /\ dead => writer' = "dead" /\ UNCHANGED <<mt, emptyKey, acked, vptr>>
      /\ ~ dead => /\ mt' = a /\ emptyKey' = FALSE /\ acked' = Over(a, acked)
                   /\ vptr' = next /\ writer' = "alive"
  BY <1>1, <1>2 DEF WriteFull
<1>4. /\ maxFid = 0 /\ vlogs = {0} /\ vlogs' = vlogs
      /\ log' = log \cup {Record(b, i) : i \in LoggedIn(b)} /\ IsLog(log')
      /\ fileLen' = MapLen /\ Inside(log', MapLen)
      /\ maxFid' \in Nat /\ woff' \in Nat /\ woff' <= MapLen
      /\ maxFid' = 0 => Inside(log', woff')
      /\ spilled' \in BOOLEAN /\ misread' = misread
      /\ maxFid' # 0 => spilled'
      /\ ~ spilled' => /\ ~ spilled /\ woff' <= FileSize /\ Reached(log', woff')
                       /\ next # NoPtr => Behind(next) = woff'
                       /\ next = NoPtr => woff' = woff
      /\ next \in Pointers
      /\ next = NoPtr => vptr = NoPtr /\ LoggedIn(b) = {}
  BY <1>1, <1>2, AppendFacts
<1>5. dead => spilled'
  BY <1>4
<1>6. /\ TypeInv /\ cas \in Nat /\ Len(b) \in Nat /\ cas + Len(b) \in Nat /\ cas <= cas + Len(b)
      /\ IsStore(mt) /\ IsStore(tables) /\ IsStore(acked)
  BY BatchEntries DEF IInv, TypeInv
<1>7. /\ IsStore(a) /\ Below(a, cas + Len(b))
      /\ Resolves(a, {Record(b, i) : i \in LoggedIn(b)})
      /\ syncWrites /\ LoggedIn(b) = {} => a = Empty
  BY <1>2, <1>4, <1>6, AppliedFacts
<1>8. /\ IsStore(tables') /\ head' \in Values /\ Resolves(tables', log)
      /\ syncWrites /\ ~ forgot =>
           /\ head' # NoHead => Below(tables', head'.cas)
           /\ head'.cas <= cas + Len(b) /\ Below(tables', cas + Len(b))
      /\ ~ emptyKey => tables' = Store
      /\ vptr = NoPtr => head' = head
      /\ ~ emptyKey /\ vptr # NoPtr => head'.ptr = vptr
  BY <1>1, <1>6, FlushFacts
<1> HIDE DEF dead
<1>9. TypeInv'
  <2>1. IsStore(Over(a, acked))
    BY <1>6, <1>7, OverFacts
  <2>2. /\ mt' \in {mt, a} /\ acked' \in {acked, Over(a, acked)}
        /\ vptr' \in {vptr, next} /\ emptyKey' \in BOOLEAN /\ writer' \in {"alive", "dead"}
    BY <1>3 DEF IInv, TypeInv
  <2>3. IsStore(mt') /\ IsStore(acked') /\ IsStore(tables') /\ vptr' \in Pointers
    BY <2>1, <2>2, <1>4, <1>6, <1>7, <1>8 DEF TypeInv
  <2>4. fileLen' \in Nat /\ cas' \in Nat
    BY <1>1, <1>4, <1>6, ConstantFacts
  <2> QED
    BY <2>2, <2>3, <2>4, <1>1, <1>4, <1>6, <1>8 DEF TypeInv
<1>10. FileInv'
  <2>1. writer' = "dead" => spilled'
    BY <1>3, <1>5
  <2> QED
    BY <2>1, <1>1, <1>4, ConstantFacts DEF FileInv, End
<1>11. PointerInv'
  <2>1. Resolves(a, log') /\ Resolves(mt, log') /\ Resolves(tables', log')
    BY <1>4, <1>7, <1>8, KeepsResolving DEF IInv, PointerInv
  <2>2. mt' \in {mt, a}
    BY <1>3
  <2> QED
    BY <2>1, <2>2 DEF PointerInv
<1>12. CasInv'
  <2>1. ASSUME syncWrites
        PROVE  ~ dead
    BY <2>1 DEF dead
  <2>2. ASSUME syncWrites, vptr' = NoPtr
        PROVE  mt' = Empty
    BY <2>1, <2>2, <1>3, <1>4, <1>7
  <2>3. ASSUME syncWrites, ~ forgot
        PROVE  /\ head' # NoHead => Below(tables', head'.cas)
               /\ head'.cas <= cas' /\ Below(tables', cas') /\ Below(mt', cas')
    BY <2>1, <2>3, <1>1, <1>3, <1>7, <1>8
  <2> QED
    BY <2>2, <2>3, <1>1 DEF CasInv
<1>13. CleanInv'
  <2> SUFFICES ASSUME ~ spilled'
               PROVE  CleanInv'
    BY DEF CleanInv
  <2>1. ~ spilled /\ maxFid' = 0 /\ ~ dead
    BY <1>4, <1>5
  <2>2. /\ mt' = a /\ emptyKey' = FALSE /\ acked' = Over(a, acked) /\ vptr' = next
    BY <2>1, <1>3
  <2>3. Inside(log', woff') /\ Reached(log', woff') /\ (vptr' # NoPtr => Behind(vptr') = woff')
    BY <2>1, <2>2, <1>4
  <2>4. ASSUME ~ misread
        PROVE  /\ head' # NoHead /\ vptr' = NoPtr => Behind(head'.ptr) = woff'
               /\ acked' = Over(mt', tables')
    <3>1. /\ ~ emptyKey /\ acked = Store
          /\ head # NoHead /\ vptr = NoPtr => Behind(head.ptr) = woff
      BY <2>1, <2>4, <1>1 DEF IInv, CleanInv, End
    <3>2. tables' = acked
      BY <3>1, <1>8
    <3> QED
      BY <3>1, <3>2, <2>2, <1>4, <1>8
  <2> QED
    BY <2>2, <2>3, <2>4, <1>1, <1>4 DEF CleanInv, End, Store
<1> QED
  BY <1>4, <1>9, <1>10, <1>11, <1>12, <1>13 DEF IInv

(* The log has no room for the batch: only after it was rotated, or a crash. *)
LEMMA WritePanicsInv ==
  ASSUME IInv, NEW b \in Batches, WritePanics(b)
  PROVE  IInv'
<1>1. /\ phase = "up" /\ writer = "alive" /\ LogPanics(b) /\ writer' = "dead" /\ cas' = cas + Len(b)
      /\ UNCHANGED <<syncWrites, phase, log, fileLen, maxFid, vlogs, woff, rpos, mt, emptyKey, tables,
                     head, vptr, acked, spilled, misread, forgot>>
  BY DEF WritePanics, fileVars, lsmVars
<1>2. /\ TypeInv /\ cas \in Nat /\ Len(b) \in Nat /\ cas + Len(b) \in Nat /\ cas <= cas + Len(b)
      /\ IsStore(mt) /\ IsStore(tables) /\ head.cas \in Nat /\ woff \in Nat
  BY BatchEntries DEF IInv, TypeInv, Values
<1>3. spilled
  <2> SUFFICES ASSUME ~ spilled
               PROVE  FALSE
    OBVIOUS
  <2>1. maxFid = 0 /\ vlogs = {0} /\ woff <= FileSize /\ fileLen = MapLen
    BY <1>1 DEF IInv, FileInv, End
  <2>2. PICK size : size = Before(b, Len(b) + 1)
    OBVIOUS
  <2>3. size \in Nat /\ size <= FileSize
    BY <2>2, <1>2, BufferFacts DEF TypeInv
  <2>4. FileSize \in Nat /\ MapLen = 2 * FileSize
    BY BoundsAssumption DEF MapLen
  <2>5. woff + size <= MapLen
    BY <2>1, <2>3, <2>4, <1>2
  <2>6. woff + size > fileLen
    BY <2>1, <2>2, <1>1 DEF LogPanics
  <2> QED
    BY <2>1, <2>3, <2>4, <2>5, <2>6, <1>2
<1>4. TypeInv'
  BY <1>1, <1>2 DEF TypeInv
<1>5. IsLog(log)' /\ PointerInv'
  BY <1>1 DEF IInv, PointerInv
<1>6. FileInv'
  BY <1>1, <1>3 DEF IInv, FileInv, End
<1>7. CasInv'
  <2>1. ASSUME syncWrites, ~ forgot
        PROVE  head.cas <= cas' /\ Below(tables, cas') /\ Below(mt, cas')
    <3>1. head.cas <= cas /\ Below(tables, cas) /\ Below(mt, cas)
      BY <2>1, <1>1 DEF IInv, CasInv
    <3> QED
      BY <3>1, <1>1, <1>2, KeepsBelow
  <2> QED
    BY <2>1, <1>1 DEF IInv, CasInv
<1>8. CleanInv'
  BY <1>1, <1>3 DEF CleanInv
<1> QED
  BY <1>4, <1>5, <1>6, <1>7, <1>8 DEF IInv

(* A compaction drops the head. *)
LEMMA LoseHeadInv ==
  ASSUME IInv, LoseHead
  PROVE  IInv'
<1>1. /\ phase = "up" /\ head' = NoHead
      /\ UNCHANGED <<syncWrites, phase, writer, log, fileLen, maxFid, vlogs, woff, rpos, mt, emptyKey,
                     tables, vptr, cas, acked, spilled, misread, forgot>>
  BY DEF LoseHead, fileVars
<1>2. TypeInv'
  BY <1>1, ConstantFacts DEF IInv, TypeInv
<1>3. IsLog(log)' /\ PointerInv'
  BY <1>1 DEF IInv, PointerInv
<1>4. FileInv'
  BY <1>1 DEF IInv, FileInv, End
<1>5. CasInv'
  <2>1. 0 <= cas
    BY DEF IInv, TypeInv
  <2> QED
    BY <2>1, <1>1, ConstantFacts DEF IInv, CasInv
<1>6. CleanInv'
  BY <1>1 DEF IInv, CleanInv, End, Store
<1> QED
  BY <1>2, <1>3, <1>4, <1>5, <1>6 DEF IInv

(* Closing the store *)
LEMMA CloseInv ==
  ASSUME IInv, Close
  PROVE  IInv'
<1> USE ConstantFacts
<1>1. /\ phase = "up" /\ phase' = "down" /\ writer' = "dead" /\ vlogs' = {}
      /\ fileLen' = IF maxFid \in vlogs THEN woff ELSE fileLen
      /\ misread' = (misread \/ (mt = Empty /\ vptr # NoPtr /\ vptr # head.ptr))
      /\ UNCHANGED <<syncWrites, log, maxFid, woff, rpos, mt, emptyKey, vptr, cas, acked, spilled, forgot>>
  BY DEF Close, ClosedLen
<1>2. IF mt = Empty /\ ~emptyKey THEN UNCHANGED <<tables, head>> ELSE Flush(cas)
  BY DEF Close
<1>3. /\ TypeInv /\ cas \in Nat /\ cas <= cas /\ IsStore(mt) /\ IsStore(tables) /\ IsStore(acked)
      /\ fileLen \in Nat /\ woff \in Nat /\ misread \in BOOLEAN
  BY DEF IInv, TypeInv
<1>4. /\ IsStore(tables') /\ head' \in Values /\ Resolves(tables', log)
      /\ syncWrites /\ ~ forgot => (head' # NoHead => Below(tables', head'.cas))
      /\ ~ emptyKey => tables' = Store
      /\ vptr = NoPtr => head' = head
      /\ ~ emptyKey /\ vptr # NoPtr /\ ~ misread' => head'.ptr = vptr
  <2>1. CASE mt = Empty /\ ~emptyKey
    <3>1. tables' = tables /\ head' = head
      BY <1>2, <2>1
    <3>2. Store = tables
      BY <1>3, <2>1, EmptyFacts DEF Store
    <3>3. vptr # NoPtr /\ ~ misread' => head.ptr = vptr
      BY <1>1, <2>1
    <3> QED
      BY <3>1, <3>2, <3>3, <1>1 DEF IInv, TypeInv, PointerInv, CasInv
  <2>2. CASE ~ (mt = Empty /\ ~emptyKey)
    <3>1. Flush(cas)
      BY <1>2, <2>2
    <3> QED
      BY <3>1, <1>1, <1>3, FlushFacts
  <2> QED
    BY <2>1, <2>2
<1>5. TypeInv'
  <2>1. fileLen' \in Nat /\ misread' \in BOOLEAN
    BY <1>1, <1>3
  <2> QED
    BY <2>1, <1>1, <1>3, <1>4 DEF TypeInv
<1>6. /\ Inside(log, fileLen') /\ fileLen' <= MapLen
      /\ ~ spilled => fileLen' = woff /\ woff <= FileSize
  <2>1. vlogs = {0} /\ Inside(log, fileLen) /\ fileLen <= MapLen
    BY <1>1 DEF IInv, FileInv
  <2>2. maxFid = 0 => Inside(log, woff) /\ woff <= MapLen
    BY <1>1 DEF IInv, FileInv
  <2>3. ~ spilled => maxFid = 0 /\ woff <= FileSize
    BY <1>1 DEF IInv, FileInv, End
  <2> QED
    BY <2>1, <2>2, <2>3, <1>1
<1>7. FileInv'
  BY <1>1, <1>6 DEF FileInv, End
<1>8. IsLog(log)' /\ PointerInv'
  BY <1>1, <1>4 DEF IInv, PointerInv
<1>9. CasInv'
  BY <1>1, <1>4 DEF CasInv
<1>10. CleanInv'
  <2> SUFFICES ASSUME ~ spilled
               PROVE  CleanInv'
    BY <1>1 DEF CleanInv
  <2>1. fileLen' = woff
    BY <1>6
  <2>2. Inside(log, woff) /\ Reached(log, woff) /\ (vptr # NoPtr => Behind(vptr) = woff)
    BY <1>1 DEF IInv, CleanInv, End
  <2>3. ASSUME ~ misread'
        PROVE  /\ ~ emptyKey
               /\ head' # NoHead => Behind(head'.ptr) = woff
               /\ acked = tables'
    <3>1. ~ misread
      BY <2>3, <1>1
    <3>2. /\ ~ emptyKey /\ acked = Store
          /\ head # NoHead /\ vptr = NoPtr => Behind(head.ptr) = woff
      BY <3>1, <1>1 DEF IInv, CleanInv, End
    <3> QED
      BY <3>2, <2>2, <2>3, <1>4
  <2> QED
    BY <2>1, <2>2, <2>3, <1>1 DEF CleanInv, End
<1> QED
  BY <1>5, <1>7, <1>8, <1>9, <1>10 DEF IInv

(* A crash leaves the file at the length of its map. *)
LEMMA CrashInv ==
  ASSUME IInv, Crash
  PROVE  IInv'
<1>1. /\ phase # "down" /\ phase' = "down" /\ writer' = "dead"
      /\ spilled' = (spilled \/ phase = "up")
      /\ UNCHANGED <<syncWrites, log, fileLen, maxFid, vlogs, woff, rpos, mt, emptyKey, tables,
                     head, vptr, cas, acked, misread, forgot>>
  BY DEF Crash, fileVars, lsmVars
<1>2. spilled' \in BOOLEAN /\ (~ spilled' => ~ spilled /\ phase = "replay")
  BY <1>1 DEF IInv, TypeInv
<1>3. TypeInv'
  BY <1>1, <1>2 DEF IInv, TypeInv
<1>4. IsLog(log)' /\ PointerInv'
  BY <1>1 DEF IInv, PointerInv
<1>5. FileInv'
  BY <1>1, <1>2 DEF IInv, FileInv, End
<1>6. CasInv'
  BY <1>1 DEF IInv, CasInv
<1>7. CleanInv'
  BY <1>1, <1>2 DEF IInv, CleanInv, End
<1> QED
  BY <1>3, <1>4, <1>5, <1>6, <1>7 DEF IInv

(* Nothing changes. *)
LEMMA StutterInv ==
  ASSUME IInv, UNCHANGED vars
  PROVE  IInv'
<1>1. UNCHANGED <<syncWrites, phase, writer, log, fileLen, maxFid, vlogs, woff, rpos, mt, emptyKey,
                  vptr, cas, tables, head, acked, spilled, misread, forgot>>
  BY DEF vars
<1>2. TypeInv'
  BY <1>1 DEF IInv, TypeInv
<1>3. IsLog(log)' /\ PointerInv'
  BY <1>1 DEF IInv, PointerInv
<1>4. FileInv'
  BY <1>1 DEF IInv, FileInv, End
<1>5. CasInv'
  BY <1>1 DEF IInv, CasInv
<1>6. CleanInv'
  BY <1>1 DEF IInv, CleanInv, End, Store
<1> QED
  BY <1>2, <1>3, <1>4, <1>5, <1>6 DEF IInv

(***************************************************************************)
(* The file, the pointers, the counters and the end of the log fit         *)
(* together in every session, whatever the earlier ones did.               *)
(***************************************************************************)
THEOREM Invariant == Spec => []IInv
<1>1. IInv /\ [Next]_vars => IInv'
  BY OpenInv, ReplayInv, OpenFailsInv, ReadyInv, WriteInv, WriteFullInv, WritePanicsInv, LoseHeadInv,
     CloseInv, CrashInv, StutterInv DEF Next
<1> QED
  BY <1>1, InitInv, PTL DEF Spec

(***************************************************************************)
(* PointersResolve: what a get finds has a value pointer that passes the   *)
(* checks of async_read and leads to the record of that write.             *)
(***************************************************************************)
THEOREM PointersAlwaysResolve == Spec => []PointersResolve
<1>1. ASSUME IInv
      PROVE  PointersResolve
  <2> SUFFICES ASSUME phase = "up", NEW k \in DOMAIN Store, Store[k].ptr # NoPtr
               PROVE  LET p == Store[k].ptr
                      IN  /\ PickLog(p) /\ OffsetValid(p) /\ InMap(p)
                          /\ \E r \in RecordAt(p) : r.key = k /\ r.cas = Store[k].cas
    BY DEF PointersResolve
  <2>1. PICK p : p = Store[k].ptr
    OBVIOUS
  <2>2. Resolves(Store, log) /\ IsLog(log)
    BY <1>1, OverKeeps DEF IInv, PointerInv, Store
  <2>3. p.fid = 0 /\ \E r \in log : /\ r.off = p.off /\ r.len = p.len
                                    /\ r.key = k /\ r.cas = Store[k].cas
    BY <2>1, <2>2 DEF Resolves
  <2>4. PICK r \in log : r.off = p.off /\ r.len = p.len /\ r.key = k /\ r.cas = Store[k].cas
    BY <2>3
  <2>5. r.off \in Nat /\ r.len \in Nat /\ r.len > 0
    BY <2>2 DEF IsLog
  <2>6. PickLog(p)
    BY <1>1, <2>3 DEF IInv, FileInv, PickLog
  <2>7. InMap(p)
    BY <1>1, <2>4 DEF IInv, FileInv, Inside, InMap
  <2>8. OffsetValid(p)
    <3> SUFFICES ASSUME maxFid = 0
                 PROVE  p.off < woff
      BY <2>3 DEF OffsetValid
    <3>1. r.off + r.len <= woff /\ woff \in Nat
      BY <1>1 DEF IInv, TypeInv, FileInv, Inside
    <3> QED
      BY <3>1, <2>4, <2>5
  <2>9. r \in RecordAt(p)
    BY <2>4 DEF RecordAt
  <2> QED
    BY <2>1, <2>4, <2>6, <2>7, <2>8, <2>9
<1> QED
  BY <1>1, Invariant, PTL

(***************************************************************************)
(* CasAhead: with sync_writes, and the head never lost, the counter is not *)
(* behind any record of the store, however often the store was opened.     *)
(***************************************************************************)
THEOREM CountersStayAhead == Spec => []CasAhead
<1>1. ASSUME IInv
      PROVE  CasAhead
  <2> SUFFICES ASSUME phase = "up", syncWrites, ~ forgot
               PROVE  \A k \in DOMAIN Store : Store[k].cas <= cas
    BY DEF CasAhead
  <2>1. Below(mt, cas) /\ Below(tables, cas)
    BY <1>1 DEF IInv, CasInv
  <2>2. Below(Store, cas)
    BY <2>1, OverKeeps DEF Store
  <2> QED
    BY <2>2 DEF Below
<1> QED
  BY <1>1, Invariant, PTL

(***************************************************************************)
(* WritesContinue: the assertion on the number of bytes written and the    *)
(* lookup of the current file end the write loop only after a rotation or  *)
(* a crash.                                                                *)
(***************************************************************************)
THEOREM WriterSurvives == Spec => []WritesContinue
<1>1. IInv => WritesContinue
  BY DEF IInv, FileInv, WritesContinue
<1> QED
  BY <1>1, Invariant, PTL

(***************************************************************************)
(* CleanReopen: after a clean shutdown there is nothing to replay, the     *)
(* file ends with its last record, and the tables have every acknowledged  *)
(* write.                                                                  *)
(***************************************************************************)
THEOREM ReopensClean == Spec => []CleanReopen
<1>1. ASSUME IInv
      PROVE  CleanReopen
  <2> SUFFICES ASSUME phase = "replay", ~ spilled, ~ misread, head # NoHead \/ log = {}
               PROVE  rpos = fileLen /\ fileLen = LogEnd /\ tables = acked
    BY DEF CleanReopen
  <2>1. /\ Inside(log, fileLen) /\ Reached(log, fileLen) /\ rpos = Behind(head.ptr)
        /\ head # NoHead => Behind(head.ptr) = fileLen
        /\ acked = tables /\ fileLen \in Nat
    BY <1>1 DEF IInv, TypeInv, CleanInv, End
  <2>2. rpos = fileLen
    <3>1. CASE head # NoHead
      BY <3>1, <2>1
    <3>2. CASE head = NoHead
      <4>1. log = {} /\ rpos = 0
        BY <3>2, <2>1, ConstantFacts
      <4>2. fileLen = 0
        BY <4>1, <2>1 DEF Reached
      <4> QED
        BY <4>1, <4>2
    <3> QED
      BY <3>1, <3>2
  <2>3. LogEnd = fileLen
    <3> DEFINE S == {r.off + r.len : r \in log} \cup {0}
    <3>1. LogEnd = Max(S)
      BY DEF LogEnd
    <3>2. S \in SUBSET Nat /\ S # {}
      BY <1>1 DEF IInv, IsLog
    <3>3. fileLen \in S /\ \A x \in S : x <= fileLen
      BY <2>1 DEF Inside, Reached
    <3> HIDE DEF S
    <3>4. Max(S) \in S /\ \A x \in S : x <= Max(S)
      BY <2>1, <3>2, <3>3, BoundedMax
    <3>5. Max(S) <= fileLen /\ fileLen <= Max(S) /\ Max(S) \in Nat
      BY <3>2, <3>3, <3>4
    <3> QED
      BY <2>1, <3>1, <3>5
  <2> QED
    BY <2>1, <2>2, <2>3
<1> QED
  BY <1>1, Invariant, PTL
=============================================================================
