--------------------------- MODULE SkipListProofs ---------------------------
(***************************************************************************)
(* The lock-free skip list is correct for any number of threads that put,  *)
(* any keys, any MAX_HEIGHT and any number of puts.                        *)
(*                                                                         *)
(* IInv is inductive for the threads that put.  It speaks of a level as    *)
(* On(tower, l), the nodes that are pointed to there, and not as List(l),  *)
(* the walk from the head: ListOn proves that they are the same, and a     *)
(* compare-and-swap changes On in one place.  With ValuesInv it shows that *)
(* the list is a memtable, and with ReaderInv what searches and scans      *)
(* return.                                                                 *)
(***************************************************************************)
EXTENDS SkipList, FiniteSetFacts, FiniteSetTheorems

(* A pointer is nil or leads to a node other than the head. *)
Pointers == {Nil} \cup (Nodes \ {HeadNode})

Towers == [Nodes -> [Levels -> Pointers]]

(* The nodes other than the head to which level l of a tower in t points. *)
On(t, l) == {n \in Nodes \ {HeadNode} : \E m \in Nodes : t[m][l] = n}

Chain(t, l) == On(t, l) \cup {HeadNode}

(***************************************************************************)
(* Level l of towers t over keys k is one sorted list: pointers go to      *)
(* greater keys, whatever is pointed to is pointed to from the list too    *)
(* (a node that is not linked yet points into the list, and nothing to     *)
(* it), no pointer leads past a node, and no key is there twice.           *)
(***************************************************************************)
ListInv(t, k, l) ==
  /\ \A m \in Nodes : t[m][l] # Nil => k[m] < k[t[m][l]]
  /\ \A n \in On(t, l) : \E m \in Chain(t, l) : t[m][l] = n
  /\ \A m \in Chain(t, l), n \in On(t, l) :
       k[m] < k[n] => t[m][l] # Nil /\ k[t[m][l]] <= k[n]
  /\ \A m, n \in On(t, l) : k[m] = k[n] => m = n

-----------------------------------------------------------------------------
Searching == {"search", "find", "retry"}
Owning == {"grow", "raise", "link", "find", "retry"}
Linking == {"link", "find", "retry"}

Splice == [0 .. MaxHeight -> Nat]

Writer ==
  [at : {"idle", "set", "alloc", "panicked"} \cup Searching \cup Owning,
   key : Nat, val : Nat, level : Nat, before : Nat, prev : Splice, next : Splice,
   node : Nat, height : Nat, listHeight : Nat]

TypeInv ==
  /\ nodeKey \in [Nodes -> Nat] /\ value \in [Nodes -> Nat]
  /\ tower \in Towers
  /\ free \in HeadNode + 1 .. MaxPuts + 2
  /\ height \in 1 .. MaxHeight
  /\ puts \in 0 .. MaxPuts
  /\ writer \in [Writers -> Writer]

(* The nodes: only allocated ones have a key, and only those are pointed to. *)
NodesInv ==
  /\ nodeKey[HeadNode] = 0
  /\ \A n \in 2 .. free - 1 : nodeKey[n] \in Keys
  /\ \A n \in Nodes, l \in Levels : tower[n][l] \in {Nil} \cup (2 .. free - 1)
  /\ \A n \in Nodes, l \in Levels : n >= free => tower[n][l] = Nil

(* The lists: sorted, each contained in the one below, none above the height. *)
ListsInv ==
  /\ \A l \in Levels : ListInv(tower, nodeKey, l)
  /\ \A l \in Levels \ {0} : On(tower, l) \subseteq On(tower, l - 1)
  /\ \A l \in Levels : On(tower, l) # {} => l < height

(* Every put that has no node yet has one left in the arena. *)
Unallocated == {w \in Writers : writer[w].at \in {"search", "alloc"}}

ArenaInv == IsFiniteSet(Unallocated) /\ free + Cardinality(Unallocated) <= puts + 2

(* A splice is around the key, on nodes that are on the level. *)
SpliceInv(s) ==
  \A i \in Levels :
    s.prev[i] # Nil =>
      /\ s.prev[i] \in Chain(tower, i) /\ nodeKey[s.prev[i]] < s.key
      /\ s.next[i] # Nil => s.next[i] \in On(tower, i) /\ nodeKey[s.next[i]] > s.key

(* The search is at a node before the key, on the level it is at. *)
SearchInv(s) ==
  s.at \in Searching =>
    /\ s.level \in Levels
    /\ s.before \in Chain(tower, s.level) /\ nodeKey[s.before] < s.key

(* The new node is linked on the levels below s.level, and on no other. *)
NodeInv(s) ==
  s.at \in Owning =>
    /\ s.node \in 2 .. free - 1 /\ nodeKey[s.node] = s.key
    /\ s.height \in 1 .. MaxHeight
    /\ \A j \in Levels : s.node \in On(tower, j) <=> j < s.level

(***************************************************************************)
(* How far a put has come.  Levels 0 and 1 have a splice from the first    *)
(* search or from HeadSplice until they are linked, so that assert!(i > 1) *)
(* holds.                                                                  *)
(***************************************************************************)
PhaseInv(s) ==
  /\ s.at # "panicked"
  /\ s.at # "idle" => s.key \in Keys
  /\ s.at = "search" => s.prev[s.level + 1] # Nil
  /\ s.at \in {"alloc", "grow", "raise"} => s.level = 0
  /\ s.at \in {"alloc"} \cup Owning =>
       /\ s.level = 0 => s.prev[0] # Nil /\ s.prev[1] # Nil
       /\ s.level = 1 => s.prev[1] # Nil
  /\ s.at = "raise" => s.listHeight < s.height
  /\ s.at \in Linking => s.level < s.height /\ s.height <= height
  /\ s.at = "find" => s.level > 1
  /\ s.at = "retry" => s.prev[s.level] # Nil
  /\ s.at = "set" => s.before \in On(tower, 0) /\ nodeKey[s.before] = s.key
  /\ s.height <= MaxHeight /\ s.node < free

WriterInv(s) == SpliceInv(s) /\ SearchInv(s) /\ NodeInv(s) /\ PhaseInv(s)

(* No two puts have the same node. *)
OwnersInv ==
  \A v, w \in Writers :
    v # w /\ writer[v].at \in Owning /\ writer[w].at \in Owning =>
      writer[v].node # writer[w].node

(***************************************************************************)
(* The values of puts in flight tell them apart, and are in their nodes.   *)
(***************************************************************************)
ValuesInv ==
  /\ \A w \in Writers :
       LET s == writer[w]
       IN  /\ InFlight(s) => s.val \in 1 .. puts
           /\ InFlight(s) /\ s.at \in Owning => value[s.node] = s.val
  /\ \A v, w \in Writers :
       v # w /\ InFlight(writer[v]) /\ InFlight(writer[w]) => writer[v].val # writer[w].val

(* The inductive invariant. *)
IInv ==
  /\ TypeInv /\ NodesInv /\ ListsInv /\ ArenaInv /\ OwnersInv
  /\ \A w \in Writers : WriterInv(writer[w])

-----------------------------------------------------------------------------
(* The fields of a search, and where it is. *)
NearInv ==
  /\ reader \in [at : {"near", "grab"}, key : Nat, less : BOOLEAN, allowEqual : BOOLEAN,
                 x : Nat, level : Nat, start : SUBSET Nat]
  /\ reader.start \subseteq KeysIn(On(tower, 0))
  /\ reader.at = "near" =>
       /\ reader.level \in Levels
       /\ reader.x \in Chain(tower, reader.level)
       /\ reader.x # HeadNode => nodeKey[reader.x] < reader.key
  /\ reader.at = "grab" =>
       /\ ~ reader.less /\ ~ reader.allowEqual
       /\ reader.x \in On(tower, 0) /\ nodeKey[reader.x] = reader.key

(* A cursor has seen the keys up to its node, in order. *)
ScanInv ==
  /\ reader \in [at : {"scan"}, x : Nat, seen : Seq(Nat), start : SUBSET Nat]
  /\ reader.x \in Chain(tower, 0)
  /\ reader.start \subseteq KeysIn(On(tower, 0))
  /\ \A k \in reader.start :
       k <= nodeKey[reader.x] => \E i \in 1 .. Len(reader.seen) : reader.seen[i] = k
  /\ \A i \in 1 .. Len(reader.seen) : reader.seen[i] <= nodeKey[reader.x]
  /\ \A i \in 2 .. Len(reader.seen) : reader.seen[i - 1] < reader.seen[i]

(* Together with IInv, the invariant for readers. *)
ReaderInv ==
  /\ reader.at \in {"idle", "near", "grab", "scan", "done"}
  /\ reader.at \in {"near", "grab"} => NearInv
  /\ reader.at = "scan" => ScanInv
  /\ FindsNear /\ ScanComplete

-----------------------------------------------------------------------------
(***************************************************************************)
(* A store into a tower that is not linked on the level changes no list.   *)
(***************************************************************************)
LEMMA StoreList ==
  ASSUME NEW t \in Towers, NEW k \in [Nodes -> Nat], NEW l \in Levels, NEW j \in Levels,
         NEW n \in Nodes \ {HeadNode}, NEW x \in Pointers,
         ListInv(t, k, l), ListInv(t, k, j),
         n \notin On(t, l),
         x # Nil => x \in On(t, l) /\ k[n] < k[x],
         NEW t2 \in Towers,
         \A m \in Nodes, i \in Levels : t2[m][i] = IF m = n /\ i = l THEN x ELSE t[m][i]
  PROVE  On(t2, j) = On(t, j) /\ ListInv(t2, k, j)
<1>1. \A m \in Nodes, i \in Levels : t2[m][i] = IF m = n /\ i = l THEN x ELSE t[m][i]
  OBVIOUS
<1>2. CASE j # l
  <2>1. \A m \in Nodes : t2[m][j] = t[m][j]
    BY <1>1, <1>2
  <2>2. On(t2, j) = On(t, j) /\ Chain(t2, j) = Chain(t, j)
    BY <2>1 DEF On, Chain
  <2>3. \A m \in Chain(t, j) : m \in Nodes
    BY PutsAssumption DEF On, Chain, Nodes, HeadNode
  <2> QED
    BY <2>1, <2>2, <2>3 DEF ListInv
<1>3. CASE j = l
  <2>1. \A m \in Nodes : t2[m][l] = IF m = n THEN x ELSE t[m][l]
    BY <1>1
  <2>2. \A m \in Chain(t, l) : m \in Nodes /\ m # n
    BY PutsAssumption DEF On, Chain, Nodes, HeadNode
  <2>3. \A y \in On(t, l) : y \in On(t2, l)
    <3> SUFFICES ASSUME NEW y \in On(t, l)
                 PROVE  y \in On(t2, l)
      OBVIOUS
    <3>1. PICK m \in Chain(t, l) : t[m][l] = y
      BY DEF ListInv
    <3> QED
      BY <3>1, <2>1, <2>2 DEF On
  <2>4. \A y \in On(t2, l) : y \in On(t, l)
    BY <2>1 DEF On, Nodes, Nil, HeadNode
  <2>5. On(t2, l) = On(t, l) /\ Chain(t2, l) = Chain(t, l)
    BY <2>3, <2>4 DEF Chain
  <2>6. \A m \in Nodes : t2[m][l] # Nil => k[m] < k[t2[m][l]]
    BY <2>1 DEF ListInv
  <2>7. \A m \in Chain(t, l) : t2[m][l] = t[m][l]
    BY <2>1, <2>2
  <2>8. \A m \in Chain(t2, l), y \in On(t2, l) :
          k[m] < k[y] => t2[m][l] # Nil /\ k[t2[m][l]] <= k[y]
    BY <2>5, <2>7 DEF ListInv
  <2>9. /\ \A y \in On(t2, l) : \E m \in Chain(t2, l) : t2[m][l] = y
        /\ \A a, b \in On(t2, l) : k[a] = k[b] => a = b
    BY <2>5, <2>7 DEF ListInv
  <2>10. ListInv(t2, k, l)
    BY <2>6, <2>8, <2>9 DEF ListInv
  <2> QED
    BY <1>3, <2>5, <2>10
<1> QED
  BY <1>2, <1>3

(***************************************************************************)
(* The compare-and-swap: node n comes between p and what followed p.       *)
(***************************************************************************)
LEMMA LinkList ==
  ASSUME NEW t \in Towers, NEW k \in [Nodes -> Nat], NEW l \in Levels, NEW j \in Levels,
         NEW n \in Nodes \ {HeadNode}, NEW p \in Chain(t, l),
         ListInv(t, k, l), ListInv(t, k, j),
         n \notin On(t, l),
         k[HeadNode] = 0, \A m \in On(t, l) : k[m] > 0,
         k[p] < k[n],
         NEW x, x = t[p][l],
         x # Nil => x \in On(t, l) /\ k[n] < k[x],
         NEW t2 \in Towers,
         \A m \in Nodes, i \in Levels :
           t2[m][i] = IF m = n /\ i = l THEN x ELSE IF m = p /\ i = l THEN n ELSE t[m][i]
  PROVE  /\ On(t2, j) = On(t, j) \cup (IF j = l THEN {n} ELSE {})
         /\ ListInv(t2, k, j)
<1>0. /\ p \in Nodes /\ n # p /\ x \in Pointers
      /\ \A m \in Chain(t, l) : m \in Nodes /\ m # n
      /\ \A i \in Levels : \A m \in On(t, i) : m \in Nodes /\ m # Nil
  <2>1. HeadNode \in Nodes
    BY PutsAssumption DEF Nodes, HeadNode
  <2>2. \A m \in Chain(t, l) : m \in Nodes /\ m # n
    BY <2>1 DEF On, Chain
  <2>3. \A i \in Levels : \A m \in On(t, i) : m \in Nodes /\ m # Nil
    BY DEF On, Nodes, Nil
  <2>4. x \in Pointers
    BY <2>2 DEF Towers
  <2> QED
    BY <2>2, <2>3, <2>4
<1>1. \A m \in Nodes, i \in Levels :
        t2[m][i] = IF m = n /\ i = l THEN x ELSE IF m = p /\ i = l THEN n ELSE t[m][i]
  OBVIOUS
<1>2. CASE j # l
  <2>1. \A m \in Nodes : t2[m][j] = t[m][j]
    BY <1>1, <1>2
  <2>2. On(t2, j) = On(t, j) /\ Chain(t2, j) = Chain(t, j)
    BY <2>1 DEF On, Chain
  <2>3. \A m \in Chain(t, j) : m \in Nodes
    BY PutsAssumption DEF On, Chain, Nodes, HeadNode
  <2>4. ListInv(t2, k, j)
    BY <2>1, <2>2, <2>3 DEF ListInv
  <2> QED
    BY <1>2, <2>2, <2>4
<1>3. CASE j = l
  <2>1. \A m \in Nodes : t2[m][l] = IF m = n THEN x ELSE IF m = p THEN n ELSE t[m][l]
    BY <1>1
  <2>2. \A y \in On(t, l) : y \in On(t2, l)
    <3> SUFFICES ASSUME NEW y \in On(t, l)
                 PROVE  y \in On(t2, l)
      OBVIOUS
    <3>1. PICK m \in Chain(t, l) : t[m][l] = y
      BY DEF ListInv
    <3>2. CASE m = p
      <4>1. t2[n][l] = y
        BY <3>1, <3>2, <2>1
      <4> QED
        BY <4>1, <1>0 DEF On
    <3>3. CASE m # p
      <4>1. t2[m][l] = y
        BY <3>1, <3>3, <2>1, <1>0
      <4> QED
        BY <4>1, <1>0 DEF On
    <3> QED
      BY <3>2, <3>3
  <2>3. n \in On(t2, l)
    BY <2>1, <1>0 DEF On
  <2>4. \A y \in On(t2, l) : y \in On(t, l) \/ y = n
    <3> SUFFICES ASSUME NEW y \in On(t2, l), y # n
                 PROVE  y \in On(t, l)
      OBVIOUS
    <3>1. PICK m \in Nodes : t2[m][l] = y
      BY DEF On
    <3>2. t[m][l] = y \/ t[p][l] = y
      BY <3>1, <2>1
    <3> QED
      BY <3>2, <1>0 DEF On
  <2>5. On(t2, l) = On(t, l) \cup {n} /\ Chain(t2, l) = Chain(t, l) \cup {n}
    BY <2>2, <2>3, <2>4 DEF Chain
  <2>6. \A m \in Nodes : t2[m][l] # Nil => k[m] < k[t2[m][l]]
    BY <2>1, <1>0 DEF ListInv
  <2>7. \A y \in On(t2, l) : \E m \in Chain(t2, l) : t2[m][l] = y
    <3> SUFFICES ASSUME NEW y \in On(t2, l)
                 PROVE  \E m \in Chain(t2, l) : t2[m][l] = y
      OBVIOUS
    <3>1. CASE y = n
      BY <3>1, <2>1, <2>5, <1>0
    <3>2. CASE y # n
      <4>1. PICK m \in Chain(t, l) : t[m][l] = y
        BY <3>2, <2>4 DEF ListInv
      <4>2. CASE m = p
        BY <4>1, <4>2, <2>1, <2>5
      <4>3. CASE m # p
        BY <4>1, <4>3, <2>1, <2>5, <1>0
      <4> QED
        BY <4>2, <4>3
    <3> QED
      BY <3>1, <3>2
  <2>8. \A y \in On(t, l) : k[y] # k[n] /\ (k[y] > k[p] => x # Nil /\ k[x] <= k[y])
    <3> SUFFICES ASSUME NEW y \in On(t, l)
                 PROVE  k[y] # k[n] /\ (k[y] > k[p] => x # Nil /\ k[x] <= k[y])
      OBVIOUS
    <3>1. k[y] \in Nat /\ k[n] \in Nat /\ k[p] \in Nat
      BY <1>0
    <3>2. k[p] < k[y] => x # Nil /\ k[x] <= k[y]
      BY DEF ListInv
    <3>3. x # Nil => k[x] \in Nat /\ k[n] < k[x]
      BY <1>0
    <3> QED
      BY <3>1, <3>2, <3>3
  <2>9. \A a, b \in On(t2, l) : k[a] = k[b] => a = b
    BY <2>4, <2>8 DEF ListInv
  <2>10. \A m \in Chain(t2, l), y \in On(t2, l) :
           k[m] < k[y] => t2[m][l] # Nil /\ k[t2[m][l]] <= k[y]
    <3> SUFFICES ASSUME NEW m \in Chain(t2, l), NEW y \in On(t2, l), k[m] < k[y]
                 PROVE  t2[m][l] # Nil /\ k[t2[m][l]] <= k[y]
      OBVIOUS
    <3>0. /\ m \in Nodes /\ y \in Nodes
          /\ k[m] \in Nat /\ k[y] \in Nat /\ k[n] \in Nat /\ k[p] \in Nat
      BY <2>5, <1>0
    <3>01. n # Nil
      BY DEF Nodes, Nil
    <3>1. CASE m = n
      <4>1. y \in On(t, l)
        BY <3>1, <3>0, <2>4
      <4>2. k[y] > k[p]
        BY <3>1, <3>0
      <4> QED
        BY <4>1, <4>2, <3>1, <2>8, <2>1
    <3>2. CASE m = p
      <4>1. t2[m][l] = n
        BY <3>2, <2>1, <1>0
      <4>2. CASE y = n
        BY <4>1, <4>2, <3>0, <3>01
      <4>3. CASE y # n
        <5>1. y \in On(t, l) /\ x # Nil /\ k[x] <= k[y]
          BY <4>3, <2>4, <2>8, <3>2
        <5>2. k[x] \in Nat /\ k[n] < k[x]
          BY <5>1, <1>0
        <5> QED
          BY <4>1, <5>1, <5>2, <3>0, <3>01
      <4> QED
        BY <4>2, <4>3
    <3>3. CASE m # n /\ m # p
      <4>1. t2[m][l] = t[m][l] /\ m \in Chain(t, l)
        BY <3>3, <3>0, <2>1, <2>5
      <4>2. CASE y # n
        BY <4>1, <4>2, <2>4 DEF ListInv
      <4>3. CASE y = n
        <5>1. CASE k[m] < k[p]
          <6>1. p \in On(t, l)
            BY <5>1, <3>0 DEF Chain
          <6>2. t[m][l] # Nil /\ k[t[m][l]] <= k[p]
            BY <5>1, <6>1, <4>1 DEF ListInv
          <6>3. t[m][l] \in On(t, l)
            <7>1. t[m][l] \in Nodes \ {HeadNode}
              BY <6>2, <3>0 DEF Towers, Pointers
            <7> QED
              BY <7>1, <3>0 DEF On
          <6>4. k[t[m][l]] \in Nat
            BY <6>3, <1>0
          <6> QED
            BY <4>1, <4>3, <6>2, <6>4, <3>0
        <5>2. CASE k[m] >= k[p]
          <6>1. m \in On(t, l)
            BY <5>2, <3>0, <3>3, <4>1 DEF Chain
          <6>2. k[m] > k[p]
            <7>1. CASE p = HeadNode
              BY <7>1, <6>1, <3>0
            <7>2. CASE p # HeadNode
              <8>1. p \in On(t, l)
                BY <7>2 DEF Chain
              <8>2. k[m] # k[p]
                BY <8>1, <6>1, <3>3 DEF ListInv
              <8> QED
                BY <8>2, <5>2, <3>0
            <7> QED
              BY <7>1, <7>2
          <6>3. x # Nil /\ k[x] <= k[m]
            BY <6>1, <6>2, <2>8
          <6>4. k[x] \in Nat /\ k[n] < k[x]
            BY <6>3, <1>0
          <6> QED
            BY <6>3, <6>4, <4>3, <3>0
        <5> QED
          BY <5>1, <5>2, <3>0
      <4> QED
        BY <4>2, <4>3
    <3> QED
      BY <3>1, <3>2, <3>3
  <2>11. ListInv(t2, k, l)
    BY <2>6, <2>7, <2>9, <2>10 DEF ListInv
  <2> QED
    BY <1>3, <2>5, <2>11
<1> QED
  BY <1>2, <1>3
-----------------------------------------------------------------------------
(* The nodes that List(l) counts through, from the head on. *)
IsWalk(f, t, l) ==
  f = [i \in 0 .. MaxPuts + 1 |->
         IF i = 0 THEN HeadNode ELSE IF f[i - 1] = Nil THEN Nil ELSE t[f[i - 1]][l]]

(* There is such a walk: it is put together step by step. *)
LEMMA WalkExists ==
  ASSUME NEW t \in Towers, NEW l \in Levels
  PROVE  \E f : IsWalk(f, t, l)
<1> DEFINE Next1(n) == IF n = Nil THEN Nil ELSE t[n][l]
           Part(f, n) ==
             /\ f \in [0 .. n -> Nat]
             /\ f[0] = HeadNode
             /\ \A i \in 1 .. n : f[i] = Next1(f[i - 1])
             /\ \A i \in 0 .. n : f[i] \in Nodes \cup {Nil}
           S == {n \in Nat : \E f : Part(f, n)}
<1>1. 0 \in S
  <2>1. HeadNode \in Nodes /\ HeadNode \in Nat
    BY PutsAssumption DEF Nodes, HeadNode
  <2>2. Part([i \in 0 .. 0 |-> HeadNode], 0)
    BY <2>1
  <2> QED
    BY <2>2
<1>2. ASSUME NEW n \in S
      PROVE  n + 1 \in S
  <2>1. PICK f : Part(f, n)
    OBVIOUS
  <2>2. n \in Nat /\ f[n] \in Nodes \cup {Nil}
    BY <2>1
  <2>3. Next1(f[n]) \in Nodes \cup {Nil}
    BY <2>2 DEF Towers, Pointers
  <2> DEFINE g == [i \in 0 .. n + 1 |-> IF i = n + 1 THEN Next1(f[n]) ELSE f[i]]
  <2>4. \A x \in Nodes \cup {Nil} : x \in Nat
    BY DEF Nodes, Nil
  <2> HIDE DEF Next1
  <2>5. g \in [0 .. n + 1 -> Nat]
    BY <2>1, <2>2, <2>3, <2>4
  <2>6. g[n + 1] = Next1(f[n]) /\ \A i \in 0 .. n : g[i] = f[i]
    BY <2>2
  <2> HIDE DEF g
  <2>7. g[0] = HeadNode
    BY <2>1, <2>2, <2>6
  <2>8. \A i \in 1 .. n + 1 : g[i] = Next1(g[i - 1])
    <3> SUFFICES ASSUME NEW i \in 1 .. n + 1
                 PROVE  g[i] = Next1(g[i - 1])
      OBVIOUS
    <3>1. i - 1 \in 0 .. n /\ g[i - 1] = f[i - 1]
      BY <2>2, <2>6
    <3>2. CASE i = n + 1
      BY <3>1, <3>2, <2>2, <2>6
    <3>3. CASE i # n + 1
      <4>1. i \in 1 .. n
        BY <3>3, <2>2
      <4> QED
        BY <4>1, <3>1, <2>1, <2>2, <2>6
    <3> QED
      BY <3>2, <3>3
  <2>9. \A i \in 0 .. n + 1 : g[i] \in Nodes \cup {Nil}
    <3> SUFFICES ASSUME NEW i \in 0 .. n + 1
                 PROVE  g[i] \in Nodes \cup {Nil}
      OBVIOUS
    <3>1. i = n + 1 \/ i \in 0 .. n
      BY <2>2
    <3> QED
      BY <3>1, <2>1, <2>3, <2>6
  <2>10. Part(g, n + 1)
    BY <2>5, <2>7, <2>8, <2>9
  <2>11. n + 1 \in Nat
    BY <2>2
  <2> HIDE DEF Part
  <2> QED
    BY <2>10, <2>11
<1>3. MaxPuts + 1 \in S
  <2>1. \A n \in S : n + 1 \in S
    BY <1>2
  <2>2. S \in SUBSET Nat /\ MaxPuts + 1 \in Nat
    BY PutsAssumption
  <2> HIDE DEF S
  <2> QED
    BY <1>1, <2>1, <2>2, SetInduction
<1>4. PICK f : Part(f, MaxPuts + 1)
  BY <1>3
<1>5. IsWalk(f, t, l)
  <2> DEFINE N == MaxPuts + 1
             g == [i \in 0 .. N |->
                     IF i = 0 THEN HeadNode ELSE IF f[i - 1] = Nil THEN Nil ELSE t[f[i - 1]][l]]
  <2>1. \A i \in 0 .. N : f[i] = g[i]
    <3> SUFFICES ASSUME NEW i \in 0 .. N
                 PROVE  f[i] = g[i]
      OBVIOUS
    <3>1. CASE i = 0
      BY <3>1, <1>4
    <3>2. CASE i # 0
      <4>1. i \in 1 .. N
        BY <3>2
      <4> QED
        BY <4>1, <3>2, <1>4
    <3> QED
      BY <3>1, <3>2
  <2>2. f \in [0 .. N -> Nat]
    BY <1>4
  <2>3. f = [i \in 0 .. N |-> f[i]]
    BY <2>2
  <2>4. g = [i \in 0 .. N |-> g[i]]
    OBVIOUS
  <2>5. f = g
    BY <2>1, <2>3, <2>4, Zenon
  <2> QED
    BY <2>5 DEF IsWalk
<1> QED
  BY <1>5

(* List(l) is what such a walk meets. *)
LEMMA ListWalk ==
  ASSUME NEW l \in Levels, tower \in Towers
  PROVE  \E f : IsWalk(f, tower, l) /\ List(l) = {f[i] : i \in 1 .. MaxPuts + 1} \ {Nil}
<1>1. \E f : IsWalk(f, tower, l)
  BY WalkExists
<1> QED
  BY <1>1 DEF List, IsWalk

(***************************************************************************)
(* The walk stays on the level, with ascending keys, so it is at its end   *)
(* before it runs out of steps, and it misses no node of the level.        *)
(***************************************************************************)
LEMMA ListIsOn ==
  ASSUME NEW l \in Levels, tower \in Towers, nodeKey \in [Nodes -> Nat],
         ListInv(tower, nodeKey, l), nodeKey[HeadNode] = 0,
         \A n \in On(tower, l) : nodeKey[n] > 0
  PROVE  List(l) = On(tower, l)
<1> DEFINE N == MaxPuts + 1
<1>1. PICK f : IsWalk(f, tower, l) /\ List(l) = {f[i] : i \in 1 .. MaxPuts + 1} \ {Nil}
  BY ListWalk
<1>2. /\ f[0] = HeadNode
      /\ \A i \in 1 .. N : f[i] = IF f[i - 1] = Nil THEN Nil ELSE tower[f[i - 1]][l]
  <2>0. N \in Nat /\ 0 \in 0 .. N
    BY PutsAssumption
  <2>1. DOMAIN f = 0 .. N /\ \A i \in 0 .. N : f[i] = IF i = 0 THEN HeadNode ELSE IF f[i - 1] = Nil THEN Nil ELSE tower[f[i - 1]][l]
    <3> DEFINE g == [i \in 0 .. N |-> IF i = 0 THEN HeadNode ELSE IF f[i - 1] = Nil THEN Nil ELSE tower[f[i - 1]][l]]
    <3>1. f = g
      BY <1>1, Zenon DEF IsWalk
    <3>2. DOMAIN g = 0 .. N /\ \A i \in 0 .. N : g[i] = IF i = 0 THEN HeadNode ELSE IF f[i - 1] = Nil THEN Nil ELSE tower[f[i - 1]][l]
      OBVIOUS
    <3> HIDE DEF g
    <3> QED
      BY <3>1, <3>2, Zenon
  <2>2. f[0] = HeadNode
    BY <2>0, <2>1
  <2>3. ASSUME NEW i \in 1 .. N
        PROVE  f[i] = IF f[i - 1] = Nil THEN Nil ELSE tower[f[i - 1]][l]
    <3>1. i \in 0 .. N /\ i # 0
      OBVIOUS
    <3> QED
      BY <3>1, <2>1
  <2> QED
    BY <2>2, <2>3
<1> HIDE DEF N
<1>3. N \in Nat /\ N = MaxPuts + 1
  BY PutsAssumption DEF N
<1>4. HeadNode \in Nodes /\ Nil \notin Nodes /\ \A n \in Chain(tower, l) : n \in Nodes
  BY PutsAssumption DEF Nodes, HeadNode, Nil, Chain, On
<1>5. \A i \in Nat : i <= N => f[i] = Nil \/ f[i] \in Chain(tower, l)
  <2> DEFINE S == {i \in Nat : i <= N => f[i] = Nil \/ f[i] \in Chain(tower, l)}
  <2>1. 0 \in S
    BY <1>2 DEF Chain
  <2>2. ASSUME NEW i \in S
        PROVE  i + 1 \in S
    <3> SUFFICES ASSUME i + 1 <= N, f[i + 1] # Nil
                 PROVE  f[i + 1] \in Chain(tower, l)
      OBVIOUS
    <3>1. i + 1 \in 1 .. N /\ (i + 1) - 1 = i
      BY <1>3
    <3>2. f[i + 1] = IF f[i] = Nil THEN Nil ELSE tower[f[i]][l]
      BY <1>2, <3>1
    <3>3. f[i] \in Nodes /\ f[i + 1] = tower[f[i]][l]
      BY <3>1, <3>2, <1>3, <1>4
    <3>4. f[i + 1] \in Nodes \ {HeadNode}
      BY <3>3 DEF Towers, Pointers
    <3> QED
      BY <3>3, <3>4 DEF On, Chain
  <2>3. S \in SUBSET Nat /\ \A i \in S : i + 1 \in S
    BY <2>2
  <2>4. \A i \in Nat : i \in S
    <3> HIDE DEF S
    <3> QED
      BY <2>1, <2>3, SetInduction
  <2> QED
    BY <2>4
<1>6. \A j \in Nat : j <= N /\ f[j] # Nil =>
        \A i \in 0 .. j - 1 : f[i] # Nil /\ nodeKey[f[i]] < nodeKey[f[j]]
  <2> DEFINE S == {j \in Nat : j <= N /\ f[j] # Nil =>
                     \A i \in 0 .. j - 1 : f[i] # Nil /\ nodeKey[f[i]] < nodeKey[f[j]]}
  <2>1. 0 \in S
    OBVIOUS
  <2>2. ASSUME NEW j \in S
        PROVE  j + 1 \in S
    <3> SUFFICES ASSUME j + 1 <= N, f[j + 1] # Nil, NEW i \in 0 .. j
                 PROVE  f[i] # Nil /\ nodeKey[f[i]] < nodeKey[f[j + 1]]
      OBVIOUS
    <3>1. j + 1 \in 1 .. N /\ (j + 1) - 1 = j /\ j <= N /\ j \in Nat
      BY <1>3
    <3>2. f[j + 1] = IF f[j] = Nil THEN Nil ELSE tower[f[j]][l]
      BY <1>2, <3>1
    <3>3. f[j] # Nil /\ f[j + 1] = tower[f[j]][l]
      BY <3>2
    <3>4. f[j] \in Nodes /\ f[j + 1] \in Nodes
      BY <3>1, <3>3, <1>3, <1>4, <1>5
    <3>5. nodeKey[f[j]] < nodeKey[f[j + 1]]
      BY <3>3, <3>4 DEF ListInv
    <3>6. CASE i = j
      BY <3>3, <3>5, <3>6
    <3>7. CASE i # j
      <4>1. i \in 0 .. j - 1
        BY <3>7, <3>1
      <4>2. f[i] # Nil /\ nodeKey[f[i]] < nodeKey[f[j]]
        BY <4>1, <3>1, <3>3
      <4>3. f[i] \in Nodes
        BY <4>2, <3>1, <1>3, <1>4, <1>5
      <4> QED
        BY <4>2, <4>3, <3>4, <3>5
    <3> QED
      BY <3>6, <3>7
  <2>3. S \in SUBSET Nat /\ \A i \in S : i + 1 \in S
    BY <2>2
  <2>4. \A i \in Nat : i \in S
    <3> HIDE DEF S
    <3> QED
      BY <2>1, <2>3, SetInduction
  <2> QED
    BY <2>4
<1>7. f[N] = Nil
  <2> SUFFICES ASSUME f[N] # Nil
               PROVE  FALSE
    OBVIOUS
  <2>1. \A i \in 0 .. N : f[i] \in Nodes
    BY <1>3, <1>4, <1>5, <1>6
  <2>2. \A j \in 0 .. N : f[j] # Nil
    BY <2>1, <1>4
  <2> DEFINE g == [i \in 0 .. N |-> f[i]]
  <2>3. g \in [0 .. N -> Nodes]
    BY <2>1
  <2>4. IsFiniteSet(0 .. N) /\ Cardinality(0 .. N) = N + 1
    BY <1>3, FS_Interval
  <2>5. IsFiniteSet(Nodes) /\ Cardinality(Nodes) = N
    BY <1>3, FS_Interval DEF Nodes
  <2>6. \E a, b \in 0 .. N : a # b /\ g[a] = g[b]
    <3>1. Cardinality(Nodes) < Cardinality(0 .. N)
      BY <2>4, <2>5, <1>3
    <3> DEFINE D == 0 .. N
    <3>2. IsFiniteSet(D) /\ IsFiniteSet(Nodes) /\ Cardinality(Nodes) < Cardinality(D)
      BY <3>1, <2>4, <2>5
    <3>3. g \in [D -> Nodes]
      BY <2>3
    <3> HIDE DEF g, D
    <3>4. \E a, b \in D : a # b /\ g[a] = g[b]
      BY <3>2, <3>3, FS_PigeonHole
    <3> QED
      BY <3>4 DEF D
  <2>7. PICK a, b \in 0 .. N : a < b /\ f[a] = f[b]
    BY <2>6, <1>3
  <2>8. nodeKey[f[a]] < nodeKey[f[b]]
    BY <2>2, <2>7, <1>3, <1>6
  <2>9. nodeKey[f[b]] \in Nat
    BY <2>1
  <2> QED
    BY <2>7, <2>8, <2>9
<1>8. ASSUME NEW n \in List(l)
      PROVE  n \in On(tower, l)
  <2>1. PICK i \in 1 .. N : n = f[i] /\ n # Nil
    BY <1>1, <1>3
  <2>2. n \in Chain(tower, l)
    BY <2>1, <1>3, <1>5
  <2>3. n # HeadNode
    <3>1. nodeKey[f[0]] < nodeKey[f[i]]
      BY <2>1, <1>3, <1>6
    <3> QED
      BY <3>1, <2>1, <1>2
  <2> QED
    BY <2>2, <2>3 DEF Chain
<1>9. ASSUME NEW n \in On(tower, l)
      PROVE  n \in List(l)
  <2> DEFINE Missed == {m \in On(tower, l) : m \notin List(l)}
             T == {nodeKey[m] : m \in Missed}
  <2> SUFFICES ASSUME Missed # {}
               PROVE  FALSE
    OBVIOUS
  <2>1. T \in SUBSET Nat /\ T # {}
    BY <1>4 DEF Chain
  <2>2. PICK x \in T : \A y \in T : ~ (<<y, x>> \in OpToRel(<, Nat))
    BY <2>1, WFMin, NatLessThanWellFounded
  <2>3. PICK m \in Missed : nodeKey[m] = x
    BY <2>2
  <2>4. PICK p \in Chain(tower, l) : tower[p][l] = m
    BY <2>3 DEF ListInv
  <2>5. p \in Nodes /\ m \in Nodes /\ m # Nil /\ nodeKey[p] < nodeKey[m]
    BY <2>3, <2>4, <1>4 DEF ListInv, Chain
  <2>6. \E i \in 0 .. N : f[i] = p
    <3>1. CASE p = HeadNode
      BY <3>1, <1>2, <1>3
    <3>2. CASE p # HeadNode
      <4>1. p \notin Missed
        <5> SUFFICES ASSUME p \in Missed
                     PROVE  FALSE
          OBVIOUS
        <5>1. nodeKey[p] \in T /\ nodeKey[p] \in Nat /\ x \in Nat
          BY <2>1, <2>5
        <5>2. <<nodeKey[p], x>> \in Nat \X Nat /\ <<nodeKey[p], x>>[1] < <<nodeKey[p], x>>[2]
          BY <5>1, <2>3, <2>5
        <5> QED
          BY <5>1, <5>2, <2>2 DEF OpToRel
      <4>2. p \in List(l)
        BY <4>1, <3>2 DEF Chain
      <4> QED
        BY <4>2, <1>1, <1>3
    <3> QED
      BY <3>1, <3>2
  <2>7. PICK i \in 0 .. N : f[i] = p
    BY <2>6
  <2>8. i + 1 \in 1 .. N /\ (i + 1) - 1 = i
    <3>1. i # N
      BY <2>5, <2>7, <1>4, <1>7
    <3> QED
      BY <3>1, <1>3
  <2>9. f[i + 1] = m
    BY <2>4, <2>5, <2>7, <2>8, <1>2, <1>4
  <2>10. m \in List(l)
    BY <2>5, <2>8, <2>9, <1>1, <1>3
  <2> QED
    BY <2>3, <2>10
<1> QED
  BY <1>8, <1>9
-----------------------------------------------------------------------------
(* Keys are greater than the one of the head. *)
LEMMA KeyFacts == \A k \in Keys : k \in Nat /\ k > 0
  BY KeysAssumption

(* Where nodes, levels and pointers are. *)
LEMMA NodeFacts ==
  ASSUME TypeInv, NodesInv
  PROVE  /\ HeadNode \in Nodes /\ HeadNode = 1 /\ Nil = 0 /\ Nil \notin Nodes
         /\ \A n \in Nodes : n \in Nat /\ nodeKey[n] \in Nat
         /\ \A l \in Levels : l \in 0 .. MaxHeight /\ l + 1 \in 0 .. MaxHeight /\ l \in Nat
         /\ 0 \in Levels
         /\ \A l \in Levels : \A n \in On(tower, l) :
              n \in Nodes /\ n # HeadNode /\ n # Nil /\ n \in 2 .. free - 1
         /\ \A l \in Levels : \A n \in On(tower, l) : nodeKey[n] \in Nat /\ nodeKey[n] > 0
         /\ \A l \in Levels : \A n \in Chain(tower, l) :
              n \in Nodes /\ n # Nil /\ n \in Nat /\ n < free
         /\ \A n \in Nodes, l \in Levels :
              tower[n][l] \in Nat /\ (tower[n][l] # Nil => tower[n][l] \in On(tower, l))
<1>1. HeadNode \in Nodes /\ HeadNode = 1 /\ Nil = 0 /\ Nil \notin Nodes
  BY PutsAssumption DEF HeadNode, Nodes, Nil
<1>2. \A n \in Nodes : n \in Nat /\ nodeKey[n] \in Nat
  BY DEF Nodes, TypeInv
<1>3. /\ \A l \in Levels : l \in 0 .. MaxHeight /\ l + 1 \in 0 .. MaxHeight /\ l \in Nat
      /\ 0 \in Levels
  BY HeightAssumption DEF Levels
<1>4. \A n \in Nodes, l \in Levels : tower[n][l] \in Pointers
  BY DEF TypeInv, Towers
<1>5. ASSUME NEW l \in Levels, NEW n \in On(tower, l)
      PROVE  n \in Nodes /\ n # HeadNode /\ n # Nil /\ n \in 2 .. free - 1
  <2>1. n \in Nodes /\ n # HeadNode /\ \E m \in Nodes : tower[m][l] = n
    BY DEF On
  <2>2. n \in {Nil} \cup (2 .. free - 1)
    BY <2>1 DEF NodesInv
  <2> QED
    BY <1>1, <2>1, <2>2
<1>6. ASSUME NEW l \in Levels, NEW n \in On(tower, l)
      PROVE  nodeKey[n] \in Nat /\ nodeKey[n] > 0
  <2>1. nodeKey[n] \in Keys
    BY <1>5 DEF NodesInv
  <2> QED
    BY <2>1, KeyFacts
<1>7. ASSUME NEW l \in Levels, NEW n \in Chain(tower, l)
      PROVE  n \in Nodes /\ n # Nil /\ n \in Nat /\ n < free
  <2>1. free \in Nat /\ free >= 2
    BY <1>1, PutsAssumption DEF TypeInv
  <2> QED
    BY <2>1, <1>1, <1>2, <1>5 DEF Chain
<1>8. ASSUME NEW n \in Nodes, NEW l \in Levels
      PROVE  tower[n][l] \in Nat /\ (tower[n][l] # Nil => tower[n][l] \in On(tower, l))
  <2>1. tower[n][l] = Nil \/ tower[n][l] \in Nodes \ {HeadNode}
    BY <1>4 DEF Pointers
  <2>2. tower[n][l] \in Nodes \ {HeadNode} => tower[n][l] \in On(tower, l)
    BY DEF On
  <2>3. \A x : x = Nil \/ x \in Nodes => x \in Nat
    BY DEF Nil, Nodes
  <2> QED
    BY <2>1, <2>2, <2>3
<1> QED
  BY <1>1, <1>2, <1>3, <1>5, <1>6, <1>7, <1>8

(* List(l) is On(tower, l) in every state that satisfies the invariant. *)
LEMMA ListOn ==
  ASSUME TypeInv, NodesInv, ListsInv
  PROVE  \A l \in Levels : List(l) = On(tower, l)
  BY ListIsOn, NodeFacts DEF TypeInv, NodesInv, ListsInv

(* Nodes on a level are on all those below it, hence on the base level. *)
LEMMA OnBase ==
  ASSUME TypeInv, NodesInv, ListsInv, NEW l \in Levels
  PROVE  On(tower, l) \subseteq On(tower, 0)
<1> DEFINE S == {i \in Nat : i \in Levels => On(tower, i) \subseteq On(tower, 0)}
<1>1. 0 \in S
  OBVIOUS
<1>2. ASSUME NEW i \in S
      PROVE  i + 1 \in S
  <2> SUFFICES ASSUME i + 1 \in Levels
               PROVE  On(tower, i + 1) \subseteq On(tower, 0)
    OBVIOUS
  <2>1. i \in Levels /\ i + 1 # 0 /\ (i + 1) - 1 = i
    BY HeightAssumption DEF Levels
  <2> QED
    BY <2>1 DEF ListsInv
<1>3. S \in SUBSET Nat /\ \A i \in S : i + 1 \in S
  BY <1>2
<1>4. \A i \in Nat : i \in S
  <2> HIDE DEF S
  <2> QED
    BY <1>1, <1>3, SetInduction
<1> QED
  BY <1>4, NodeFacts

(***************************************************************************)
(* What the steps of one thread leave true for the others: nodes stay      *)
(* where they are and keep their keys, and only the thread's own node is   *)
(* linked.                                                                 *)
(***************************************************************************)
Grows ==
  /\ free' \in Nat /\ free <= free' /\ height' \in Nat /\ height <= height'
  /\ \A l \in Levels : On(tower, l) \subseteq On(tower', l)
  /\ \A n \in 1 .. free - 1 : nodeKey'[n] = nodeKey[n]

(* What holds of a put whose fields do not change still holds when lists only grow. *)
LEMMA OtherWriter ==
  ASSUME TypeInv, NodesInv, Grows,
         NEW s \in Writer, WriterInv(s),
         s.at \in Owning => \A l \in Levels : s.node \in On(tower', l) => s.node \in On(tower, l)
  PROVE  WriterInv(s)'
<1>0. free \in Nat /\ height \in Nat /\ free >= 2
  BY HeightAssumption, PutsAssumption DEF TypeInv, HeadNode
<1>1. \A l \in Levels : \A n \in Chain(tower, l) : n \in Chain(tower', l) /\ nodeKey'[n] = nodeKey[n]
  <2> SUFFICES ASSUME NEW l \in Levels, NEW n \in Chain(tower, l)
               PROVE  n \in Chain(tower', l) /\ nodeKey'[n] = nodeKey[n]
    OBVIOUS
  <2>1. n \in 1 .. free - 1
    BY NodeFacts, <1>0 DEF Nodes
  <2> QED
    BY <2>1 DEF Grows, Chain
<1>2. \A l \in Levels : \A n \in On(tower, l) : n \in On(tower', l) /\ nodeKey'[n] = nodeKey[n]
  BY <1>1 DEF Grows, Chain
<1>3. SpliceInv(s)'
  BY <1>1, <1>2 DEF WriterInv, SpliceInv
<1>4. SearchInv(s)'
  BY <1>1 DEF WriterInv, SearchInv
<1>5. NodeInv(s)'
  <2> SUFFICES ASSUME s.at \in Owning
               PROVE  /\ s.node \in 2 .. free' - 1 /\ nodeKey'[s.node] = s.key
                      /\ s.height \in 1 .. MaxHeight
                      /\ \A j \in Levels : s.node \in On(tower', j) <=> j < s.level
    BY DEF NodeInv
  <2>1. /\ s.node \in 2 .. free - 1 /\ nodeKey[s.node] = s.key
        /\ s.height \in 1 .. MaxHeight
        /\ \A j \in Levels : s.node \in On(tower, j) <=> j < s.level
    BY DEF WriterInv, NodeInv
  <2>2. s.node \in 2 .. free' - 1 /\ nodeKey'[s.node] = s.key
    BY <2>1, <1>0 DEF Grows
  <2> QED
    BY <2>1, <2>2, <1>2
<1>6. PhaseInv(s)'
  <2>1. s.at = "set" => s.before \in On(tower', 0) /\ nodeKey'[s.before] = s.key
    BY <1>2, NodeFacts DEF WriterInv, PhaseInv
  <2>2. s.at \in Linking => s.level < s.height /\ s.height <= height'
    <3>1. s.height \in Nat /\ s.level \in Nat
      BY DEF Writer
    <3> QED
      BY <3>1, <1>0 DEF WriterInv, PhaseInv, Grows
  <2>3. s.height <= MaxHeight /\ s.node < free'
    <3>1. s.node \in Nat
      BY DEF Writer
    <3> QED
      BY <3>1, <1>0 DEF WriterInv, PhaseInv, Grows
  <2> QED
    BY <2>1, <2>2, <2>3 DEF WriterInv, PhaseInv
<1> QED
  BY <1>3, <1>4, <1>5, <1>6 DEF WriterInv

(* Thread w moves on to locals s2: the invariants of all threads. *)
LEMMA WritersStep ==
  ASSUME IInv, Grows, NEW w \in Writers, NEW s2 \in Writer,
         writer' = [writer EXCEPT ![w] = s2],
         WriterInv(s2)',
         \A l \in Levels : \A n \in On(tower', l) :
           n \in On(tower, l) \/ (writer[w].at \in Owning /\ n = writer[w].node),
         s2.at \in Owning =>
           \/ writer[w].at \in Owning /\ s2.node = writer[w].node
           \/ s2.node >= free
  PROVE  /\ writer' \in [Writers -> Writer]
         /\ (\A v \in Writers : WriterInv(writer[v]))'
         /\ OwnersInv'
<1>1. /\ writer' \in [Writers -> Writer] /\ writer'[w] = s2
      /\ \A v \in Writers \ {w} : writer'[v] = writer[v]
      /\ \A v \in Writers : writer[v] \in Writer
  BY DEF IInv, TypeInv
<1>2. ASSUME NEW v \in Writers \ {w}
      PROVE  WriterInv(writer[v])'
  <2>1. PICK s \in Writer : s = writer[v]
    BY <1>1
  <2>2. WriterInv(s)
    BY <2>1 DEF IInv
  <2>3. s.at \in Owning => \A l \in Levels : s.node \in On(tower', l) => s.node \in On(tower, l)
    BY <2>1 DEF IInv, OwnersInv
  <2>4. WriterInv(s)'
    BY <2>2, <2>3, OtherWriter DEF IInv
  <2> QED
    BY <2>1, <2>4, <1>1
<1>3. (\A v \in Writers : WriterInv(writer[v]))'
  <2>1. WriterInv(writer[w])'
    BY <1>1
  <2> QED
    BY <1>2, <2>1
<1>4. OwnersInv'
  <2> SUFFICES ASSUME NEW u \in Writers, NEW v \in Writers, u # v,
                      writer'[u].at \in Owning, writer'[v].at \in Owning
               PROVE  writer'[u].node # writer'[v].node
    BY DEF OwnersInv
  <2>1. \A x \in Writers : writer[x].at \in Owning => writer[x].node \in Nat /\ writer[x].node < free
    <3> SUFFICES ASSUME NEW x \in Writers, writer[x].at \in Owning
                 PROVE  writer[x].node \in Nat /\ writer[x].node < free
      OBVIOUS
    <3>1. writer[x].node \in 2 .. free - 1 /\ free \in Nat
      BY PutsAssumption DEF IInv, WriterInv, NodeInv, TypeInv, HeadNode
    <3> QED
      BY <3>1
  <2>2. s2.node \in Nat /\ free \in Nat
    BY PutsAssumption DEF Writer, IInv, TypeInv, HeadNode
  <2>3. CASE u = w
    BY <2>1, <2>2, <2>3, <1>1 DEF IInv, OwnersInv
  <2>4. CASE v = w
    BY <2>1, <2>2, <2>4, <1>1 DEF IInv, OwnersInv
  <2>5. CASE u # w /\ v # w
    BY <2>5, <1>1 DEF IInv, OwnersInv
  <2> QED
    BY <2>3, <2>4, <2>5
<1> QED
  BY <1>1, <1>3, <1>4
-----------------------------------------------------------------------------
(* Thread w moves on to locals s2, and no memory changes. *)
LEMMA QuietStep ==
  ASSUME IInv, UNCHANGED <<nodeVars, height>>, NEW w \in Writers, NEW s2 \in Writer,
         writer' = [writer EXCEPT ![w] = s2],
         WriterInv(s2),
         s2.at \in Owning => writer[w].at \in Owning /\ s2.node = writer[w].node
  PROVE  /\ NodesInv' /\ ListsInv' /\ OwnersInv'
         /\ writer' \in [Writers -> Writer]
         /\ (\A v \in Writers : WriterInv(writer[v]))'
<1>1. nodeKey' = nodeKey /\ value' = value /\ tower' = tower /\ free' = free /\ height' = height
  BY DEF nodeVars
<1>2. NodesInv' /\ ListsInv'
  BY <1>1 DEF IInv, NodesInv, ListsInv
<1>3. WriterInv(s2)'
  BY <1>1 DEF WriterInv, SpliceInv, SearchInv, NodeInv, PhaseInv
<1>4. Grows
  <2>1. free \in Nat /\ height \in Nat
    BY PutsAssumption, HeightAssumption DEF IInv, TypeInv, HeadNode
  <2> QED
    BY <1>1, <2>1 DEF Grows
<1>5. \A l \in Levels : \A n \in On(tower', l) :
        n \in On(tower, l) \/ (writer[w].at \in Owning /\ n = writer[w].node)
  BY <1>1
<1> QED
  BY <1>2, <1>3, <1>4, <1>5, WritersStep

(***************************************************************************)
(* The steps of a put that only change its locals: they keep what it is to *)
(* put, whether it is in flight, and its node.                             *)
(***************************************************************************)
LocalMove(w, s2) ==
  /\ writer' = [writer EXCEPT ![w] = s2]
  /\ s2.at \in Owning => writer[w].at \in Owning /\ s2.node = writer[w].node
  /\ s2.at \in {"search", "alloc"} => writer[w].at \in {"search", "alloc"}
  /\ s2.key = writer[w].key /\ s2.val = writer[w].val
  /\ InFlight(s2) <=> InFlight(writer[w])

(* What find_splice_for_level meets on its level. *)
LEMMA SearchFacts ==
  ASSUME IInv, NEW w \in Writers, writer[w].at \in Searching
  PROVE  LET s == writer[w]
         IN  /\ s \in Writer /\ s.level \in Levels /\ s.before \in Nodes /\ s.before \in Nat
             /\ s.before # Nil
             /\ s.before \in Chain(tower, s.level) /\ nodeKey[s.before] < s.key
             /\ NextOf(w) \in Nat
             /\ NextOf(w) # Nil => NextOf(w) \in On(tower, s.level) /\ nodeKey[NextOf(w)] \in Nat
<1>1. writer[w] \in Writer /\ WriterInv(writer[w])
  BY DEF IInv, TypeInv
<1>2. /\ writer[w].level \in Levels
      /\ writer[w].before \in Chain(tower, writer[w].level) /\ nodeKey[writer[w].before] < writer[w].key
  BY <1>1 DEF WriterInv, SearchInv
<1>3. writer[w].before \in Nodes /\ writer[w].before # Nil /\ writer[w].before \in Nat
  BY <1>2, NodeFacts DEF IInv
<1> QED
  BY <1>1, <1>2, <1>3, NodeFacts DEF NextOf, IInv

(* A search that goes on after a node that comes before the key. *)
LEMMA AdvanceMove ==
  ASSUME IInv, NEW w \in Writers, Advance(w)
  PROVE  \E s2 \in Writer : LocalMove(w, s2) /\ WriterInv(s2)
<1>1. PICK s \in Writer : s = writer[w] /\ WriterInv(s)
  BY DEF IInv, TypeInv
<1>2. s.at \in Searching
  BY <1>1 DEF Advance, Searching
<1>3. /\ NextOf(w) \in Nat /\ NextOf(w) \in On(tower, s.level) /\ nodeKey[NextOf(w)] < s.key
      /\ s.level \in Levels
  BY <1>1, <1>2, SearchFacts DEF Advance, KeepMoving
<1>4. PICK s2 : s2 = [s EXCEPT !.before = NextOf(w)]
  OBVIOUS
<1>5. s2 \in Writer
  BY <1>3, <1>4 DEF Writer
<1>6. /\ s2.at = s.at /\ s2.key = s.key /\ s2.val = s.val /\ s2.level = s.level
      /\ s2.before = NextOf(w) /\ s2.prev = s.prev /\ s2.next = s.next
      /\ s2.node = s.node /\ s2.height = s.height /\ s2.listHeight = s.listHeight
  BY <1>4 DEF Writer
<1>7. SpliceInv(s2) /\ NodeInv(s2)
  BY <1>1, <1>6 DEF WriterInv, SpliceInv, NodeInv
<1>8. SearchInv(s2)
  BY <1>3, <1>6 DEF SearchInv, Chain
<1>9. PhaseInv(s2)
  BY <1>1, <1>2, <1>6 DEF WriterInv, PhaseInv, Searching
<1>10. LocalMove(w, s2)
  BY <1>1, <1>4, <1>6 DEF LocalMove, Advance, InFlight
<1> QED
  BY <1>5, <1>7, <1>8, <1>9, <1>10 DEF WriterInv

(***************************************************************************)
(* The locals after a search on a level that ended without an equal node.  *)
(***************************************************************************)
LEMMA SplicedFacts ==
  ASSUME IInv, NEW w \in Writers, writer[w].at \in Searching,
         ~ KeepMoving(NextOf(w), writer[w].key), ~ IsEqual(w)
  PROVE  LET s == writer[w]
             s2 == Spliced(w)
         IN  /\ s2 \in Writer /\ SpliceInv(s2)
             /\ s2.at = s.at /\ s2.key = s.key /\ s2.val = s.val /\ s2.level = s.level
             /\ s2.node = s.node /\ s2.height = s.height /\ s2.listHeight = s.listHeight
             /\ s2.prev[s.level] # Nil
             /\ \A i \in 0 .. MaxHeight : i # s.level => s2.prev[i] = s.prev[i]
             /\ s.at = "search" /\ s.level > 0 => s2.before = s.before
<1>1. PICK s \in Writer : s = writer[w] /\ WriterInv(s)
  BY DEF IInv, TypeInv
<1>2. /\ s.level \in Levels /\ s.before \in Nat /\ s.before # Nil
      /\ s.before \in Chain(tower, s.level) /\ nodeKey[s.before] < s.key
      /\ NextOf(w) \in Nat
      /\ NextOf(w) # Nil => NextOf(w) \in On(tower, s.level) /\ nodeKey[NextOf(w)] \in Nat
  BY <1>1, SearchFacts
<1>3. NextOf(w) # Nil => nodeKey[NextOf(w)] > s.key
  <2>1. s.key \in Nat
    BY DEF Writer
  <2>2. NextOf(w) # Nil => ~ (nodeKey[NextOf(w)] < s.key) /\ nodeKey[NextOf(w)] # s.key
    BY <1>1 DEF KeepMoving, IsEqual
  <2> QED
    BY <1>2, <2>1, <2>2
<1>4. s.level \in 0 .. MaxHeight /\ Nil \in Nat
  BY <1>2, NodeFacts DEF IInv
<1> DEFINE b == IF s.at = "search" /\ s.level > 0 THEN s.before ELSE Nil
           s3 == [s EXCEPT !.prev[s.level] = s.before, !.next[s.level] = NextOf(w), !.before = b]
<1>5. Spliced(w) = s3
  BY <1>1 DEF Spliced
<1>6. b \in Nat
  BY <1>2, <1>4
<1> HIDE DEF b
<1>7. /\ s3 \in Writer
      /\ s3.at = s.at /\ s3.key = s.key /\ s3.val = s.val /\ s3.level = s.level
      /\ s3.before = b /\ s3.node = s.node /\ s3.height = s.height
      /\ s3.listHeight = s.listHeight
      /\ s3.prev = [s.prev EXCEPT ![s.level] = s.before]
      /\ s3.next = [s.next EXCEPT ![s.level] = NextOf(w)]
  BY <1>2, <1>4, <1>6 DEF Writer, Splice
<1> HIDE DEF s3
<1>8. s.prev \in Splice /\ s.next \in Splice
  BY DEF Writer
<1>9. \A i \in 0 .. MaxHeight :
        /\ s3.prev[i] = IF i = s.level THEN s.before ELSE s.prev[i]
        /\ s3.next[i] = IF i = s.level THEN NextOf(w) ELSE s.next[i]
  BY <1>4, <1>7, <1>8 DEF Splice
<1>10. SpliceInv(s3)
  <2> SUFFICES ASSUME NEW i \in Levels, s3.prev[i] # Nil
               PROVE  /\ s3.prev[i] \in Chain(tower, i) /\ nodeKey[s3.prev[i]] < s3.key
                      /\ s3.next[i] # Nil =>
                           s3.next[i] \in On(tower, i) /\ nodeKey[s3.next[i]] > s3.key
    BY DEF SpliceInv
  <2>1. i \in 0 .. MaxHeight
    BY NodeFacts DEF IInv
  <2>2. CASE i = s.level
    BY <2>1, <2>2, <1>2, <1>3, <1>7, <1>9
  <2>3. CASE i # s.level
    BY <2>1, <2>3, <1>1, <1>7, <1>9 DEF WriterInv, SpliceInv
  <2> QED
    BY <2>2, <2>3
<1> QED
  BY <1>1, <1>2, <1>4, <1>5, <1>7, <1>9, <1>10 DEF b
(* An equal node is on the base level, so its value can be set. *)
LEMMA EqualMove ==
  ASSUME IInv, NEW w \in Writers, writer[w].at \in Searching, IsEqual(w),
         writer[w].at \in {"find", "retry"} => writer[w].level = 0,
         NEW s2, s2 = [writer[w] EXCEPT !.at = "set", !.before = NextOf(w)],
         writer' = [writer EXCEPT ![w] = s2]
  PROVE  s2 \in Writer /\ LocalMove(w, s2) /\ WriterInv(s2)
<1>1. PICK s \in Writer : s = writer[w] /\ WriterInv(s)
  BY DEF IInv, TypeInv
<1>2. /\ s.level \in Levels /\ NextOf(w) \in Nat /\ NextOf(w) \in On(tower, s.level)
      /\ nodeKey[NextOf(w)] = s.key
  BY <1>1, SearchFacts DEF IsEqual
<1>3. NextOf(w) \in On(tower, 0)
  BY <1>2, OnBase DEF IInv
<1>4. /\ s2 \in Writer
      /\ s2.at = "set" /\ s2.key = s.key /\ s2.val = s.val /\ s2.level = s.level
      /\ s2.before = NextOf(w) /\ s2.prev = s.prev /\ s2.next = s.next
      /\ s2.node = s.node /\ s2.height = s.height /\ s2.listHeight = s.listHeight
  BY <1>1, <1>2 DEF Writer
<1>5. SpliceInv(s2) /\ NodeInv(s2) /\ SearchInv(s2)
  BY <1>1, <1>4 DEF WriterInv, SpliceInv, NodeInv, SearchInv, Owning, Searching
<1>6. PhaseInv(s2)
  BY <1>1, <1>2, <1>3, <1>4 DEF WriterInv, PhaseInv, Searching, Owning, Linking
<1>7. LocalMove(w, s2)
  BY <1>1, <1>4 DEF LocalMove, InFlight, Owning, Searching
<1> QED
  BY <1>4, <1>5, <1>6, <1>7 DEF WriterInv

(* The first search ends on a level: the key is there, or the splice is around it. *)
LEMMA SearchMove ==
  ASSUME IInv, NEW w \in Writers, SearchDone(w)
  PROVE  \E s2 \in Writer : LocalMove(w, s2) /\ WriterInv(s2)
<1>1. PICK s \in Writer : s = writer[w] /\ WriterInv(s)
  BY DEF IInv, TypeInv
<1>2. s.at = "search" /\ s.at \in Searching
  BY <1>1 DEF SearchDone, Searching
<1>3. CASE IsEqual(w)
  <2>1. PICK s2 : s2 = [writer[w] EXCEPT !.at = "set", !.before = NextOf(w)]
    OBVIOUS
  <2>2. writer' = [writer EXCEPT ![w] = s2]
    BY <2>1, <1>3 DEF SearchDone
  <2> QED
    BY <2>1, <2>2, <1>1, <1>2, <1>3, EqualMove
<1>4. CASE ~ IsEqual(w)
  <2>1. PICK p : p = Spliced(w)
    OBVIOUS
  <2>2. /\ p \in Writer /\ SpliceInv(p)
        /\ p.at = s.at /\ p.key = s.key /\ p.val = s.val /\ p.level = s.level
        /\ p.node = s.node /\ p.height = s.height /\ p.listHeight = s.listHeight
        /\ p.prev[s.level] # Nil
        /\ \A i \in 0 .. MaxHeight : i # s.level => p.prev[i] = s.prev[i]
        /\ s.level > 0 => p.before = s.before
    BY <2>1, <1>1, <1>2, <1>4, SplicedFacts DEF SearchDone
  <2>3. s.level \in Levels /\ s.before \in Chain(tower, s.level) /\ nodeKey[s.before] < s.key
    BY <1>1, <1>2 DEF WriterInv, SearchInv
  <2>4. s.prev[s.level + 1] # Nil
    BY <1>1, <1>2 DEF WriterInv, PhaseInv
  <2>5. s.key \in Keys /\ s.height <= MaxHeight /\ s.node < free
    BY <1>1, <1>2 DEF WriterInv, PhaseInv
  <2>6. CASE s.level = 0
    <3>1. PICK s2 : s2 = [p EXCEPT !.at = "alloc"]
      OBVIOUS
    <3>2. writer' = [writer EXCEPT ![w] = s2]
      BY <3>1, <2>1, <2>6, <1>1, <1>4 DEF SearchDone
    <3>3. /\ s2 \in Writer
          /\ s2.at = "alloc" /\ s2.key = p.key /\ s2.val = p.val /\ s2.level = p.level
          /\ s2.prev = p.prev /\ s2.next = p.next
          /\ s2.node = p.node /\ s2.height = p.height /\ s2.listHeight = p.listHeight
      BY <3>1, <2>2 DEF Writer
    <3>4. s2.prev[0] # Nil /\ s2.prev[1] # Nil
      <4>1. 1 \in 0 .. MaxHeight
        BY HeightAssumption
      <4> QED
        BY <4>1, <3>3, <2>2, <2>4, <2>6
    <3>5. SpliceInv(s2)
      BY <3>3, <2>2 DEF SpliceInv
    <3>6. NodeInv(s2) /\ SearchInv(s2)
      BY <3>3 DEF NodeInv, SearchInv, Owning, Searching
    <3>7. PhaseInv(s2)
      BY <3>3, <3>4, <2>2, <2>5, <2>6 DEF PhaseInv, Owning, Linking
    <3>8. LocalMove(w, s2)
      BY <3>2, <3>3, <2>2, <1>1, <1>2 DEF LocalMove, InFlight, Owning
    <3> QED
      BY <3>3, <3>5, <3>6, <3>7, <3>8 DEF WriterInv
  <2>7. CASE s.level # 0
    <3>1. PICK s2 : s2 = [p EXCEPT !.level = s.level - 1]
      OBVIOUS
    <3>2. writer' = [writer EXCEPT ![w] = s2]
      BY <3>1, <2>1, <2>7, <1>1, <1>4 DEF SearchDone
    <3>3. s.level \in Nat /\ s.level > 0 /\ s.level - 1 \in Nat /\ s.level - 1 \in Levels
      BY <2>3, <2>7, HeightAssumption DEF Levels
    <3>4. /\ s2 \in Writer
          /\ s2.at = "search" /\ s2.key = p.key /\ s2.val = p.val /\ s2.level = s.level - 1
          /\ s2.prev = p.prev /\ s2.next = p.next /\ s2.before = p.before
          /\ s2.node = p.node /\ s2.height = p.height /\ s2.listHeight = p.listHeight
      BY <3>1, <3>3, <2>2, <1>2 DEF Writer
    <3>5. SpliceInv(s2)
      BY <3>4, <2>2 DEF SpliceInv
    <3>6. NodeInv(s2)
      BY <3>4 DEF NodeInv, Owning
    <3>7. SearchInv(s2)
      <4>1. s.before \in Chain(tower, s.level - 1)
        BY <2>3, <2>7 DEF Chain, IInv, ListsInv
      <4> QED
        BY <4>1, <3>3, <3>4, <2>2, <2>3 DEF SearchInv
    <3>8. s2.prev[s2.level + 1] # Nil
      BY <3>3, <3>4, <2>2
    <3>9. PhaseInv(s2)
      BY <3>4, <3>8, <2>2, <2>5 DEF PhaseInv, Owning, Linking
    <3>10. LocalMove(w, s2)
      BY <3>2, <3>4, <2>2, <1>1, <1>2 DEF LocalMove, InFlight, Owning
    <3> QED
      BY <3>4, <3>5, <3>6, <3>7, <3>9, <3>10 DEF WriterInv
  <2> QED
    BY <2>6, <2>7
<1> QED
  BY <1>3, <1>4

(* Comparing the height of the node with that of the list. *)
LEMMA GrowMove ==
  ASSUME IInv, NEW w \in Writers, Grow(w)
  PROVE  \E s2 \in Writer : LocalMove(w, s2) /\ WriterInv(s2)
<1>1. PICK s \in Writer : s = writer[w] /\ WriterInv(s)
  BY DEF IInv, TypeInv
<1>2. s.at = "grow" /\ s.level = 0 /\ height \in Nat /\ s.height \in 1 .. MaxHeight /\ MaxHeight \in Nat
  BY <1>1, HeightAssumption DEF Grow, WriterInv, NodeInv, PhaseInv, Owning, IInv, TypeInv
<1>3. PICK s2 : s2 = IF s.height > height
                     THEN [s EXCEPT !.at = "raise", !.listHeight = height]
                     ELSE [s EXCEPT !.at = "link", !.listHeight = 0]
  OBVIOUS
<1>4. writer' = [writer EXCEPT ![w] = s2]
  BY <1>1, <1>3 DEF Grow
<1>5. /\ s2 \in Writer
      /\ s2.at = (IF s.height > height THEN "raise" ELSE "link")
      /\ s2.at = "raise" => s2.listHeight = height
      /\ s2.key = s.key /\ s2.val = s.val /\ s2.level = s.level
      /\ s2.before = s.before /\ s2.prev = s.prev /\ s2.next = s.next
      /\ s2.node = s.node /\ s2.height = s.height
  BY <1>2, <1>3 DEF Writer, Searching, Owning
<1>6. SpliceInv(s2) /\ NodeInv(s2) /\ SearchInv(s2)
  BY <1>1, <1>2, <1>5 DEF WriterInv, SpliceInv, NodeInv, SearchInv, Owning, Searching
<1>7. PhaseInv(s2)
  BY <1>1, <1>2, <1>5 DEF WriterInv, PhaseInv, Owning, Linking
<1>8. LocalMove(w, s2)
  BY <1>1, <1>2, <1>4, <1>5 DEF LocalMove, InFlight, Owning
<1> QED
  BY <1>5, <1>6, <1>7, <1>8 DEF WriterInv

(* A level without a splice is above level 1: assert!(i > 1) holds. *)
LEMMA FindMove ==
  ASSUME IInv, NEW w \in Writers, FindSplice(w)
  PROVE  \E s2 \in Writer : LocalMove(w, s2) /\ WriterInv(s2)
<1>1. PICK s \in Writer : s = writer[w] /\ WriterInv(s)
  BY DEF IInv, TypeInv
<1>2. s.at = "link" /\ s.prev[s.level] = Nil /\ s.level \in Nat
  BY <1>1 DEF FindSplice, Writer
<1>3. s.level > 1
  BY <1>1, <1>2 DEF WriterInv, PhaseInv, Owning
<1>4. s.level \in Levels
  <2>1. s.level < s.height /\ s.height \in Nat /\ s.height <= MaxHeight
    BY <1>1, <1>2 DEF WriterInv, PhaseInv, Linking, Writer
  <2> QED
    BY <2>1, <1>2, HeightAssumption DEF Levels
<1>5. PICK s2 : s2 = [s EXCEPT !.at = "find", !.before = HeadNode]
  OBVIOUS
<1>6. writer' = [writer EXCEPT ![w] = s2]
  BY <1>1, <1>3, <1>5 DEF FindSplice, IInv, TypeInv
<1>7. HeadNode \in Nat
  BY DEF HeadNode
<1>8. /\ s2 \in Writer
      /\ s2.at = "find" /\ s2.key = s.key /\ s2.val = s.val /\ s2.level = s.level
      /\ s2.before = HeadNode /\ s2.prev = s.prev /\ s2.next = s.next
      /\ s2.node = s.node /\ s2.height = s.height
  BY <1>5, <1>7 DEF Writer, Searching, Owning
<1>9. SpliceInv(s2) /\ NodeInv(s2)
  BY <1>1, <1>2, <1>8 DEF WriterInv, SpliceInv, NodeInv, Owning
<1>10. SearchInv(s2)
  <2>1. s.key \in Keys
    BY <1>1, <1>2 DEF WriterInv, PhaseInv
  <2>2. nodeKey[HeadNode] < s.key
    BY <2>1, KeyFacts DEF IInv, NodesInv
  <2> QED
    BY <2>2, <1>4, <1>8 DEF SearchInv, Chain
<1>11. PhaseInv(s2)
  BY <1>1, <1>2, <1>3, <1>8 DEF WriterInv, PhaseInv, Owning, Linking
<1>12. LocalMove(w, s2)
  BY <1>1, <1>2, <1>3, <1>6, <1>8 DEF LocalMove, InFlight, Owning
<1> QED
  BY <1>8, <1>9, <1>10, <1>11, <1>12 DEF WriterInv

(***************************************************************************)
(* Above the base level a put never meets its key: the only node that has  *)
(* it is its own, which is not linked there yet.                           *)
(***************************************************************************)
LEMMA NeverEqualAbove ==
  ASSUME IInv, NEW w \in Writers, writer[w].at \in {"find", "retry"}, writer[w].level > 0
  PROVE  ~ IsEqual(w)
<1> SUFFICES ASSUME IsEqual(w)
             PROVE  FALSE
  OBVIOUS
<1>1. PICK s \in Writer : s = writer[w] /\ WriterInv(s)
  BY DEF IInv, TypeInv
<1>2. s.at \in Searching /\ s.at \in Owning
  BY <1>1 DEF Searching, Owning
<1>3. s.level \in Levels /\ NextOf(w) \in On(tower, s.level) /\ nodeKey[NextOf(w)] = s.key
  BY <1>1, <1>2, SearchFacts DEF IsEqual
<1>4. nodeKey[s.node] = s.key /\ s.node \in On(tower, 0) /\ s.node \notin On(tower, s.level)
  <2>1. 0 \in Levels /\ s.level \in Nat
    BY <1>3, NodeFacts DEF IInv
  <2>2. \A j \in Levels : s.node \in On(tower, j) <=> j < s.level
    BY <1>1, <1>2 DEF WriterInv, NodeInv
  <2>3. nodeKey[s.node] = s.key
    BY <1>1, <1>2 DEF WriterInv, NodeInv
  <2> QED
    BY <2>1, <2>2, <2>3, <1>1, <1>3
<1>5. NextOf(w) \in On(tower, 0)
  BY <1>3, OnBase DEF IInv
<1>6. NextOf(w) = s.node
  BY <1>3, <1>4, <1>5, NodeFacts DEF IInv, ListsInv, ListInv
<1> QED
  BY <1>3, <1>4, <1>6

(* find_splice_for_level for a level returns and the new node is linked there next. *)
LEMMA SplicedMove ==
  ASSUME IInv, NEW w \in Writers, writer[w].at \in {"find", "retry"},
         ~ KeepMoving(NextOf(w), writer[w].key), ~ IsEqual(w),
         NEW s2, s2 = [Spliced(w) EXCEPT !.at = "link"],
         writer' = [writer EXCEPT ![w] = s2]
  PROVE  s2 \in Writer /\ LocalMove(w, s2) /\ WriterInv(s2)
<1>1. PICK s \in Writer : s = writer[w] /\ WriterInv(s)
  BY DEF IInv, TypeInv
<1>2. s.at \in Searching /\ s.at \in Owning /\ s.at \in Linking
  BY <1>1 DEF Searching, Owning, Linking
<1>3. PICK p : p = Spliced(w)
  OBVIOUS
<1>4. /\ p \in Writer /\ SpliceInv(p)
      /\ p.at = s.at /\ p.key = s.key /\ p.val = s.val /\ p.level = s.level
      /\ p.node = s.node /\ p.height = s.height /\ p.listHeight = s.listHeight
      /\ p.prev[s.level] # Nil
      /\ \A i \in 0 .. MaxHeight : i # s.level => p.prev[i] = s.prev[i]
  BY <1>1, <1>2, <1>3, SplicedFacts
<1>5. /\ s2 \in Writer
      /\ s2.at = "link" /\ s2.key = p.key /\ s2.val = p.val /\ s2.level = p.level
      /\ s2.prev = p.prev /\ s2.next = p.next
      /\ s2.node = p.node /\ s2.height = p.height /\ s2.listHeight = p.listHeight
  BY <1>3, <1>4 DEF Writer, Owning
<1>6. SpliceInv(s2)
  BY <1>4, <1>5 DEF SpliceInv
<1>7. NodeInv(s2) /\ SearchInv(s2)
  BY <1>1, <1>2, <1>4, <1>5 DEF WriterInv, NodeInv, SearchInv, Owning, Searching
<1>8. /\ s2.level = 0 => s2.prev[0] # Nil /\ s2.prev[1] # Nil
      /\ s2.level = 1 => s2.prev[1] # Nil
  <2>1. 1 \in 0 .. MaxHeight
    BY HeightAssumption
  <2>2. s.level = 0 => s.prev[1] # Nil
    BY <1>1, <1>2 DEF WriterInv, PhaseInv
  <2> QED
    BY <2>1, <2>2, <1>4, <1>5
<1>9. PhaseInv(s2)
  BY <1>1, <1>2, <1>4, <1>5, <1>8 DEF WriterInv, PhaseInv, Owning, Linking
<1>10. LocalMove(w, s2)
  BY <1>1, <1>2, <1>4, <1>5 DEF LocalMove, InFlight, Owning
<1> QED
  BY <1>5, <1>6, <1>7, <1>9, <1>10 DEF WriterInv

(* A later search ends; above the base level it cannot meet the key. *)
LEMMA FoundMove ==
  ASSUME IInv, NEW w \in Writers, FindDone(w) \/ RetryDone(w)
  PROVE  \E s2 \in Writer : LocalMove(w, s2) /\ WriterInv(s2)
<1>1. PICK s \in Writer : s = writer[w] /\ WriterInv(s)
  BY DEF IInv, TypeInv
<1>2. /\ s.at \in {"find", "retry"} /\ s.level \in Nat
      /\ ~ KeepMoving(NextOf(w), writer[w].key)
  BY <1>1 DEF FindDone, RetryDone, Writer
<1>3. s.at = "find" => s.level > 0
  BY <1>1, <1>2 DEF WriterInv, PhaseInv
<1>4. CASE IsEqual(w)
  <2>1. s.level = 0 /\ RetryDone(w)
    BY <1>1, <1>2, <1>3, <1>4, NeverEqualAbove DEF FindDone
  <2>2. PICK s2 : s2 = [writer[w] EXCEPT !.at = "set", !.before = NextOf(w)]
    OBVIOUS
  <2>3. writer' = [writer EXCEPT ![w] = s2]
    BY <2>1, <2>2, <1>1, <1>4 DEF RetryDone
  <2> QED
    BY <2>1, <2>2, <2>3, <1>1, <1>2, <1>4, EqualMove DEF Searching
<1>5. CASE ~ IsEqual(w)
  <2>1. PICK s2 : s2 = [Spliced(w) EXCEPT !.at = "link"]
    OBVIOUS
  <2>2. writer' = [writer EXCEPT ![w] = s2]
    BY <2>1, <1>5 DEF FindDone, RetryDone
  <2> QED
    BY <2>1, <2>2, <1>1, <1>2, <1>5, SplicedMove
<1> QED
  BY <1>4, <1>5
-----------------------------------------------------------------------------
(* The arena, when the puts without a node become fewer or stay. *)
LEMMA ArenaShrinks ==
  ASSUME TypeInv, ArenaInv, Unallocated' \subseteq Unallocated, free' = free, puts' = puts
  PROVE  ArenaInv'
<1>1. PICK S, T : S = Unallocated /\ T = Unallocated'
  OBVIOUS
<1>2. IsFiniteSet(S) /\ T \subseteq S
  BY <1>1 DEF ArenaInv
<1>3. IsFiniteSet(T) /\ Cardinality(T) <= Cardinality(S)
  BY <1>2, FS_Subset
<1>4. Cardinality(S) \in Nat /\ Cardinality(T) \in Nat
  BY <1>2, <1>3, FS_CardinalityType
<1>5. free \in Nat /\ puts \in Nat
  BY PutsAssumption DEF TypeInv, HeadNode
<1>6. free + Cardinality(S) <= puts + 2
  BY <1>1 DEF ArenaInv
<1>7. IsFiniteSet(T) /\ free' + Cardinality(T) <= puts' + 2
  BY <1>3, <1>4, <1>5, <1>6
<1> QED
  BY <1>1, <1>7 DEF ArenaInv

(* A step that only changes the locals of one put keeps the invariant. *)
LEMMA LocalStep ==
  ASSUME IInv, NEW w \in Writers, NEW s2 \in Writer, LocalMove(w, s2), WriterInv(s2),
         UNCHANGED <<nodeVars, height, puts>>
  PROVE  IInv'
<1>1. /\ NodesInv' /\ ListsInv' /\ OwnersInv'
      /\ writer' \in [Writers -> Writer]
      /\ (\A v \in Writers : WriterInv(writer[v]))'
  BY QuietStep DEF LocalMove
<1>2. TypeInv'
  BY <1>1 DEF IInv, TypeInv, nodeVars
<1>3. Unallocated' \subseteq Unallocated
  <2>1. writer'[w] = s2 /\ \A v \in Writers \ {w} : writer'[v] = writer[v]
    BY DEF LocalMove, IInv, TypeInv
  <2> QED
    BY <2>1 DEF LocalMove, Unallocated
<1>4. ArenaInv'
  BY <1>3, ArenaShrinks DEF IInv, nodeVars
<1> QED
  BY <1>1, <1>2, <1>4 DEF IInv

(* A put begins, and has a node of the arena left. *)
LEMMA StartStep ==
  ASSUME IInv, NEW w \in Writers, NEW k \in Keys, StartPut(w, k)
  PROVE  IInv'
<1>1. PICK s2 : s2 = [Idle EXCEPT !.at = "search", !.key = k, !.val = puts + 1,
                                  !.level = height - 1, !.before = HeadNode,
                                  !.prev = HeadSplice(height)]
  OBVIOUS
<1>2. /\ writer[w].at = "idle" /\ puts < MaxPuts /\ puts' = puts + 1
      /\ writer' = [writer EXCEPT ![w] = s2]
      /\ UNCHANGED <<nodeVars, height>>
  BY <1>1 DEF StartPut
<1>3. /\ height \in 0 .. MaxHeight /\ height - 1 \in Levels /\ height - 1 \in Nat
      /\ puts \in Nat /\ HeadNode \in Nat /\ HeadNode # Nil /\ Nil \in Nat
      /\ MaxHeight \in Nat /\ height \in Nat
  BY HeightAssumption, PutsAssumption DEF IInv, TypeInv, Levels, HeadNode, Nil
<1>4. HeadSplice(height) \in Splice /\ NoSplice \in Splice
  BY <1>3 DEF HeadSplice, NoSplice, Splice
<1>5. \A i \in 0 .. MaxHeight :
        HeadSplice(height)[i] = (IF i = height THEN HeadNode ELSE Nil) /\ NoSplice[i] = Nil
  BY <1>3 DEF HeadSplice, NoSplice
<1>6. /\ s2 \in Writer
      /\ s2.at = "search" /\ s2.key = k /\ s2.val = puts + 1 /\ s2.level = height - 1
      /\ s2.before = HeadNode /\ s2.prev = HeadSplice(height) /\ s2.next = NoSplice
      /\ s2.node = Nil /\ s2.height = 0 /\ s2.listHeight = 0
  <2>1. k \in Nat /\ puts + 1 \in Nat
    BY <1>3, KeyFacts
  <2>2. s2 = [at |-> "search", key |-> k, val |-> puts + 1, level |-> height - 1,
              before |-> HeadNode, prev |-> HeadSplice(height), next |-> NoSplice,
              node |-> Nil, height |-> 0, listHeight |-> 0]
    BY <1>1 DEF Idle
  <2> QED
    BY <2>1, <2>2, <1>3, <1>4 DEF Writer, Searching
<1>7. nodeKey[HeadNode] < k
  BY KeyFacts DEF IInv, NodesInv
<1>8. SpliceInv(s2)
  <2> SUFFICES ASSUME NEW i \in Levels, s2.prev[i] # Nil
               PROVE  /\ s2.prev[i] \in Chain(tower, i) /\ nodeKey[s2.prev[i]] < s2.key
                      /\ s2.next[i] = Nil
    BY DEF SpliceInv
  <2>1. i \in 0 .. MaxHeight
    BY HeightAssumption DEF Levels
  <2> QED
    BY <2>1, <1>5, <1>6, <1>7 DEF Chain
<1>9. SearchInv(s2)
  BY <1>3, <1>6, <1>7 DEF SearchInv, Chain
<1>10. NodeInv(s2)
  BY <1>6 DEF NodeInv, Owning
<1>11. PhaseInv(s2)
  <2>1. s2.prev[s2.level + 1] # Nil
    BY <1>3, <1>5, <1>6
  <2>2. s2.height <= MaxHeight /\ s2.node < free
    BY <1>3, <1>6, PutsAssumption DEF IInv, TypeInv, HeadNode, Nil
  <2> QED
    BY <2>1, <2>2, <1>6 DEF PhaseInv, Owning, Linking
<1>12. WriterInv(s2)
  BY <1>8, <1>9, <1>10, <1>11 DEF WriterInv
<1>13. s2.at \notin Owning
  BY <1>6 DEF Owning
<1>14. /\ NodesInv' /\ ListsInv' /\ OwnersInv'
       /\ writer' \in [Writers -> Writer]
       /\ (\A v \in Writers : WriterInv(writer[v]))'
  BY <1>2, <1>6, <1>12, <1>13, QuietStep
<1>15. TypeInv'
  BY <1>2, <1>14, PutsAssumption DEF IInv, TypeInv, nodeVars
<1>16. ArenaInv'
  <2>1. PICK S : S = Unallocated
    OBVIOUS
  <2>2. Unallocated' = S \cup {w} /\ w \notin S
    BY <2>1, <1>2, <1>6 DEF Unallocated, IInv, TypeInv
  <2>3. IsFiniteSet(S) /\ free + Cardinality(S) <= puts + 2
    BY <2>1 DEF IInv, ArenaInv
  <2>4. IsFiniteSet(S \cup {w}) /\ Cardinality(S \cup {w}) = Cardinality(S) + 1
    BY <2>2, <2>3, FS_AddElement
  <2>5. Cardinality(S) \in Nat /\ free \in Nat
    BY <2>3, FS_CardinalityType, PutsAssumption DEF IInv, TypeInv, HeadNode
  <2>6. free' + Cardinality(S \cup {w}) <= puts' + 2
    BY <2>3, <2>4, <2>5, <1>2, <1>3 DEF nodeVars
  <2> QED
    BY <2>2, <2>4, <2>6 DEF ArenaInv
<1> QED
  BY <1>14, <1>15, <1>16 DEF IInv

(* A thread that does not put. *)
LEMMA IdleInv ==
  ASSUME TypeInv
  PROVE  Idle \in Writer /\ WriterInv(Idle) /\ Idle.at = "idle"
<1>1. /\ Idle.at = "idle" /\ Idle.key = 0 /\ Idle.val = 0 /\ Idle.level = 0
      /\ Idle.before = Nil /\ Idle.prev = NoSplice /\ Idle.next = NoSplice
      /\ Idle.node = Nil /\ Idle.height = 0 /\ Idle.listHeight = 0
  BY DEF Idle
<1>2. NoSplice \in Splice /\ \A i \in Levels : NoSplice[i] = Nil
  BY HeightAssumption DEF NoSplice, Splice, Nil, Levels
<1>3. Idle \in Writer
  BY <1>2 DEF Idle, Writer, Nil
<1>4. free > 0
  BY PutsAssumption DEF TypeInv, HeadNode
<1>5. PhaseInv(Idle)
  BY <1>1, <1>4, HeightAssumption DEF PhaseInv, Owning, Linking, Nil
<1>6. SpliceInv(Idle) /\ SearchInv(Idle) /\ NodeInv(Idle)
  BY <1>1, <1>2 DEF SpliceInv, SearchInv, NodeInv, Searching, Owning
<1> QED
  BY <1>1, <1>3, <1>5, <1>6 DEF WriterInv

(* set_value changes no key and no pointer. *)
LEMMA SetStep ==
  ASSUME IInv, NEW w \in Writers, SetValue(w)
  PROVE  IInv'
<1>1. PICK s \in Writer : s = writer[w] /\ WriterInv(s)
  BY DEF IInv, TypeInv
<1>2. /\ s.at = "set" /\ s.before \in Nodes
      /\ writer' = [writer EXCEPT ![w] = Idle] /\ value' = [value EXCEPT ![s.before] = s.val]
      /\ nodeKey' = nodeKey /\ tower' = tower /\ free' = free /\ height' = height /\ puts' = puts
  BY <1>1, NodeFacts DEF SetValue, WriterInv, PhaseInv, IInv
<1>3. NodesInv' /\ ListsInv'
  BY <1>2 DEF IInv, NodesInv, ListsInv
<1>4. Grows
  <2>1. free \in Nat /\ height \in Nat
    BY PutsAssumption, HeightAssumption DEF IInv, TypeInv, HeadNode
  <2> QED
    BY <1>2, <2>1 DEF Grows
<1>5. PICK s2 : s2 = Idle
  OBVIOUS
<1>6. s2 \in Writer /\ WriterInv(s2) /\ s2.at = "idle"
  BY <1>5, IdleInv DEF IInv
<1>7. WriterInv(s2)'
  BY <1>2, <1>6 DEF WriterInv, SpliceInv, SearchInv, NodeInv, PhaseInv
<1>8. s2.at \notin Owning
  BY <1>6 DEF Owning
<1>9. \A l \in Levels : \A n \in On(tower', l) :
        n \in On(tower, l) \/ (writer[w].at \in Owning /\ n = writer[w].node)
  BY <1>2
<1>10. /\ writer' \in [Writers -> Writer]
       /\ (\A v \in Writers : WriterInv(writer[v]))'
       /\ OwnersInv'
  BY <1>2, <1>4, <1>5, <1>6, <1>7, <1>8, <1>9, WritersStep
<1>11. TypeInv'
  <2>1. s.val \in Nat
    BY DEF Writer
  <2>2. value' \in [Nodes -> Nat]
    BY <2>1, <1>2 DEF IInv, TypeInv
  <2> QED
    BY <2>2, <1>2, <1>10 DEF IInv, TypeInv
<1>12. Unallocated' \subseteq Unallocated
  BY <1>2, <1>5, <1>6 DEF Unallocated, IInv, TypeInv
<1>13. ArenaInv'
  BY <1>2, <1>12, ArenaShrinks DEF IInv
<1> QED
  BY <1>3, <1>10, <1>11, <1>13 DEF IInv

(* A new node is on no list, and no other put has it. *)
LEMMA NewNodeStep ==
  ASSUME IInv, NEW w \in Writers, NewNode(w)
  PROVE  IInv'
<1>1. PICK s \in Writer : s = writer[w] /\ WriterInv(s)
  BY DEF IInv, TypeInv
<1>2. PICK h \in 1 .. MaxHeight :
        writer' = [writer EXCEPT ![w].at = "grow", ![w].node = free, ![w].height = h]
  BY DEF NewNode, RandomHeights
<1>3. /\ s.at = "alloc" /\ nodeKey' = [nodeKey EXCEPT ![free] = s.key]
      /\ value' = [value EXCEPT ![free] = s.val] /\ free' = free + 1
      /\ tower' = tower /\ height' = height /\ puts' = puts
  BY <1>1 DEF NewNode
<1>4. /\ free \in Nat /\ free >= 2 /\ height \in Nat /\ MaxPuts \in Nat /\ puts \in Nat
      /\ puts <= MaxPuts /\ MaxHeight \in Nat
  BY PutsAssumption, HeightAssumption DEF IInv, TypeInv, HeadNode
<1>5. PICK S : S = Unallocated
  OBVIOUS
<1>6. IsFiniteSet(S) /\ w \in S /\ free + Cardinality(S) <= puts + 2
  BY <1>1, <1>3, <1>5 DEF IInv, ArenaInv, Unallocated
<1>7. IsFiniteSet(S \ {w}) /\ Cardinality(S \ {w}) = Cardinality(S) - 1
  BY <1>6, FS_RemoveElement
<1>8. Cardinality(S) \in Nat /\ Cardinality(S \ {w}) \in Nat
  BY <1>6, <1>7, FS_CardinalityType
<1>9. free + 1 <= puts + 2 /\ free' + Cardinality(S \ {w}) <= puts' + 2
  BY <1>3, <1>4, <1>6, <1>7, <1>8
<1>10. free \in Nodes /\ free # HeadNode
  BY <1>4, <1>9 DEF Nodes, HeadNode
<1>11. s.key \in Keys /\ s.val \in Nat /\ s.key \in Nat
  BY <1>1, <1>3 DEF WriterInv, PhaseInv, Writer
<1>12. /\ nodeKey' \in [Nodes -> Nat] /\ value' \in [Nodes -> Nat]
       /\ nodeKey'[free] = s.key /\ \A n \in Nodes : n # free => nodeKey'[n] = nodeKey[n]
  BY <1>3, <1>10, <1>11 DEF IInv, TypeInv
<1>13. \A l \in Levels : \A n \in Chain(tower, l) : n # free /\ nodeKey'[n] = nodeKey[n]
  BY <1>4, <1>12, NodeFacts DEF IInv
<1>14. NodesInv'
  <2>1. nodeKey'[HeadNode] = 0
    BY <1>10, <1>12, NodeFacts DEF IInv, NodesInv
  <2>2. ASSUME NEW n \in 2 .. free' - 1
        PROVE  nodeKey'[n] \in Keys
    <3>1. CASE n = free
      BY <3>1, <1>11, <1>12
    <3>2. CASE n # free
      <4>1. n \in 2 .. free - 1
        BY <3>2, <1>3, <1>4
      <4>2. n \in Nodes
        BY <4>1, <1>4, <1>9 DEF Nodes
      <4> QED
        BY <4>1, <4>2, <3>2, <1>12 DEF IInv, NodesInv
    <3> QED
      BY <3>1, <3>2
  <2>3. \A n \in Nodes, l \in Levels : tower'[n][l] \in {Nil} \cup (2 .. free' - 1)
    BY <1>3, <1>4 DEF IInv, NodesInv
  <2>4. \A n \in Nodes, l \in Levels : n >= free' => tower'[n][l] = Nil
    BY <1>3, <1>4 DEF IInv, NodesInv, Nodes
  <2> QED
    BY <2>1, <2>2, <2>3, <2>4 DEF NodesInv
<1>15. ListsInv'
  <2>1. ASSUME NEW l \in Levels
        PROVE  ListInv(tower, nodeKey', l)
    <3>1. ListInv(tower, nodeKey, l)
      BY DEF IInv, ListsInv
    <3>2. \A n \in On(tower, l) : nodeKey'[n] = nodeKey[n]
      BY <1>13 DEF Chain
    <3>3. ASSUME NEW m \in Nodes, tower[m][l] # Nil
          PROVE  nodeKey'[m] < nodeKey'[tower[m][l]]
      <4>1. m # free
        BY <3>3, <1>4, <1>10 DEF IInv, NodesInv
      <4>2. tower[m][l] \in On(tower, l)
        BY <3>3, NodeFacts DEF IInv
      <4> QED
        BY <4>1, <4>2, <3>1, <3>2, <3>3, <1>12 DEF ListInv
    <3>4. \A n \in On(tower, l) : \E m \in Chain(tower, l) : tower[m][l] = n
      BY <3>1 DEF ListInv
    <3>5. \A m, n \in On(tower, l) : nodeKey'[m] = nodeKey'[n] => m = n
      BY <3>1, <3>2 DEF ListInv
    <3>6. ASSUME NEW m \in Chain(tower, l), NEW n \in On(tower, l), nodeKey'[m] < nodeKey'[n]
          PROVE  tower[m][l] # Nil /\ nodeKey'[tower[m][l]] <= nodeKey'[n]
      <4>1. nodeKey[m] < nodeKey[n]
        BY <3>2, <3>6, <1>13
      <4>2. tower[m][l] # Nil /\ nodeKey[tower[m][l]] <= nodeKey[n]
        BY <4>1, <3>1 DEF ListInv
      <4>3. tower[m][l] \in On(tower, l)
        BY <4>2, NodeFacts DEF IInv
      <4> QED
        BY <4>2, <4>3, <3>2
    <3> QED
      BY <3>3, <3>4, <3>5, <3>6 DEF ListInv
  <2> QED
    BY <2>1, <1>3 DEF IInv, ListsInv
<1>16. Grows
  <2>1. \A n \in 1 .. free - 1 : n \in Nodes /\ n # free
    BY <1>4, <1>9 DEF Nodes
  <2> QED
    BY <2>1, <1>3, <1>4, <1>12 DEF Grows
<1>17. PICK s2 : s2 = [s EXCEPT !.at = "grow", !.node = free, !.height = h]
  OBVIOUS
<1>18. writer' = [writer EXCEPT ![w] = s2]
  BY <1>1, <1>2, <1>17 DEF IInv, TypeInv
<1>19. /\ s2 \in Writer
       /\ s2.at = "grow" /\ s2.key = s.key /\ s2.val = s.val /\ s2.level = s.level
       /\ s2.before = s.before /\ s2.prev = s.prev /\ s2.next = s.next
       /\ s2.node = free /\ s2.height = h
  <2>1. h \in Nat
    BY <1>4
  <2> QED
    BY <2>1, <1>4, <1>17 DEF Writer, Owning
<1>20. WriterInv(s)'
  BY <1>1, <1>3, <1>16, OtherWriter DEF IInv, Owning
<1>21. WriterInv(s2)'
  <2>1. SpliceInv(s2)'
    BY <1>19, <1>20 DEF WriterInv, SpliceInv
  <2>2. SearchInv(s2)'
    BY <1>19 DEF SearchInv, Searching
  <2>3. s.level = 0 /\ s.prev[0] # Nil /\ s.prev[1] # Nil
    BY <1>1, <1>3 DEF WriterInv, PhaseInv
  <2>4. NodeInv(s2)'
    <3>1. free \in 2 .. free' - 1
      BY <1>3, <1>4
    <3>2. \A j \in Levels : free \notin On(tower, j)
      BY <1>13 DEF Chain
    <3>3. \A j \in Levels : ~ (j < 0)
      BY HeightAssumption DEF Levels
    <3> QED
      BY <3>1, <3>2, <3>3, <2>3, <1>3, <1>12, <1>19 DEF NodeInv
  <2>5. PhaseInv(s2)'
    BY <2>3, <1>3, <1>4, <1>11, <1>19 DEF PhaseInv, Owning, Linking
  <2> QED
    BY <2>1, <2>2, <2>4, <2>5 DEF WriterInv
<1>22. \A l \in Levels : \A n \in On(tower', l) :
         n \in On(tower, l) \/ (writer[w].at \in Owning /\ n = writer[w].node)
  BY <1>3
<1>23. s2.node >= free
  BY <1>4, <1>19
<1>24. /\ writer' \in [Writers -> Writer]
       /\ (\A v \in Writers : WriterInv(writer[v]))'
       /\ OwnersInv'
  BY <1>16, <1>18, <1>19, <1>21, <1>22, <1>23, WritersStep
<1>25. TypeInv'
  <2>1. free' \in HeadNode + 1 .. MaxPuts + 2
    BY <1>3, <1>4, <1>9 DEF HeadNode
  <2> QED
    BY <2>1, <1>3, <1>12, <1>24 DEF IInv, TypeInv
<1>26. ArenaInv'
  <2>1. Unallocated' = S \ {w}
    BY <1>5, <1>18, <1>19 DEF Unallocated, IInv, TypeInv
  <2> QED
    BY <2>1, <1>7, <1>9 DEF ArenaInv
<1> QED
  BY <1>14, <1>15, <1>24, <1>25, <1>26 DEF IInv

(* The height only grows, whichever compare-and-swap wins. *)
LEMMA RaiseStep ==
  ASSUME IInv, NEW w \in Writers, Raise(w)
  PROVE  IInv' /\ \E s2 \in Writer : LocalMove(w, s2)
<1>1. PICK s \in Writer : s = writer[w] /\ WriterInv(s)
  BY DEF IInv, TypeInv
<1>2. /\ s.at = "raise" /\ UNCHANGED <<nodeVars, puts>>
      /\ nodeKey' = nodeKey /\ value' = value /\ tower' = tower /\ free' = free /\ puts' = puts
  BY <1>1 DEF Raise, nodeVars
<1>3. /\ s.level = 0 /\ s.prev[0] # Nil /\ s.prev[1] # Nil /\ s.listHeight < s.height
      /\ s.height \in 1 .. MaxHeight /\ s.key \in Keys /\ s.node < free
  BY <1>1, <1>2 DEF WriterInv, PhaseInv, NodeInv, Owning
<1>4. height \in Nat /\ free \in Nat /\ MaxHeight \in Nat
  BY PutsAssumption, HeightAssumption DEF IInv, TypeInv, HeadNode
<1>5. CASE height # s.listHeight
  <2>1. PICK s2 : s2 = [s EXCEPT !.at = "grow"]
    OBVIOUS
  <2>2. writer' = [writer EXCEPT ![w] = s2] /\ height' = height
    BY <2>1, <1>1, <1>5 DEF Raise, IInv, TypeInv
  <2>3. /\ s2 \in Writer
        /\ s2.at = "grow" /\ s2.key = s.key /\ s2.val = s.val /\ s2.level = s.level
        /\ s2.before = s.before /\ s2.prev = s.prev /\ s2.next = s.next
        /\ s2.node = s.node /\ s2.height = s.height
    BY <2>1 DEF Writer, Owning
  <2>4. SpliceInv(s2) /\ NodeInv(s2) /\ SearchInv(s2)
    BY <2>3, <1>1, <1>2 DEF WriterInv, SpliceInv, NodeInv, SearchInv, Owning, Searching
  <2>5. PhaseInv(s2)
    BY <2>3, <1>3, <1>4 DEF PhaseInv, Owning, Linking
  <2>6. LocalMove(w, s2)
    BY <2>2, <2>3, <1>1, <1>2 DEF LocalMove, InFlight, Owning
  <2>7. WriterInv(s2)
    BY <2>4, <2>5 DEF WriterInv
  <2> QED
    BY <2>2, <2>3, <2>6, <2>7, <1>2, LocalStep
<1>6. CASE height = s.listHeight
  <2>1. PICK s2 : s2 = [s EXCEPT !.at = "link", !.listHeight = 0]
    OBVIOUS
  <2>2. writer' = [writer EXCEPT ![w] = s2] /\ height' = s.height
    BY <2>1, <1>1, <1>6 DEF Raise, IInv, TypeInv
  <2>3. /\ s2 \in Writer
        /\ s2.at = "link" /\ s2.key = s.key /\ s2.val = s.val /\ s2.level = s.level
        /\ s2.before = s.before /\ s2.prev = s.prev /\ s2.next = s.next
        /\ s2.node = s.node /\ s2.height = s.height
    BY <2>1 DEF Writer, Owning
  <2>4. height < height' /\ height' \in 1 .. MaxHeight
    BY <2>2, <1>3, <1>6
  <2>5. NodesInv'
    BY <1>2 DEF IInv, NodesInv
  <2>6. ListsInv'
    <3>1. \A l \in Levels : l < height => l < height'
      BY <2>4, <1>4, HeightAssumption DEF Levels
    <3> QED
      BY <3>1, <1>2 DEF IInv, ListsInv
  <2>7. Grows
    BY <2>4, <1>2, <1>4 DEF Grows
  <2>8. WriterInv(s2)'
    <3>1. SpliceInv(s2)' /\ NodeInv(s2)' /\ SearchInv(s2)'
      BY <2>3, <1>1, <1>2 DEF WriterInv, SpliceInv, NodeInv, SearchInv, Owning, Searching
    <3>2. PhaseInv(s2)'
      BY <2>2, <2>3, <1>2, <1>3, <1>4 DEF PhaseInv, Owning, Linking
    <3> QED
      BY <3>1, <3>2 DEF WriterInv
  <2>9. LocalMove(w, s2)
    BY <2>2, <2>3, <1>1, <1>2, <1>3 DEF LocalMove, InFlight, Owning
  <2>10. \A l \in Levels : \A n \in On(tower', l) :
           n \in On(tower, l) \/ (writer[w].at \in Owning /\ n = writer[w].node)
    BY <1>2
  <2>11. /\ writer' \in [Writers -> Writer]
         /\ (\A v \in Writers : WriterInv(writer[v]))'
         /\ OwnersInv'
    BY <2>3, <2>7, <2>8, <2>9, <2>10, WritersStep DEF LocalMove
  <2>12. TypeInv'
    BY <2>4, <2>11, <1>2 DEF IInv, TypeInv
  <2>13. Unallocated' \subseteq Unallocated
    <3>1. writer'[w] = s2 /\ \A v \in Writers \ {w} : writer'[v] = writer[v]
      BY <2>2 DEF IInv, TypeInv
    <3> QED
      BY <3>1, <2>9 DEF LocalMove, Unallocated
  <2>14. ArenaInv'
    BY <2>13, <1>2, ArenaShrinks DEF IInv
  <2> QED
    BY <2>3, <2>5, <2>6, <2>9, <2>11, <2>12, <2>14 DEF IInv
<1> QED
  BY <1>5, <1>6
(* What a put is about to do on the level it links next. *)
LEMMA LinkFacts ==
  ASSUME IInv, NEW w \in Writers, NEW s \in Writer, s = writer[w],
         s.at = "link", s.prev[s.level] # Nil
  PROVE  /\ s.level \in Levels /\ s.level \in Nat /\ s.level < s.height
         /\ s.height <= height /\ s.height \in Nat
         /\ s.node \in Nodes \ {HeadNode} /\ s.node \in 2 .. free - 1
         /\ s.node \notin On(tower, s.level)
         /\ s.prev[s.level] \in Chain(tower, s.level) /\ s.prev[s.level] # s.node
         /\ s.prev[s.level] \in Nodes /\ s.prev[s.level] < free
         /\ nodeKey[s.prev[s.level]] < nodeKey[s.node] /\ nodeKey[s.node] = s.key
         /\ s.next[s.level] \in Pointers
         /\ s.next[s.level] # Nil =>
              s.next[s.level] \in On(tower, s.level) /\ nodeKey[s.node] < nodeKey[s.next[s.level]]
<1>1. WriterInv(s)
  BY DEF IInv
<1>2. s.level \in Nat /\ s.height \in Nat /\ s.level < s.height /\ s.height <= height
  BY <1>1 DEF WriterInv, PhaseInv, Linking, Writer
<1>3. s.level \in Levels
  <2>1. s.height <= MaxHeight
    BY <1>1 DEF WriterInv, PhaseInv
  <2> QED
    BY <2>1, <1>2, HeightAssumption DEF Levels
<1>4. /\ s.node \in 2 .. free - 1 /\ nodeKey[s.node] = s.key
      /\ \A j \in Levels : s.node \in On(tower, j) <=> j < s.level
  BY <1>1 DEF WriterInv, NodeInv, Owning
<1>5. s.node \in Nodes \ {HeadNode}
  BY <1>4, PutsAssumption DEF IInv, TypeInv, Nodes, HeadNode
<1>6. s.node \notin On(tower, s.level)
  BY <1>2, <1>3, <1>4
<1>7. /\ s.prev[s.level] \in Chain(tower, s.level) /\ nodeKey[s.prev[s.level]] < s.key
      /\ s.next[s.level] # Nil =>
           s.next[s.level] \in On(tower, s.level) /\ nodeKey[s.next[s.level]] > s.key
  BY <1>1, <1>3 DEF WriterInv, SpliceInv
<1>8. s.prev[s.level] \in Nodes /\ s.prev[s.level] < free
  BY <1>3, <1>7, NodeFacts DEF IInv
<1>9. s.prev[s.level] # s.node
  BY <1>5, <1>6, <1>7 DEF Chain
<1>10. s.next[s.level] \in Pointers
  BY <1>3, <1>7, NodeFacts DEF Pointers, IInv
<1>11. s.next[s.level] # Nil => nodeKey[s.node] < nodeKey[s.next[s.level]]
  BY <1>3, <1>4, <1>5, <1>7, NodeFacts DEF IInv
<1> QED
  BY <1>2, <1>3, <1>4, <1>5, <1>6, <1>7, <1>8, <1>9, <1>10, <1>11

(* The locals for the next level. *)
LEMMA NextLevelFacts ==
  ASSUME NEW s \in Writer, s.level \in Levels
  PROVE  LET s2 == NextLevel(s)
         IN  /\ s2 \in Writer
             /\ s2.at = s.at /\ s2.key = s.key /\ s2.val = 0 /\ s2.level = s.level + 1
             /\ s2.before = s.before /\ s2.node = s.node /\ s2.height = s.height
             /\ \A i \in 0 .. MaxHeight :
                  /\ s2.prev[i] = IF i = s.level THEN Nil ELSE s.prev[i]
                  /\ s2.next[i] = IF i = s.level THEN Nil ELSE s.next[i]
<1>1. /\ s.level \in 0 .. MaxHeight /\ s.level \in Nat /\ s.level + 1 \in Nat /\ Nil \in Nat
  BY HeightAssumption DEF Levels, Nil
<1>2. s.prev \in Splice /\ s.next \in Splice
  BY DEF Writer
<1> DEFINE s2 == [s EXCEPT !.level = @ + 1, !.prev[s.level] = Nil, !.next[s.level] = Nil, !.val = 0]
<1>3. /\ s2 \in Writer
      /\ s2.at = s.at /\ s2.key = s.key /\ s2.val = 0 /\ s2.level = s.level + 1
      /\ s2.before = s.before /\ s2.node = s.node /\ s2.height = s.height
      /\ s2.prev = [s.prev EXCEPT ![s.level] = Nil]
      /\ s2.next = [s.next EXCEPT ![s.level] = Nil]
  BY <1>1, <1>2 DEF Writer, Splice
<1>4. NextLevel(s) = s2
  BY DEF NextLevel
<1> HIDE DEF s2
<1>5. \A i \in 0 .. MaxHeight :
        /\ s2.prev[i] = IF i = s.level THEN Nil ELSE s.prev[i]
        /\ s2.next[i] = IF i = s.level THEN Nil ELSE s.next[i]
  BY <1>1, <1>2, <1>3 DEF Splice
<1> QED
  BY <1>3, <1>4, <1>5

(***************************************************************************)
(* The compare-and-swap fails: the store into the new tower changes no     *)
(* list, and the search goes on from where it was.                         *)
(***************************************************************************)
LEMMA LinkFails ==
  ASSUME IInv, NEW w \in Writers, Link(w), ~ CasSucceeds(writer[w])
  PROVE  /\ IInv' /\ \E s2 \in Writer : LocalMove(w, s2)
         /\ nodeKey' = nodeKey /\ value' = value /\ puts' = puts
         /\ \A l \in Levels : On(tower', l) = On(tower, l)
<1>1. PICK s \in Writer : s = writer[w] /\ WriterInv(s)
  BY DEF IInv, TypeInv
<1>2. PICK l, p, x, n : l = s.level /\ p = s.prev[s.level] /\ x = s.next[s.level] /\ n = s.node
  OBVIOUS
<1>3. /\ s.at = "link" /\ p # Nil
      /\ tower' = [tower EXCEPT ![n][l] = x]
      /\ writer' = [writer EXCEPT ![w] = [s EXCEPT !.at = "retry", !.before = p]]
      /\ nodeKey' = nodeKey /\ value' = value /\ free' = free /\ height' = height /\ puts' = puts
  BY <1>1, <1>2 DEF Link
<1>4. /\ l \in Levels /\ l \in Nat /\ l < s.height /\ s.height <= height
      /\ n \in Nodes \ {HeadNode} /\ n \in 2 .. free - 1 /\ n \notin On(tower, l)
      /\ p \in Chain(tower, l) /\ p \in Nodes
      /\ nodeKey[p] < nodeKey[n] /\ nodeKey[n] = s.key
      /\ x \in Pointers
      /\ x # Nil => x \in On(tower, l) /\ nodeKey[n] < nodeKey[x]
  BY <1>1, <1>2, <1>3, LinkFacts
<1>5. tower \in Towers /\ nodeKey \in [Nodes -> Nat]
  BY DEF IInv, TypeInv
<1>7. /\ tower' \in Towers
      /\ \A m \in Nodes, j \in Levels : tower'[m][j] = IF m = n /\ j = l THEN x ELSE tower[m][j]
  BY <1>3, <1>4, <1>5 DEF Towers
<1>6. ASSUME NEW j \in Levels
      PROVE  On(tower', j) = On(tower, j) /\ ListInv(tower', nodeKey, j)
  <2>1. PICK t, t2 \in Towers, k \in [Nodes -> Nat] : t = tower /\ t2 = tower' /\ k = nodeKey
    BY <1>5, <1>7
  <2>2. ListInv(t, k, l) /\ ListInv(t, k, j)
    BY <2>1, <1>4 DEF IInv, ListsInv
  <2>3. \A m \in Nodes, i \in Levels : t2[m][i] = IF m = n /\ i = l THEN x ELSE t[m][i]
    BY <2>1, <1>7
  <2>4. n \notin On(t, l) /\ (x # Nil => x \in On(t, l) /\ k[n] < k[x])
    BY <2>1, <1>4
  <2>5. On(t2, j) = On(t, j) /\ ListInv(t2, k, j)
    BY <2>2, <2>3, <2>4, <1>4, StoreList
  <2> QED
    BY <2>1, <2>5
<1>8. NodesInv'
  <2>1. \A m \in Nodes, j \in Levels : tower'[m][j] \in {Nil} \cup (2 .. free - 1)
    <3>1. x \in {Nil} \cup (2 .. free - 1)
      BY <1>4, NodeFacts DEF IInv
    <3> QED
      BY <3>1, <1>7 DEF IInv, NodesInv
  <2>2. \A m \in Nodes, j \in Levels : m >= free => tower'[m][j] = Nil
    BY <1>4, <1>7, PutsAssumption DEF IInv, NodesInv, TypeInv, HeadNode
  <2> QED
    BY <2>1, <2>2, <1>3 DEF IInv, NodesInv
<1>9. ListsInv'
  <2>1. \A j \in Levels \ {0} : j - 1 \in Levels
    BY HeightAssumption DEF Levels
  <2> QED
    BY <2>1, <1>3, <1>6 DEF IInv, ListsInv
<1>10. Grows
  <2>1. free \in Nat /\ height \in Nat
    BY PutsAssumption, HeightAssumption DEF IInv, TypeInv, HeadNode
  <2>2. \A j \in Levels : On(tower, j) \subseteq On(tower', j)
    BY <1>6
  <2>3. free' = free /\ height' = height /\ nodeKey' = nodeKey
    BY <1>3
  <2> QED
    BY <2>1, <2>2, <2>3 DEF Grows
<1>11. PICK s2 : s2 = [s EXCEPT !.at = "retry", !.before = p]
  OBVIOUS
<1>12. writer' = [writer EXCEPT ![w] = s2]
  BY <1>3, <1>11
<1>13. /\ s2 \in Writer
       /\ s2.at = "retry" /\ s2.key = s.key /\ s2.val = s.val /\ s2.level = s.level
       /\ s2.before = p /\ s2.prev = s.prev /\ s2.next = s.next
       /\ s2.node = s.node /\ s2.height = s.height
  <2>1. p \in Nat
    BY <1>4 DEF Nodes
  <2> QED
    BY <2>1, <1>11 DEF Writer, Searching
<1>14. WriterInv(s2)'
  <2>1. \A j \in Levels : Chain(tower', j) = Chain(tower, j)
    BY <1>6 DEF Chain
  <2>2. SpliceInv(s2)' /\ NodeInv(s2)'
    BY <2>1, <1>1, <1>3, <1>6, <1>13 DEF WriterInv, SpliceInv, NodeInv, Owning
  <2>3. SearchInv(s2)'
    BY <2>1, <1>2, <1>3, <1>4, <1>13 DEF SearchInv
  <2>4. PhaseInv(s2)'
    BY <1>1, <1>2, <1>3, <1>13 DEF WriterInv, PhaseInv, Owning, Linking
  <2> QED
    BY <2>2, <2>3, <2>4 DEF WriterInv
<1>15. LocalMove(w, s2)
  BY <1>1, <1>3, <1>12, <1>13 DEF LocalMove, InFlight, Owning
<1>16. \A j \in Levels : \A m \in On(tower', j) :
         m \in On(tower, j) \/ (writer[w].at \in Owning /\ m = writer[w].node)
  BY <1>6
<1>17. /\ writer' \in [Writers -> Writer]
       /\ (\A v \in Writers : WriterInv(writer[v]))'
       /\ OwnersInv'
  BY <1>10, <1>13, <1>14, <1>15, <1>16, WritersStep DEF LocalMove
<1>18. TypeInv'
  BY <1>3, <1>7, <1>17 DEF IInv, TypeInv
<1>19. Unallocated' \subseteq Unallocated
  <2>1. writer'[w] = s2 /\ \A v \in Writers \ {w} : writer'[v] = writer[v]
    BY <1>12 DEF IInv, TypeInv
  <2> QED
    BY <2>1, <1>15 DEF LocalMove, Unallocated
<1>20. ArenaInv'
  BY <1>3, <1>19, ArenaShrinks DEF IInv
<1>21. IInv'
  BY <1>8, <1>9, <1>17, <1>18, <1>20 DEF IInv
<1>22. nodeKey' = nodeKey /\ value' = value /\ puts' = puts
  BY <1>3
<1> QED
  BY <1>6, <1>13, <1>15, <1>21, <1>22

(* It succeeds: the node is on this level, and on no other one more. *)
LEMMA LinkSucceeds ==
  ASSUME IInv, NEW w \in Writers, Link(w), CasSucceeds(writer[w])
  PROVE  /\ IInv'
         /\ \A j \in Levels :
              On(tower', j) = On(tower, j) \cup (IF j = writer[w].level THEN {writer[w].node} ELSE {})
<1>1. PICK s \in Writer : s = writer[w] /\ WriterInv(s)
  BY DEF IInv, TypeInv
<1>2. PICK l, p, x, n : l = s.level /\ p = s.prev[s.level] /\ x = s.next[s.level] /\ n = s.node
  OBVIOUS
<1>3. /\ s.at = "link" /\ p # Nil /\ tower[p][l] = x
      /\ tower' = [tower EXCEPT ![n][l] = x, ![p][l] = n]
      /\ writer' = [writer EXCEPT ![w] = IF l + 1 = s.height THEN Idle ELSE NextLevel(s)]
      /\ nodeKey' = nodeKey /\ value' = value /\ free' = free /\ height' = height /\ puts' = puts
  BY <1>1, <1>2 DEF Link, CasSucceeds
<1>4. /\ l \in Levels /\ l \in Nat /\ l < s.height /\ s.height <= height /\ s.height \in Nat
      /\ n \in Nodes \ {HeadNode} /\ n \in 2 .. free - 1 /\ n \notin On(tower, l)
      /\ p \in Chain(tower, l) /\ p \in Nodes /\ p # n /\ p < free
      /\ nodeKey[p] < nodeKey[n] /\ nodeKey[n] = s.key
      /\ x \in Pointers
      /\ x # Nil => x \in On(tower, l) /\ nodeKey[n] < nodeKey[x]
  BY <1>1, <1>2, <1>3, LinkFacts
<1>5. tower \in Towers /\ nodeKey \in [Nodes -> Nat] /\ nodeKey[HeadNode] = 0
  BY DEF IInv, TypeInv, NodesInv
<1>6. /\ \A m \in On(tower, l) : nodeKey[m] > 0
      /\ \A j \in Levels : ListInv(tower, nodeKey, j)
  BY <1>4, NodeFacts DEF IInv, ListsInv
<1>8. /\ tower' \in Towers
      /\ \A m \in Nodes, j \in Levels :
           tower'[m][j] = IF m = n /\ j = l THEN x ELSE IF m = p /\ j = l THEN n ELSE tower[m][j]
  <2>1. n \in Pointers
    BY <1>4 DEF Pointers
  <2> QED
    BY <2>1, <1>3, <1>4, <1>5 DEF Towers
<1>7. ASSUME NEW j \in Levels
      PROVE  /\ On(tower', j) = On(tower, j) \cup (IF j = l THEN {n} ELSE {})
             /\ ListInv(tower', nodeKey, j)
  <2>1. PICK t, t2 \in Towers, k \in [Nodes -> Nat] : t = tower /\ t2 = tower' /\ k = nodeKey
    BY <1>5, <1>8
  <2>2. ListInv(t, k, l) /\ ListInv(t, k, j)
    BY <2>1, <1>4, <1>6
  <2>3. \A m \in Nodes, i \in Levels :
          t2[m][i] = IF m = n /\ i = l THEN x ELSE IF m = p /\ i = l THEN n ELSE t[m][i]
    BY <2>1, <1>8
  <2>4. /\ n \notin On(t, l) /\ p \in Chain(t, l) /\ x = t[p][l] /\ k[p] < k[n]
        /\ (x # Nil => x \in On(t, l) /\ k[n] < k[x])
        /\ k[HeadNode] = 0 /\ \A m \in On(t, l) : k[m] > 0
    BY <2>1, <1>3, <1>4, <1>5, <1>6
  <2>5. /\ On(t2, j) = On(t, j) \cup (IF j = l THEN {n} ELSE {})
        /\ ListInv(t2, k, j)
    <3>1. n \in Nodes \ {HeadNode} /\ l \in Levels
      BY <1>4
    <3> QED
      BY <3>1, <2>2, <2>3, <2>4, LinkList
  <2> QED
    BY <2>1, <2>5
<1>9. NodesInv'
  <2>1. \A m \in Nodes, j \in Levels : tower'[m][j] \in {Nil} \cup (2 .. free - 1)
    <3>1. x \in {Nil} \cup (2 .. free - 1)
      BY <1>4, NodeFacts DEF IInv
    <3> QED
      BY <3>1, <1>4, <1>8 DEF IInv, NodesInv
  <2>2. \A m \in Nodes, j \in Levels : m >= free => tower'[m][j] = Nil
    <3>1. free \in Nat /\ p \in Nat /\ n \in Nat /\ n < free /\ p < free
      BY <1>4, PutsAssumption DEF IInv, TypeInv, HeadNode, Nodes
    <3>2. \A m \in Nodes : m >= free => m # n /\ m # p
      BY <3>1 DEF Nodes
    <3>3. \A m \in Nodes, j \in Levels : m # n /\ m # p => tower'[m][j] = tower[m][j]
      BY <1>8
    <3> QED
      BY <3>2, <3>3 DEF IInv, NodesInv
  <2> QED
    BY <2>1, <2>2, <1>3 DEF IInv, NodesInv
<1>10. \A j \in Levels : n \in On(tower, j) <=> j < l
  BY <1>1, <1>2, <1>3 DEF WriterInv, NodeInv, Owning
<1>11. ListsInv'
  <2>1. ASSUME NEW j \in Levels \ {0}
        PROVE  On(tower', j) \subseteq On(tower', j - 1)
    <3>1. j - 1 \in Levels /\ j - 1 < j /\ On(tower, j) \subseteq On(tower, j - 1)
      BY HeightAssumption DEF Levels, IInv, ListsInv
    <3>2. CASE j = l
      BY <3>1, <3>2, <1>7, <1>10
    <3>3. CASE j # l
      BY <3>1, <3>3, <1>7
    <3> QED
      BY <3>2, <3>3
  <2>2. ASSUME NEW j \in Levels, On(tower', j) # {}
        PROVE  j < height'
    <3>1. height \in Nat
      BY HeightAssumption DEF IInv, TypeInv
    <3>2. CASE j = l
      BY <3>1, <3>2, <1>3, <1>4
    <3>3. CASE j # l
      BY <3>3, <2>2, <1>3, <1>7 DEF IInv, ListsInv
    <3> QED
      BY <3>2, <3>3
  <2> QED
    BY <2>1, <2>2, <1>3, <1>7 DEF ListsInv
<1>12. Grows
  <2>1. free \in Nat /\ height \in Nat
    BY PutsAssumption, HeightAssumption DEF IInv, TypeInv, HeadNode
  <2>2. \A j \in Levels : On(tower, j) \subseteq On(tower', j)
    BY <1>7
  <2>3. free' = free /\ height' = height /\ nodeKey' = nodeKey
    BY <1>3
  <2> QED
    BY <2>1, <2>2, <2>3 DEF Grows
<1>13. PICK s2 : s2 = IF l + 1 = s.height THEN Idle ELSE NextLevel(s)
  OBVIOUS
<1>14. writer' = [writer EXCEPT ![w] = s2]
  BY <1>3, <1>13
<1>15. TypeInv => Idle \in Writer /\ WriterInv(Idle) /\ Idle.at = "idle"
  BY IdleInv
<1>16. ASSUME l + 1 = s.height
       PROVE  s2 \in Writer /\ WriterInv(s2)' /\ s2.at = "idle"
  <2>1. s2 \in Writer /\ WriterInv(s2) /\ s2.at = "idle"
    BY <1>13, <1>15, <1>16 DEF IInv
  <2>2. s2.at \notin Owning
    BY <2>1 DEF Owning
  <2> QED
    BY <2>1, <2>2, <1>12, OtherWriter DEF IInv
<1>17. ASSUME l + 1 # s.height
       PROVE  s2 \in Writer /\ WriterInv(s2)' /\ s2.at = "link" /\ s2.node = n
  <2>1. /\ s2 \in Writer
        /\ s2.at = "link" /\ s2.key = s.key /\ s2.val = 0 /\ s2.level = l + 1
        /\ s2.before = s.before /\ s2.node = s.node /\ s2.height = s.height
        /\ \A i \in 0 .. MaxHeight :
             /\ s2.prev[i] = IF i = l THEN Nil ELSE s.prev[i]
             /\ s2.next[i] = IF i = l THEN Nil ELSE s.next[i]
    BY <1>2, <1>3, <1>4, <1>13, <1>17, NextLevelFacts
  <2>2. SpliceInv(s2)'
    <3> SUFFICES ASSUME NEW i \in Levels, s2.prev[i] # Nil
                 PROVE  /\ s2.prev[i] \in Chain(tower', i) /\ nodeKey'[s2.prev[i]] < s2.key
                        /\ s2.next[i] # Nil =>
                             s2.next[i] \in On(tower', i) /\ nodeKey'[s2.next[i]] > s2.key
      BY DEF SpliceInv
    <3>1. i \in 0 .. MaxHeight
      BY NodeFacts DEF IInv
    <3>2. i # l /\ s2.prev[i] = s.prev[i] /\ s2.next[i] = s.next[i]
      BY <3>1, <2>1
    <3>3. On(tower', i) = On(tower, i) /\ Chain(tower', i) = Chain(tower, i)
      BY <3>2, <1>7 DEF Chain
    <3> QED
      BY <3>2, <3>3, <2>1, <1>1, <1>3 DEF WriterInv, SpliceInv
  <2>3. SearchInv(s2)'
    BY <2>1 DEF SearchInv, Searching
  <2>4. NodeInv(s2)'
    <3>1. \A j \in Levels : n \in On(tower', j) <=> j < l + 1
      <4> SUFFICES ASSUME NEW j \in Levels
                   PROVE  n \in On(tower', j) <=> j < l + 1
        OBVIOUS
      <4>1. j \in Nat
        BY NodeFacts DEF IInv
      <4>2. CASE j = l
        BY <4>1, <4>2, <1>4, <1>7
      <4>3. CASE j # l
        BY <4>1, <4>3, <1>4, <1>7, <1>10
      <4> QED
        BY <4>2, <4>3
    <3>2. s.height \in 1 .. MaxHeight
      BY <1>1, <1>3 DEF WriterInv, NodeInv, Owning
    <3>3. n \in 2 .. free - 1 /\ nodeKey[n] = s.key /\ s.node = n
      BY <1>2, <1>3, <1>4
    <3>4. \A j \in Levels : s2.node \in On(tower', j) <=> j < s2.level
      BY <3>1, <3>3, <2>1
    <3>5. s2.node \in 2 .. free' - 1 /\ nodeKey'[s2.node] = s2.key /\ s2.height \in 1 .. MaxHeight
      BY <3>2, <3>3, <2>1, <1>3
    <3> QED
      BY <3>4, <3>5 DEF NodeInv
  <2>5. PhaseInv(s2)'
    <3>1. s2.level # 0 /\ (s2.level = 1 => s2.prev[1] # Nil)
      <4>1. 1 \in 0 .. MaxHeight
        BY HeightAssumption
      <4>2. s.level = 0 => s.prev[1] # Nil
        BY <1>1, <1>3 DEF WriterInv, PhaseInv, Owning
      <4> QED
        BY <4>1, <4>2, <2>1, <1>2, <1>4
    <3>2. s2.level < s2.height /\ s2.height <= height'
      BY <2>1, <1>3, <1>4, <1>17
    <3>3. s.key \in Keys /\ s.height <= MaxHeight /\ s.node < free
      BY <1>1, <1>3 DEF WriterInv, PhaseInv
    <3> QED
      BY <3>1, <3>2, <3>3, <2>1, <1>3 DEF PhaseInv, Owning, Linking
  <2>6. WriterInv(s2)'
    BY <2>2, <2>3, <2>4, <2>5 DEF WriterInv
  <2> QED
    BY <2>1, <2>6, <1>2
<1>18. /\ s2 \in Writer /\ WriterInv(s2)' /\ s2.at \in {"idle", "link"}
       /\ s2.at = "link" => s2.node = n
  BY <1>16, <1>17
<1>19. \A j \in Levels : \A m \in On(tower', j) :
         m \in On(tower, j) \/ (writer[w].at \in Owning /\ m = writer[w].node)
  <2>1. writer[w].at \in Owning /\ n = writer[w].node
    BY <1>1, <1>2, <1>3 DEF Owning
  <2>2. \A j \in Levels : \A m \in On(tower', j) : m \in On(tower, j) \/ m = n
    BY <1>7
  <2> QED
    BY <2>1, <2>2
<1>20. s2.at \in Owning => writer[w].at \in Owning /\ s2.node = writer[w].node
  BY <1>1, <1>2, <1>3, <1>18 DEF Owning
<1>21. /\ writer' \in [Writers -> Writer]
       /\ (\A v \in Writers : WriterInv(writer[v]))'
       /\ OwnersInv'
  BY <1>12, <1>14, <1>18, <1>19, <1>20, WritersStep
<1>22. TypeInv'
  BY <1>3, <1>8, <1>21 DEF IInv, TypeInv
<1>23. Unallocated' \subseteq Unallocated
  <2>1. writer'[w] = s2 /\ \A v \in Writers \ {w} : writer'[v] = writer[v]
    BY <1>14 DEF IInv, TypeInv
  <2> QED
    BY <2>1, <1>18 DEF Unallocated
<1>24. ArenaInv'
  BY <1>3, <1>23, ArenaShrinks DEF IInv
<1> QED
  BY <1>1, <1>2, <1>7, <1>9, <1>11, <1>21, <1>22, <1>24 DEF IInv
-----------------------------------------------------------------------------
(* The empty list fulfils the invariant. *)
LEMMA InitInv == Init => IInv
<1> SUFFICES ASSUME Init
             PROVE  IInv
  OBVIOUS
<1>1. HeadNode = 1 /\ Nil = 0 /\ MaxPuts \in Nat /\ MaxHeight \in Nat /\ MaxHeight >= 1
  BY PutsAssumption, HeightAssumption DEF HeadNode, Nil
<1>2. \A n \in Nodes, l \in Levels : tower[n][l] = Nil
  BY DEF Init
<1>3. /\ nodeKey \in [Nodes -> Nat] /\ value \in [Nodes -> Nat] /\ tower \in Towers
      /\ free = 2 /\ height = 1 /\ puts = 0
  BY <1>1 DEF Init, Towers, Pointers
<1>4. free \in HeadNode + 1 .. MaxPuts + 2 /\ height \in 1 .. MaxHeight /\ puts \in 0 .. MaxPuts
  BY <1>1, <1>3
<1>5. NoSplice \in Splice
  BY <1>1 DEF NoSplice, Splice
<1>6. Idle \in Writer
  BY <1>1, <1>5 DEF Idle, Writer
<1>7. writer \in [Writers -> Writer] /\ \A w \in Writers : writer[w] = Idle
  BY <1>6 DEF Init
<1>8. TypeInv
  BY <1>3, <1>4, <1>7 DEF TypeInv
<1>9. NodesInv
  <2>1. HeadNode \in Nodes
    BY <1>1 DEF Nodes
  <2>2. nodeKey[HeadNode] = 0
    BY <2>1 DEF Init
  <2> QED
    BY <2>2, <1>2, <1>3 DEF NodesInv
<1>10. \A l \in Levels : On(tower, l) = {}
  BY <1>1, <1>2 DEF On, Nodes
<1>11. ListsInv
  <2>1. \A l \in Levels : ListInv(tower, nodeKey, l)
    BY <1>2, <1>10 DEF ListInv
  <2>2. \A l \in Levels \ {0} : On(tower, l) \subseteq On(tower, l - 1)
    BY <1>10
  <2> QED
    BY <2>1, <2>2, <1>10 DEF ListsInv
<1>12. ArenaInv
  <2>1. Unallocated = {}
    BY <1>7 DEF Unallocated, Idle
  <2>2. IsFiniteSet({}) /\ Cardinality({}) = 0
    BY FS_EmptySet
  <2>3. free + 0 <= puts + 2
    BY <1>3
  <2> QED
    BY <2>1, <2>2, <2>3 DEF ArenaInv
<1>13. WriterInv(Idle) /\ Idle.at = "idle"
  BY <1>8, IdleInv
<1>14. OwnersInv
  BY <1>7, <1>13 DEF OwnersInv, Owning
<1> QED
  BY <1>7, <1>8, <1>9, <1>11, <1>12, <1>13, <1>14 DEF IInv

(* Steps of readers, and steps that change nothing. *)
LEMMA OtherStep ==
  ASSUME IInv, UNCHANGED <<nodeVars, height, writer, puts>>
  PROVE  IInv'
<1>1. /\ nodeKey' = nodeKey /\ value' = value /\ tower' = tower /\ free' = free
      /\ height' = height /\ writer' = writer /\ puts' = puts
  BY DEF nodeVars
<1>2. Unallocated' = Unallocated
  BY <1>1 DEF Unallocated
<1>3. TypeInv' /\ NodesInv' /\ ListsInv' /\ OwnersInv'
  BY <1>1 DEF IInv, TypeInv, NodesInv, ListsInv, OwnersInv
<1>4. ArenaInv'
  BY <1>1, <1>2 DEF IInv, ArenaInv
<1>5. \A w \in Writers : WriterInv(writer[w])'
  BY <1>1 DEF IInv, WriterInv, SpliceInv, SearchInv, NodeInv, PhaseInv
<1> QED
  BY <1>3, <1>4, <1>5 DEF IInv

(* The steps of a put that leave the values and the lists as they are. *)
QuietAction(w) ==
  \/ Advance(w) \/ SearchDone(w) \/ Grow(w) \/ Raise(w) \/ FindSplice(w) \/ FindDone(w)
  \/ RetryDone(w) \/ (Link(w) /\ ~ CasSucceeds(writer[w]))

(* These actions preserve the invariant and leave all lists as they are. *)
LEMMA QuietActionStep ==
  ASSUME IInv, NEW w \in Writers, QuietAction(w)
  PROVE  /\ IInv' /\ \E s2 \in Writer : LocalMove(w, s2)
         /\ nodeKey' = nodeKey /\ value' = value /\ puts' = puts
         /\ \A l \in Levels : On(tower', l) = On(tower, l)
<1>1. CASE Raise(w)
  BY <1>1, RaiseStep DEF Raise, nodeVars
<1>2. CASE Link(w) /\ ~ CasSucceeds(writer[w])
  BY <1>2, LinkFails
<1>3. CASE Advance(w)
  BY <1>3, AdvanceMove, LocalStep DEF Advance, nodeVars
<1>4. CASE SearchDone(w)
  BY <1>4, SearchMove, LocalStep DEF SearchDone, nodeVars
<1>5. CASE Grow(w)
  BY <1>5, GrowMove, LocalStep DEF Grow, nodeVars
<1>6. CASE FindSplice(w)
  BY <1>6, FindMove, LocalStep DEF FindSplice, nodeVars
<1>7. CASE FindDone(w)
  BY <1>7, FoundMove, LocalStep DEF FindDone, nodeVars
<1>8. CASE RetryDone(w)
  BY <1>8, FoundMove, LocalStep DEF RetryDone, nodeVars
<1> QED
  BY <1>1, <1>2, <1>3, <1>4, <1>5, <1>6, <1>7, <1>8 DEF QuietAction

(***************************************************************************)
(* All that can happen: a put starts, takes a local step, overwrites a     *)
(* value, gets its node or links it on a level, or a reader moves.         *)
(***************************************************************************)
LEMMA StepCases ==
  ASSUME [Next]_vars
  PROVE  \/ \E w \in Writers :
              \/ \E k \in Keys : StartPut(w, k)
              \/ QuietAction(w)
              \/ SetValue(w) \/ NewNode(w)
              \/ (Link(w) /\ CasSucceeds(writer[w]))
         \/ UNCHANGED <<nodeVars, height, writer, puts>>
<1>1. CASE UNCHANGED vars
  BY <1>1 DEF vars, nodeVars
<1>2. ASSUME NEW w \in Writers, WriterStep(w)
      PROVE  QuietAction(w) \/ SetValue(w) \/ NewNode(w) \/ (Link(w) /\ CasSucceeds(writer[w]))
  BY <1>2 DEF WriterStep, QuietAction
<1>3. ASSUME NEW w \in Writers, WriterStep(w) \/ \E k \in Keys : StartPut(w, k)
      PROVE  \/ \E k \in Keys : StartPut(w, k)
             \/ QuietAction(w)
             \/ SetValue(w) \/ NewNode(w)
             \/ (Link(w) /\ CasSucceeds(writer[w]))
  BY <1>2, <1>3
<1>4. CASE \E k \in Targets, less, allowEqual \in BOOLEAN : StartFind(k, less, allowEqual)
  BY <1>4 DEF StartFind
<1>5. CASE FindNear \/ GrabNext \/ StartScan \/ ScanNext \/ Return
  BY <1>5 DEF FindNear, GrabNext, StartScan, ScanNext, Return
<1>6. CASE \E w \in Writers : WriterStep(w) \/ \E k \in Keys : StartPut(w, k)
  <2>1. PICK w \in Writers : WriterStep(w) \/ \E k \in Keys : StartPut(w, k)
    BY <1>6
  <2>2. \/ \E k \in Keys : StartPut(w, k)
        \/ QuietAction(w)
        \/ SetValue(w) \/ NewNode(w)
        \/ (Link(w) /\ CasSucceeds(writer[w]))
    BY <2>1, <1>3
  <2> QED
    BY <2>2
<1> QED
  BY <1>1, <1>4, <1>5, <1>6 DEF Next

(* Every step preserves the invariant. *)
LEMMA StepInv ==
  ASSUME IInv, [Next]_vars
  PROVE  IInv'
  BY StepCases, StartStep, QuietActionStep, SetStep, NewNodeStep, LinkSucceeds, OtherStep

(***************************************************************************)
(* The invariant holds in every reachable state.                           *)
(***************************************************************************)
THEOREM Invariant == Spec => []IInv
  BY InitInv, StepInv, PTL DEF Spec

(***************************************************************************)
(* The arena is never exceeded, towers are never higher than MAX_HEIGHT,   *)
(* and every pointer leads to a node that was allocated.                   *)
(***************************************************************************)
THEOREM TypeCorrect == Spec => []TypeOK
<1>1. IInv => TypeOK
  <2> SUFFICES ASSUME IInv
               PROVE  TypeOK
    OBVIOUS
  <2>1. \A w \in Writers : writer[w].height <= MaxHeight /\ writer[w].node < free
    BY DEF IInv, WriterInv, PhaseInv
  <2>2. \A n \in Nodes, l \in Levels : tower[n][l] \in {Nil} \cup (HeadNode + 1 .. free - 1)
    BY DEF IInv, NodesInv, HeadNode
  <2> QED
    BY <2>1, <2>2 DEF IInv, TypeInv, TypeOK
<1> QED
  BY <1>1, Invariant, PTL

(***************************************************************************)
(* On every level keys ascend strictly; a node on a level is on all levels *)
(* below, and no level at or above the list's height has a node: so a      *)
(* search that starts from the height misses nothing.                      *)
(***************************************************************************)
THEOREM ListsAreSorted == Spec => []ListsSorted
<1>1. IInv => ListsSorted
  <2> SUFFICES ASSUME IInv
               PROVE  ListsSorted
    OBVIOUS
  <2>1. \A l \in Levels : List(l) = On(tower, l)
    BY ListOn DEF IInv
  <2>2. \A l \in Levels \ {0} : l - 1 \in Levels
    BY HeightAssumption DEF Levels
  <2>3. \A n \in Nodes, l \in Levels : tower[n][l] # Nil => nodeKey[n] < nodeKey[tower[n][l]]
    BY DEF IInv, ListsInv, ListInv
  <2> QED
    BY <2>1, <2>2, <2>3 DEF IInv, ListsInv, ListsSorted
<1> QED
  BY <1>1, Invariant, PTL

(***************************************************************************)
(* The assertions of _put hold, whatever other threads put meanwhile.      *)
(***************************************************************************)
THEOREM AssertionsNeverFail == Spec => []AssertionsHold
<1>1. IInv => AssertionsHold
  BY DEF IInv, WriterInv, PhaseInv, AssertionsHold
<1> QED
  BY <1>1, Invariant, PTL
-----------------------------------------------------------------------------
(* What a map of the values says: those of the nodes on the base level. *)
ContentsInv ==
  /\ \A n \in On(tower, 0) : Contents[nodeKey[n]] = value[n]
  /\ \A k \in Keys : k \notin KeysIn(On(tower, 0)) => Contents[k] = 0

(* The contents, by nodes instead of the walk from the head. *)
LEMMA ContentsFacts == IInv => ContentsInv
<1> SUFFICES ASSUME IInv
             PROVE  ContentsInv
  OBVIOUS
<1>1. List(0) = On(tower, 0) /\ 0 \in Levels
  BY ListOn, NodeFacts DEF IInv
<1>2. ASSUME NEW n \in On(tower, 0)
      PROVE  Contents[nodeKey[n]] = value[n]
  <2>1. nodeKey[n] \in Keys
    BY <1>1, NodeFacts DEF IInv, NodesInv
  <2>2. nodeKey[n] \in KeysIn(List(0))
    BY <1>1 DEF KeysIn
  <2>3. (CHOOSE m \in List(0) : nodeKey[m] = nodeKey[n]) = n
    BY <1>1 DEF IInv, ListsInv, ListInv
  <2> QED
    BY <2>1, <2>2, <2>3 DEF Contents
<1>3. \A k \in Keys : k \notin KeysIn(On(tower, 0)) => Contents[k] = 0
  BY <1>1 DEF Contents
<1> QED
  BY <1>2, <1>3 DEF ContentsInv

(* The puts that were called and have not taken effect. *)
PutOf(s) == [key |-> s.key, value |-> s.val]
Pending == {PutOf(writer[w]) : w \in {v \in Writers : InFlight(writer[v])}}

(* The steps of the map that the refinement allows. *)
MapStep ==
  \/ Contents' = Contents /\ Pending' = Pending
  \/ \E q \in [key : Keys, value : 1 .. MaxPuts] :
       \/ q \notin Pending /\ Pending' = Pending \cup {q} /\ Contents' = Contents
       \/ /\ q \in Pending
          /\ Contents' = [Contents EXCEPT ![q.key] = q.value]
          /\ Pending' = Pending \ {q}

(* The contents are the same if the base list and its values are. *)
LEMMA SameContents ==
  ASSUME IInv, IInv', On(tower', 0) = On(tower, 0),
         \A n \in On(tower, 0) : nodeKey'[n] = nodeKey[n] /\ value'[n] = value[n]
  PROVE  Contents' = Contents
<1>1. ContentsInv /\ ContentsInv'
  BY ContentsFacts, PTL
<1>2. ASSUME NEW k \in Keys
      PROVE  Contents'[k] = Contents[k]
  <2>1. CASE k \in KeysIn(On(tower, 0))
    <3>1. PICK n \in On(tower, 0) : nodeKey[n] = k
      BY <2>1 DEF KeysIn
    <3> QED
      BY <3>1, <1>1 DEF ContentsInv
  <2>2. CASE k \notin KeysIn(On(tower, 0))
    <3>1. k \notin KeysIn(On(tower, 0))'
      BY <2>2 DEF KeysIn
    <3> QED
      BY <3>1, <2>2, <1>1 DEF ContentsInv
  <2> QED
    BY <2>1, <2>2
<1>3. Contents = [k \in Keys |-> Contents[k]] /\ Contents' = [k \in Keys |-> Contents'[k]]
  BY DEF Contents
<1> QED
  BY <1>2, <1>3

(* One node of the base list has a new value, or comes to the list. *)
LEMMA NewContents ==
  ASSUME IInv, IInv', NEW n, On(tower', 0) = On(tower, 0) \cup {n}, nodeKey' = nodeKey,
         \A m \in On(tower, 0) : m # n => value'[m] = value[m]
  PROVE  Contents' = [Contents EXCEPT ![nodeKey[n]] = value'[n]]
<1>1. ContentsInv /\ ContentsInv'
  BY ContentsFacts, PTL
<1>2. n \in On(tower', 0)
  OBVIOUS
<1>3. Contents'[nodeKey[n]] = value'[n]
  BY <1>1, <1>2 DEF ContentsInv
<1>4. ASSUME NEW k \in Keys, k # nodeKey[n]
      PROVE  Contents'[k] = Contents[k]
  <2>1. CASE k \in KeysIn(On(tower, 0))
    <3>1. PICK m \in On(tower, 0) : nodeKey[m] = k
      BY <2>1 DEF KeysIn
    <3>2. m # n /\ m \in On(tower', 0)
      BY <3>1, <1>4
    <3> QED
      BY <3>1, <3>2, <1>1 DEF ContentsInv
  <2>2. CASE k \notin KeysIn(On(tower, 0))
    <3>1. k \notin KeysIn(On(tower, 0))'
      BY <2>2, <1>4 DEF KeysIn
    <3> QED
      BY <3>1, <2>2, <1>1 DEF ContentsInv
  <2> QED
    BY <2>1, <2>2
<1>5. Contents = [k \in Keys |-> Contents[k]] /\ Contents' = [k \in Keys |-> Contents'[k]]
  BY DEF Contents
<1> DEFINE c == [Contents EXCEPT ![nodeKey[n]] = value'[n]]
<1>6. c = [k \in Keys |-> IF k = nodeKey[n] THEN value'[n] ELSE Contents[k]]
  BY <1>5
<1> QED
  BY <1>3, <1>4, <1>5, <1>6
(* A put in flight that has a node has not linked it on any level. *)
LEMMA InFlightNode ==
  ASSUME IInv, NEW w \in Writers, InFlight(writer[w]), writer[w].at \in Owning
  PROVE  writer[w].node \notin On(tower, 0) /\ writer[w].node \in 2 .. free - 1
<1>1. WriterInv(writer[w]) /\ 0 \in Levels
  BY NodeFacts DEF IInv
<1>2. writer[w].level = 0
  BY <1>1 DEF InFlight, Owning, WriterInv, PhaseInv
<1> QED
  BY <1>1, <1>2 DEF WriterInv, NodeInv

(* What a put in flight is about. *)
LEMMA InFlightPut ==
  ASSUME IInv, ValuesInv, NEW w \in Writers, InFlight(writer[w])
  PROVE  /\ PutOf(writer[w]) \in [key : Keys, value : 1 .. MaxPuts]
         /\ PutOf(writer[w]) \in Pending
         /\ PutOf(writer[w]).key = writer[w].key /\ PutOf(writer[w]).value = writer[w].val
<1>1. writer[w].key \in Keys
  BY DEF IInv, WriterInv, PhaseInv, InFlight
<1>2. writer[w].val \in 1 .. MaxPuts
  <2>1. writer[w].val \in 1 .. puts
    BY DEF ValuesInv
  <2>2. puts \in 0 .. MaxPuts
    BY DEF IInv, TypeInv
  <2> QED
    BY <2>1, <2>2, PutsAssumption
<1> QED
  BY <1>1, <1>2 DEF PutOf, Pending

(* A put takes effect when its thread is in flight no more. *)
LEMMA PendingLess ==
  ASSUME IInv, ValuesInv, NEW w \in Writers, InFlight(writer[w]), NEW s2, ~ InFlight(s2),
         writer' = [writer EXCEPT ![w] = s2]
  PROVE  Pending' = Pending \ {PutOf(writer[w])}
<1>1. writer'[w] = s2 /\ \A v \in Writers \ {w} : writer'[v] = writer[v]
  BY DEF IInv, TypeInv
<1>2. \A v \in Writers \ {w} : InFlight(writer[v]) => PutOf(writer[v]) # PutOf(writer[w])
  <2> SUFFICES ASSUME NEW v \in Writers \ {w}, InFlight(writer[v])
               PROVE  PutOf(writer[v]) # PutOf(writer[w])
    OBVIOUS
  <2>1. writer[v].val # writer[w].val
    BY DEF ValuesInv
  <2>2. PutOf(writer[v]).value = writer[v].val /\ PutOf(writer[w]).value = writer[w].val
    BY DEF PutOf
  <2> QED
    BY <2>1, <2>2
<1>3. Pending' = {PutOf(writer'[v]) : v \in {u \in Writers : InFlight(writer'[u])}}
  BY DEF Pending, PutOf, InFlight
<1>4. {u \in Writers : InFlight(writer'[u])} = {u \in Writers \ {w} : InFlight(writer[u])}
  BY <1>1
<1>5. Pending' = {PutOf(writer[v]) : v \in {u \in Writers \ {w} : InFlight(writer[u])}}
  BY <1>1, <1>3, <1>4
<1> QED
  BY <1>2, <1>5 DEF Pending

(* A step that keeps what is in flight keeps what is pending. *)
LEMMA PendingSame ==
  ASSUME IInv, NEW w \in Writers, NEW s2, writer' = [writer EXCEPT ![w] = s2],
         InFlight(s2) <=> InFlight(writer[w]),
         InFlight(s2) => s2.key = writer[w].key /\ s2.val = writer[w].val
  PROVE  Pending' = Pending
<1>1. writer'[w] = s2 /\ \A v \in Writers \ {w} : writer'[v] = writer[v]
  BY DEF IInv, TypeInv
<1>2. \A v \in Writers : /\ InFlight(writer'[v]) <=> InFlight(writer[v])
                         /\ InFlight(writer[v]) => PutOf(writer'[v]) = PutOf(writer[v])
  BY <1>1 DEF PutOf
<1>3. Pending' = {PutOf(writer'[v]) : v \in {u \in Writers : InFlight(writer'[u])}}
  BY DEF Pending, PutOf, InFlight
<1> QED
  BY <1>2, <1>3 DEF Pending

(* A step that leaves the lists alone is a stutter of the memtable. *)
LEMMA QuietMap ==
  ASSUME IInv, ValuesInv, NEW w \in Writers, QuietAction(w)
  PROVE  ValuesInv' /\ MapStep
<1>1. PICK s2 \in Writer : LocalMove(w, s2)
  BY QuietActionStep
<1>2. /\ IInv' /\ nodeKey' = nodeKey /\ value' = value /\ puts' = puts
      /\ On(tower', 0) = On(tower, 0)
  BY QuietActionStep, NodeFacts DEF IInv
<1>3. Contents' = Contents
  BY <1>2, SameContents
<1>4. Pending' = Pending
  BY <1>1, PendingSame DEF LocalMove
<1>5. writer'[w] = s2 /\ \A v \in Writers \ {w} : writer'[v] = writer[v]
  BY <1>1 DEF LocalMove, IInv, TypeInv
<1>6. \A v \in Writers :
        /\ InFlight(writer'[v]) <=> InFlight(writer[v])
        /\ writer'[v].val = writer[v].val
        /\ writer'[v].at \in Owning => writer[v].at \in Owning /\ writer'[v].node = writer[v].node
  BY <1>1, <1>5 DEF LocalMove
<1>7. ValuesInv'
  <2>1. \A v \in Writers : InFlight(writer'[v]) => writer'[v].val \in 1 .. puts'
    BY <1>2, <1>6 DEF ValuesInv
  <2>2. \A v \in Writers : InFlight(writer'[v]) /\ writer'[v].at \in Owning =>
          value'[writer'[v].node] = writer'[v].val
    BY <1>2, <1>6 DEF ValuesInv
  <2>3. \A u, v \in Writers : u # v /\ InFlight(writer'[u]) /\ InFlight(writer'[v]) =>
          writer'[u].val # writer'[v].val
    BY <1>6 DEF ValuesInv
  <2> QED
    BY <2>1, <2>2, <2>3 DEF ValuesInv, InFlight
<1> QED
  BY <1>3, <1>4, <1>7 DEF MapStep

(* StartPut is the memtable's Call. *)
LEMMA StartMap ==
  ASSUME IInv, ValuesInv, NEW w \in Writers, NEW k \in Keys, StartPut(w, k)
  PROVE  ValuesInv' /\ MapStep
<1>1. IInv'
  BY StartStep
<1>2. /\ nodeKey' = nodeKey /\ value' = value /\ tower' = tower
      /\ puts \in Nat /\ MaxPuts \in Nat /\ puts < MaxPuts /\ puts' = puts + 1
      /\ writer[w].at = "idle"
  BY PutsAssumption DEF StartPut, nodeVars, IInv, TypeInv
<1>3. Contents' = Contents
  BY <1>1, <1>2, SameContents
<1>4. PICK s2 : s2 = writer'[w]
  OBVIOUS
<1>5. /\ s2.at = "search" /\ s2.key = k /\ s2.val = puts + 1
      /\ \A v \in Writers \ {w} : writer'[v] = writer[v]
  BY <1>4 DEF StartPut, Idle, IInv, TypeInv
<1>6. InFlight(s2) /\ ~ InFlight(writer[w]) /\ s2.at \notin Owning
  BY <1>2, <1>5 DEF InFlight, Owning
<1>7. PICK q : q = PutOf(s2)
  OBVIOUS
<1>8. q \in [key : Keys, value : 1 .. MaxPuts] /\ q.value = puts + 1
  BY <1>2, <1>5, <1>7 DEF PutOf
<1>9. q \notin Pending
  <2> SUFFICES ASSUME NEW v \in Writers, InFlight(writer[v]), q = PutOf(writer[v])
               PROVE  FALSE
    BY DEF Pending
  <2>1. writer[v].val \in 1 .. puts /\ PutOf(writer[v]).value = writer[v].val
    BY DEF ValuesInv, PutOf
  <2> QED
    BY <2>1, <1>2, <1>8
<1>10. Pending' = Pending \cup {q}
  <2>1. Pending' = {PutOf(writer'[v]) : v \in {u \in Writers : InFlight(writer'[u])}}
    BY DEF Pending, PutOf, InFlight
  <2>2. {u \in Writers : InFlight(writer'[u])} = {u \in Writers : InFlight(writer[u])} \cup {w}
    BY <1>4, <1>5, <1>6
  <2>3. \A v \in {u \in Writers : InFlight(writer[u])} : writer'[v] = writer[v]
    BY <1>5, <1>6
  <2> QED
    BY <2>1, <2>2, <2>3, <1>4, <1>7 DEF Pending
<1>11. ValuesInv'
  <2>1. \A v \in Writers : InFlight(writer'[v]) => writer'[v].val \in 1 .. puts'
    <3> SUFFICES ASSUME NEW v \in Writers, InFlight(writer'[v])
                 PROVE  writer'[v].val \in 1 .. puts'
      OBVIOUS
    <3>1. CASE v = w
      BY <3>1, <1>2, <1>4, <1>5
    <3>2. CASE v # w
      <4>1. writer[v].val \in 1 .. puts
        BY <3>2, <1>5 DEF ValuesInv
      <4> QED
        BY <4>1, <3>2, <1>2, <1>5
    <3> QED
      BY <3>1, <3>2
  <2>2. \A v \in Writers : InFlight(writer'[v]) /\ writer'[v].at \in Owning =>
          value'[writer'[v].node] = writer'[v].val
    BY <1>2, <1>4, <1>5, <1>6 DEF ValuesInv
  <2>3. ASSUME NEW u \in Writers, NEW v \in Writers, u # v,
               InFlight(writer'[u]), InFlight(writer'[v])
        PROVE  writer'[u].val # writer'[v].val
    <3>1. \A x \in Writers \ {w} : InFlight(writer'[x]) =>
            writer'[x].val = writer[x].val /\ InFlight(writer[x]) /\ writer'[x].val # puts + 1
      <4> SUFFICES ASSUME NEW x \in Writers \ {w}, InFlight(writer'[x])
                   PROVE  /\ writer'[x].val = writer[x].val /\ InFlight(writer[x])
                          /\ writer'[x].val # puts + 1
        OBVIOUS
      <4>1. writer'[x] = writer[x]
        BY <1>5
      <4>2. writer[x].val \in 1 .. puts
        BY <4>1 DEF ValuesInv
      <4> QED
        BY <4>1, <4>2, <1>2
    <3>2. CASE u = w
      BY <3>1, <3>2, <2>3, <1>4, <1>5
    <3>3. CASE v = w
      BY <3>1, <3>3, <2>3, <1>4, <1>5
    <3>4. CASE u # w /\ v # w
      BY <3>1, <3>4, <2>3 DEF ValuesInv
    <3> QED
      BY <3>2, <3>3, <3>4
  <2> QED
    BY <2>1, <2>2, <2>3 DEF ValuesInv, InFlight
<1> QED
  BY <1>3, <1>8, <1>9, <1>10, <1>11 DEF MapStep

(* SetValue is the memtable's TakeEffect. *)
LEMMA SetMap ==
  ASSUME IInv, ValuesInv, NEW w \in Writers, SetValue(w)
  PROVE  ValuesInv' /\ MapStep
<1>1. IInv'
  BY SetStep
<1>2. PICK s \in Writer : s = writer[w] /\ WriterInv(s)
  BY DEF IInv, TypeInv
<1>3. /\ s.at = "set" /\ value' = [value EXCEPT ![s.before] = s.val]
      /\ writer' = [writer EXCEPT ![w] = Idle]
      /\ nodeKey' = nodeKey /\ tower' = tower /\ puts' = puts
  BY <1>2 DEF SetValue
<1>4. s.before \in On(tower, 0) /\ nodeKey[s.before] = s.key /\ s.before \in Nodes
  BY <1>2, <1>3, NodeFacts DEF WriterInv, PhaseInv, IInv
<1>5. /\ value'[s.before] = s.val
      /\ \A n \in Nodes : n # s.before => value'[n] = value[n]
  BY <1>3, <1>4 DEF IInv, TypeInv
<1>6. InFlight(s) /\ ~ InFlight(Idle)
  BY <1>3 DEF InFlight, Idle
<1>7. Contents' = [Contents EXCEPT ![s.key] = s.val]
  <2>1. On(tower', 0) = On(tower, 0) \cup {s.before}
    BY <1>3, <1>4
  <2>2. \A m \in On(tower, 0) : m # s.before => value'[m] = value[m]
    BY <1>5, NodeFacts DEF IInv
  <2>3. Contents' = [Contents EXCEPT ![nodeKey[s.before]] = value'[s.before]]
    BY <2>1, <2>2, <1>1, <1>3, NewContents
  <2> QED
    BY <2>3, <1>4, <1>5
<1>8. Pending' = Pending \ {PutOf(s)}
  BY <1>2, <1>3, <1>6, PendingLess
<1>9. /\ PutOf(s) \in [key : Keys, value : 1 .. MaxPuts] /\ PutOf(s) \in Pending
      /\ PutOf(s).key = s.key /\ PutOf(s).value = s.val
  BY <1>2, <1>6, InFlightPut
<1>10. MapStep
  <2>1. PICK q : q = PutOf(s)
    OBVIOUS
  <2> QED
    BY <2>1, <1>7, <1>8, <1>9 DEF MapStep
<1>11. writer'[w] = Idle /\ \A v \in Writers \ {w} : writer'[v] = writer[v]
  BY <1>3 DEF IInv, TypeInv
<1>12. \A v \in Writers : InFlight(writer'[v]) => v # w /\ writer'[v] = writer[v]
  BY <1>6, <1>11
<1>13. ValuesInv'
  <2>1. \A v \in Writers : InFlight(writer'[v]) => writer'[v].val \in 1 .. puts'
    BY <1>3, <1>12 DEF ValuesInv
  <2>2. ASSUME NEW v \in Writers, InFlight(writer'[v]), writer'[v].at \in Owning
        PROVE  value'[writer'[v].node] = writer'[v].val
    <3>1. writer'[v] = writer[v]
      BY <2>2, <1>12
    <3>2. writer[v].node \notin On(tower, 0) /\ writer[v].node \in Nodes
      <4>1. writer[v].node \in 2 .. free - 1 /\ writer[v].node \notin On(tower, 0)
        BY <3>1, <2>2, InFlightNode
      <4>2. free \in 2 .. MaxPuts + 2
        BY DEF IInv, TypeInv, HeadNode
      <4> QED
        BY <4>1, <4>2, PutsAssumption DEF Nodes
    <3>3. value'[writer[v].node] = value[writer[v].node]
      BY <3>2, <1>4, <1>5
    <3> QED
      BY <3>1, <3>3, <2>2 DEF ValuesInv
  <2>3. \A u, v \in Writers : u # v /\ InFlight(writer'[u]) /\ InFlight(writer'[v]) =>
          writer'[u].val # writer'[v].val
    BY <1>12 DEF ValuesInv
  <2> QED
    BY <2>1, <2>2, <2>3 DEF ValuesInv, InFlight
<1> QED
  BY <1>10, <1>13

(* A node that is not linked yet is not seen: a stutter. *)
LEMMA NewNodeMap ==
  ASSUME IInv, ValuesInv, NEW w \in Writers, NewNode(w)
  PROVE  ValuesInv' /\ MapStep
<1>1. IInv'
  BY NewNodeStep
<1>2. PICK s \in Writer : s = writer[w] /\ WriterInv(s)
  BY DEF IInv, TypeInv
<1>3. /\ s.at = "alloc" /\ nodeKey' = [nodeKey EXCEPT ![free] = s.key]
      /\ value' = [value EXCEPT ![free] = s.val] /\ free' = free + 1
      /\ tower' = tower /\ puts' = puts
  BY <1>2 DEF NewNode
<1>4. PICK h : writer' = [writer EXCEPT ![w].at = "grow", ![w].node = free, ![w].height = h]
  BY DEF NewNode
<1>5. PICK s2 : s2 = [s EXCEPT !.at = "grow", !.node = free, !.height = h]
  OBVIOUS
<1>6. writer' = [writer EXCEPT ![w] = s2]
  BY <1>2, <1>4, <1>5 DEF IInv, TypeInv
<1>7. s2.at = "grow" /\ s2.key = s.key /\ s2.val = s.val /\ s2.node = free
  BY <1>5 DEF Writer
<1>8. InFlight(s) /\ InFlight(s2)
  BY <1>3, <1>7 DEF InFlight
<1>9. Pending' = Pending
  BY <1>2, <1>6, <1>7, <1>8, PendingSame
<1>10. free \in Nodes
  <2>1. free' \in HeadNode + 1 .. MaxPuts + 2 /\ free \in HeadNode + 1 .. MaxPuts + 2
    BY <1>1 DEF IInv, TypeInv
  <2> QED
    BY <2>1, <1>3, PutsAssumption DEF HeadNode, Nodes
<1>11. /\ value'[free] = s.val
       /\ \A n \in Nodes : n # free => nodeKey'[n] = nodeKey[n] /\ value'[n] = value[n]
  BY <1>3, <1>10 DEF IInv, TypeInv
<1>12. \A n \in On(tower, 0) : n # free /\ n \in Nodes
  BY NodeFacts, PutsAssumption DEF IInv, TypeInv, HeadNode
<1>13. Contents' = Contents
  BY <1>1, <1>3, <1>11, <1>12, SameContents
<1>14. writer'[w] = s2 /\ \A v \in Writers \ {w} : writer'[v] = writer[v]
  BY <1>6 DEF IInv, TypeInv
<1>15. \A v \in Writers : /\ InFlight(writer'[v]) <=> InFlight(writer[v])
                          /\ writer'[v].val = writer[v].val
  BY <1>2, <1>7, <1>8, <1>14
<1>16. ValuesInv'
  <2>1. \A v \in Writers : InFlight(writer'[v]) => writer'[v].val \in 1 .. puts'
    BY <1>3, <1>15 DEF ValuesInv
  <2>2. ASSUME NEW v \in Writers, InFlight(writer'[v]), writer'[v].at \in Owning
        PROVE  value'[writer'[v].node] = writer'[v].val
    <3>1. CASE v = w
      BY <3>1, <1>7, <1>11, <1>14
    <3>2. CASE v # w
      <4>1. writer'[v] = writer[v]
        BY <3>2, <1>14
      <4>2. writer[v].node \in 2 .. free - 1
        BY <4>1, <2>2, InFlightNode
      <4>3. writer[v].node # free /\ writer[v].node \in Nodes
        BY <4>2, <1>10, PutsAssumption DEF Nodes
      <4> QED
        BY <4>1, <4>3, <2>2, <1>11 DEF ValuesInv
    <3> QED
      BY <3>1, <3>2
  <2>3. \A u, v \in Writers : u # v /\ InFlight(writer'[u]) /\ InFlight(writer'[v]) =>
          writer'[u].val # writer'[v].val
    BY <1>15 DEF ValuesInv
  <2> QED
    BY <2>1, <2>2, <2>3 DEF ValuesInv, InFlight
<1> QED
  BY <1>9, <1>13, <1>16 DEF MapStep

(* Linking takes effect on the base level, and has none above it. *)
LEMMA LinkMap ==
  ASSUME IInv, ValuesInv, NEW w \in Writers, Link(w), CasSucceeds(writer[w])
  PROVE  ValuesInv' /\ MapStep
<1>1. PICK s \in Writer : s = writer[w] /\ WriterInv(s)
  BY DEF IInv, TypeInv
<1>2. /\ IInv'
      /\ \A j \in Levels : On(tower', j) = On(tower, j) \cup (IF j = s.level THEN {s.node} ELSE {})
  BY <1>1, LinkSucceeds
<1>3. PICK s2 : s2 = IF s.level + 1 = s.height THEN Idle ELSE NextLevel(s)
  OBVIOUS
<1>4. /\ s.at = "link" /\ s.prev[s.level] # Nil
      /\ writer' = [writer EXCEPT ![w] = s2]
      /\ nodeKey' = nodeKey /\ value' = value /\ puts' = puts
  BY <1>1, <1>3 DEF Link
<1>5. s.level \in Levels /\ s.level \in Nat /\ nodeKey[s.node] = s.key
  BY <1>1, <1>4, LinkFacts
<1>6. ~ InFlight(s2) /\ (InFlight(s) <=> s.level = 0)
  <2>1. s2 = Idle \/ (s2.at = "link" /\ s2.level = s.level + 1)
    BY <1>3, <1>4, <1>5, NextLevelFacts
  <2> QED
    BY <2>1, <1>4, <1>5 DEF InFlight, Idle
<1>7. writer'[w] = s2 /\ \A v \in Writers \ {w} : writer'[v] = writer[v]
  BY <1>4 DEF IInv, TypeInv
<1>8. \A v \in Writers : InFlight(writer'[v]) => v # w /\ writer'[v] = writer[v]
  BY <1>6, <1>7
<1>9. ValuesInv'
  <2>1. \A v \in Writers : InFlight(writer'[v]) => writer'[v].val \in 1 .. puts'
    BY <1>4, <1>8 DEF ValuesInv
  <2>2. \A v \in Writers : InFlight(writer'[v]) /\ writer'[v].at \in Owning =>
          value'[writer'[v].node] = writer'[v].val
    BY <1>4, <1>8 DEF ValuesInv
  <2>3. \A u, v \in Writers : u # v /\ InFlight(writer'[u]) /\ InFlight(writer'[v]) =>
          writer'[u].val # writer'[v].val
    BY <1>8 DEF ValuesInv
  <2> QED
    BY <2>1, <2>2, <2>3 DEF ValuesInv, InFlight
<1>10. CASE s.level = 0
  <2>1. On(tower', 0) = On(tower, 0) \cup {s.node}
    BY <1>2, <1>5, <1>10
  <2>2. Contents' = [Contents EXCEPT ![nodeKey[s.node]] = value'[s.node]]
    BY <2>1, <1>2, <1>4, NewContents
  <2>3. value'[s.node] = s.val
    BY <1>1, <1>4, <1>6, <1>10 DEF ValuesInv, Owning
  <2>4. Contents' = [Contents EXCEPT ![s.key] = s.val]
    BY <2>2, <2>3, <1>5
  <2>5. Pending' = Pending \ {PutOf(s)}
    BY <1>1, <1>4, <1>6, <1>10, PendingLess
  <2>6. /\ PutOf(s) \in [key : Keys, value : 1 .. MaxPuts] /\ PutOf(s) \in Pending
        /\ PutOf(s).key = s.key /\ PutOf(s).value = s.val
    BY <1>1, <1>6, <1>10, InFlightPut
  <2>7. PICK q : q = PutOf(s)
    OBVIOUS
  <2> QED
    BY <2>4, <2>5, <2>6, <2>7, <1>9 DEF MapStep
<1>11. CASE s.level # 0
  <2>1. 0 \in Levels
    BY NodeFacts DEF IInv
  <2>2. On(tower', 0) = On(tower, 0)
    BY <2>1, <1>2, <1>11
  <2>3. Contents' = Contents
    BY <2>2, <1>2, <1>4, SameContents
  <2>4. Pending' = Pending
    BY <1>1, <1>4, <1>6, <1>11, PendingSame
  <2> QED
    BY <2>3, <2>4, <1>9 DEF MapStep
<1> QED
  BY <1>10, <1>11

(* Every step is a step or a stutter of the memtable. *)
LEMMA MapStepInv ==
  ASSUME IInv, ValuesInv, [Next]_vars
  PROVE  ValuesInv' /\ MapStep
<1>1. CASE UNCHANGED <<nodeVars, height, writer, puts>>
  <2>1. /\ nodeKey' = nodeKey /\ value' = value /\ tower' = tower
        /\ writer' = writer /\ puts' = puts
    BY <1>1 DEF nodeVars
  <2>2. IInv'
    BY <1>1, OtherStep
  <2>3. Contents' = Contents
    BY <2>1, <2>2, SameContents
  <2>4. Pending' = Pending
    BY <2>1 DEF Pending, PutOf, InFlight
  <2>5. ValuesInv'
    BY <2>1 DEF ValuesInv, InFlight
  <2> QED
    BY <2>3, <2>4, <2>5 DEF MapStep
<1> QED
  BY <1>1, StepCases, StartMap, QuietMap, SetMap, NewNodeMap, LinkMap

(***************************************************************************)
(* The skip list implements the memtable: a put takes effect once, with    *)
(* the compare-and-swap on the base level or with set_value, at a moment   *)
(* between its call and its return, and no put undoes another one's.       *)
(***************************************************************************)
THEOREM SkipListIsMemTable == Spec => MapRefined
<1>1. Init => IInv /\ ValuesInv
  <2>1. Init => ValuesInv
    BY DEF Init, ValuesInv, InFlight, Idle
  <2> QED
    BY <2>1, InitInv
<1>2. IInv /\ ValuesInv /\ [Next]_vars => (IInv /\ ValuesInv)'
  BY StepInv, MapStepInv
<1>3. Init => MT!Init
  <2> SUFFICES ASSUME Init
               PROVE  MT!Init
    OBVIOUS
  <2>1. IInv
    BY InitInv
  <2>2. On(tower, 0) = {}
    <3>1. ASSUME NEW m \in Nodes
          PROVE  tower[m][0] = Nil
      BY NodeFacts, <2>1 DEF Init, IInv
    <3> QED
      BY <3>1 DEF On, Nodes, Nil
  <2>3. \A k \in Keys : Contents[k] = 0
    BY <2>1, <2>2, ContentsFacts DEF ContentsInv, KeysIn
  <2>4. Contents = [k \in Keys |-> 0]
    BY <2>3 DEF Contents
  <2>5. \A w \in Writers : ~ InFlight(writer[w])
    BY DEF Init, InFlight, Idle
  <2> QED
    BY <2>4, <2>5 DEF MT!Init
<1>4. IInv /\ ValuesInv /\ [Next]_vars => MapStep
  BY MapStepInv
<1>5. MapStep => [MT!Next]_<<Contents, {[key |-> writer[w].key, value |-> writer[w].val] :
                                          w \in {v \in Writers : InFlight(writer[v])}}>>
  <2>1. Pending = {[key |-> writer[w].key, value |-> writer[w].val] :
                     w \in {v \in Writers : InFlight(writer[v])}}
    BY DEF Pending, PutOf
  <2>2. Pending' = {[key |-> writer[w].key, value |-> writer[w].val] :
                      w \in {v \in Writers : InFlight(writer[v])}}'
    BY DEF Pending, PutOf, InFlight
  <2> QED
    BY <2>1, <2>2 DEF MapStep, MT!Next, MT!Call, MT!TakeEffect, MT!Puts
<1> QED
  BY <1>1, <1>2, <1>3, <1>4, <1>5, PTL DEF Spec, MapRefined, MT!Spec
-----------------------------------------------------------------------------
(* No step takes a node off a level or changes its key. *)
LEMMA NodesStay ==
  ASSUME IInv, [Next]_vars
  PROVE  \A l \in Levels :
           /\ \A n \in On(tower, l) : n \in On(tower', l)
           /\ \A n \in Chain(tower, l) : n \in Chain(tower', l) /\ nodeKey'[n] = nodeKey[n]
<1> SUFFICES ASSUME NEW l \in Levels
             PROVE  /\ \A n \in On(tower, l) : n \in On(tower', l)
                    /\ \A n \in Chain(tower, l) : nodeKey'[n] = nodeKey[n]
  BY DEF Chain
<1>1. CASE UNCHANGED <<nodeVars, height, writer, puts>>
  BY <1>1 DEF nodeVars
<1>2. ASSUME NEW w \in Writers, NEW k \in Keys, StartPut(w, k)
      PROVE  nodeKey' = nodeKey /\ tower' = tower
  BY <1>2 DEF StartPut, nodeVars
<1>3. ASSUME NEW w \in Writers, QuietAction(w)
      PROVE  nodeKey' = nodeKey /\ On(tower', l) = On(tower, l)
  BY <1>3, QuietActionStep
<1>4. ASSUME NEW w \in Writers, SetValue(w)
      PROVE  nodeKey' = nodeKey /\ tower' = tower
  BY <1>4 DEF SetValue
<1>5. ASSUME NEW w \in Writers, NewNode(w)
      PROVE  tower' = tower /\ \A n \in Chain(tower, l) : nodeKey'[n] = nodeKey[n]
  <2>1. tower' = tower /\ nodeKey' = [nodeKey EXCEPT ![free] = writer[w].key]
    BY <1>5 DEF NewNode
  <2>2. \A n \in Chain(tower, l) : n # free /\ n \in Nodes
    BY NodeFacts, PutsAssumption DEF IInv, TypeInv, HeadNode
  <2> QED
    BY <2>1, <2>2 DEF IInv, TypeInv
<1>6. ASSUME NEW w \in Writers, Link(w), CasSucceeds(writer[w])
      PROVE  nodeKey' = nodeKey /\ On(tower, l) \subseteq On(tower', l)
  BY <1>6, LinkSucceeds DEF Link
<1> QED
  BY <1>1, <1>2, <1>3, <1>4, <1>5, <1>6, StepCases

(* What threads that put do does not disturb a reader. *)
LEMMA ReaderKept ==
  ASSUME IInv, ReaderInv, [Next]_vars, reader' = reader,
         reader.at = "done" => UNCHANGED <<tower, nodeKey>>
  PROVE  ReaderInv'
<1>1. \A l \in Levels :
        /\ \A n \in On(tower, l) : n \in On(tower', l)
        /\ \A n \in Chain(tower, l) : n \in Chain(tower', l) /\ nodeKey'[n] = nodeKey[n]
  BY NodesStay
<1>2. 0 \in Levels /\ \A n \in On(tower, 0) : n \in Chain(tower, 0)
  BY NodeFacts DEF IInv, Chain
<1>3. KeysIn(On(tower, 0)) \subseteq KeysIn(On(tower, 0))'
  BY <1>1, <1>2 DEF KeysIn
<1>4. NearInv => NearInv'
  <2> SUFFICES ASSUME NearInv
               PROVE  NearInv'
    OBVIOUS
  <2>1. reader'.start \subseteq KeysIn(On(tower, 0))'
    BY <1>3 DEF NearInv
  <2> QED
    BY <2>1, <1>1, <1>2 DEF NearInv
<1>5. ScanInv => ScanInv'
  <2> SUFFICES ASSUME ScanInv
               PROVE  ScanInv'
    OBVIOUS
  <2>1. reader'.start \subseteq KeysIn(On(tower, 0))'
    BY <1>3 DEF ScanInv
  <2>2. reader.x \in Chain(tower', 0) /\ nodeKey'[reader.x] = nodeKey[reader.x]
    BY <1>1, <1>2 DEF ScanInv
  <2> QED
    BY <2>1, <2>2 DEF ScanInv
<1>6. reader.at # "done" => FindsNear' /\ ScanComplete'
  BY DEF FindsNear, ScanComplete
<1>7. reader.at = "done" => FindsNear' /\ ScanComplete'
  BY DEF FindsNear, ScanComplete, ReaderInv, List
<1> QED
  BY <1>4, <1>5, <1>6, <1>7 DEF ReaderInv

(* The next node on the base level is not behind any key that comes after. *)
LEMMA BaseNext ==
  ASSUME IInv, NEW x \in Chain(tower, 0), NEW k \in KeysIn(On(tower, 0)), k > nodeKey[x]
  PROVE  tower[x][0] # Nil /\ nodeKey[tower[x][0]] <= k
<1>1. PICK n \in On(tower, 0) : k = nodeKey[n]
  BY DEF KeysIn
<1>2. 0 \in Levels /\ nodeKey[x] \in Nat /\ nodeKey[n] \in Nat
  BY NodeFacts DEF IInv
<1> QED
  BY <1>1, <1>2 DEF IInv, ListsInv, ListInv

(* FindsNear, taken apart. *)
Fits(k, key, less, equal) ==
  \/ k = key /\ equal
  \/ k < key /\ less
  \/ k > key /\ ~ less

NearResult(n, key, less, equal, start) ==
  IF n = Nil THEN \A k \in start : ~ Fits(k, key, less, equal)
  ELSE /\ n \in On(tower, 0) /\ Fits(nodeKey[n], key, less, equal)
       /\ \A k \in start : Fits(k, key, less, equal) =>
            IF less THEN k <= nodeKey[n] ELSE k >= nodeKey[n]

(* The result after x, and the one before what follows x. *)
LEMMA ResultAfter ==
  ASSUME IInv, NEW x \in Chain(tower, 0), NEW key \in Nat, NEW equal \in BOOLEAN,
         NEW start \in SUBSET KeysIn(On(tower, 0)),
         \A k \in start : Fits(k, key, FALSE, equal) => k > nodeKey[x],
         tower[x][0] # Nil => nodeKey[tower[x][0]] > key
  PROVE  NearResult(tower[x][0], key, FALSE, equal, start)
<1>1. \A k \in start : k \in Nat
  BY NodeFacts DEF IInv, KeysIn
<1>2. \A k \in start : Fits(k, key, FALSE, equal) =>
        tower[x][0] # Nil /\ nodeKey[tower[x][0]] <= k
  BY BaseNext
<1>3. x \in Nodes /\ 0 \in Levels
  BY NodeFacts DEF IInv
<1>4. CASE tower[x][0] = Nil
  BY <1>2, <1>4 DEF NearResult
<1>5. CASE tower[x][0] # Nil
  <2>1. tower[x][0] \in On(tower, 0) /\ nodeKey[tower[x][0]] \in Nat
    BY <1>3, <1>5, NodeFacts DEF IInv
  <2>2. Fits(nodeKey[tower[x][0]], key, FALSE, equal)
    BY <2>1, <1>5 DEF Fits
  <2>3. \A k \in start : Fits(k, key, FALSE, equal) => k >= nodeKey[tower[x][0]]
    BY <2>1, <1>1, <1>2
  <2> QED
    BY <2>1, <2>2, <2>3, <1>5 DEF NearResult
<1> QED
  BY <1>4, <1>5

(* What comes before the first node that is not smaller is the result of a search for less. *)
LEMMA ResultBefore ==
  ASSUME IInv, NEW x \in Chain(tower, 0), NEW key \in Nat, NEW equal \in BOOLEAN,
         NEW start \in SUBSET KeysIn(On(tower, 0)),
         x # HeadNode => nodeKey[x] < key,
         tower[x][0] # Nil => nodeKey[tower[x][0]] >= key,
         tower[x][0] # Nil /\ nodeKey[tower[x][0]] = key => ~ equal
  PROVE  NearResult(IF x = HeadNode THEN Nil ELSE x, key, TRUE, equal, start)
<1>1. \A k \in start : k \in Nat /\ k > 0
  BY NodeFacts DEF IInv, KeysIn
<1>2. x \in Nodes /\ 0 \in Levels /\ x # Nil /\ nodeKey[x] \in Nat /\ nodeKey[HeadNode] = 0
  BY NodeFacts DEF IInv, NodesInv
<1>3. ASSUME NEW k \in start, Fits(k, key, TRUE, equal)
      PROVE  k <= nodeKey[x]
  <2> SUFFICES ASSUME k > nodeKey[x]
               PROVE  FALSE
    BY <1>1, <1>2
  <2>1. tower[x][0] # Nil /\ nodeKey[tower[x][0]] <= k
    BY BaseNext
  <2>2. nodeKey[tower[x][0]] \in Nat
    BY <2>1, <1>2, NodeFacts DEF IInv
  <2>3. CASE k < key
    BY <2>1, <2>2, <2>3, <1>1
  <2>4. CASE k = key /\ equal
    BY <2>1, <2>2, <2>4, <1>1
  <2> QED
    BY <1>3, <2>3, <2>4 DEF Fits
<1>4. CASE x = HeadNode
  <2>1. ASSUME NEW k \in start, Fits(k, key, TRUE, equal)
        PROVE  FALSE
    <3>1. k <= nodeKey[x] /\ nodeKey[x] = 0 /\ k \in Nat /\ k > 0
      BY <2>1, <1>1, <1>2, <1>3, <1>4
    <3> QED
      BY <3>1
  <2> QED
    BY <2>1, <1>4 DEF NearResult
<1>5. CASE x # HeadNode
  <2>1. x \in On(tower, 0)
    BY <1>5 DEF Chain
  <2>2. Fits(nodeKey[x], key, TRUE, equal)
    BY <1>5 DEF Fits
  <2> QED
    BY <2>1, <2>2, <1>2, <1>3, <1>5 DEF NearResult
<1> QED
  BY <1>4, <1>5

(* A node that has the key itself is the result, if that is allowed. *)
LEMMA ResultEqual ==
  ASSUME IInv, NEW n \in On(tower, 0), NEW key \in Nat, NEW less \in BOOLEAN, nodeKey[n] = key,
         NEW start \in SUBSET KeysIn(On(tower, 0))
  PROVE  NearResult(n, key, less, TRUE, start)
<1>1. n # Nil /\ \A k \in start : k \in Nat
  BY NodeFacts DEF IInv, KeysIn
<1>2. Fits(nodeKey[n], key, less, TRUE)
  BY DEF Fits
<1>3. ASSUME NEW k \in start, Fits(k, key, less, TRUE)
      PROVE  IF less THEN k <= nodeKey[n] ELSE k >= nodeKey[n]
  BY <1>1, <1>3 DEF Fits
<1> QED
  BY <1>1, <1>2, <1>3 DEF NearResult

(* The base level as the model walks it is the one the proofs speak of. *)
BaseIsOn == List(0) = On(tower, 0)

(* It does, whenever the invariant holds. *)
LEMMA BaseList == IInv => BaseIsOn
BY ListOn, NodeFacts DEF IInv, BaseIsOn

(* A search that returns n fulfils FindsNear. *)
LEMMA NearReturns ==
  ASSUME IInv, IInv', UNCHANGED <<tower, nodeKey>>, NearInv, NEW n, reader' = Result(n),
         NearResult(n, reader.key, reader.less, reader.allowEqual, reader.start)
  PROVE  ReaderInv'
<1>1. /\ reader'.at = "done" /\ reader'.kind = "near" /\ reader'.key = reader.key
      /\ reader'.less = reader.less /\ reader'.allowEqual = reader.allowEqual
      /\ reader'.result = n /\ reader'.start = reader.start
  BY DEF Result
<1>2. List(0)' = On(tower, 0)
  <2>1. BaseIsOn'
    BY BaseList, PTL
  <2> QED
    BY <2>1 DEF BaseIsOn
<1>3. \A k \in reader.start : k \in Nat
  BY DEF NearInv
<1>4. FindsNear'
  <2>1. CASE n = Nil
    BY <2>1, <1>1 DEF FindsNear, NearResult, Fits
  <2>2. CASE n # Nil
    <3>1. /\ n \in On(tower, 0) /\ Fits(nodeKey[n], reader.key, reader.less, reader.allowEqual)
          /\ \A k \in reader.start : Fits(k, reader.key, reader.less, reader.allowEqual) =>
               IF reader.less THEN k <= nodeKey[n] ELSE k >= nodeKey[n]
      BY <2>2 DEF NearResult
    <3>2. nodeKey[n] \in Nat
      BY <3>1, NodeFacts DEF IInv
    <3>3. \A k \in reader.start : Fits(k, reader.key, reader.less, reader.allowEqual) =>
            ~ (IF reader.less THEN k > nodeKey[n] ELSE k < nodeKey[n])
      BY <3>1, <3>2, <1>3
    <3> QED
      BY <3>1, <3>3, <2>2, <1>1, <1>2 DEF FindsNear, Fits
  <2> QED
    BY <2>1, <2>2
<1>5. ScanComplete'
  BY <1>1 DEF ScanComplete
<1> QED
  BY <1>1, <1>4, <1>5 DEF ReaderInv

(* A search that goes on. *)
LEMMA NearGoesOn ==
  ASSUME NearInv', reader'.at \in {"near", "grab"}
  PROVE  ReaderInv'
<1>1. reader'.at # "done" /\ reader'.at # "scan"
  OBVIOUS
<1>2. FindsNear' /\ ScanComplete'
  BY <1>1 DEF FindsNear, ScanComplete
<1> QED
  BY <1>1, <1>2 DEF ReaderInv

(* find_near starts at the head, on the top level. *)
LEMMA StartFindReader ==
  ASSUME IInv, NEW k \in Targets, NEW less \in BOOLEAN, NEW allowEqual \in BOOLEAN,
         StartFind(k, less, allowEqual)
  PROVE  ReaderInv'
<1>1. /\ reader' = [at |-> "near", key |-> k, less |-> less, allowEqual |-> allowEqual,
                    x |-> HeadNode, level |-> height - 1, start |-> KeysIn(List(0))]
      /\ nodeKey' = nodeKey /\ tower' = tower
  BY DEF StartFind, nodeVars
<1>2. List(0) = On(tower, 0) /\ 0 \in Levels
  BY ListOn, NodeFacts DEF IInv
<1>3. KeysIn(List(0)) \in SUBSET Nat
  BY <1>2, NodeFacts DEF KeysIn, IInv
<1>4. k \in Nat /\ HeadNode \in Nat /\ height - 1 \in Nat /\ height - 1 \in Levels
  BY KeysAssumption, HeightAssumption DEF IInv, TypeInv, HeadNode, Levels
<1>5. reader' \in [at : {"near", "grab"}, key : Nat, less : BOOLEAN, allowEqual : BOOLEAN,
                   x : Nat, level : Nat, start : SUBSET Nat]
  BY <1>1, <1>3, <1>4
<1>6. /\ reader'.at = "near" /\ reader'.x = HeadNode /\ reader'.level = height - 1
      /\ reader'.start = KeysIn(List(0))
  BY <1>1
<1>7. KeysIn(List(0)) = KeysIn(On(tower, 0))'
  BY <1>1, <1>2 DEF KeysIn
<1>8. NearInv'
  BY <1>1, <1>4, <1>5, <1>6, <1>7 DEF NearInv, Chain
<1> QED
  BY <1>6, <1>8, NearGoesOn

(* The node after the one that has the key is the nearest greater one. *)
LEMMA GrabReader ==
  ASSUME IInv, IInv', ReaderInv, GrabNext
  PROVE  ReaderInv'
<1>1. /\ reader.at = "grab" /\ reader' = Result(tower[reader.x][0])
      /\ nodeKey' = nodeKey /\ tower' = tower
  BY DEF GrabNext, nodeVars
<1>2. NearInv
  BY <1>1 DEF ReaderInv
<1>3. PICK x, key, start : x = reader.x /\ key = reader.key /\ start = reader.start
  OBVIOUS
<1>4. /\ x \in On(tower, 0) /\ nodeKey[x] = key /\ key \in Nat
      /\ start \in SUBSET KeysIn(On(tower, 0))
      /\ reader.less = FALSE /\ reader.allowEqual = FALSE
  BY <1>1, <1>2, <1>3 DEF NearInv
<1>5. \A k \in start : Fits(k, key, FALSE, FALSE) => k > nodeKey[x]
  BY <1>4 DEF Fits
<1>6. tower[x][0] # Nil => nodeKey[tower[x][0]] > key
  <2>1. 0 \in Levels /\ x \in Nodes
    BY <1>4, NodeFacts DEF IInv
  <2>2. tower[x][0] # Nil => nodeKey[x] < nodeKey[tower[x][0]]
    BY <2>1 DEF IInv, ListsInv, ListInv
  <2>3. tower[x][0] # Nil => nodeKey[tower[x][0]] \in Nat
    BY <2>1, NodeFacts DEF IInv
  <2> QED
    BY <2>2, <2>3, <1>4
<1>7. NearResult(tower[x][0], key, FALSE, FALSE, start)
  BY <1>4, <1>5, <1>6, ResultAfter DEF Chain
<1>8. NearResult(tower[reader.x][0], reader.key, reader.less, reader.allowEqual, reader.start)
  BY <1>3, <1>4, <1>7
<1> QED
  BY <1>1, <1>2, <1>8, NearReturns

(* One step of find_near: to the right, down, or to its result. *)
LEMMA FindNearReader ==
  ASSUME IInv, IInv', ReaderInv, FindNear
  PROVE  ReaderInv'
<1>1. reader.at = "near" /\ nodeKey' = nodeKey /\ tower' = tower
  BY DEF FindNear, nodeVars
<1>2. NearInv
  BY <1>1 DEF ReaderInv
<1>3. PICK x, l, next, key, start :
        /\ x = reader.x /\ l = reader.level /\ next = tower[reader.x][reader.level]
        /\ key = reader.key /\ start = reader.start
  OBVIOUS
<1>4. /\ l \in Levels /\ l \in Nat /\ x \in Chain(tower, l) /\ x \in Nodes /\ key \in Nat
      /\ x # HeadNode => nodeKey[x] < key
      /\ start \in SUBSET KeysIn(On(tower, 0))
      /\ next \in Nat
      /\ next # Nil => next \in On(tower, l) /\ nodeKey[next] \in Nat
  BY <1>1, <1>2, <1>3, NodeFacts DEF NearInv, IInv
<1>5. CASE KeepMoving(next, key)
  <2>1. reader' = [reader EXCEPT !.x = next]
    BY <1>3, <1>5 DEF FindNear
  <2>2. /\ reader' \in [at : {"near", "grab"}, key : Nat, less : BOOLEAN, allowEqual : BOOLEAN,
                        x : Nat, level : Nat, start : SUBSET Nat]
        /\ reader'.at = "near" /\ reader'.x = next /\ reader'.level = l /\ reader'.key = key
        /\ reader'.start = start
    BY <2>1, <1>1, <1>2, <1>3, <1>4 DEF NearInv
  <2>3. next \in Chain(tower, l) /\ nodeKey[next] < key
    BY <1>4, <1>5 DEF KeepMoving, Chain
  <2>4. reader'.start \subseteq KeysIn(On(tower, 0))'
    BY <2>2, <1>1, <1>4 DEF KeysIn
  <2>5. NearInv'
    BY <2>2, <2>3, <2>4, <1>1, <1>4 DEF NearInv
  <2> QED
    BY <2>2, <2>5, NearGoesOn
<1>6. CASE ~ KeepMoving(next, key) /\ next # Nil /\ nodeKey[next] = key /\ reader.allowEqual
  <2>1. reader' = Result(next)
    BY <1>3, <1>6 DEF FindNear
  <2>2. next \in On(tower, 0)
    BY <1>4, <1>6, OnBase DEF IInv
  <2>3. reader.less \in BOOLEAN /\ reader.allowEqual = TRUE
    BY <1>2, <1>6 DEF NearInv
  <2>4. NearResult(next, reader.key, reader.less, reader.allowEqual, reader.start)
    BY <2>2, <2>3, <1>3, <1>4, <1>6, ResultEqual
  <2> QED
    BY <2>1, <2>4, <1>1, <1>2, NearReturns
<1>7. CASE ~ KeepMoving(next, key) /\ next # Nil /\ nodeKey[next] = key
           /\ ~ reader.allowEqual /\ ~ reader.less
  <2>1. reader' = [reader EXCEPT !.at = "grab", !.x = next]
    BY <1>3, <1>7 DEF FindNear
  <2>2. /\ reader' \in [at : {"near", "grab"}, key : Nat, less : BOOLEAN, allowEqual : BOOLEAN,
                        x : Nat, level : Nat, start : SUBSET Nat]
        /\ reader'.at = "grab" /\ reader'.x = next /\ reader'.key = key
        /\ reader'.start = start /\ reader'.less = reader.less
        /\ reader'.allowEqual = reader.allowEqual
    BY <2>1, <1>2, <1>3, <1>4 DEF NearInv
  <2>3. next \in On(tower, 0)
    BY <1>4, <1>7, OnBase DEF IInv
  <2>4. reader'.start \subseteq KeysIn(On(tower, 0))'
    BY <2>2, <1>1, <1>4 DEF KeysIn
  <2>5. NearInv'
    BY <2>2, <2>3, <2>4, <1>1, <1>7 DEF NearInv
  <2> QED
    BY <2>2, <2>5, NearGoesOn
<1>8. CASE /\ ~ KeepMoving(next, key)
           /\ next # Nil /\ nodeKey[next] = key => ~ reader.allowEqual /\ reader.less
  <2>1. CASE CanDescend
    <3>1. reader' = [reader EXCEPT !.level = @ - 1]
      BY <2>1, <1>3, <1>8 DEF FindNear
    <3>2. l > 0 /\ l - 1 \in Nat /\ l - 1 \in Levels /\ l # 0
      BY <2>1, <1>3, <1>4, HeightAssumption DEF CanDescend, Levels
    <3>3. /\ reader' \in [at : {"near", "grab"}, key : Nat, less : BOOLEAN, allowEqual : BOOLEAN,
                          x : Nat, level : Nat, start : SUBSET Nat]
          /\ reader'.at = "near" /\ reader'.x = x /\ reader'.level = l - 1 /\ reader'.key = key
          /\ reader'.start = start
      BY <3>1, <3>2, <1>1, <1>2, <1>3 DEF NearInv
    <3>4. x \in Chain(tower, l - 1)
      BY <3>2, <1>4 DEF IInv, ListsInv, Chain
    <3>5. reader'.start \subseteq KeysIn(On(tower, 0))'
      BY <3>3, <1>1, <1>4 DEF KeysIn
    <3>6. NearInv'
      BY <3>2, <3>3, <3>4, <3>5, <1>1, <1>4 DEF NearInv
    <3> QED
      BY <3>3, <3>6, NearGoesOn
  <2>2. CASE ~ CanDescend
    <3>1. reader' = Neighbour(next)
      BY <2>2, <1>3, <1>8 DEF FindNear
    <3>2. l = 0 /\ next = tower[x][0] /\ x \in Chain(tower, 0)
      BY <2>2, <1>3, <1>4 DEF CanDescend
    <3>3. next # Nil => nodeKey[next] >= key
      BY <1>4, <1>8 DEF KeepMoving
    <3>4. CASE reader.less
      <4>1. reader' = Result(IF x = HeadNode THEN Nil ELSE x)
        BY <3>1, <3>4, <1>3 DEF Neighbour
      <4>2. reader.less = TRUE /\ reader.allowEqual \in BOOLEAN
        BY <3>4, <1>2 DEF NearInv
      <4>3. next # Nil /\ nodeKey[next] = key => ~ reader.allowEqual
        BY <1>8
      <4>4. NearResult(IF x = HeadNode THEN Nil ELSE x, key, TRUE, reader.allowEqual, start)
        BY <4>2, <4>3, <3>2, <3>3, <1>4, ResultBefore
      <4>5. NearResult(IF x = HeadNode THEN Nil ELSE x, reader.key, reader.less,
                       reader.allowEqual, reader.start)
        BY <4>2, <4>4, <1>3
      <4> QED
        BY <4>1, <4>5, <1>1, <1>2, NearReturns
    <3>5. CASE ~ reader.less
      <4>1. reader' = Result(next)
        BY <3>1, <3>5 DEF Neighbour
      <4>2. reader.less = FALSE /\ reader.allowEqual \in BOOLEAN
        BY <3>5, <1>2 DEF NearInv
      <4>3. next # Nil => nodeKey[next] > key
        BY <3>3, <3>5, <1>4, <1>8
      <4>4. \A k \in start : Fits(k, key, FALSE, reader.allowEqual) => k > nodeKey[x]
        <5> SUFFICES ASSUME NEW k \in start, Fits(k, key, FALSE, reader.allowEqual)
                     PROVE  k > nodeKey[x]
          OBVIOUS
        <5>1. k \in Nat /\ k > 0 /\ nodeKey[x] \in Nat /\ nodeKey[HeadNode] = 0
          BY <1>4, NodeFacts DEF IInv, KeysIn, NodesInv
        <5>2. k >= key
          BY <5>1, <1>4 DEF Fits
        <5> QED
          BY <5>1, <5>2, <1>4
      <4>5. NearResult(next, key, FALSE, reader.allowEqual, start)
        BY <4>2, <4>3, <4>4, <3>2, <1>4, ResultAfter
      <4>6. NearResult(next, reader.key, reader.less, reader.allowEqual, reader.start)
        BY <4>2, <4>5, <1>3
      <4> QED
        BY <4>1, <4>6, <1>1, <1>2, NearReturns
    <3> QED
      BY <3>4, <3>5
  <2> QED
    BY <2>1, <2>2
<1> QED
  BY <1>5, <1>6, <1>7, <1>8

(* A cursor begins at the head and has seen nothing. *)
LEMMA StartScanReader ==
  ASSUME IInv, StartScan
  PROVE  ReaderInv'
<1>1. /\ reader' = [at |-> "scan", x |-> HeadNode, seen |-> <<>>, start |-> KeysIn(List(0))]
      /\ nodeKey' = nodeKey /\ tower' = tower
  BY DEF StartScan, nodeVars
<1>2. List(0) = On(tower, 0) /\ nodeKey[HeadNode] = 0
  BY BaseList DEF IInv, NodesInv, BaseIsOn
<1>3. \A k \in KeysIn(List(0)) : k \in Nat /\ k > 0
  BY <1>2, NodeFacts DEF KeysIn, IInv
<1>4. KeysIn(List(0)) = KeysIn(On(tower, 0))'
  BY <1>1, <1>2 DEF KeysIn
<1>5. /\ reader'.at = "scan" /\ reader'.x = HeadNode /\ reader'.seen = <<>>
      /\ reader'.start = KeysIn(List(0))
  BY <1>1
<1>6. reader' \in [at : {"scan"}, x : Nat, seen : Seq(Nat), start : SUBSET Nat]
  BY <1>1, <1>3 DEF HeadNode
<1>7. \A k \in reader'.start : ~ (k <= nodeKey'[reader'.x])
  BY <1>1, <1>2, <1>3, <1>5
<1>8. Len(reader'.seen) = 0
  BY <1>5
<1>9. /\ 1 .. Len(reader'.seen) = {} /\ 2 .. Len(reader'.seen) = {}
  BY <1>8
<1>10. ScanInv'
  BY <1>4, <1>5, <1>6, <1>7, <1>9 DEF ScanInv, Chain
<1>11. FindsNear' /\ ScanComplete'
  BY <1>5 DEF FindsNear, ScanComplete
<1> QED
  BY <1>5, <1>10, <1>11 DEF ReaderInv

(***************************************************************************)
(* A cursor goes to the next node: nothing that was there at the start is  *)
(* between, so it has then seen all up to that node.                       *)
(***************************************************************************)
LEMMA ScanNextReader ==
  ASSUME IInv, ReaderInv, ScanNext
  PROVE  ReaderInv'
<1>1. reader.at = "scan" /\ nodeKey' = nodeKey /\ tower' = tower
  BY DEF ScanNext, nodeVars
<1>2. ScanInv
  BY <1>1 DEF ReaderInv
<1>3. PICK x, next, seen, start :
        x = reader.x /\ next = tower[reader.x][0] /\ seen = reader.seen /\ start = reader.start
  OBVIOUS
<1>4. /\ x \in Chain(tower, 0) /\ x \in Nodes /\ nodeKey[x] \in Nat
      /\ next # Nil => next \in On(tower, 0) /\ nodeKey[next] \in Nat /\ nodeKey[x] < nodeKey[next]
      /\ next \in Nat
  <2>1. x \in Chain(tower, 0) /\ 0 \in Levels
    BY <1>2, <1>3, NodeFacts DEF ScanInv, IInv
  <2>2. x \in Nodes /\ nodeKey[x] \in Nat
    BY <2>1, NodeFacts DEF IInv
  <2>3. next \in Nat /\ (next # Nil => next \in On(tower, 0) /\ nodeKey[next] \in Nat)
    BY <2>1, <2>2, <1>3, NodeFacts DEF IInv
  <2>4. next # Nil => nodeKey[x] < nodeKey[next]
    BY <2>1, <2>2, <1>3 DEF IInv, ListsInv, ListInv
  <2> QED
    BY <2>1, <2>2, <2>3, <2>4
<1>5. /\ seen \in Seq(Nat) /\ start \in SUBSET Nat /\ start \subseteq KeysIn(On(tower, 0))
      /\ Len(seen) \in Nat
      /\ \A i \in 1 .. Len(seen) : seen[i] \in Nat /\ seen[i] <= nodeKey[x]
      /\ \A i \in 2 .. Len(seen) : seen[i - 1] < seen[i]
      /\ \A k \in start : k <= nodeKey[x] => \E i \in 1 .. Len(seen) : seen[i] = k
  BY <1>2, <1>3 DEF ScanInv
<1>6. \A k \in start : k > nodeKey[x] => next # Nil /\ nodeKey[next] <= k
  BY <1>3, <1>4, <1>5, BaseNext
<1>7. CASE next = Nil
  <2>1. reader' = [at |-> "done", kind |-> "scan", seen |-> seen, start |-> start]
    BY <1>3, <1>7 DEF ScanNext, ScanLevel
  <2>2. /\ reader'.at = "done" /\ reader'.kind = "scan" /\ reader'.seen = seen
        /\ reader'.start = start
    BY <2>1
  <2>3. \A k \in start : \E i \in 1 .. Len(seen) : seen[i] = k
    BY <1>4, <1>5, <1>6, <1>7
  <2>4. DOMAIN seen = 1 .. Len(seen)
    BY <1>5
  <2>5. ScanComplete'
    <3>1. start \subseteq {seen[i] : i \in DOMAIN seen}
      BY <2>3, <2>4
    <3> QED
      BY <2>2, <3>1, <1>5 DEF ScanComplete
  <2>6. FindsNear'
    BY <2>2 DEF FindsNear
  <2> QED
    BY <2>2, <2>5, <2>6 DEF ReaderInv
<1>8. CASE next # Nil
  <2>1. reader' = [reader EXCEPT !.x = next, !.seen = Append(@, nodeKey[next])]
    BY <1>3, <1>8 DEF ScanNext, ScanLevel
  <2>2. PICK more : more = Append(seen, nodeKey[next])
    OBVIOUS
  <2>3. more \in Seq(Nat) /\ Len(more) = Len(seen) + 1
    BY <2>2, <1>4, <1>5, <1>8
  <2>4. /\ \A i \in 1 .. Len(seen) : more[i] = seen[i]
        /\ more[Len(seen) + 1] = nodeKey[next]
    BY <2>2, <1>4, <1>5, <1>8
  <2>5. /\ reader' \in [at : {"scan"}, x : Nat, seen : Seq(Nat), start : SUBSET Nat]
        /\ reader'.at = "scan" /\ reader'.x = next /\ reader'.seen = more
        /\ reader'.start = start
    BY <2>1, <2>2, <2>3, <1>1, <1>2, <1>3, <1>4 DEF ScanInv
  <2>6. reader'.start \subseteq KeysIn(On(tower, 0))'
    BY <2>5, <1>1, <1>5 DEF KeysIn
  <2>7. ASSUME NEW k \in start, k <= nodeKey[next]
        PROVE  \E i \in 1 .. Len(more) : more[i] = k
    <3>0. k \in Nat
      BY <1>5
    <3>1. CASE k <= nodeKey[x]
      <4>1. PICK i \in 1 .. Len(seen) : seen[i] = k
        BY <3>1, <1>5
      <4>2. i \in 1 .. Len(more) /\ more[i] = k
        BY <4>1, <2>3, <2>4, <1>5
      <4> QED
        BY <4>2
    <3>2. CASE k > nodeKey[x]
      <4>1. k = nodeKey[next]
        BY <3>0, <3>2, <2>7, <1>4, <1>6, <1>8
      <4>2. Len(seen) + 1 \in 1 .. Len(more) /\ more[Len(seen) + 1] = k
        BY <4>1, <2>3, <2>4, <1>5
      <4> QED
        BY <4>2
    <3> QED
      BY <3>0, <3>1, <3>2, <1>4
  <2>8. \A i \in 1 .. Len(more) : more[i] <= nodeKey[next]
    <3> SUFFICES ASSUME NEW i \in 1 .. Len(more)
                 PROVE  more[i] <= nodeKey[next]
      OBVIOUS
    <3>1. CASE i = Len(seen) + 1
      BY <3>1, <2>4, <1>4, <1>8
    <3>2. CASE i # Len(seen) + 1
      <4>1. i \in 1 .. Len(seen)
        BY <3>2, <2>3, <1>5
      <4>2. more[i] = seen[i] /\ seen[i] \in Nat /\ seen[i] <= nodeKey[x]
        BY <4>1, <2>4, <1>5
      <4> QED
        BY <4>2, <1>4, <1>8
    <3> QED
      BY <3>1, <3>2
  <2>9. \A i \in 2 .. Len(more) : more[i - 1] < more[i]
    <3> SUFFICES ASSUME NEW i \in 2 .. Len(more)
                 PROVE  more[i - 1] < more[i]
      OBVIOUS
    <3>1. i - 1 \in 1 .. Len(seen) /\ i \in Nat
      BY <2>3, <1>5
    <3>2. more[i - 1] = seen[i - 1] /\ seen[i - 1] \in Nat /\ seen[i - 1] <= nodeKey[x]
      BY <3>1, <2>4, <1>5
    <3>3. CASE i = Len(seen) + 1
      <4>1. more[i] = nodeKey[next]
        BY <3>3, <2>4
      <4> QED
        BY <4>1, <3>2, <1>4, <1>8
    <3>4. CASE i # Len(seen) + 1
      <4>1. i \in 1 .. Len(seen) /\ i \in 2 .. Len(seen)
        BY <3>1, <3>4, <2>3, <1>5
      <4> QED
        BY <4>1, <3>2, <2>4, <1>5
    <3> QED
      BY <3>3, <3>4
  <2>10. next \in Chain(tower, 0)
    BY <1>4, <1>8 DEF Chain
  <2>11. ScanInv'
    BY <2>5, <2>6, <2>7, <2>8, <2>9, <2>10, <1>1 DEF ScanInv
  <2>12. FindsNear' /\ ScanComplete'
    BY <2>5 DEF FindsNear, ScanComplete
  <2> QED
    BY <2>5, <2>11, <2>12 DEF ReaderInv
<1> QED
  BY <1>7, <1>8

(* A step of the reader or of a thread that puts keeps the reader's invariant. *)
LEMMA ReaderStep ==
  ASSUME IInv, IInv', ReaderInv, [Next]_vars
  PROVE  ReaderInv'
<1>1. CASE UNCHANGED vars
  BY <1>1, ReaderKept DEF vars
<1>2. ASSUME NEW w \in Writers, reader.at # "done", WriterStep(w)
      PROVE  ReaderInv'
  <2>1. reader' = reader
    BY <1>2 DEF WriterStep, Advance, SearchDone, SetValue, NewNode, Grow, Raise, FindSplice,
                FindDone, Link, RetryDone
  <2> QED
    BY <2>1, <1>2, ReaderKept
<1>3. ASSUME NEW w \in Writers, NEW k \in Keys, reader.at # "done", StartPut(w, k)
      PROVE  ReaderInv'
  BY <1>3, ReaderKept DEF StartPut
<1>4. CASE \E k \in Targets, less, allowEqual \in BOOLEAN : StartFind(k, less, allowEqual)
  BY <1>4, StartFindReader
<1>5. CASE FindNear
  BY <1>5, FindNearReader
<1>6. CASE GrabNext
  BY <1>6, GrabReader
<1>7. CASE StartScan
  BY <1>7, StartScanReader
<1>8. CASE ScanNext
  BY <1>8, ScanNextReader
<1>9. CASE Return
  <2>1. reader' = [at |-> "idle"]
    BY <1>9 DEF Return
  <2>2. reader'.at = "idle"
    BY <2>1
  <2> QED
    BY <2>2 DEF ReaderInv, FindsNear, ScanComplete
<1> QED
  BY <1>1, <1>2, <1>3, <1>4, <1>5, <1>6, <1>7, <1>8, <1>9 DEF Next

(* Both invariants hold in every state. *)
THEOREM ReaderInvariant == Spec => [](IInv /\ ReaderInv)
<1>1. Init => IInv /\ ReaderInv
  <2>1. ASSUME Init
        PROVE  ReaderInv
    <3>1. reader.at = "idle"
      BY <2>1 DEF Init
    <3> QED
      BY <3>1 DEF ReaderInv, FindsNear, ScanComplete
  <2> QED
    BY <2>1, InitInv
<1>2. (IInv /\ ReaderInv) /\ [Next]_vars => (IInv /\ ReaderInv)'
  BY StepInv, ReaderStep
<1> QED
  BY <1>1, <1>2, PTL DEF Spec

(***************************************************************************)
(* What find_near returns while other threads insert is in the list, on    *)
(* the right side of the key, and nothing that was there when it started   *)
(* is nearer.                                                              *)
(***************************************************************************)
THEOREM FindNearCorrect == Spec => []FindsNear
<1>1. ReaderInv => FindsNear
  BY DEF ReaderInv
<1> QED
  BY <1>1, ReaderInvariant, PTL

(***************************************************************************)
(* A cursor that walks the list while other threads insert sees every key  *)
(* that was there at its start, in order and once.                         *)
(***************************************************************************)
THEOREM ScanIsComplete == Spec => []ScanComplete
<1>1. ReaderInv => ScanComplete
  BY DEF ReaderInv
<1> QED
  BY <1>1, ReaderInvariant, PTL
=============================================================================
