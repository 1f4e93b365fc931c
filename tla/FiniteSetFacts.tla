--------------------------- MODULE FiniteSetFacts ---------------------------
(***************************************************************************)
(* Facts that are not in the library.  Induction and recursion over the    *)
(* naturals in a form the provers can use (the statement is a set and the  *)
(* step a function, not operators).  About finite sets: what               *)
(* SumFunctionOnSet computes whatever order its fold takes the elements    *)
(* in, least and greatest elements, numbering the elements of an ordered   *)
(* set.  And the arithmetic of machine words.                              *)
(***************************************************************************)
EXTENDS Naturals, WellFoundedInduction, Functions, FiniteSetsExt, FiniteSetTheorems, TLAPS

(* Induction, for a set of naturals. *)
LEMMA SetInduction ==
  ASSUME NEW S \in SUBSET Nat, 0 \in S, \A n \in S : n + 1 \in S
  PROVE  \A n \in Nat : n \in S
<1> DEFINE T == Nat \ S
<1> SUFFICES ASSUME T # {} PROVE FALSE
  OBVIOUS
<1>1. PICK x \in T : \A y \in T : ~ (<<y, x>> \in OpToRel(<, Nat))
  BY WFMin, NatLessThanWellFounded
<1>2. x \in Nat /\ x # 0 /\ x - 1 \in Nat /\ x - 1 < x
  <2>1. x \in Nat /\ x # 0
    OBVIOUS
  <2> QED
    BY <2>1
<1>3. x - 1 \in S
  <2> SUFFICES ASSUME x - 1 \in T PROVE FALSE
    BY <1>2
  <2>1. <<x - 1, x>> \in Nat \X Nat /\ <<x - 1, x>>[1] < <<x - 1, x>>[2]
    BY <1>2
  <2> QED
    BY <1>1, <2>1 DEF OpToRel
<1> QED
  BY <1>2, <1>3

(***************************************************************************)
(* f goes through the set M from x on: what a definition of f[i], for i in *)
(* 0 .. n, by f[i - 1] denotes.                                            *)
(***************************************************************************)
Steps(f, n, M, x, step) ==
  /\ f \in [0 .. n -> M]
  /\ f[0] = x
  /\ \A i \in 1 .. n : f[i] = step[i][f[i - 1]]

(* There is such a function, put together step by step. *)
LEMMA RecursionExists ==
  ASSUME NEW n \in Nat, NEW M, NEW x \in M, NEW step \in [1 .. n -> [M -> M]]
  PROVE  \E f : Steps(f, n, M, x, step)
<1> DEFINE Part(f, m) == Steps(f, m, M, x, step)
           S == {m \in Nat : m <= n => \E f : Part(f, m)}
<1>1. 0 \in S
  <2>1. Part([i \in 0 .. 0 |-> x], 0)
    BY DEF Steps
  <2> QED
    BY <2>1
<1>2. ASSUME NEW m \in S
      PROVE  m + 1 \in S
  <2>a. m \in Nat /\ m + 1 \in Nat /\ (m <= n => \E f : Part(f, m))
    OBVIOUS
  <2> HIDE DEF Part
  <2> SUFFICES ASSUME m + 1 <= n
               PROVE  \E f : Part(f, m + 1)
    BY <2>a
  <2> USE DEF Part, Steps
  <2>0. m \in Nat /\ m <= n /\ m + 1 \in 1 .. n
    BY <2>a
  <2>1. PICK f : Part(f, m)
    BY <2>0, <2>a
  <2>2. f[m] \in M /\ step[m + 1] \in [M -> M]
    BY <2>0, <2>1
  <2>3. PICK y \in M : y = step[m + 1][f[m]]
    BY <2>2
  <2> DEFINE g == [i \in 0 .. m + 1 |-> IF i = m + 1 THEN y ELSE f[i]]
  <2>4. g \in [0 .. m + 1 -> M]
    <3>1. ASSUME NEW i \in 0 .. m + 1
          PROVE  (IF i = m + 1 THEN y ELSE f[i]) \in M
      <4>1. i = m + 1 \/ i \in 0 .. m
        BY <2>0
      <4> QED
        BY <4>1, <2>1
    <3> QED
      BY <3>1
  <2>5. g[m + 1] = y /\ \A i \in 0 .. m : g[i] = f[i]
    BY <2>0
  <2> HIDE DEF g
  <2>6. g[0] = x
    BY <2>0, <2>1, <2>5
  <2>7. ASSUME NEW i \in 1 .. m + 1
        PROVE  g[i] = step[i][g[i - 1]]
    <3>1. i - 1 \in 0 .. m /\ g[i - 1] = f[i - 1]
      BY <2>0, <2>5
    <3>2. CASE i = m + 1
      BY <3>1, <3>2, <2>0, <2>3, <2>5
    <3>3. CASE i # m + 1
      <4>1. i \in 1 .. m /\ i \in 0 .. m
        BY <3>3, <2>0
      <4> QED
        BY <4>1, <3>1, <2>1, <2>5
    <3> QED
      BY <3>2, <3>3
  <2>8. Part(g, m + 1)
    BY <2>4, <2>6, <2>7
  <2> QED
    BY <2>8
<1>3. n \in S
  <2>1. \A m \in S : m + 1 \in S
    BY <1>2
  <2>2. S \in SUBSET Nat
    OBVIOUS
  <2> HIDE DEF S
  <2> QED
    BY <1>1, <2>1, <2>2, SetInduction
<1> QED
  BY <1>3

-----------------------------------------------------------------------------

(* The element of s that a fold takes first *)
First(s) == CHOOSE x \in s : TRUE

(* One step of the recursion of a sum: its value for s, given those for smaller sets *)
SumStep(g, f, s) == IF s = {} THEN 0 ELSE f[First(s)] + g[s \ {First(s)}]

(* g gives the sum of f over every subset of S. *)
SumsOf(g, f, S) == g = [s \in SUBSET S |-> SumStep(g, f, s)]

(* SumFunctionOnSet(f, S) is the value for S itself. *)
LEMMA SumIs ==
  ASSUME NEW f, NEW S
  PROVE  SumFunctionOnSet(f, S) = (CHOOSE g : SumsOf(g, f, S))[S]
  BY Zenon DEF SumFunctionOnSet, FoldFunctionOnSet, MapThenFoldSet, SumsOf, SumStep, First

(* What is left of a finite set without its first element *)
LEMMA WithoutFirst ==
  ASSUME NEW s, IsFiniteSet(s), s # {}
  PROVE  /\ First(s) \in s /\ IsFiniteSet(s \ {First(s)})
         /\ Cardinality(s) \in Nat /\ Cardinality(s) > 0
         /\ Cardinality(s \ {First(s)}) = Cardinality(s) - 1
<1>1. First(s) \in s
  BY DEF First
<1>2. Cardinality(s) \in Nat /\ Cardinality(s) # 0
  BY FS_CardinalityType, FS_EmptySet
<1> QED
  BY <1>1, <1>2, FS_RemoveElement

(* The recursion has a solution, found one size after the other. *)
LEMMA SumsExist ==
  ASSUME NEW S, IsFiniteSet(S), NEW f, \A x \in S : f[x] \in Nat
  PROVE  \E g \in [SUBSET S -> Nat] : SumsOf(g, f, S)
<1> DEFINE Upto(g, n) == \A s \in SUBSET S : Cardinality(s) <= n => g[s] = SumStep(g, f, s)
           N == {n \in Nat : \E g \in [SUBSET S -> Nat] : Upto(g, n)}
<1>a. ASSUME NEW s \in SUBSET S
      PROVE  IsFiniteSet(s) /\ Cardinality(s) \in Nat /\ Cardinality(s) <= Cardinality(S)
  BY FS_Subset, FS_CardinalityType
<1>b. ASSUME NEW g \in [SUBSET S -> Nat], NEW s \in SUBSET S
      PROVE  SumStep(g, f, s) \in Nat
  <2>1. CASE s = {}
    BY <2>1 DEF SumStep
  <2>2. CASE s # {}
    <3>1. First(s) \in S /\ s \ {First(s)} \in SUBSET S
      BY <2>2, <1>a, WithoutFirst
    <3>2. f[First(s)] \in Nat /\ g[s \ {First(s)}] \in Nat
      BY <3>1
    <3> QED
      BY <2>2, <3>2 DEF SumStep
  <2> QED
    BY <2>1, <2>2
<1>1. 0 \in N
  <2> DEFINE g == [s \in SUBSET S |-> 0]
  <2>1. ASSUME NEW s \in SUBSET S, Cardinality(s) <= 0
        PROVE  g[s] = SumStep(g, f, s)
    <3>1. s = {}
      BY <2>1, <1>a, FS_EmptySet
    <3> QED
      BY <3>1 DEF SumStep
  <2> QED
    BY <2>1
<1>2. ASSUME NEW n \in N
      PROVE  n + 1 \in N
  <2>1. PICK g \in [SUBSET S -> Nat] : Upto(g, n)
    OBVIOUS
  <2> DEFINE h == [s \in SUBSET S |-> SumStep(g, f, s)]
  <2>2. h \in [SUBSET S -> Nat]
    BY <1>b
  <2>3. ASSUME NEW s \in SUBSET S, Cardinality(s) <= n + 1
        PROVE  h[s] = SumStep(h, f, s)
    <3>1. CASE s = {}
      BY <3>1 DEF SumStep
    <3>2. CASE s # {}
      <4> DEFINE r == s \ {First(s)}
      <4>1. r \in SUBSET S /\ Cardinality(r) <= n
        BY <2>3, <3>2, <1>a, WithoutFirst
      <4>2. h[r] = g[r]
        BY <4>1, <2>1
      <4>3. h[s] = f[First(s)] + g[r]
        BY <3>2 DEF SumStep
      <4> QED
        BY <3>2, <4>2, <4>3 DEF SumStep
    <3> QED
      BY <3>1, <3>2
  <2>4. n + 1 \in Nat
    OBVIOUS
  <2> HIDE DEF h
  <2>5. Upto(h, n + 1)
    BY <2>3
  <2> QED
    BY <2>2, <2>4, <2>5
<1>3. Cardinality(S) \in N
  <2> HIDE DEF N
  <2>1. N \in SUBSET Nat
    BY DEF N
  <2> QED
    BY <2>1, <1>1, <1>2, <1>a, SetInduction
<1>4. PICK g \in [SUBSET S -> Nat] : Upto(g, Cardinality(S))
  BY <1>3
<1>5. \A s \in SUBSET S : g[s] = SumStep(g, f, s)
  BY <1>4, <1>a
<1> QED
  BY <1>5 DEF SumsOf

(* It has one only, and those for two sets agree where both are defined. *)
LEMMA SumsAgree ==
  ASSUME NEW S, IsFiniteSet(S), NEW T \in SUBSET S, NEW f, NEW g, NEW h,
         SumsOf(g, f, S), SumsOf(h, f, T)
  PROVE  \A s \in SUBSET T : g[s] = h[s]
<1> DEFINE N == {n \in Nat : \A s \in SUBSET T : Cardinality(s) <= n => g[s] = h[s]}
<1>a. ASSUME NEW s \in SUBSET T
      PROVE  IsFiniteSet(s) /\ Cardinality(s) \in Nat
  BY FS_Subset, FS_CardinalityType
<1>b. ASSUME NEW s \in SUBSET T
      PROVE  g[s] = SumStep(g, f, s) /\ h[s] = SumStep(h, f, s)
  <2>1. s \in SUBSET S /\ s \in SUBSET T
    OBVIOUS
  <2>2. g[s] = SumStep(g, f, s)
    BY <2>1, Zenon DEF SumsOf
  <2> QED
    BY <2>1, <2>2, Zenon DEF SumsOf
<1>1. 0 \in N
  <2>1. ASSUME NEW s \in SUBSET T, Cardinality(s) <= 0
        PROVE  g[s] = h[s]
    <3>1. s = {}
      BY <2>1, <1>a, FS_EmptySet
    <3> QED
      BY <3>1, <1>b DEF SumStep
  <2> QED
    BY <2>1
<1>2. ASSUME NEW n \in N
      PROVE  n + 1 \in N
  <2>1. ASSUME NEW s \in SUBSET T, Cardinality(s) <= n + 1
        PROVE  g[s] = h[s]
    <3>1. CASE s = {}
      BY <3>1, <1>b DEF SumStep
    <3>2. CASE s # {}
      <4> DEFINE r == s \ {First(s)}
      <4>1. r \in SUBSET T /\ Cardinality(r) <= n
        BY <2>1, <3>2, <1>a, WithoutFirst
      <4>2. h[r] = g[r]
        BY <4>1
      <4> QED
        BY <3>2, <4>2, <1>b DEF SumStep
    <3> QED
      BY <3>1, <3>2
  <2> QED
    BY <2>1
<1>3. \A n \in Nat : n \in N
  <2> HIDE DEF N
  <2>1. N \in SUBSET Nat
    BY DEF N
  <2> QED
    BY <2>1, <1>1, <1>2, SetInduction
<1>4. ASSUME NEW s \in SUBSET T
      PROVE  g[s] = h[s]
  <2>1. Cardinality(s) \in N
    BY <1>3, <1>a
  <2> QED
    BY <2>1, <1>a
<1> QED
  BY <1>4

(* The sum over a finite set, by its first element *)
LEMMA SumFirst ==
  ASSUME NEW S, IsFiniteSet(S), NEW f, \A x \in S : f[x] \in Nat
  PROVE  /\ SumFunctionOnSet(f, S) \in Nat
         /\ S = {} => SumFunctionOnSet(f, S) = 0
         /\ S # {} => SumFunctionOnSet(f, S) =
                        f[First(S)] + SumFunctionOnSet(f, S \ {First(S)})
<1> DEFINE Sol(T) == CHOOSE g : SumsOf(g, f, T)
<1>1. ASSUME NEW T \in SUBSET S
      PROVE  SumsOf(Sol(T), f, T) /\ SumFunctionOnSet(f, T) = Sol(T)[T]
  <2>1. IsFiniteSet(T) /\ \A x \in T : f[x] \in Nat
    BY FS_Subset
  <2>2. \E g : SumsOf(g, f, T)
    BY <2>1, SumsExist
  <2> QED
    BY <2>2, SumIs, Zenon
<1>2. PICK g \in [SUBSET S -> Nat] : SumsOf(g, f, S)
  BY SumsExist
<1> HIDE DEF Sol
<1>3. ASSUME NEW T \in SUBSET S
      PROVE  SumFunctionOnSet(f, T) = g[T]
  BY <1>1, <1>2, SumsAgree, T \in SUBSET T
<1>4. g[S] = SumStep(g, f, S)
  BY <1>2, S \in SUBSET S, Zenon DEF SumsOf
<1>5. S \ {First(S)} \in SUBSET S /\ S \in SUBSET S
  OBVIOUS
<1> QED
  BY <1>2, <1>3, <1>4, <1>5 DEF SumStep

(* The sum over a finite set, by any of its elements *)
LEMMA SumAny ==
  ASSUME NEW S, IsFiniteSet(S), NEW f, \A x \in S : f[x] \in Nat
  PROVE  \A x \in S : SumFunctionOnSet(f, S) = f[x] + SumFunctionOnSet(f, S \ {x})
<1> DEFINE Sum(s) == SumFunctionOnSet(f, s)
           N == {n \in Nat : \A s \in SUBSET S : \A x \in s :
                   Cardinality(s) <= n => Sum(s) = f[x] + Sum(s \ {x})}
<1>a. ASSUME NEW s \in SUBSET S
      PROVE  /\ IsFiniteSet(s) /\ Cardinality(s) \in Nat /\ Sum(s) \in Nat
             /\ \A x \in s : f[x] \in Nat
             /\ s # {} => Sum(s) = f[First(s)] + Sum(s \ {First(s)})
  <2>1. IsFiniteSet(s) /\ \A x \in s : f[x] \in Nat
    BY FS_Subset
  <2> QED
    BY <2>1, SumFirst, FS_CardinalityType
<1> HIDE DEF Sum
<1>1. 0 \in N
  <2>1. ASSUME NEW s \in SUBSET S, NEW x \in s, Cardinality(s) <= 0
        PROVE  FALSE
    <3>1. Cardinality(s) \in Nat /\ IsFiniteSet(s)
      BY <1>a
    <3>2. Cardinality(s) = 0
      BY <2>1, <3>1
    <3>3. s = {}
      BY <3>1, <3>2, FS_EmptySet
    <3> QED
      BY <3>3
  <2> QED
    BY <2>1
<1>2. ASSUME NEW n \in N
      PROVE  n + 1 \in N
  <2>1. ASSUME NEW s \in SUBSET S, NEW x \in s, Cardinality(s) <= n + 1
        PROVE  Sum(s) = f[x] + Sum(s \ {x})
    <3> DEFINE c == First(s)
               r == s \ {c}
    <3>1. /\ c \in s /\ r \in SUBSET S /\ Cardinality(r) <= n
          /\ Sum(s) = f[c] + Sum(r)
      BY <2>1, <1>a, WithoutFirst
    <3>2. CASE x = c
      BY <3>1, <3>2
    <3>3. CASE x # c
      <4>1. Sum(r) = f[x] + Sum(r \ {x})
        BY <3>1, <3>3
      <4> DEFINE q == s \ {x}
      <4>2. c \in q /\ q \in SUBSET S /\ Cardinality(q) <= n
        BY <3>1, <3>3, <2>1, <1>a, FS_RemoveElement
      <4>3. Sum(q) = f[c] + Sum(q \ {c})
        BY <4>2
      <4>4. q \ {c} = r \ {x}
        OBVIOUS
      <4>5. f[x] \in Nat /\ f[c] \in Nat /\ Sum(r \ {x}) \in Nat
        <5>1. r \ {x} \in SUBSET S
          OBVIOUS
        <5> QED
          BY <3>1, <5>1, <1>a
      <4>6. Sum(q) = f[c] + Sum(r \ {x})
        BY <4>3, <4>4
      <4> HIDE DEF c, r, q
      <4>7. Sum(s) = f[x] + Sum(q)
        BY <3>1, <4>1, <4>5, <4>6
      <4> QED
        BY <4>7 DEF q
    <3> QED
      BY <3>2, <3>3
  <2> QED
    BY <2>1
<1>3. Cardinality(S) \in N
  <2> HIDE DEF N
  <2>1. N \in SUBSET Nat
    BY DEF N
  <2> QED
    BY <2>1, <1>1, <1>2, FS_CardinalityType, SetInduction
<1> QED
  BY <1>3, <1>a, S \in SUBSET S DEF Sum

(* Induction over the subsets of a finite set, for a set of subsets *)
LEMMA SubsetInduction ==
  ASSUME NEW S, IsFiniteSet(S), NEW F \in SUBSET (SUBSET S), {} \in F,
         \A s \in SUBSET S : \A x \in s : s \ {x} \in F => s \in F
  PROVE  \A s \in SUBSET S : s \in F
<1> DEFINE N == {n \in Nat : \A s \in SUBSET S : Cardinality(s) <= n => s \in F}
<1>a. ASSUME NEW s \in SUBSET S
      PROVE  IsFiniteSet(s) /\ Cardinality(s) \in Nat
  BY FS_Subset, FS_CardinalityType
<1>1. 0 \in N
  <2>1. ASSUME NEW s \in SUBSET S, Cardinality(s) <= 0
        PROVE  s \in F
    <3>1. s = {}
      BY <2>1, <1>a, FS_EmptySet
    <3> QED
      BY <3>1
  <2> QED
    BY <2>1
<1>2. ASSUME NEW n \in N
      PROVE  n + 1 \in N
  <2>1. ASSUME NEW s \in SUBSET S, Cardinality(s) <= n + 1
        PROVE  s \in F
    <3>1. CASE s = {}
      BY <3>1
    <3>2. CASE s # {}
      <4>1. First(s) \in s /\ s \ {First(s)} \in SUBSET S /\ Cardinality(s \ {First(s)}) <= n
        BY <2>1, <3>2, <1>a, WithoutFirst
      <4> QED
        BY <4>1
    <3> QED
      BY <3>1, <3>2
  <2> QED
    BY <2>1
<1>3. \A n \in Nat : n \in N
  <2> HIDE DEF N
  <2>1. N \in SUBSET Nat
    BY DEF N
  <2> QED
    BY <2>1, <1>1, <1>2, SetInduction
<1>4. ASSUME NEW s \in SUBSET S
      PROVE  s \in F
  <2>1. Cardinality(s) \in N
    BY <1>3, <1>a
  <2> QED
    BY <2>1, <1>a
<1> QED
  BY <1>4

(* The sum over a set is the sum over two parts of it. *)
LEMMA SumSplit ==
  ASSUME NEW S, IsFiniteSet(S), NEW f, \A x \in S : f[x] \in Nat, NEW A \in SUBSET S
  PROVE  SumFunctionOnSet(f, S) = SumFunctionOnSet(f, A) + SumFunctionOnSet(f, S \ A)
<1> DEFINE Sum(s) == SumFunctionOnSet(f, s)
           F == {s \in SUBSET S : Sum(S) = Sum(s) + Sum(S \ s)}
<1>a. ASSUME NEW s \in SUBSET S
      PROVE  /\ Sum(s) \in Nat
             /\ s = {} => Sum(s) = 0
             /\ \A x \in s : f[x] \in Nat /\ Sum(s) = f[x] + Sum(s \ {x})
  <2>1. IsFiniteSet(s) /\ \A x \in s : f[x] \in Nat
    BY FS_Subset
  <2>2. Sum(s) \in Nat /\ (s = {} => Sum(s) = 0)
    BY <2>1, SumFirst
  <2>3. \A x \in s : Sum(s) = f[x] + Sum(s \ {x})
    BY <2>1, SumAny
  <2> QED
    BY <2>1, <2>2, <2>3
<1> HIDE DEF Sum
<1>1. {} \in F
  <2>1. Sum({}) = 0 /\ Sum(S) \in Nat /\ S \ {} = S
    BY <1>a
  <2> QED
    BY <2>1
<1>2. ASSUME NEW s \in SUBSET S, NEW x \in s, s \ {x} \in F
      PROVE  s \in F
  <2> DEFINE r == s \ {x}
             u == S \ s
             v == S \ r
  <2>1. Sum(S) = Sum(r) + Sum(v)
    BY <1>2
  <2>2. v \in SUBSET S /\ x \in v /\ v \ {x} = u /\ r \in SUBSET S /\ u \in SUBSET S
    OBVIOUS
  <2>3. Sum(v) = f[x] + Sum(u)
    BY <2>2, <1>a
  <2>4. Sum(s) = f[x] + Sum(r) /\ f[x] \in Nat /\ Sum(r) \in Nat /\ Sum(u) \in Nat
    BY <2>2, <1>a
  <2> HIDE DEF r, u, v
  <2>5. Sum(S) = Sum(s) + Sum(u)
    BY <2>1, <2>3, <2>4
  <2> QED
    BY <2>5 DEF u
<1>3. A \in F
  <2> HIDE DEF F
  <2>1. F \in SUBSET (SUBSET S)
    BY DEF F
  <2>2. \A s \in SUBSET S : \A x \in s : s \ {x} \in F => s \in F
    BY <1>2
  <2>3. \A s \in SUBSET S : s \in F
    BY <2>1, <1>1, <2>2, SubsetInduction
  <2> QED
    BY <2>3
<1> QED
  BY <1>3 DEF Sum

(* A bijection that keeps the values keeps the sum. *)
LEMMA SumBijection ==
  ASSUME NEW S, IsFiniteSet(S), NEW T, NEW f, NEW g, NEW b \in Bijection(S, T),
         \A x \in S : f[x] \in Nat /\ g[b[x]] = f[x]
  PROVE  SumFunctionOnSet(f, S) = SumFunctionOnSet(g, T)
<1> DEFINE Img(s) == {b[x] : x \in s}
           F == {s \in SUBSET S : SumFunctionOnSet(f, s) = SumFunctionOnSet(g, Img(s))}
<1>a. /\ b \in [S -> T] /\ \A x, y \in S : b[x] = b[y] => x = y
      /\ \A t \in T : \E x \in S : b[x] = t
  BY DEF Bijection, Injection, Surjection, IsInjective
<1>b. ASSUME NEW s \in SUBSET S
      PROVE  IsFiniteSet(s) /\ IsFiniteSet(Img(s)) /\ \A y \in Img(s) : g[y] \in Nat
  <2>1. IsFiniteSet(s)
    BY FS_Subset
  <2>2. [x \in s |-> b[x]] \in Surjection(s, Img(s))
    BY DEF Surjection
  <2> QED
    BY <2>1, <2>2, FS_Surjection
<1>1. {} \in F
  <2>1. Img({}) = {}
    OBVIOUS
  <2>2. SumFunctionOnSet(f, {}) = 0 /\ SumFunctionOnSet(g, {}) = 0
    BY SumFirst, FS_EmptySet
  <2> QED
    BY <2>1, <2>2
<1>2. ASSUME NEW s \in SUBSET S, NEW x \in s, s \ {x} \in F
      PROVE  s \in F
  <2>1. Img(s \ {x}) = Img(s) \ {b[x]} /\ b[x] \in Img(s)
    BY <1>a
  <2>2. SumFunctionOnSet(f, s) = f[x] + SumFunctionOnSet(f, s \ {x})
    BY <1>b, SumAny
  <2>3. SumFunctionOnSet(g, Img(s)) = g[b[x]] + SumFunctionOnSet(g, Img(s) \ {b[x]})
    <3> HIDE DEF Img
    <3> QED
      BY <2>1, <1>b, SumAny
  <2>4. SumFunctionOnSet(f, s \ {x}) = SumFunctionOnSet(g, Img(s \ {x})) /\ g[b[x]] = f[x]
    BY <1>2
  <2> QED
    BY <2>1, <2>2, <2>3, <2>4
<1>3. S \in F
  <2> HIDE DEF F
  <2>1. F \in SUBSET (SUBSET S)
    BY DEF F
  <2> QED
    BY <2>1, <1>1, <1>2, S \in SUBSET S, SubsetInduction
<1>4. Img(S) = T
  BY <1>a
<1> QED
  BY <1>3, <1>4

(* The sum depends on the values on the set only. *)
LEMMA SumSame ==
  ASSUME NEW S, IsFiniteSet(S), NEW f, NEW g, \A x \in S : f[x] \in Nat /\ g[x] = f[x]
  PROVE  SumFunctionOnSet(f, S) = SumFunctionOnSet(g, S)
<1>1. [x \in S |-> x] \in Bijection(S, S)
  BY DEF Bijection, Injection, Surjection, IsInjective
<1> QED
  BY <1>1, SumBijection

-----------------------------------------------------------------------------
(* The remainder is the one number below W that leaves a multiple of W. *)
LEMMA ModIs ==
  ASSUME NEW W \in Nat \ {0}, NEW q \in Int, NEW r \in 0 .. W - 1
  PROVE  (W * q + r) % W = r
  OBVIOUS

(* There is one. *)
LEMMA DivMod ==
  ASSUME NEW W \in Nat \ {0}, NEW n \in Nat
  PROVE  \E q \in Nat : \E r \in 0 .. W - 1 : n = W * q + r
<1> DEFINE N == {m \in Nat : \E q \in Nat : \E r \in 0 .. W - 1 : m = W * q + r}
<1>1. 0 \in N
  <2>1. 0 = W * 0 + 0 /\ 0 \in 0 .. W - 1
    OBVIOUS
  <2> QED
    BY <2>1
<1>2. ASSUME NEW m \in N
      PROVE  m + 1 \in N
  <2>1. PICK q \in Nat, r \in 0 .. W - 1 : m = W * q + r
    OBVIOUS
  <2>2. CASE r < W - 1
    <3>1. m + 1 = W * q + (r + 1) /\ r + 1 \in 0 .. W - 1
      BY <2>1, <2>2
    <3> QED
      BY <3>1
  <2>3. CASE r = W - 1
    <3>1. m + 1 = W * (q + 1) + 0
      BY <2>1, <2>3
    <3>2. PICK p \in Nat : p = q + 1
      OBVIOUS
    <3>3. m + 1 = W * p + 0 /\ 0 \in 0 .. W - 1 /\ m + 1 \in Nat
      BY <3>1, <3>2
    <3> QED
      BY <3>3
  <2> QED
    BY <2>2, <2>3
<1>3. n \in N
  <2> HIDE DEF N
  <2>1. N \in SUBSET Nat
    BY DEF N
  <2> QED
    BY <2>1, <1>1, <1>2, SetInduction
<1> QED
  BY <1>3

(* An addition may be reduced before or after. *)
LEMMA ModAdd ==
  ASSUME NEW W \in Nat \ {0}, NEW a \in Nat, NEW b \in Nat
  PROVE  ((a % W) + b) % W = (a + b) % W
<1>1. PICK q \in Nat, r \in 0 .. W - 1 : a = W * q + r
  BY DivMod
<1>2. PICK p \in Nat, s \in 0 .. W - 1 : r + b = W * p + s
  <2>1. r + b \in Nat
    OBVIOUS
  <2> QED
    BY <2>1, DivMod
<1>3. a + b = W * (q + p) + s /\ q + p \in Int
  BY <1>1, <1>2
<1>4. (a + b) % W = s /\ a % W = r /\ (r + b) % W = s
  <2>1. (W * (q + p) + s) % W = s
    BY <1>3, ModIs
  <2>2. (W * q + r) % W = r /\ (W * p + s) % W = s
    BY ModIs
  <2> QED
    BY <1>1, <1>2, <1>3, <2>1, <2>2
<1> QED
  BY <1>4

(* A subtraction of words takes back an addition. *)
LEMMA ModSub ==
  ASSUME NEW W \in Nat \ {0}, NEW a \in Nat, NEW b \in Nat
  PROVE  (((a + b) % W) + (W - b)) % W = a % W
<1>1. PICK q \in Nat, r \in 0 .. W - 1 : a = W * q + r
  BY DivMod
<1>2. PICK p \in Nat, s \in 0 .. W - 1 : a + b = W * p + s
  <2>1. a + b \in Nat
    OBVIOUS
  <2> QED
    BY <2>1, DivMod
<1>3. (a + b) % W = s /\ a % W = r
  BY <1>1, <1>2, ModIs
<1>4. s + (W - b) = W * (q + 1 - p) + r /\ q + 1 - p \in Int
  BY <1>1, <1>2
<1>5. (W * (q + 1 - p) + r) % W = r
  BY <1>4, ModIs
<1> QED
  BY <1>3, <1>4, <1>5

-----------------------------------------------------------------------------
(* In a finite set with a strict total order R, each number of predecessors occurs. *)
LEMMA RankExists ==
  ASSUME NEW S, IsFiniteSet(S), NEW R,
         \A x \in S : <<x, x>> \notin R,
         \A x, y, z \in S : <<x, y>> \in R /\ <<y, z>> \in R => <<x, z>> \in R,
         \A x, y \in S : x # y => <<x, y>> \in R \/ <<y, x>> \in R
  PROVE  \A n \in 1 .. Cardinality(S) :
           \E x \in S : Cardinality({y \in S : <<y, x>> \in R}) = n - 1
<1> DEFINE Pre(x) == {y \in S : <<y, x>> \in R}
           rank == [x \in S |-> Cardinality(Pre(x))]
           N == 0 .. Cardinality(S) - 1
<1>a. Cardinality(S) \in Nat
  BY FS_CardinalityType
<1>1. ASSUME NEW x \in S
      PROVE  Cardinality(Pre(x)) \in N /\ IsFiniteSet(Pre(x))
  <2>1. Pre(x) \in SUBSET S /\ x \notin Pre(x)
    OBVIOUS
  <2>2. IsFiniteSet(Pre(x)) /\ Cardinality(Pre(x)) <= Cardinality(S)
        /\ (Cardinality(S) = Cardinality(Pre(x)) => S = Pre(x))
    BY <2>1, FS_Subset
  <2>3. Cardinality(Pre(x)) \in Nat
    BY <2>2, FS_CardinalityType
  <2>4. Cardinality(S) # Cardinality(Pre(x))
    BY <2>1, <2>2
  <2> HIDE DEF Pre
  <2> QED
    BY <2>2, <2>3, <2>4, <1>a
<1>2. ASSUME NEW x \in S, NEW y \in S, <<x, y>> \in R
      PROVE  Cardinality(Pre(x)) # Cardinality(Pre(y))
  <2>1. Pre(x) \in SUBSET Pre(y) /\ x \in Pre(y) /\ x \notin Pre(x)
    BY <1>2
  <2>2. IsFiniteSet(Pre(y)) /\ (Cardinality(Pre(y)) = Cardinality(Pre(x)) => Pre(y) = Pre(x))
    BY <2>1, <1>1, FS_Subset
  <2> QED
    BY <2>1, <2>2
<1>3. rank \in Injection(S, N)
  <2>1. rank \in [S -> N]
    BY <1>1
  <2>2. ASSUME NEW x \in S, NEW y \in S, rank[x] = rank[y]
        PROVE  x = y
    <3> SUFFICES ASSUME x # y PROVE FALSE
      OBVIOUS
    <3>1. Cardinality(Pre(x)) = Cardinality(Pre(y))
      BY <2>2
    <3> HIDE DEF Pre
    <3> QED
      BY <3>1, <1>2
  <2> HIDE DEF rank
  <2> QED
    BY <2>1, <2>2 DEF Injection, IsInjective
<1>4. IsFiniteSet(N) /\ Cardinality(N) = Cardinality(S)
  <2>1. 0 \in Int /\ Cardinality(S) - 1 \in Int
    BY <1>a
  <2>2. IsFiniteSet(N)
        /\ Cardinality(N) = IF 0 > Cardinality(S) - 1 THEN 0 ELSE Cardinality(S) - 1 - 0 + 1
    BY <2>1, FS_Interval
  <2> QED
    BY <2>2, <1>a
<1>5. rank \in Surjection(S, N)
  <2> HIDE DEF rank, N
  <2> QED
    BY <1>3, <1>4, FS_Injection
<1>6. ASSUME NEW n \in 1 .. Cardinality(S)
      PROVE  \E x \in S : Cardinality(Pre(x)) = n - 1
  <2>1. n - 1 \in N
    BY <1>a
  <2>2. PICK x \in S : rank[x] = n - 1
    <3> HIDE DEF rank, N
    <3> QED
      BY <1>5, <2>1 DEF Surjection
  <2> QED
    BY <2>2
<1> QED
  BY <1>6

(* An enumeration of a finite set without repetition has all of it. *)
LEMMA Enumeration ==
  ASSUME NEW S, IsFiniteSet(S), NEW e \in [1 .. Cardinality(S) -> S],
         \A m, n \in 1 .. Cardinality(S) : e[m] = e[n] => m = n
  PROVE  e \in Bijection(1 .. Cardinality(S), S)
<1>1. Cardinality(S) \in Nat
  BY FS_CardinalityType
<1>2. IsFiniteSet(1 .. Cardinality(S)) /\ Cardinality(1 .. Cardinality(S)) = Cardinality(S)
  BY <1>1, FS_Interval
<1>3. e \in Injection(1 .. Cardinality(S), S)
  BY DEF Injection, IsInjective
<1>4. e \in Surjection(1 .. Cardinality(S), S)
  BY <1>2, <1>3, FS_Injection
<1> QED
  BY <1>3, <1>4 DEF Bijection

(* A finite set of integers that is not empty has a least and a greatest element. *)
LEMMA MinMax ==
  ASSUME NEW S \in SUBSET Int, IsFiniteSet(S), S # {}
  PROVE  /\ Min(S) \in S /\ \A x \in S : Min(S) <= x
         /\ Max(S) \in S /\ \A x \in S : x <= Max(S)
<1> DEFINE Lo(s) == \E x \in s : \A y \in s : x <= y
           Hi(s) == \E x \in s : \A y \in s : x >= y
           F == {s \in SUBSET S : s = {} \/ (Lo(s) /\ Hi(s))}
<1>1. {} \in F
  OBVIOUS
<1>2. ASSUME NEW s \in SUBSET S, NEW x \in s, s \ {x} \in F
      PROVE  s \in F
  <2>1. CASE s \ {x} = {}
    BY <2>1
  <2>2. CASE s \ {x} # {}
    <3>1. PICK lo \in s \ {x} : \A y \in s \ {x} : lo <= y
      BY <1>2, <2>2
    <3>2. PICK hi \in s \ {x} : \A y \in s \ {x} : hi >= y
      BY <1>2, <2>2
    <3>3. Lo(s)
      <4>1. CASE x <= lo
        BY <3>1, <4>1
      <4>2. CASE ~ (x <= lo)
        BY <3>1, <4>2
      <4> QED
        BY <4>1, <4>2
    <3>4. Hi(s)
      <4>1. CASE x >= hi
        BY <3>2, <4>1
      <4>2. CASE ~ (x >= hi)
        BY <3>2, <4>2
      <4> QED
        BY <4>1, <4>2
    <3> QED
      BY <3>3, <3>4
  <2> QED
    BY <2>1, <2>2
<1>3. S \in F
  <2> HIDE DEF F
  <2>1. F \in SUBSET (SUBSET S)
    BY DEF F
  <2>2. \A s \in SUBSET S : s \in F
    BY <2>1, <1>1, <1>2, SubsetInduction
  <2> QED
    BY <2>2, S \in SUBSET S
<1>4. Lo(S) /\ Hi(S)
  BY <1>3
<1>5. Min(S) \in S /\ \A x \in S : Min(S) <= x
  BY <1>4 DEF Min
<1>6. Max(S) \in S /\ \A x \in S : Max(S) >= x
  BY <1>4 DEF Max
<1> QED
  BY <1>5, <1>6
=============================================================================
