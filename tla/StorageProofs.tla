------------------------------ MODULE StorageProofs ------------------------------
(***************************************************************************)
(* Proofs about the three modules that keep files: UploadPipeline, for any *)
(* number of requests and of files in each, and any limit; ChunkedUpload,  *)
(* for any number of requests and any sizes; RenderCache, for any number   *)
(* of deliveries and keys, and any limits.  All three count bytes, so the  *)
(* facts about sums come first.                                            *)
(***************************************************************************)
EXTENDS UploadPipeline, ChunkedUpload, RenderCache,
        FiniteSetTheorems, WellFoundedInduction, TLAPS

(***************************************************************************)
(* Sums over a finite set: by induction, which here is the choice of a     *)
(* least counterexample.                                                   *)
(***************************************************************************)
\* Every set of numbers has a least.
LEMMA LeastNat ==
  ASSUME NEW T, T \subseteq Nat, T # {}
  PROVE  \E n \in T : \A m \in T : n <= m
<1> DEFINE R == OpToRel(<, Nat)
<1>1. IsWellFoundedOn(R, Nat)
  BY NatLessThanWellFounded
<1>2. \A m, n \in Nat : m < n => <<m, n>> \in R
  BY DEF OpToRel
<1> HIDE DEF R
<1>3. PICK n \in T : \A m \in T : ~(<<m, n>> \in R)
  BY <1>1, WFMin
<1>4. ASSUME NEW m \in T, ~(n <= m) PROVE FALSE
  <2>1. m \in Nat /\ n \in Nat /\ m < n
    BY <1>4
  <2>2. <<m, n>> \in R
    BY <1>2, <2>1
  <2>3. QED
    BY <1>3, <2>2
<1>5. QED
  BY <1>4

\* Induction over the subsets of a finite set.
LEMMA Smallest ==
  ASSUME NEW S, IsFiniteSet(S), NEW B \in SUBSET (SUBSET S), B # {}
  PROVE  \E s \in B : \A t \in B : Cardinality(s) <= Cardinality(t)
<1> DEFINE T == {Cardinality(s) : s \in B}
<1>1. \A s \in SUBSET S : Cardinality(s) \in Nat
  BY FS_Subset, FS_CardinalityType
<1>2. T \subseteq Nat /\ T # {}
  BY <1>1
<1>3. PICK n \in T : \A m \in T : n <= m
  <2> HIDE DEF T
  <2>1. QED
    BY <1>2, LeastNat
<1>4. QED
  BY <1>3

\* The sum of f over the subsets of S, as MapThenSumSet defines it.
First(s) == CHOOSE x \in s : TRUE
Sums(g, f, s) == IF s = {} THEN 0 ELSE f[First(s)] + g[s \ {First(s)}]
IsSum(g, f, S) == g = [s \in SUBSET S |-> Sums(g, f, s)]

LEMMA FirstIs == \A s : s # {} => First(s) \in s
BY DEF First

\* Without one.
LEMMA OneLess ==
  ASSUME NEW S, IsFiniteSet(S), NEW s \in SUBSET S, NEW x \in s
  PROVE  /\ s \ {x} \in SUBSET S /\ Cardinality(s \ {x}) = Cardinality(s) - 1
         /\ Cardinality(s) \in Nat /\ Cardinality(s \ {x}) \in Nat
<1>1. IsFiniteSet(s)
  BY FS_Subset
<1>2. QED
  BY <1>1, FS_RemoveElement, FS_CardinalityType, FS_Subset

\* A sum of numbers is a number.
LEMMA SumType ==
  ASSUME NEW S, IsFiniteSet(S), NEW f \in [S -> Nat], NEW g, IsSum(g, f, S)
  PROVE  g \in [SUBSET S -> Nat]
<1> DEFINE B == {s \in SUBSET S : g[s] \notin Nat}
<1>1. \A s \in SUBSET S : g[s] = Sums(g, f, s)
  BY DEF IsSum
<1>2. ASSUME B # {} PROVE FALSE
  <2>1. PICK s \in B : \A t \in B : Cardinality(s) <= Cardinality(t)
    <3> HIDE DEF B
    <3>1. B \in SUBSET (SUBSET S)
      BY DEF B
    <3>2. QED
      BY <1>2, <3>1, Smallest
  <2>0. s \in SUBSET S /\ g[s] = Sums(g, f, s) /\ g[s] \notin Nat
    BY <1>1, <2>1
  <2>2. s # {}
    BY <2>0 DEF Sums
  <2>3. First(s) \in s
    BY <2>2, FirstIs
  <2>4. g[s \ {First(s)}] \in Nat
    BY <2>0, <2>1, <2>3, OneLess
  <2>5. f[First(s)] \in Nat
    BY <2>0, <2>3
  <2>6. g[s] \in Nat
    BY <2>0, <2>2, <2>4, <2>5 DEF Sums
  <2>7. QED
    BY <2>0, <2>6
<1>3. g = [s \in SUBSET S |-> g[s]]
  BY DEF IsSum
<1>4. QED
  BY <1>2, <1>3

LEMMA SumIs ==
  ASSUME NEW S, IsFiniteSet(S), NEW f \in [S -> Nat], NEW g, IsSum(g, f, S)
  PROVE  \A s \in SUBSET S : g[s] \in Nat /\ g[s] = Sums(g, f, s)
<1>1. g \in [SUBSET S -> Nat]
  BY SumType
<1>2. \A s \in SUBSET S : g[s] = Sums(g, f, s)
  BY DEF IsSum
<1>3. QED
  BY <1>1, <1>2

\* There is one.
LEMMA SumExists ==
  ASSUME NEW S, IsFiniteSet(S), NEW f \in [S -> Nat]
  PROVE  \E g : IsSum(g, f, S)
<1> DEFINE Upto(g, n) == \A s \in SUBSET S : Cardinality(s) <= n => g[s] = Sums(g, f, s)
           T == {n \in Nat : ~\E g \in [SUBSET S -> Nat] : Upto(g, n)}
<1>1. ASSUME T # {} PROVE FALSE
  <2>1. PICK n \in T : \A m \in T : n <= m
    <3> HIDE DEF T
    <3>1. T \subseteq Nat
      BY DEF T
    <3>2. QED
      BY <1>1, <3>1, LeastNat
  <2>2. n \in Nat /\ \A g \in [SUBSET S -> Nat] : ~Upto(g, n)
    BY <2>1
  <2>3. CASE n = 0
    <3> DEFINE g == [s \in SUBSET S |-> 0]
    <3>1. ASSUME NEW s \in SUBSET S, Cardinality(s) <= 0 PROVE g[s] = Sums(g, f, s)
      <4>1. IsFiniteSet(s) /\ Cardinality(s) \in Nat
        BY FS_Subset, FS_CardinalityType
      <4>2. s = {}
        BY <3>1, <4>1, FS_EmptySet
      <4>3. QED
        BY <4>2 DEF Sums
    <3>2. g \in [SUBSET S -> Nat] /\ Upto(g, n)
      BY <2>3, <3>1
    <3>3. QED
      BY <2>2, <3>2
  <2>4. CASE n # 0
    <3>1. n - 1 \in Nat /\ n - 1 \notin T
      <4> HIDE DEF T, Upto
      <4>1. n - 1 \in Nat /\ ~(n <= n - 1)
        BY <2>2, <2>4
      <4>2. QED
        BY <2>1, <4>1
    <3>2. PICK g \in [SUBSET S -> Nat] : Upto(g, n - 1)
      BY <3>1
    <3> DEFINE h == [s \in SUBSET S |-> Sums(g, f, s)]
    <3>3. ASSUME NEW s \in SUBSET S, s # {}
          PROVE  /\ First(s) \in s /\ f[First(s)] \in Nat
                 /\ s \ {First(s)} \in SUBSET S /\ g[s \ {First(s)}] \in Nat
                 /\ Cardinality(s \ {First(s)}) = Cardinality(s) - 1
                 /\ Cardinality(s) \in Nat
      <4>1. First(s) \in s
        BY <3>3, FirstIs
      <4>2. s \ {First(s)} \in SUBSET S
        OBVIOUS
      <4>3. g[s \ {First(s)}] \in Nat /\ f[First(s)] \in Nat
        BY <4>1, <4>2
      <4>4. QED
        BY <4>1, <4>2, <4>3, OneLess
    <3>4. ASSUME NEW s \in SUBSET S PROVE h[s] = Sums(g, f, s) /\ h[s] \in Nat
      <4>1. h[s] = Sums(g, f, s)
        OBVIOUS
      <4>2. CASE s = {}
        BY <4>1, <4>2 DEF Sums
      <4>3. CASE s # {}
        <5>1. f[First(s)] \in Nat /\ g[s \ {First(s)}] \in Nat
          BY <3>3, <4>3
        <5>2. Sums(g, f, s) = f[First(s)] + g[s \ {First(s)}]
          BY <4>3 DEF Sums
        <5> HIDE DEF h
        <5>3. QED
          BY <4>1, <5>1, <5>2
      <4>4. QED
        BY <4>2, <4>3
    <3>5. h \in [SUBSET S -> Nat]
      BY <3>4
    <3>6. ASSUME NEW s \in SUBSET S, Cardinality(s) <= n PROVE h[s] = Sums(h, f, s)
      <4>1. CASE s = {}
        BY <3>4, <4>1 DEF Sums
      <4>2. CASE s # {}
        <5> DEFINE t == s \ {First(s)}
        <5>1. t \in SUBSET S /\ Cardinality(t) <= n - 1
          BY <2>2, <3>3, <3>6, <4>2
        <5> HIDE DEF h, t
        <5>2. h[t] = Sums(g, f, t) /\ g[t] = Sums(g, f, t)
          BY <3>2, <3>4, <5>1
        <5>3. h[s] = f[First(s)] + g[t]
          BY <3>4, <4>2 DEF Sums, t
        <5>4. Sums(h, f, s) = f[First(s)] + h[t]
          BY <4>2 DEF Sums, t
        <5>5. QED
          BY <5>2, <5>3, <5>4
      <4>3. QED
        BY <4>1, <4>2
    <3>7. QED
      BY <2>2, <3>5, <3>6
  <2>5. QED
    BY <2>3, <2>4
<1>2. Cardinality(S) \in Nat
  BY FS_CardinalityType
<1>3. PICK g \in [SUBSET S -> Nat] : Upto(g, Cardinality(S))
  BY <1>1, <1>2
<1>4. \A s \in SUBSET S : g[s] = Sums(g, f, s)
  BY <1>3, FS_Subset
<1>5. IsSum(g, f, S)
  BY <1>4 DEF IsSum
<1>6. QED
  BY <1>5

\* Two sums agree where what they add does.
LEMMA SumsAgree ==
  ASSUME NEW S, IsFiniteSet(S), NEW R \in SUBSET S, NEW f \in [S -> Nat], NEW e \in [R -> Nat],
         \A x \in R : e[x] = f[x], NEW g, IsSum(g, f, S), NEW h, IsSum(h, e, R)
  PROVE  \A s \in SUBSET R : h[s] = g[s]
<1>1. IsFiniteSet(R)
  BY FS_Subset
<1> DEFINE B == {s \in SUBSET R : h[s] # g[s]}
<1>2. ASSUME B # {} PROVE FALSE
  <2>1. PICK s \in B : \A t \in B : Cardinality(s) <= Cardinality(t)
    <3> HIDE DEF B
    <3>1. B \in SUBSET (SUBSET R)
      BY DEF B
    <3>2. QED
      BY <1>1, <1>2, <3>1, Smallest
  <2>2. s \in SUBSET R /\ s \in SUBSET S /\ h[s] # g[s]
    BY <2>1
  <2>3. h[s] = Sums(h, e, s) /\ g[s] = Sums(g, f, s)
    BY <2>2 DEF IsSum
  <2>4. s # {}
    BY <2>2, <2>3 DEF Sums
  <2>5. First(s) \in s
    BY <2>4, FirstIs
  <2>6. h[s \ {First(s)}] = g[s \ {First(s)}]
    BY <1>1, <2>1, <2>2, <2>5, OneLess
  <2>7. e[First(s)] = f[First(s)]
    BY <2>2, <2>5
  <2>8. QED
    BY <2>2, <2>3, <2>4, <2>6, <2>7 DEF Sums
<1>3. QED
  BY <1>2

\* Whichever comes last.
LEMMA SumLess ==
  ASSUME NEW S, IsFiniteSet(S), NEW f \in [S -> Nat], NEW g, IsSum(g, f, S)
  PROVE  \A s \in SUBSET S : \A x \in s : g[s] = f[x] + g[s \ {x}]
<1>1. \A s \in SUBSET S : g[s] \in Nat /\ g[s] = Sums(g, f, s)
  BY SumIs
<1> DEFINE B == {s \in SUBSET S : \E x \in s : g[s] # f[x] + g[s \ {x}]}
<1>2. ASSUME B # {} PROVE FALSE
  <2>1. PICK s \in B : \A t \in B : Cardinality(s) <= Cardinality(t)
    <3> HIDE DEF B
    <3>1. B \in SUBSET (SUBSET S)
      BY DEF B
    <3>2. QED
      BY <1>2, <3>1, Smallest
  <2>2. s \in SUBSET S
    BY <2>1
  <2>3. PICK x \in s : g[s] # f[x] + g[s \ {x}]
    BY <2>1
  <2> DEFINE c == First(s)
             t == s \ {c}
             u == s \ {x}
             w == t \ {x}
  <2>4. c \in s
    BY <2>3, FirstIs
  <2>5. /\ t \in SUBSET S /\ u \in SUBSET S /\ w \in SUBSET S
        /\ g[s] = f[c] + g[t] /\ f[c] \in Nat /\ f[x] \in Nat
        /\ g[t] \in Nat /\ g[u] \in Nat /\ g[w] \in Nat
    BY <1>1, <2>2, <2>3, <2>4 DEF Sums
  <2>6. c # x
    BY <2>3, <2>5
  <2>7. /\ Cardinality(t) < Cardinality(s) /\ Cardinality(u) < Cardinality(s)
        /\ t \notin B /\ u \notin B
    <3> HIDE DEF B
    <3>1. /\ Cardinality(t) = Cardinality(s) - 1 /\ Cardinality(u) = Cardinality(s) - 1
          /\ Cardinality(s) \in Nat
      BY <2>2, <2>3, <2>4, OneLess
    <3>2. QED
      BY <2>1, <3>1
  <2>8. x \in t /\ c \in u /\ u \ {c} = w
    BY <2>3, <2>4, <2>6
  <2> HIDE DEF c, t, u, w
  <2>9. g[t] = f[x] + g[w]
    BY <2>5, <2>7, <2>8 DEF w
  <2>10. g[u] = f[c] + g[w]
    BY <2>5, <2>7, <2>8
  <2>11. g[s] = f[x] + g[u]
    BY <2>5, <2>9, <2>10
  <2>12. QED
    BY <2>3, <2>11 DEF u
<1>3. QED
  BY <1>2

\* What one more for each comes to.
LEMMA SumShift ==
  ASSUME NEW S, IsFiniteSet(S), NEW f \in [S -> Nat], NEW e \in [S -> Nat],
         \A x \in S : f[x] = e[x] + 1, NEW g, IsSum(g, f, S), NEW h, IsSum(h, e, S)
  PROVE  \A s \in SUBSET S : g[s] = h[s] + Cardinality(s)
<1>0. \A s \in SUBSET S : g[s] \in Nat /\ g[s] = Sums(g, f, s)
  BY SumIs
<1>1. \A s \in SUBSET S : /\ g[s] \in Nat /\ g[s] = Sums(g, f, s)
                          /\ h[s] \in Nat /\ h[s] = Sums(h, e, s)
  <2>1. \A s \in SUBSET S : h[s] \in Nat /\ h[s] = Sums(h, e, s)
    BY SumIs
  <2>2. QED
    BY <1>0, <2>1
<1> DEFINE B == {s \in SUBSET S : g[s] # h[s] + Cardinality(s)}
<1>2. ASSUME B # {} PROVE FALSE
  <2>1. PICK s \in B : \A t \in B : Cardinality(s) <= Cardinality(t)
    <3> HIDE DEF B
    <3>1. B \in SUBSET (SUBSET S)
      BY DEF B
    <3>2. QED
      BY <1>2, <3>1, Smallest
  <2>2. s \in SUBSET S /\ g[s] # h[s] + Cardinality(s)
    BY <2>1
  <2>3. g[s] = Sums(g, f, s) /\ h[s] = Sums(h, e, s)
    BY <1>1, <2>2
  <2>4. s # {}
    BY <2>2, <2>3, FS_EmptySet DEF Sums
  <2> DEFINE c == First(s)
             t == s \ {c}
  <2>5. c \in s /\ c \in S
    BY <2>2, <2>4, FirstIs
  <2>6. /\ t \in SUBSET S /\ Cardinality(t) = Cardinality(s) - 1
        /\ Cardinality(s) \in Nat /\ Cardinality(t) \in Nat
    BY <2>2, <2>5, OneLess
  <2>7. g[s] = f[c] + g[t] /\ h[s] = e[c] + h[t]
    BY <2>3, <2>4 DEF Sums
  <2>8. /\ f[c] = e[c] + 1 /\ e[c] \in Nat /\ g[t] \in Nat /\ h[t] \in Nat
    BY <1>1, <2>5, <2>6
  <2>9. g[t] = h[t] + Cardinality(t)
    <3> HIDE DEF t, c
    <3>1. t \notin B
      <4> HIDE DEF B
      <4>1. QED
        BY <2>1, <2>6
    <3>2. QED
      BY <2>6, <3>1
  <2> HIDE DEF t, c, B
  <2>10. g[s] = h[s] + Cardinality(s)
    BY <2>6, <2>7, <2>8, <2>9
  <2>11. QED
    BY <2>2, <2>10
<1>3. QED
  BY <1>2

\* A sum depends on nothing but what is added.
LEMMA SumsLocal ==
  ASSUME NEW S, IsFiniteSet(S), NEW R \in SUBSET S, NEW f \in [S -> Nat], NEW e \in [S -> Nat],
         \A x \in R : e[x] = f[x], NEW g, IsSum(g, f, S), NEW h, IsSum(h, e, S)
  PROVE  g[R] = h[R]
<1> DEFINE d == [x \in R |-> f[x]]
<1>1. d \in [R -> Nat] /\ (\A x \in R : d[x] = f[x]) /\ (\A x \in R : d[x] = e[x])
  OBVIOUS
<1>2. IsFiniteSet(R) /\ R \in SUBSET R
  BY FS_Subset
<1> HIDE DEF d
<1>3. PICK k : IsSum(k, d, R)
  BY <1>1, <1>2, SumExists
<1>4. k[R] = g[R]
  BY <1>1, <1>2, <1>3, SumsAgree
<1>5. k[R] = h[R]
  BY <1>1, <1>2, <1>3, SumsAgree
<1>6. QED
  BY <1>4, <1>5

\* One part of it changes.
LEMMA SumsReplace ==
  ASSUME NEW S, IsFiniteSet(S), NEW x \in S, NEW f \in [S -> Nat], NEW e \in [S -> Nat],
         \A y \in S : y # x => e[y] = f[y], NEW g, IsSum(g, f, S), NEW h, IsSum(h, e, S)
  PROVE  /\ h[S] = g[S] - f[x] + e[x]
         /\ g[S] \in Nat /\ h[S] \in Nat
<1> DEFINE R == S \ {x}
<1>1. R \in SUBSET S /\ S \in SUBSET S /\ \A y \in R : e[y] = f[y]
  OBVIOUS
<1>2. g \in [SUBSET S -> Nat] /\ h \in [SUBSET S -> Nat]
  BY SumType
<1>3. R = S \ {x}
  OBVIOUS
<1> HIDE DEF R
<1>6. g[S] = f[x] + g[R]
  BY <1>1, <1>3, SumLess
<1>7. h[S] = e[x] + h[R]
  BY <1>1, <1>3, SumLess
<1>4. g[R] = h[R]
  BY <1>1, SumsLocal
<1>5. g[R] \in Nat /\ g[S] \in Nat /\ h[S] \in Nat /\ f[x] \in Nat /\ e[x] \in Nat
  BY <1>1, <1>2
<1>8. QED
  BY <1>4, <1>5, <1>6, <1>7

\* Nothing comes to nothing.
LEMMA SumIsZero ==
  ASSUME NEW S, IsFiniteSet(S), NEW f \in [S -> Nat], \A x \in S : f[x] = 0,
         NEW g, IsSum(g, f, S)
  PROVE  g[S] = 0
<1>1. \A s \in SUBSET S : g[s] \in Nat /\ g[s] = Sums(g, f, s)
  BY SumIs
<1> DEFINE B == {s \in SUBSET S : g[s] # 0}
<1>2. ASSUME B # {} PROVE FALSE
  <2>1. PICK s \in B : \A t \in B : Cardinality(s) <= Cardinality(t)
    <3> HIDE DEF B
    <3>1. B \in SUBSET (SUBSET S)
      BY DEF B
    <3>2. QED
      BY <1>2, <3>1, Smallest
  <2>2. s \in SUBSET S /\ g[s] # 0 /\ g[s] = Sums(g, f, s)
    BY <1>1, <2>1
  <2>3. s # {}
    BY <2>2 DEF Sums
  <2>4. First(s) \in s
    BY <2>3, FirstIs
  <2>5. g[s \ {First(s)}] = 0
    BY <2>1, <2>2, <2>4, OneLess
  <2>6. f[First(s)] = 0
    BY <2>2, <2>4
  <2>7. QED
    BY <2>2, <2>3, <2>5, <2>6 DEF Sums
<1>3. QED
  BY <1>2

\* The sum of a function, as the models write it.
SumOf(f, S) == MapThenSumSet(LAMBDA x : f[x], S)

\* The sum of a part.
LEMMA SumOfPart ==
  ASSUME NEW S, IsFiniteSet(S), NEW K \in SUBSET S, NEW f \in [S -> Nat], NEW g, IsSum(g, f, S)
  PROVE  SumOf(f, K) = g[K]
<1> DEFINE Body(k, s) == IF s = {} THEN 0 ELSE LET x == CHOOSE x \in s : TRUE
                                               IN f[x] + k[s \ {x}]
           Adds(k) == k = [s \in SUBSET K |-> Body(k, s)]
           h == CHOOSE k : Adds(k)
           e == [x \in K |-> f[x]]
<1>1. /\ IsFiniteSet(K) /\ e \in [K -> Nat] /\ K \in SUBSET K
      /\ \A x \in K : e[x] = f[x]
  BY FS_Subset
<1>2. \A k : IsSum(k, e, K) <=> Adds(k)
  <2>1. ASSUME NEW k, NEW s \in SUBSET K PROVE Sums(k, e, s) = Body(k, s)
    <3>1. CASE s # {}
      <4>1. First(s) \in K
        BY <3>1, FirstIs
      <4>2. e[First(s)] = f[First(s)]
        BY <4>1
      <4> HIDE DEF e
      <4>3. QED
        BY <3>1, <4>2 DEF Sums, First
    <3>2. CASE s = {}
      BY <3>2 DEF Sums
    <3>3. QED
      BY <3>1, <3>2
  <2> HIDE DEF Body, e
  <2>2. QED
    BY <2>1 DEF IsSum
<1> HIDE DEF e
<1>3. \E k : IsSum(k, e, K)
  BY <1>1, SumExists
<1>4. SumOf(f, K) = h[K]
  BY DEF SumOf, MapThenSumSet, MapThenFoldSet
<1> HIDE DEF Adds
<1>5. Adds(h)
  BY <1>2, <1>3
<1> HIDE DEF h
<1>6. IsSum(h, e, K)
  BY <1>2, <1>5
<1>7. h[K] = g[K]
  BY <1>1, <1>6, SumsAgree
<1>8. QED
  BY <1>4, <1>7

LEMMA SumOfIs ==
  ASSUME NEW S, IsFiniteSet(S), NEW f \in [S -> Nat]
  PROVE  \E g : IsSum(g, f, S) /\ SumOf(f, S) = g[S]
<1>1. PICK g : IsSum(g, f, S)
  BY SumExists
<1>2. S \in SUBSET S
  OBVIOUS
<1>3. QED
  BY <1>1, <1>2, SumOfPart

LEMMA SumOfReplace ==
  ASSUME NEW S, IsFiniteSet(S), NEW x \in S, NEW f \in [S -> Nat], NEW e \in [S -> Nat],
         \A y \in S : y # x => e[y] = f[y]
  PROVE  SumOf(e, S) = SumOf(f, S) - f[x] + e[x] /\ SumOf(e, S) \in Nat /\ SumOf(f, S) \in Nat
<1>1. PICK g : IsSum(g, f, S) /\ SumOf(f, S) = g[S]
  BY SumOfIs
<1>2. PICK h : IsSum(h, e, S) /\ SumOf(e, S) = h[S]
  BY SumOfIs
<1>3. h[S] = g[S] - f[x] + e[x] /\ g[S] \in Nat /\ h[S] \in Nat
  BY <1>1, <1>2, SumsReplace
<1>4. QED
  BY <1>1, <1>2, <1>3

LEMMA SumOfZero ==
  ASSUME NEW S, IsFiniteSet(S), NEW f \in [S -> Nat], \A x \in S : f[x] = 0
  PROVE  SumOf(f, S) = 0
<1>1. PICK g : IsSum(g, f, S) /\ SumOf(f, S) = g[S]
  BY SumOfIs
<1>2. QED
  BY <1>1, SumIsZero

\* What is left without a part.
LEMMA SumsDrop ==
  ASSUME NEW S, IsFiniteSet(S), NEW K \in SUBSET S, NEW f \in [S -> Nat], NEW e \in [S -> Nat],
         \A x \in S : e[x] = IF x \in K THEN 0 ELSE f[x],
         NEW g, IsSum(g, f, S), NEW h, IsSum(h, e, S)
  PROVE  \A s \in SUBSET S : g[s] = h[s] + g[s \cap K]
<1>1. \A s \in SUBSET S : g[s] \in Nat /\ g[s] = Sums(g, f, s)
  BY SumIs
<1>2. \A s \in SUBSET S : h[s] \in Nat /\ h[s] = Sums(h, e, s)
  BY SumIs
<1> DEFINE B == {s \in SUBSET S : g[s] # h[s] + g[s \cap K]}
<1>3. ASSUME B # {} PROVE FALSE
  <2>1. PICK s \in B : \A t \in B : Cardinality(s) <= Cardinality(t)
    <3> HIDE DEF B
    <3>1. B \in SUBSET (SUBSET S)
      BY DEF B
    <3>2. QED
      BY <1>3, <3>1, Smallest
  <2>2. s \in SUBSET S /\ g[s] # h[s] + g[s \cap K]
    BY <2>1
  <2>3. s # {}
    <3>1. CASE s = {}
      <4>1. s \cap K = {} /\ {} \in SUBSET S
        BY <3>1
      <4>2. g[{}] = 0 /\ h[{}] = 0
        BY <1>1, <1>2, <4>1 DEF Sums
      <4>3. QED
        BY <2>2, <3>1, <4>1, <4>2
    <3>2. QED
      BY <3>1
  <2> DEFINE x == First(s)
             t == s \ {x}
  <2>4. x \in s /\ x \in S /\ t \in SUBSET S /\ t \cap K \in SUBSET S /\ s \cap K \in SUBSET S
    BY <2>2, <2>3, FirstIs
  <2>5. Cardinality(t) = Cardinality(s) - 1 /\ Cardinality(s) \in Nat /\ Cardinality(t) \in Nat
    BY <2>2, <2>4, OneLess
  <2>6. g[s] = f[x] + g[t] /\ h[s] = e[x] + h[t]
    BY <1>1, <1>2, <2>2, <2>3 DEF Sums
  <2>7. x \in K => s \cap K \in SUBSET S /\ x \in s \cap K /\ (s \cap K) \ {x} = t \cap K
    BY <2>4
  <2>8. x \notin K => s \cap K = t \cap K
    BY <2>4
  <2> HIDE DEF x, t
  <2>9. g[t] = h[t] + g[t \cap K]
    <3>1. t \notin B
      <4> HIDE DEF B
      <4>1. QED
        BY <2>1, <2>5
    <3>2. QED
      BY <2>4, <3>1
  <2> HIDE DEF B
  <2>10. /\ g[t] \in Nat /\ h[t] \in Nat /\ g[t \cap K] \in Nat /\ f[x] \in Nat
         /\ e[x] = IF x \in K THEN 0 ELSE f[x]
    BY <1>1, <1>2, <2>4
  <2>11. CASE x \in K
    <3>1. g[s \cap K] = f[x] + g[t \cap K]
      <4>1. g[s \cap K] = f[x] + g[(s \cap K) \ {x}]
        BY <2>7, <2>11, SumLess
      <4>2. QED
        BY <2>7, <2>11, <4>1
    <3>2. QED
      BY <2>2, <2>6, <2>9, <2>10, <2>11, <3>1
  <2>12. CASE x \notin K
    <3>1. g[s \cap K] = g[t \cap K]
      BY <2>8, <2>12
    <3>2. e[x] = f[x]
      BY <2>10, <2>12
    <3>3. g[s] = h[s] + g[t \cap K]
      BY <2>6, <2>9, <2>10, <3>2
    <3>4. QED
      BY <2>2, <3>1, <3>3
  <2>13. QED
    BY <2>11, <2>12
<1>4. QED
  BY <1>3

LEMMA SumOfDrop ==
  ASSUME NEW S, IsFiniteSet(S), NEW K \in SUBSET S, NEW f \in [S -> Nat], NEW e \in [S -> Nat],
         \A x \in S : e[x] = IF x \in K THEN 0 ELSE f[x]
  PROVE  /\ SumOf(e, S) = SumOf(f, S) - SumOf(f, K)
         /\ SumOf(e, S) \in Nat /\ SumOf(f, S) \in Nat /\ SumOf(f, K) \in Nat
<1>1. PICK g : IsSum(g, f, S)
  BY SumExists
<1>2. PICK h : IsSum(h, e, S)
  BY SumExists
<1>3. S \in SUBSET S /\ S \cap K = K
  OBVIOUS
<1>4. SumOf(f, S) = g[S] /\ SumOf(f, K) = g[K]
  BY <1>1, <1>3, SumOfPart
<1>5. SumOf(e, S) = h[S]
  BY <1>2, <1>3, SumOfPart
<1>6. g[S] = h[S] + g[K]
  <2>1. g[S] = h[S] + g[S \cap K]
    BY <1>1, <1>2, <1>3, SumsDrop
  <2>2. QED
    BY <1>3, <2>1
<1>7. g[S] \in Nat /\ g[K] \in Nat
  BY <1>1, <1>3, SumIs
<1>8. h[S] \in Nat
  BY <1>2, <1>3, SumIs
<1>9. QED
  BY <1>4, <1>5, <1>6, <1>7, <1>8

\* What is bounded one by one.
LEMMA SumsBounded ==
  ASSUME NEW S, IsFiniteSet(S), NEW f \in [S -> Nat], NEW b \in Nat, \A x \in S : f[x] <= b,
         NEW g, IsSum(g, f, S)
  PROVE  \A s \in SUBSET S : g[s] <= Cardinality(s) * b
<1>1. \A s \in SUBSET S : g[s] \in Nat /\ g[s] = Sums(g, f, s)
  BY SumIs
<1> DEFINE B == {s \in SUBSET S : ~(g[s] <= Cardinality(s) * b)}
<1>2. ASSUME B # {} PROVE FALSE
  <2>1. PICK s \in B : \A t \in B : Cardinality(s) <= Cardinality(t)
    <3> HIDE DEF B
    <3>1. B \in SUBSET (SUBSET S)
      BY DEF B
    <3>2. QED
      BY <1>2, <3>1, Smallest
  <2>2. s \in SUBSET S /\ ~(g[s] <= Cardinality(s) * b)
    BY <2>1
  <2>3. s # {}
    <3>1. CASE s = {}
      <4>1. g[s] = 0 /\ Cardinality(s) = 0
        BY <1>1, <2>2, <3>1, FS_EmptySet DEF Sums
      <4>2. QED
        BY <2>2, <4>1
    <3>2. QED
      BY <3>1
  <2> DEFINE x == First(s)
             t == s \ {x}
  <2>4. x \in s /\ x \in S /\ t \in SUBSET S
    BY <2>2, <2>3, FirstIs
  <2>5. Cardinality(t) = Cardinality(s) - 1 /\ Cardinality(s) \in Nat /\ Cardinality(t) \in Nat
    BY <2>2, <2>4, OneLess
  <2>6. g[s] = f[x] + g[t]
    BY <1>1, <2>2, <2>3 DEF Sums
  <2> HIDE DEF x, t
  <2>7. g[t] <= Cardinality(t) * b
    <3>1. t \notin B
      <4> HIDE DEF B
      <4>1. QED
        BY <2>1, <2>5
    <3>2. QED
      BY <2>4, <3>1
  <2> HIDE DEF B
  <2>8. g[t] \in Nat /\ f[x] \in Nat /\ f[x] <= b
    BY <1>1, <2>4
  <2>9. ASSUME NEW n \in Nat, NEW m \in Nat, m = n - 1
        PROVE  n * b = m * b + b /\ m * b \in Nat
    <3>1. n = m + 1
      BY <2>9
    <3>2. QED
      BY <3>1
  <2>10. Cardinality(s) * b = Cardinality(t) * b + b /\ Cardinality(t) * b \in Nat
    BY <2>5, <2>9
  <2>11. g[s] <= Cardinality(t) * b + b
    <3> DEFINE p == Cardinality(t) * b
    <3>1. p \in Nat /\ g[t] <= p
      BY <2>7, <2>10
    <3> HIDE DEF p
    <3>2. g[s] <= p + b
      BY <2>6, <2>8, <3>1
    <3>3. QED
      BY <3>2 DEF p
  <2>12. QED
    BY <2>2, <2>10, <2>11
<1>3. QED
  BY <1>2

-------------------------------------------------------------------------------
(***************************************************************************)
(* UploadPipeline: the invariant.                                          *)
(***************************************************************************)
Job == [pc : {"idle", "quota", "undo"} \cup Working \cup Ended,
        file : Nat, media : {"upload", "normal"}, undone : Nat]
Row == [row : {"none", "live", "expired", "deleted"}, bytes : 0..2]

\* Before a file is inserted, and those that its request has yet to insert.
Before == {"assemble", "probe", "normalise", "scan", "insert"}
Unstarted == {"idle", "quota"}
Ahead(x) ==
  /\ x[2] >= req[x[1]].file
  /\ \/ req[x[1]].pc \in Unstarted \cup Before
     \/ req[x[1]].pc = "readback" /\ x[2] # req[x[1]].file

\* The file has been taken back, or never got so far.
TakenBack(x) ==
  \/ req[x[1]].pc = "failed"
  \/ req[x[1]].pc = "undo" /\ (x[2] <= req[x[1]].undone \/ x[2] >= req[x[1]].file)

RequestInv(r) ==
  /\ req[r].pc \in Unstarted => req[r].file = 1
  /\ req[r].undone # 0 => req[r].pc = "undo" /\ req[r].undone < req[r].file

IsLive(x) == image[x].row \in {"live", "expired"}

\* What is true of a file, wherever its request and its account are.
ItemInv(x) ==
  /\ Ahead(x) => image[x].row = "none" /\ (x \in store => BeingInserted(x))
  /\ BeingInserted(x) => x \in store
  /\ TakenBack(x) => ~(IsLive(x) /\ x \in store)
  /\ image[x].row = "expired" => x \notin store
  /\ IsLive(x) => image[x].bytes # 0
  /\ image[x].row = "live" => x \in store \/ x \in hollow
  /\ x \in store => IsLive(x) \/ BeingInserted(x) \/ x \in missed
  /\ x \in account.list => image[x].row # "none"
  /\ account.pc = "removing" /\ IsLive(x) /\ x \in store => x \in account.list \/ x \in missed

\* The files that have been admitted and may yet have a row.
Todo == {x \in Items : Ahead(x) /\ req[x[1]].pc \notin Unstarted}
FilesOf(L) == MapThenSumSet(LAMBDA r : Count[r], L)
LateFiles == FilesOf(late)
BoundInv ==
  /\ \A r \in late : req[r].pc \notin Unstarted
  /\ IsFiniteSet(late) /\ IsFiniteSet(Live \cup Todo)
  /\ Cardinality(Live \cup Todo) <= Limit + LateFiles

Inv ==
  /\ TypeOK /\ \A r \in Requests : RequestInv(r)
  /\ \A x \in Items : ItemInv(x)
  /\ BoundInv

\* Files and their requests.
LEMMA ItemsAre ==
  /\ \A x \in Items : /\ x[1] \in Requests /\ x[2] \in 1..Count[x[1]]
                      /\ x = <<x[1], x[2]>> /\ x[2] \in Nat /\ x[2] >= 1
  /\ \A r \in Requests : \A i \in 1..Count[r] :
       <<r, i>> \in Items /\ <<r, i>>[1] = r /\ <<r, i>>[2] = i
  /\ \A r \in Requests : ItemsOf(r) = {x \in Items : x[1] = r}
  /\ \A r \in Requests : Count[r] \in Nat /\ Count[r] >= 1
<1>1. ASSUME NEW x \in Items
      PROVE  /\ x[1] \in Requests /\ x[2] \in 1..Count[x[1]] /\ x = <<x[1], x[2]>>
             /\ x[2] \in Nat /\ x[2] >= 1
  <2>1. PICK r \in Requests : x \in {<<r, i>> : i \in 1..Count[r]}
    BY DEF Items
  <2>2. PICK i \in 1..Count[r] : x = <<r, i>>
    BY <2>1
  <2>3. QED
    BY <2>2
<1>2. ASSUME NEW r \in Requests, NEW i \in 1..Count[r] PROVE <<r, i>> \in Items
  BY DEF Items
<1>3. ASSUME NEW r \in Requests PROVE ItemsOf(r) = {x \in Items : x[1] = r}
  BY <1>1, <1>2 DEF ItemsOf
<1>4. \A r \in Requests : Count[r] \in Nat /\ Count[r] >= 1
  BY UploadsAssumption
<1>5. QED
  BY <1>1, <1>2, <1>3, <1>4

LEMMA JobsAre ==
  ASSUME TypeOK, NEW r \in Requests
  PROVE  /\ req[r] \in Job /\ req[r].file \in 1..Count[r] /\ req[r].undone < Count[r]
         /\ Current(r) \in Items /\ Current(r)[1] = r /\ Current(r)[2] = req[r].file
         /\ \A x \in Items : x[1] = r => (x = Current(r) <=> x[2] = req[r].file)
<1>1. req[r] \in Job /\ req[r].file \in 1..Count[r] /\ req[r].undone < Count[r]
  BY DEF TypeOK, Job
<1>2. Current(r) \in Items /\ Current(r)[1] = r /\ Current(r)[2] = req[r].file
  BY <1>1, ItemsAre DEF Current
<1>3. \A x \in Items : x[1] = r => (x = Current(r) <=> x[2] = req[r].file)
  BY <1>2, ItemsAre DEF Current
<1>4. QED
  BY <1>1, <1>2, <1>3

LEMMA Constants ==
  /\ NoRow \in Row /\ Deleted \in Row /\ NoRow.row = "none" /\ Deleted.row = "deleted"
  /\ Idle \in Job /\ Idle.pc = "idle" /\ Idle.file = 1 /\ Idle.undone = 0
BY DEF NoRow, Deleted, Row, Idle, Job

\* The sums of the model are sums in this sense.
LEMMA LateIs ==
  ASSUME NEW L, L \subseteq Requests, IsFiniteSet(L)
  PROVE  /\ [r \in L |-> Count[r]] \in [L -> Nat]
         /\ \E g : /\ IsSum(g, [r \in L |-> Count[r]], L)
                   /\ FilesOf(L) = g[L]
<1> DEFINE f == [r \in L |-> Count[r]]
           Adds(g) == g = [s \in SUBSET L |->
             IF s = {} THEN 0 ELSE LET x == CHOOSE x \in s : TRUE IN Count[x] + g[s \ {x}]]
           h == CHOOSE g : Adds(g)
<1>1. f \in [L -> Nat]
  BY ItemsAre
<1>2. \A g : IsSum(g, f, L) <=> Adds(g)
  <2>1. ASSUME NEW g, NEW s \in SUBSET L
        PROVE  Sums(g, f, s) =
          IF s = {} THEN 0 ELSE LET x == CHOOSE x \in s : TRUE IN Count[x] + g[s \ {x}]
    BY DEF Sums, First
  <2>2. QED
    BY <2>1 DEF IsSum
<1>3. \E g : IsSum(g, f, L)
  <2> HIDE DEF f
  <2>1. QED
    BY <1>1, SumExists
<1>4. FilesOf(L) = h[L]
  BY DEF FilesOf, MapThenSumSet, MapThenFoldSet
<1> HIDE DEF Adds
<1>5. Adds(h)
  BY <1>2, <1>3
<1>6. QED
  BY <1>1, <1>2, <1>4, <1>5

LEMMA UsedIs ==
  ASSUME TypeOK, IsFiniteSet(Live)
  PROVE  /\ [x \in Live |-> image[x].bytes] \in [Live -> Nat]
         /\ \E g : IsSum(g, [x \in Live |-> image[x].bytes], Live) /\ Used = g[Live]
<1> DEFINE f == [x \in Live |-> image[x].bytes]
           Adds(g) == g = [s \in SUBSET Live |->
             IF s = {} THEN 0 ELSE LET x == CHOOSE x \in s : TRUE IN image[x].bytes + g[s \ {x}]]
           h == CHOOSE g : Adds(g)
<1>1. f \in [Live -> Nat]
  BY DEF TypeOK, Live
<1>2. \A g : IsSum(g, f, Live) <=> Adds(g)
  <2>1. ASSUME NEW g, NEW s \in SUBSET Live
        PROVE  Sums(g, f, s) =
          IF s = {} THEN 0 ELSE LET x == CHOOSE x \in s : TRUE IN image[x].bytes + g[s \ {x}]
    BY DEF Sums, First
  <2>2. QED
    BY <2>1 DEF IsSum
<1>3. \E g : IsSum(g, f, Live)
  <2> HIDE DEF f
  <2>1. QED
    BY <1>1, SumExists
<1>4. Used = h[Live]
  BY DEF Used, MapThenSumSet, MapThenFoldSet
<1> HIDE DEF Adds
<1>5. Adds(h)
  BY <1>2, <1>3
<1>6. QED
  BY <1>1, <1>2, <1>4, <1>5

Grown == MapThenSumSet(LAMBDA x : image[x].bytes - 1, Live)
LEMMA GrownIs ==
  ASSUME TypeOK, IsFiniteSet(Live), \A x \in Live : image[x].bytes # 0
  PROVE  /\ [x \in Live |-> image[x].bytes - 1] \in [Live -> Nat]
         /\ \E g : IsSum(g, [x \in Live |-> image[x].bytes - 1], Live) /\ Grown = g[Live]
<1> DEFINE f == [x \in Live |-> image[x].bytes - 1]
           Value(g, s) ==
             IF s = {} THEN 0 ELSE LET x == CHOOSE x \in s : TRUE IN image[x].bytes - 1 + g[s \ {x}]
           Adds(g) == g = [s \in SUBSET Live |-> Value(g, s)]
           h == CHOOSE g : Adds(g)
<1>1. f \in [Live -> Nat]
  BY DEF TypeOK, Live
<1>2. \A g : IsSum(g, f, Live) <=> Adds(g)
  <2>1. ASSUME NEW g, NEW s \in SUBSET Live PROVE Sums(g, f, s) = Value(g, s)
    <3>1. CASE s # {}
      <4>1. First(s) \in Live
        BY <3>1, FirstIs
      <4>2. f[First(s)] = image[First(s)].bytes - 1
        BY <4>1
      <4>3. Sums(g, f, s) = f[First(s)] + g[s \ {First(s)}]
        BY <3>1 DEF Sums
      <4>4. Value(g, s) = image[First(s)].bytes - 1 + g[s \ {First(s)}]
        BY <3>1 DEF First
      <4> HIDE DEF f, Value
      <4>5. QED
        BY <4>2, <4>3, <4>4
    <3>2. CASE s = {}
      BY <3>2 DEF Sums
    <3>3. QED
      BY <3>1, <3>2
  <2> HIDE DEF f, Value
  <2>2. QED
    BY <2>1 DEF IsSum
<1>3. \E g : IsSum(g, f, Live)
  <2> HIDE DEF f
  <2>1. QED
    BY <1>1, SumExists
<1>4. Grown = h[Live]
  BY DEF Grown, MapThenSumSet, MapThenFoldSet
<1> HIDE DEF Adds
<1>5. Adds(h)
  BY <1>2, <1>3
<1>6. QED
  BY <1>1, <1>2, <1>4, <1>5

\* What the rows of a user come to, as a number of files and what they have grown by.
LEMMA UsedCounts ==
  ASSUME TypeOK, IsFiniteSet(Live), \A x \in Live : image[x].bytes # 0
  PROVE  Used = Grown + Cardinality(Live) /\ Grown \in Nat /\ Cardinality(Live) \in Nat
<1> DEFINE f == [x \in Live |-> image[x].bytes]
           e == [x \in Live |-> image[x].bytes - 1]
<1>1. f \in [Live -> Nat] /\ e \in [Live -> Nat]
  BY UsedIs, GrownIs
<1>2. PICK g : IsSum(g, f, Live) /\ Used = g[Live]
  BY UsedIs
<1>3. PICK h : IsSum(h, e, Live) /\ Grown = h[Live]
  BY GrownIs
<1>4. \A x \in Live : f[x] = e[x] + 1
  BY DEF TypeOK, Live
<1> HIDE DEF f, e
<1>5. Live \in SUBSET Live /\ \A s \in SUBSET Live : g[s] = h[s] + Cardinality(s)
  BY <1>1, <1>2, <1>3, <1>4, SumShift
<1>6. h \in [SUBSET Live -> Nat]
  BY <1>1, <1>3, SumType
<1>7. h[Live] \in Nat /\ Cardinality(Live) \in Nat
  BY <1>5, <1>6, FS_CardinalityType
<1>8. QED
  BY <1>2, <1>3, <1>5, <1>7

\* One request more that is late.
LEMMA LateGrows ==
  ASSUME NEW L, L \subseteq Requests, IsFiniteSet(L), NEW r \in Requests \ L
  PROVE  FilesOf(L \cup {r})
           = Count[r] + FilesOf(L)
<1> DEFINE S == L \cup {r}
           f == [q \in S |-> Count[q]]
           e == [q \in L |-> Count[q]]
<1>1. IsFiniteSet(S) /\ S \subseteq Requests /\ L \in SUBSET S /\ r \in S /\ S \ {r} = L
  BY FS_AddElement
<1>2. PICK g : IsSum(g, f, S) /\ FilesOf(S) = g[S]
  BY <1>1, LateIs
<1>3. PICK h : IsSum(h, e, L) /\ FilesOf(L) = h[L]
  BY LateIs
<1>4. f \in [S -> Nat] /\ e \in [L -> Nat] /\ f[r] = Count[r] /\ \A q \in L : e[q] = f[q]
  BY <1>1, LateIs
<1> HIDE DEF S, f, e
<1>5. h[L] = g[L]
  BY <1>1, <1>2, <1>3, <1>4, SumsAgree
<1>6. g[S] = f[r] + g[L]
  BY <1>1, <1>2, <1>4, SumLess
<1>7. QED
  BY <1>2, <1>3, <1>4, <1>5, <1>6 DEF S

LEMMA LateCounts ==
  ASSUME NEW L, L \subseteq Requests, IsFiniteSet(L)
  PROVE  FilesOf(L) \in Nat
<1> DEFINE e == [q \in L |-> Count[q]]
<1>1. PICK h : IsSum(h, e, L) /\ FilesOf(L) = h[L]
  BY LateIs
<1>2. e \in [L -> Nat]
  BY LateIs
<1> HIDE DEF e
<1>3. h \in [SUBSET L -> Nat]
  BY <1>1, <1>2, SumType
<1>4. QED
  BY <1>1, <1>3

LEMMA InitInv == Init => Inv
<1> SUFFICES ASSUME Init PROVE Inv
  OBVIOUS
<1>1. TypeOK
  <2>1. image \in [Items -> Row] /\ req \in [Requests -> Job]
    BY Constants DEF Init
  <2>2. \A r \in Requests : req[r].file \in 1..Count[r] /\ req[r].undone < Count[r]
    BY Constants, ItemsAre DEF Init
  <2>3. QED
    BY <2>1, <2>2 DEF Init, TypeOK, Row, Job
<1>2. ASSUME NEW r \in Requests PROVE RequestInv(r) /\ req[r].pc = "idle"
  BY Constants DEF Init, RequestInv
<1>3. ASSUME NEW x \in Items PROVE ItemInv(x) /\ ~IsLive(x)
  <2>1. image[x].row = "none" /\ req[x[1]].pc = "idle"
    BY Constants, ItemsAre DEF Init
  <2>2. QED
    BY <2>1, Constants DEF Init, ItemInv, IsLive, Ahead, TakenBack, BeingInserted
<1>4. BoundInv
  <2>1. Live = {}
    BY <1>3 DEF Live, IsLive
  <2>2. Todo = {}
    BY <1>2, ItemsAre DEF Todo, Unstarted
  <2>3. late = {} /\ IsFiniteSet({}) /\ Cardinality({}) = 0
    BY FS_EmptySet DEF Init
  <2>4. LateFiles \in Nat
    BY <2>3, LateCounts DEF LateFiles
  <2>5. QED
    BY <2>1, <2>2, <2>3, <2>4, UploadsAssumption DEF BoundInv
<1>5. QED
  BY <1>1, <1>2, <1>3, <1>4 DEF Inv

\* The invariant says what the properties do.
LEMMA InvShows ==
  ASSUME Inv
  PROVE  RowsAndMediaAgree /\ OverrunBounded /\ FailedRequestUndone
<1>1. /\ TypeOK /\ BoundInv /\ \A x \in Items : ItemInv(x)
  BY DEF Inv
<1>2. \A x \in Items : x \in Live <=> IsLive(x)
  BY DEF Live, IsLive
<1>3. LiveHasMedia
  <2>1. ASSUME NEW x \in Live \ store PROVE image[x].row = "expired" \/ x \in hollow
    <3>1. x \in Items /\ ItemInv(x) /\ IsLive(x) /\ x \notin store
      BY <1>1 DEF Live, IsLive
    <3>2. QED
      BY <3>1 DEF ItemInv, IsLive
  <2>2. QED
    BY <2>1 DEF LiveHasMedia
<1>4. DeadHasNoMedia
  <2>1. ASSUME NEW x \in store \ Live PROVE BeingInserted(x) \/ x \in missed
    <3>1. x \in Items /\ ItemInv(x) /\ ~IsLive(x) /\ x \in store
      BY <1>1 DEF Live, IsLive, TypeOK
    <3>2. QED
      BY <3>1 DEF ItemInv
  <2>2. QED
    BY <2>1 DEF DeadHasNoMedia
<1>5. FailedRequestUndone
  <2>1. ASSUME NEW r \in Requests, req[r].pc = "failed", NEW x \in ItemsOf(r)
        PROVE  ~(x \in Live /\ x \in store)
    <3>1. x \in Items /\ x[1] = r
      BY ItemsAre
    <3>2. QED
      BY <1>1, <1>2, <2>1, <3>1 DEF ItemInv, TakenBack
  <2>2. QED
    BY <2>1 DEF FailedRequestUndone
<1>6. OverrunBounded
  <2>1. IsFiniteSet(Live) /\ Cardinality(Live) <= Cardinality(Live \cup Todo)
    BY <1>1, FS_Subset DEF BoundInv
  <2>2. \A x \in Live : image[x].bytes # 0
    BY <1>1 DEF Live, ItemInv, IsLive
  <2>3. Used = Grown + Cardinality(Live) /\ Grown \in Nat /\ Cardinality(Live) \in Nat
    BY <1>1, <2>1, <2>2, UsedCounts
  <2>4. /\ IsFiniteSet(Live \cup Todo) /\ IsFiniteSet(late) /\ late \subseteq Requests
        /\ Cardinality(Live \cup Todo) <= Limit + LateFiles
    BY <1>1 DEF BoundInv, TypeOK
  <2>5. Cardinality(Live \cup Todo) \in Nat /\ LateFiles \in Nat /\ Limit \in Nat
    BY <2>4, FS_CardinalityType, LateCounts, UploadsAssumption DEF LateFiles
  <2>6. Used <= Limit + LateFiles + Grown
    BY <2>1, <2>3, <2>4, <2>5
  <2>7. QED
    BY <2>6 DEF OverrunBounded, LateFiles, FilesOf, Grown
<1>7. QED
  BY <1>1, <1>3, <1>4, <1>5, <1>6 DEF RowsAndMediaAgree

-------------------------------------------------------------------------------
(***************************************************************************)
(* What a step has to show.                                                *)
(***************************************************************************)
SameData(x) ==
  /\ image'[x] = image[x]
  /\ x \in store' <=> x \in store
  /\ x \in missed' <=> x \in missed
  /\ x \in hollow' <=> x \in hollow
  /\ account'.pc = account.pc /\ (x \in account'.list <=> x \in account.list)

\* A file that nothing happens to, whose request goes on, or gives up.
LEMMA ItemKeeps ==
  ASSUME NEW x \in Items, ItemInv(x), SameData(x),
         Ahead(x)' => Ahead(x), TakenBack(x)' => TakenBack(x) \/ Ahead(x),
         BeingInserted(x)' <=> BeingInserted(x)
  PROVE  ItemInv(x)' /\ (IsLive(x)' <=> IsLive(x))
BY DEF ItemInv, SameData, IsLive

\* A file of a request that did nothing.
LEMMA ItemRests ==
  ASSUME NEW x \in Items, req'[x[1]] = req[x[1]]
  PROVE  /\ Ahead(x)' <=> Ahead(x)
         /\ TakenBack(x)' <=> TakenBack(x)
         /\ BeingInserted(x)' <=> BeingInserted(x)
         /\ x \in Todo' <=> x \in Todo
BY DEF Ahead, TakenBack, BeingInserted, Current, Todo

\* No more rows than there were, or are to come.
LEMMA BoundKeeps ==
  ASSUME TypeOK, BoundInv, late' = late, \A r \in late : req'[r].pc \notin Unstarted,
         \A x \in Items : x \in Live' \/ x \in Todo' => x \in Live \/ x \in Todo
  PROVE  BoundInv'
<1>1. (Live \cup Todo)' \subseteq Live \cup Todo
  BY DEF Live, Todo
<1>2. IsFiniteSet(late) /\ IsFiniteSet(Live \cup Todo)
  BY DEF BoundInv
<1>3. /\ IsFiniteSet((Live \cup Todo)')
      /\ Cardinality((Live \cup Todo)') <= Cardinality(Live \cup Todo)
      /\ Cardinality((Live \cup Todo)') \in Nat /\ Cardinality(Live \cup Todo) \in Nat
  BY <1>1, <1>2, FS_Subset, FS_CardinalityType
<1>4. LateFiles' = LateFiles
  BY DEF LateFiles
<1>5. Cardinality(Live \cup Todo) <= Limit + LateFiles
  BY DEF BoundInv
<1>6. Limit \in Nat /\ LateFiles \in Nat
  <2>1. IsFiniteSet(late) /\ late \subseteq Requests
    BY DEF BoundInv, TypeOK
  <2>2. QED
    BY <2>1, LateCounts, UploadsAssumption DEF LateFiles
<1>7. Cardinality((Live \cup Todo)') <= Limit + LateFiles'
  BY <1>3, <1>4, <1>5, <1>6
<1>8. QED
  BY <1>2, <1>3, <1>7 DEF BoundInv

Typed ==
  /\ image \in [Items -> Row] /\ store \subseteq Items /\ temp \in [Items -> SUBSET {"upload", "normal"}]
  /\ account \in [user : BOOLEAN, pc : {"idle", "removing"}, list : SUBSET Items]
  /\ missed \subseteq Items /\ hollow \subseteq Items

\* A step of the handler of one request, that changes no file but its own.
LEMMA RequestMoves ==
  ASSUME Inv, NEW r \in Requests, NEW j \in Job, req' = [req EXCEPT ![r] = j],
         j.file \in 1..Count[r], j.undone < Count[r],
         j.pc \in Unstarted => req[r].pc \in Unstarted /\ j.file = 1,
         j.undone # 0 => j.pc = "undo" /\ j.undone < j.file,
         Typed', late' = late,
         \A x \in Items : x[1] # r => SameData(x),
         \A x \in Items : x[1] = r =>
           ItemInv(x)' /\ (IsLive(x)' \/ x \in Todo' => IsLive(x) \/ x \in Todo)
  PROVE  Inv'
<1>1. /\ TypeOK /\ BoundInv /\ \A x \in Items : ItemInv(x)
      /\ \A q \in Requests : RequestInv(q)
  BY DEF Inv
<1>2. req'[r] = j /\ \A q \in Requests : q # r => req'[q] = req[q]
  BY <1>1 DEF TypeOK
<1>3. TypeOK'
  <2>1. req' \in [Requests -> Job] /\ late' \subseteq Requests
    BY <1>1 DEF TypeOK, Job
  <2>2. \A q \in Requests : req'[q].file \in 1..Count[q] /\ req'[q].undone < Count[q]
    BY <1>1, <1>2 DEF TypeOK
  <2>3. QED
    BY <2>1, <2>2 DEF TypeOK, Typed, Job, Row
<1>4. ASSUME NEW q \in Requests PROVE RequestInv(q)'
  <2>1. CASE q = r
    BY <1>2, <2>1 DEF RequestInv
  <2>2. CASE q # r
    BY <1>1, <1>2, <2>2 DEF RequestInv
  <2>3. QED
    BY <2>1, <2>2
<1>5. ASSUME NEW x \in Items
      PROVE  ItemInv(x)' /\ (IsLive(x)' \/ x \in Todo' => IsLive(x) \/ x \in Todo)
  <2>1. CASE x[1] = r
    BY <2>1
  <2>2. CASE x[1] # r
    <3>1. req'[x[1]] = req[x[1]] /\ SameData(x)
      BY <1>2, <2>2, ItemsAre
    <3>2. QED
      BY <1>1, <3>1, ItemKeeps, ItemRests
  <2>3. QED
    BY <2>1, <2>2
<1>6. BoundInv'
  <2>1. ASSUME NEW q \in late PROVE req'[q].pc \notin Unstarted
    <3>1. q \in Requests /\ req[q].pc \notin Unstarted
      BY <1>1 DEF BoundInv, TypeOK
    <3>2. QED
      BY <1>2, <3>1
  <2>2. \A x \in Items : x \in Live' \/ x \in Todo' => x \in Live \/ x \in Todo
    BY <1>5 DEF Live, IsLive
  <2>3. QED
    BY <1>1, <2>1, <2>2, BoundKeeps
<1>7. QED
  BY <1>3, <1>4, <1>5, <1>6 DEF Inv

\* And one that changes nothing but where the handler is.
LEMMA RequestGoes ==
  ASSUME Inv, NEW r \in Requests, NEW j \in Job, req' = [req EXCEPT ![r] = j],
         j.file \in 1..Count[r], j.undone < Count[r],
         j.pc \in Unstarted => req[r].pc \in Unstarted /\ j.file = 1,
         j.undone # 0 => j.pc = "undo" /\ j.undone < j.file,
         temp' \in [Items -> SUBSET {"upload", "normal"}],
         UNCHANGED <<image, store, account, late, missed, hollow>>,
         \A x \in Items : x[1] = r =>
           /\ Ahead(x)' /\ j.pc \notin Unstarted => Ahead(x) /\ req[r].pc \notin Unstarted
           /\ Ahead(x)' => Ahead(x)
           /\ TakenBack(x)' => TakenBack(x) \/ Ahead(x)
           /\ BeingInserted(x)' <=> BeingInserted(x)
  PROVE  Inv'
<1>1. /\ TypeOK /\ \A x \in Items : ItemInv(x)
  BY DEF Inv
<1>2. req'[r] = j
  BY <1>1 DEF TypeOK
<1>3. Typed'
  BY <1>1 DEF TypeOK, Typed, Row
<1>4. \A x \in Items : SameData(x)
  BY DEF SameData
<1>5. ASSUME NEW x \in Items, x[1] = r
      PROVE  ItemInv(x)' /\ (IsLive(x)' \/ x \in Todo' => IsLive(x) \/ x \in Todo)
  <2>1. ItemInv(x)' /\ (IsLive(x)' <=> IsLive(x))
    BY <1>1, <1>4, <1>5, ItemKeeps
  <2>2. x \in Todo' => x \in Todo
    BY <1>2, <1>5 DEF Todo
  <2>3. QED
    BY <2>1, <2>2
<1>6. QED
  BY <1>3, <1>4, <1>5, RequestMoves

\* A step of the rest of the program.
LEMMA RowsMove ==
  ASSUME Inv, req' = req, late' = late, Typed',
         \A x \in Items : ItemInv(x)' /\ (IsLive(x)' => IsLive(x))
  PROVE  Inv'
<1>1. /\ TypeOK /\ BoundInv /\ \A q \in Requests : RequestInv(q)
  BY DEF Inv
<1>2. TypeOK'
  BY <1>1 DEF TypeOK, Typed, Row
<1>3. \A q \in Requests : RequestInv(q)'
  BY <1>1 DEF RequestInv
<1>4. BoundInv'
  <2>1. \A q \in late : req'[q].pc \notin Unstarted
    BY <1>1 DEF BoundInv
  <2>2. \A x \in Items : x \in Live' \/ x \in Todo' => x \in Live \/ x \in Todo
    BY ItemRests DEF Live, IsLive
  <2>3. QED
    BY <1>1, <2>1, <2>2, BoundKeeps
<1>5. QED
  BY <1>2, <1>3, <1>4 DEF Inv

-------------------------------------------------------------------------------
(***************************************************************************)
(* The handler of a request, step by step.                                 *)
(***************************************************************************)
\* What a file of a request is, told by where the handler is.
AheadAt(j, i) ==
  /\ i >= j.file
  /\ j.pc \in Unstarted \cup Before \/ (j.pc = "readback" /\ i # j.file)
TakenBackAt(j, i) ==
  j.pc = "failed" \/ (j.pc = "undo" /\ (i <= j.undone \/ i >= j.file))
InsertedAt(j, i) == j.pc = "insert" /\ i = j.file

LEMMA FlagsAre ==
  ASSUME TypeOK, NEW r \in Requests, NEW j \in Job, req' = [req EXCEPT ![r] = j],
         NEW x \in Items, x[1] = r
  PROVE  /\ Ahead(x) <=> AheadAt(req[r], x[2])
         /\ TakenBack(x) <=> TakenBackAt(req[r], x[2])
         /\ BeingInserted(x) <=> InsertedAt(req[r], x[2])
         /\ Ahead(x)' <=> AheadAt(j, x[2])
         /\ TakenBack(x)' <=> TakenBackAt(j, x[2])
         /\ BeingInserted(x)' <=> InsertedAt(j, x[2])
<1>1. req'[r] = j /\ x = <<r, x[2]>>
  BY ItemsAre DEF TypeOK
<1>2. /\ BeingInserted(x) <=> InsertedAt(req[r], x[2])
      /\ BeingInserted(x)' <=> InsertedAt(j, x[2])
  BY <1>1 DEF BeingInserted, Current, InsertedAt
<1>3. /\ Ahead(x) <=> AheadAt(req[r], x[2])
      /\ Ahead(x)' <=> AheadAt(j, x[2])
  BY <1>1 DEF Ahead, AheadAt
<1>4. /\ TakenBack(x) <=> TakenBackAt(req[r], x[2])
      /\ TakenBack(x)' <=> TakenBackAt(j, x[2])
  BY <1>1 DEF TakenBack, TakenBackAt
<1>5. QED
  BY <1>2, <1>3, <1>4

\* RequestGoes, in those words.
LEMMA HandlerGoes ==
  ASSUME Inv, NEW r \in Requests, NEW j \in Job, req' = [req EXCEPT ![r] = j],
         j.file \in 1..Count[r], j.undone < Count[r],
         j.pc \in Unstarted => req[r].pc \in Unstarted /\ j.file = 1,
         j.undone # 0 => j.pc = "undo" /\ j.undone < j.file,
         temp' \in [Items -> SUBSET {"upload", "normal"}],
         UNCHANGED <<image, store, account, late, missed, hollow>>,
         \A i \in 1..Count[r] :
           /\ AheadAt(j, i) => AheadAt(req[r], i) /\ (j.pc \in Unstarted \/ req[r].pc \notin Unstarted)
           /\ TakenBackAt(j, i) => TakenBackAt(req[r], i) \/ AheadAt(req[r], i)
           /\ InsertedAt(j, i) <=> InsertedAt(req[r], i)
  PROVE  Inv'
<1>1. TypeOK
  BY DEF Inv
<1>2. ASSUME NEW x \in Items, x[1] = r
      PROVE  /\ Ahead(x)' /\ j.pc \notin Unstarted => Ahead(x) /\ req[r].pc \notin Unstarted
             /\ Ahead(x)' => Ahead(x)
             /\ TakenBack(x)' => TakenBack(x) \/ Ahead(x)
             /\ BeingInserted(x)' <=> BeingInserted(x)
  <2>1. x[2] \in 1..Count[r]
    BY <1>2, ItemsAre
  <2>2. QED
    BY <1>1, <1>2, <2>1, FlagsAre
<1>3. QED
  BY <1>2, RequestGoes

LEMMA TempKeeps ==
  ASSUME TypeOK
  PROVE  /\ temp \in [Items -> SUBSET {"upload", "normal"}]
         /\ \A x \in Items : \A m \in SUBSET {"upload", "normal"} :
              [temp EXCEPT ![x] = m] \in [Items -> SUBSET {"upload", "normal"}]
         /\ \A x \in Items : \A m : Unlink(x, m) => temp' \in [Items -> SUBSET {"upload", "normal"}]
         /\ \A r : RemoveStaged(r) => temp' \in [Items -> SUBSET {"upload", "normal"}]
<1>1. temp \in [Items -> SUBSET {"upload", "normal"}]
  BY DEF TypeOK
<1>2. QED
  BY <1>1 DEF Unlink, RemoveStaged

LEMMA ReceiveStep == ASSUME Inv, NEW r \in Requests, Receive(r) PROVE Inv'
<1> DEFINE j == [req[r] EXCEPT !.pc = "quota"]
<1>1. TypeOK /\ RequestInv(r)
  BY DEF Inv
<1>2. req[r] \in Job /\ req[r].file \in 1..Count[r] /\ req[r].undone < Count[r]
  BY <1>1, JobsAre
<1>3. req[r].pc = "idle" /\ req' = [req EXCEPT ![r] = j]
  BY DEF Receive, Goto
<1>4. /\ j \in Job /\ j.pc = "quota" /\ j.file = req[r].file /\ j.undone = req[r].undone
  BY <1>2 DEF Job
<1>5. temp' \in [Items -> SUBSET {"upload", "normal"}]
  BY <1>1, TempKeeps DEF Receive
<1>6. req[r].file = 1 /\ req[r].undone = 0
  BY <1>1, <1>3 DEF RequestInv, Unstarted
<1>7. UNCHANGED <<image, store, account, late, missed, hollow>>
  BY DEF Receive
<1> HIDE DEF j
<1>8. \A i \in 1..Count[r] :
        /\ AheadAt(j, i) => AheadAt(req[r], i) /\ (j.pc \in Unstarted \/ req[r].pc \notin Unstarted)
        /\ TakenBackAt(j, i) => TakenBackAt(req[r], i) \/ AheadAt(req[r], i)
        /\ InsertedAt(j, i) <=> InsertedAt(req[r], i)
  BY <1>3, <1>4, <1>6 DEF AheadAt, TakenBackAt, InsertedAt, Unstarted
<1>9. QED
  BY <1>2, <1>3, <1>4, <1>5, <1>6, <1>7, <1>8, HandlerGoes DEF Unstarted

\* Where a handler is.
LEMMA HandlerIs ==
  ASSUME Inv, NEW r \in Requests
  PROVE  /\ TypeOK /\ req[r] \in Job
         /\ req[r].file \in 1..Count[r] /\ req[r].file \in Nat /\ req[r].file >= 1
         /\ req[r].undone < Count[r] /\ req[r].undone \in Nat
         /\ req[r].pc \in Unstarted => req[r].file = 1
         /\ req[r].pc # "undo" => req[r].undone = 0
         /\ req[r].undone # 0 => req[r].undone < req[r].file
         /\ Count[r] \in Nat /\ Count[r] >= 1 /\ 1 \in 1..Count[r]
<1>1. TypeOK /\ RequestInv(r)
  BY DEF Inv
<1>2. req[r] \in Job /\ req[r].file \in 1..Count[r] /\ req[r].undone < Count[r]
  BY <1>1, JobsAre
<1>3. Count[r] \in Nat /\ Count[r] >= 1
  BY ItemsAre
<1>4. QED
  BY <1>1, <1>2, <1>3 DEF RequestInv, Job

\* Where it is when it has ended, however it ended.
LEMMA EndIs ==
  ASSUME NEW pc \in Ended
  PROVE  LET j == [Idle EXCEPT !.pc = pc]
         IN  j \in Job /\ j.pc = pc /\ j.file = 1 /\ j.undone = 0
BY DEF Idle, Job

LEMMA RefuseStep == ASSUME Inv, NEW r \in Requests, Refuse(r) PROVE Inv'
<1> DEFINE j == [Idle EXCEPT !.pc = "failed"]
<1>1. req[r].pc = "quota" /\ req' = [req EXCEPT ![r] = j]
  BY DEF Refuse, Finish
<1>2. j \in Job /\ j.pc = "failed" /\ j.file = 1 /\ j.undone = 0
  BY EndIs DEF Ended
<1>3. temp' \in [Items -> SUBSET {"upload", "normal"}]
  BY HandlerIs, TempKeeps DEF Refuse
<1>4. UNCHANGED <<image, store, account, late, missed, hollow>>
  BY DEF Refuse
<1>5. req[r].file = 1 /\ 1 \in 1..Count[r] /\ 0 < Count[r]
  BY <1>1, HandlerIs DEF Unstarted
<1> HIDE DEF j
<1>6. \A i \in 1..Count[r] :
        /\ AheadAt(j, i) => AheadAt(req[r], i) /\ (j.pc \in Unstarted \/ req[r].pc \notin Unstarted)
        /\ TakenBackAt(j, i) => TakenBackAt(req[r], i) \/ AheadAt(req[r], i)
        /\ InsertedAt(j, i) <=> InsertedAt(req[r], i)
  BY <1>1, <1>2, <1>5, HandlerIs DEF AheadAt, TakenBackAt, InsertedAt, Unstarted, Before
<1>7. QED
  BY <1>1, <1>2, <1>3, <1>4, <1>5, <1>6, HandlerGoes DEF Unstarted

\* The steps on one file before its media is stored.
LEMMA Advances ==
  ASSUME Inv, NEW r \in Requests, NEW j \in Job, req' = [req EXCEPT ![r] = j],
         req[r].pc \in Before \ {"insert"}, j.pc \in (Before \ {"insert"}) \cup {"undo"},
         j.file = req[r].file, j.undone = req[r].undone,
         temp' \in [Items -> SUBSET {"upload", "normal"}],
         UNCHANGED <<image, store, account, late, missed, hollow>>
  PROVE  Inv'
<1>1. req[r].undone = 0
  BY HandlerIs DEF Before
<1>2. \A i \in 1..Count[r] :
        /\ AheadAt(j, i) => AheadAt(req[r], i) /\ (j.pc \in Unstarted \/ req[r].pc \notin Unstarted)
        /\ TakenBackAt(j, i) => TakenBackAt(req[r], i) \/ AheadAt(req[r], i)
        /\ InsertedAt(j, i) <=> InsertedAt(req[r], i)
  BY <1>1, HandlerIs DEF AheadAt, TakenBackAt, InsertedAt, Unstarted, Before
<1>3. j.pc \notin Unstarted /\ j.undone = 0
  BY <1>1 DEF Unstarted, Before
<1>4. QED
  BY <1>2, <1>3, HandlerIs, HandlerGoes

LEMMA FileStep ==
  ASSUME Inv, NEW r \in Requests,
         \/ Assemble(r) \/ FileRefused(r) \/ Probe(r) \/ Normalise(r) \/ NormaliseFails(r)
         \/ PutFails(r)
  PROVE  Inv'
<1>1. /\ TypeOK /\ req[r] \in Job /\ Current(r) \in Items
  BY HandlerIs, JobsAre
<1>2. /\ req[r].pc \in Before \ {"insert"}
      /\ UNCHANGED <<image, store, account, late, missed, hollow>>
  BY DEF Assemble, FileRefused, Probe, Normalise, NormaliseFails, PutFails, Before
<1>3. temp' \in [Items -> SUBSET {"upload", "normal"}]
  BY <1>1, TempKeeps DEF Assemble, FileRefused, Probe, Normalise, NormaliseFails, PutFails, Fail
<1>4. PICK pc \in (Before \ {"insert"}) \cup {"undo"}, m \in {"upload", "normal"} :
        req' = [req EXCEPT ![r].pc = pc, ![r].media = m]
  <2>1. ASSUME NEW pc, Goto(r, pc) PROVE req' = [req EXCEPT ![r].pc = pc, ![r].media = req[r].media]
    BY <1>1, <2>1 DEF Goto, TypeOK, Job
  <2>2. req[r].media \in {"upload", "normal"}
    BY <1>1 DEF Job
  <2>3. CASE Assemble(r)
    BY <2>1, <2>2, <2>3 DEF Assemble, Before
  <2>4. CASE FileRefused(r)
    BY <2>4 DEF FileRefused, Fail
  <2>5. CASE Probe(r)
    BY <2>1, <2>2, <2>5 DEF Probe, Before
  <2>6. CASE Normalise(r)
    BY <2>6 DEF Normalise, Before
  <2>7. CASE NormaliseFails(r)
    BY <2>1, <2>2, <2>7 DEF NormaliseFails, Before
  <2>8. CASE PutFails(r)
    BY <2>8 DEF PutFails, Fail
  <2>9. QED
    BY <2>3, <2>4, <2>5, <2>6, <2>7, <2>8
<1> DEFINE j == [req[r] EXCEPT !.pc = pc, !.media = m]
<1>5. req' = [req EXCEPT ![r] = j]
  BY <1>1, <1>4 DEF TypeOK
<1>6. j \in Job /\ j.pc = pc /\ j.file = req[r].file /\ j.undone = req[r].undone
  BY <1>1 DEF Job, Before, Working
<1> HIDE DEF j
<1>7. QED
  BY <1>2, <1>3, <1>5, <1>6, Advances

LEMMA ReadBackStep == ASSUME Inv, NEW r \in Requests, ReadBack(r) PROVE Inv'
<1>1. /\ req[r].pc = "readback" /\ req[r].undone = 0
      /\ UNCHANGED <<image, store, temp, account, late, missed, hollow>>
  BY HandlerIs DEF ReadBack
<1>2. temp' \in [Items -> SUBSET {"upload", "normal"}]
  BY <1>1, HandlerIs, TempKeeps
<1>3. CASE req[r].file < Count[r]
  <2>2. PICK pc \in {"assemble", "probe"} : pc = FirstStep(r)
    BY DEF FirstStep
  <2> DEFINE j == [req[r] EXCEPT !.pc = pc, !.file = req[r].file + 1]
  <2>1. req' = [req EXCEPT ![r] = j]
    BY <1>3, <2>2, HandlerIs DEF ReadBack, TypeOK
  <2>3. j \in Job /\ j.pc \in {"assemble", "probe"} /\ j.file = req[r].file + 1 /\ j.undone = 0
    <3>1. req[r] \in Job /\ req[r].file + 1 \in Nat /\ req[r].undone = 0
      BY <1>1, HandlerIs
    <3>2. pc \in {"idle", "quota", "undo"} \cup Working \cup Ended
      BY DEF Working
    <3>3. QED
      BY <3>1, <3>2 DEF Job
  <2> HIDE DEF j
  <2>4. \A i \in 1..Count[r] :
          /\ AheadAt(j, i) => AheadAt(req[r], i) /\ (j.pc \in Unstarted \/ req[r].pc \notin Unstarted)
          /\ TakenBackAt(j, i) => TakenBackAt(req[r], i) \/ AheadAt(req[r], i)
          /\ InsertedAt(j, i) <=> InsertedAt(req[r], i)
    BY <1>1, <2>3, HandlerIs DEF AheadAt, TakenBackAt, InsertedAt, Unstarted
  <2>5. j.file \in 1..Count[r] /\ j.undone < Count[r] /\ j.pc \notin Unstarted
    BY <1>3, <2>3, HandlerIs DEF Unstarted
  <2>6. QED
    BY <1>1, <1>2, <2>1, <2>3, <2>4, <2>5, HandlerGoes
<1>4. CASE ~(req[r].file < Count[r]) /\ Count[r] > 1
  <2> DEFINE j == [req[r] EXCEPT !.pc = "gallery"]
  <2>1. req' = [req EXCEPT ![r] = j]
    BY <1>4, HandlerIs DEF ReadBack, Goto, TypeOK
  <2>2. j \in Job /\ j.pc = "gallery" /\ j.file = req[r].file /\ j.undone = 0
    BY <1>1, HandlerIs DEF Job, Working
  <2> HIDE DEF j
  <2>3. \A i \in 1..Count[r] :
          /\ AheadAt(j, i) => AheadAt(req[r], i) /\ (j.pc \in Unstarted \/ req[r].pc \notin Unstarted)
          /\ TakenBackAt(j, i) => TakenBackAt(req[r], i) \/ AheadAt(req[r], i)
          /\ InsertedAt(j, i) <=> InsertedAt(req[r], i)
    BY <1>1, <2>2 DEF AheadAt, TakenBackAt, InsertedAt, Unstarted, Before
  <2>4. QED
    BY <1>1, <1>2, <2>1, <2>2, <2>3, HandlerIs, HandlerGoes DEF Unstarted
<1>5. CASE ~(req[r].file < Count[r]) /\ ~(Count[r] > 1)
  <2> DEFINE j == [Idle EXCEPT !.pc = "stored"]
  <2>1. req' = [req EXCEPT ![r] = j]
    BY <1>5 DEF ReadBack, Finish
  <2>2. j \in Job /\ j.pc = "stored" /\ j.file = 1 /\ j.undone = 0
    BY EndIs DEF Ended
  <2> HIDE DEF j
  <2>3. \A i \in 1..Count[r] :
          /\ AheadAt(j, i) => AheadAt(req[r], i) /\ (j.pc \in Unstarted \/ req[r].pc \notin Unstarted)
          /\ TakenBackAt(j, i) => TakenBackAt(req[r], i) \/ AheadAt(req[r], i)
          /\ InsertedAt(j, i) <=> InsertedAt(req[r], i)
    BY <1>1, <2>2 DEF AheadAt, TakenBackAt, InsertedAt, Unstarted, Before
  <2>4. QED
    BY <1>1, <1>2, <2>1, <2>2, <2>3, HandlerIs, HandlerGoes DEF Unstarted
<1>6. QED
  BY <1>3, <1>4, <1>5

\* The ends of a handler that took nothing back, or had nothing left to.
LEMMA Leaves ==
  ASSUME Inv, NEW r \in Requests, NEW pc \in Ended, Finish(r, pc),
         \/ req[r].pc \in {"quota", "gallery", "undo"} /\ pc \in {"stored", "broken"}
         \/ req[r].pc = "undo" /\ req[r].undone + 1 = req[r].file,
         UNCHANGED <<image, store, temp, account, late, missed, hollow>>
  PROVE  Inv'
<1> DEFINE j == [Idle EXCEPT !.pc = pc]
<1>1. req' = [req EXCEPT ![r] = j]
  BY DEF Finish
<1>2. j \in Job /\ j.pc = pc /\ j.file = 1 /\ j.undone = 0
  BY EndIs
<1>3. temp' \in [Items -> SUBSET {"upload", "normal"}]
  BY HandlerIs, TempKeeps
<1> HIDE DEF j
<1>4. \A i \in 1..Count[r] :
        /\ AheadAt(j, i) => AheadAt(req[r], i) /\ (j.pc \in Unstarted \/ req[r].pc \notin Unstarted)
        /\ TakenBackAt(j, i) => TakenBackAt(req[r], i) \/ AheadAt(req[r], i)
        /\ InsertedAt(j, i) <=> InsertedAt(req[r], i)
  <2>1. pc \notin Unstarted \cup Before \cup {"readback", "undo"}
    BY DEF Ended, Unstarted, Before
  <2>2. pc = "failed" => req[r].pc = "undo" /\ req[r].undone + 1 = req[r].file
    OBVIOUS
  <2>3. req[r].pc # "insert"
    OBVIOUS
  <2>4. ASSUME NEW i \in 1..Count[r] PROVE TakenBackAt(j, i) => TakenBackAt(req[r], i)
    BY <1>2, <2>1, <2>2, HandlerIs DEF TakenBackAt
  <2>5. QED
    BY <1>2, <2>1, <2>3, <2>4 DEF AheadAt, InsertedAt, Before
<1>5. j.pc \notin Unstarted
  BY <1>2 DEF Ended, Unstarted
<1>6. j.file \in 1..Count[r] /\ j.undone < Count[r]
  BY <1>2, HandlerIs
<1>7. QED
  BY <1>1, <1>2, <1>3, <1>4, <1>5, <1>6, HandlerGoes

LEMMA LeaveStep ==
  ASSUME Inv, NEW r \in Requests,
         Gallery(r) \/ Answer(r) \/ (r \in Chunked /\ Uncaught(r))
  PROVE  Inv'
<1>1. CASE Gallery(r)
  <2>1. "stored" \in Ended /\ Finish(r, "stored") /\ req[r].pc = "gallery"
    BY <1>1 DEF Gallery, Ended
  <2>2. UNCHANGED <<image, store, temp, account, late, missed, hollow>>
    BY <1>1 DEF Gallery
  <2>3. QED
    BY <2>1, <2>2, Leaves
<1>2. CASE Answer(r)
  <2>1. /\ "failed" \in Ended /\ Finish(r, "failed")
        /\ req[r].pc = "undo" /\ req[r].undone + 1 = req[r].file
    BY <1>2 DEF Answer, Ended
  <2>2. UNCHANGED <<image, store, temp, account, late, missed, hollow>>
    BY <1>2 DEF Answer
  <2>3. QED
    BY <2>1, <2>2, Leaves
<1>3. CASE r \in Chunked /\ Uncaught(r)
  <2>1. /\ "broken" \in Ended /\ Finish(r, "broken")
        /\ req[r].pc \in {"quota", "gallery", "undo"}
    BY <1>3 DEF Uncaught, Ended
  <2>2. UNCHANGED <<image, store, temp, account, late, missed, hollow>>
    BY <1>3 DEF Uncaught
  <2>3. QED
    BY <2>1, <2>2, Leaves
<1>4. QED
  BY <1>1, <1>2, <1>3

\* The media of a file is in the store before its row.
LEMMA PutStep == ASSUME Inv, NEW r \in Requests, Put(r) PROVE Inv'
<1> DEFINE j == [req[r] EXCEPT !.pc = "insert"]
<1>1. /\ TypeOK /\ req[r].pc = "scan" /\ req[r].undone = 0
      /\ store' = store \cup {Current(r)}
      /\ UNCHANGED <<image, account, late, missed, hollow>>
  BY HandlerIs DEF Put
<1>2. req' = [req EXCEPT ![r] = j]
  BY <1>1 DEF Put, Goto, TypeOK
<1>3. j \in Job /\ j.pc = "insert" /\ j.file = req[r].file /\ j.undone = 0
  BY <1>1, HandlerIs DEF Job, Working
<1>4. Current(r) \in Items /\ Current(r)[1] = r /\ Current(r)[2] = req[r].file
  BY <1>1, JobsAre
<1>5. Typed'
  <2>1. temp' \in [Items -> SUBSET {"upload", "normal"}]
    BY <1>1, <1>4, TempKeeps DEF Put
  <2>2. QED
    BY <1>1, <1>4, <2>1 DEF TypeOK, Typed, Row
<1>6. \A x \in Items : x[1] # r => SameData(x)
  BY <1>1, <1>4 DEF SameData
<1> HIDE DEF j
<1>7. ASSUME NEW x \in Items, x[1] = r
      PROVE  ItemInv(x)' /\ (IsLive(x)' \/ x \in Todo' => IsLive(x) \/ x \in Todo)
  <2>1. /\ Ahead(x) <=> AheadAt(req[r], x[2])
        /\ TakenBack(x) <=> TakenBackAt(req[r], x[2])
        /\ BeingInserted(x) <=> InsertedAt(req[r], x[2])
        /\ Ahead(x)' <=> AheadAt(j, x[2])
        /\ TakenBack(x)' <=> TakenBackAt(j, x[2])
        /\ BeingInserted(x)' <=> InsertedAt(j, x[2])
    BY <1>1, <1>2, <1>3, <1>7, FlagsAre
  <2>2. /\ Ahead(x)' <=> Ahead(x)
        /\ ~TakenBack(x)'
        /\ ~BeingInserted(x)
        /\ BeingInserted(x)' <=> x[2] = req[r].file
        /\ x[2] = req[r].file => Ahead(x)
    BY <1>1, <1>3, <2>1, HandlerIs DEF AheadAt, TakenBackAt, InsertedAt, Before, Unstarted
  <2>3. ItemInv(x)
    BY DEF Inv
  <2>4. x = Current(r) <=> x[2] = req[r].file
    BY <1>1, <1>7, JobsAre
  <2>5. ItemInv(x)'
    BY <1>1, <2>2, <2>3, <2>4 DEF ItemInv, IsLive
  <2>6. x \in Todo' => x \in Todo
    BY <1>1, <1>7, <2>2 DEF Todo, Unstarted
  <2>7. IsLive(x)' => IsLive(x)
    BY <1>1 DEF IsLive
  <2>8. QED
    BY <2>5, <2>6, <2>7
<1>8. QED
  BY <1>1, <1>2, <1>3, <1>5, <1>6, <1>7, HandlerIs, RequestMoves DEF Unstarted

LEMMA InsertStep == ASSUME Inv, NEW r \in Requests, Insert(r) PROVE Inv'
<1> DEFINE j == [req[r] EXCEPT !.pc = "readback", !.media = "upload"]
<1>1. /\ TypeOK /\ req[r].pc = "insert" /\ req[r].undone = 0
      /\ missed' = IF account.pc = "removing" THEN missed \cup {Current(r)} ELSE missed
      /\ UNCHANGED <<store, temp, account, late, hollow>>
  BY HandlerIs DEF Insert
<1>2. req' = [req EXCEPT ![r] = j]
  BY <1>1 DEF Insert, TypeOK
<1>3. j \in Job /\ j.pc = "readback" /\ j.file = req[r].file /\ j.undone = 0
  BY <1>1, HandlerIs DEF Job, Working
<1>4. Current(r) \in Items /\ Current(r)[1] = r /\ Current(r)[2] = req[r].file
  BY <1>1, JobsAre
<1>5. PICK n \in {1, 2} : image' = [image EXCEPT ![Current(r)] = [row |-> "live", bytes |-> n]]
  BY DEF Insert
<1>6. /\ image'[Current(r)].row = "live" /\ image'[Current(r)].bytes # 0
      /\ \A x \in Items : x # Current(r) => image'[x] = image[x]
      /\ image' \in [Items -> Row]
  <2>1. [row |-> "live", bytes |-> n] \in Row /\ image \in [Items -> Row]
    BY <1>1 DEF Row, TypeOK
  <2>2. QED
    BY <1>4, <1>5, <2>1
<1>7. Typed'
  BY <1>1, <1>4, <1>6 DEF TypeOK, Typed
<1>8. \A x \in Items : x[1] # r => SameData(x)
  BY <1>1, <1>4, <1>6 DEF SameData
<1> HIDE DEF j
<1>9. ASSUME NEW x \in Items, x[1] = r
      PROVE  ItemInv(x)' /\ (IsLive(x)' \/ x \in Todo' => IsLive(x) \/ x \in Todo)
  <2>1. /\ Ahead(x) <=> AheadAt(req[r], x[2])
        /\ TakenBack(x) <=> TakenBackAt(req[r], x[2])
        /\ BeingInserted(x) <=> InsertedAt(req[r], x[2])
        /\ Ahead(x)' <=> AheadAt(j, x[2])
        /\ TakenBack(x)' <=> TakenBackAt(j, x[2])
        /\ BeingInserted(x)' <=> InsertedAt(j, x[2])
    BY <1>1, <1>2, <1>3, <1>9, FlagsAre
  <2>2. /\ Ahead(x)' <=> Ahead(x) /\ x[2] # req[r].file
        /\ ~TakenBack(x)'
        /\ ~BeingInserted(x)'
        /\ BeingInserted(x) <=> x[2] = req[r].file
        /\ x[2] = req[r].file => Ahead(x)
    BY <1>1, <1>3, <2>1, HandlerIs DEF AheadAt, TakenBackAt, InsertedAt, Before, Unstarted
  <2>3. ItemInv(x)
    BY DEF Inv
  <2>4. x = Current(r) <=> x[2] = req[r].file
    BY <1>1, <1>9, JobsAre
  <2>5. CASE x = Current(r)
    <3>1. x \in store /\ ~Ahead(x)' /\ image'[x].row = "live" /\ image'[x].bytes # 0
      BY <1>6, <2>2, <2>3, <2>4, <2>5 DEF ItemInv
    <3>2. account.pc = "removing" => x \in missed'
      BY <1>1, <2>5
    <3>3. ItemInv(x)'
      BY <1>1, <2>2, <3>1, <3>2 DEF ItemInv, IsLive
    <3>4. x \in Todo
      BY <1>1, <1>9, <2>2, <2>4, <2>5 DEF Todo, Unstarted
    <3>5. QED
      BY <3>3, <3>4
  <2>6. CASE x # Current(r)
    <3>1. SameData(x)
      BY <1>1, <1>6, <2>6 DEF SameData
    <3>2. ItemInv(x)' /\ (IsLive(x)' <=> IsLive(x))
      BY <2>2, <2>3, <2>4, <2>6, <3>1, ItemKeeps
    <3>3. x \in Todo' => x \in Todo
      BY <1>1, <1>9, <2>2 DEF Todo, Unstarted
    <3>4. QED
      BY <3>2, <3>3
  <2>7. QED
    BY <2>5, <2>6
<1>10. QED
  BY <1>1, <1>2, <1>3, <1>7, <1>8, <1>9, HandlerIs, RequestMoves DEF Unstarted

\* A failure once the media is stored removes it.
LEMMA StoredFailsStep ==
  ASSUME Inv, NEW r \in Requests, InsertFails(r) \/ ReadBackFails(r)
  PROVE  Inv'
<1> DEFINE j == [req[r] EXCEPT !.pc = "undo", !.media = "upload"]
<1>1. /\ TypeOK /\ req[r].pc \in {"insert", "readback"} /\ req[r].undone = 0
      /\ store' = store \ {Current(r)}
      /\ hollow' = hollow \/ (req[r].pc = "readback" /\ hollow' = hollow \cup ({Current(r)} \cap Live))
      /\ UNCHANGED <<image, account, late, missed>>
  BY HandlerIs DEF InsertFails, ReadBackFails
<1>2. req' = [req EXCEPT ![r] = j]
  BY <1>1 DEF InsertFails, ReadBackFails, Fail, TypeOK
<1>3. j \in Job /\ j.pc = "undo" /\ j.file = req[r].file /\ j.undone = 0
  BY <1>1, HandlerIs DEF Job, Working
<1>4. Current(r) \in Items /\ Current(r)[1] = r /\ Current(r)[2] = req[r].file
  BY <1>1, JobsAre
<1>5. Typed'
  <2>1. temp' \in [Items -> SUBSET {"upload", "normal"}]
    BY <1>1, TempKeeps DEF InsertFails, ReadBackFails, Fail
  <2>2. QED
    BY <1>1, <1>4, <2>1 DEF TypeOK, Typed, Row
<1>6. \A x \in Items : x # Current(r) => SameData(x)
  BY <1>1 DEF SameData
<1> HIDE DEF j
<1>7. ASSUME NEW x \in Items, x[1] = r
      PROVE  ItemInv(x)' /\ (IsLive(x)' \/ x \in Todo' => IsLive(x) \/ x \in Todo)
  <2>1. /\ Ahead(x) <=> AheadAt(req[r], x[2])
        /\ TakenBack(x) <=> TakenBackAt(req[r], x[2])
        /\ BeingInserted(x) <=> InsertedAt(req[r], x[2])
        /\ Ahead(x)' <=> AheadAt(j, x[2])
        /\ TakenBack(x)' <=> TakenBackAt(j, x[2])
        /\ BeingInserted(x)' <=> InsertedAt(j, x[2])
    BY <1>1, <1>2, <1>3, <1>7, FlagsAre
  <2>0. x[2] \in Nat /\ x[2] >= 1
    BY ItemsAre
  <2>2. /\ ~Ahead(x)' /\ ~BeingInserted(x)'
        /\ x[2] # req[r].file => (TakenBack(x)' => Ahead(x)) /\ ~BeingInserted(x)
    BY <1>1, <1>3, <2>0, <2>1, HandlerIs
    DEF AheadAt, TakenBackAt, InsertedAt, Before, Unstarted
  <2>3. ItemInv(x)
    BY DEF Inv
  <2>4. x = Current(r) <=> x[2] = req[r].file
    BY <1>1, <1>7, JobsAre
  <2>5. x \notin Todo'
    BY <2>2 DEF Todo
  <2>6. ItemInv(x)'
    <3>1. CASE x # Current(r)
      BY <1>6, <2>2, <2>3, <2>4, <3>1, ItemKeeps
    <3>2. CASE x = Current(r)
      <4>1. x \notin store' /\ (x \in hollow => x \in hollow')
        BY <1>1, <3>2
      <4>2. image[x].row = "live" => x \in hollow'
        <5>1. CASE req[r].pc = "insert"
          <6>1. Ahead(x)
            BY <2>1, <2>4, <3>2, <5>1, HandlerIs DEF AheadAt, Before
          <6>2. QED
            BY <2>3, <6>1 DEF ItemInv
        <5>2. CASE req[r].pc = "readback"
          <6>1. hollow' = hollow \cup ({x} \cap Live)
            BY <3>2, <5>2 DEF InsertFails, ReadBackFails
          <6>2. QED
            BY <6>1 DEF Live
        <5>3. QED
          BY <1>1, <5>1, <5>2
      <4>3. QED
        BY <1>1, <2>2, <2>3, <4>1, <4>2 DEF ItemInv, IsLive
    <3>3. QED
      BY <3>1, <3>2
  <2>7. IsLive(x)' <=> IsLive(x)
    BY <1>1 DEF IsLive
  <2>8. QED
    BY <2>5, <2>6, <2>7
<1>8. \A x \in Items : x[1] # r => SameData(x)
  BY <1>4, <1>6
<1>9. QED
  BY <1>1, <1>2, <1>3, <1>5, <1>7, <1>8, HandlerIs, RequestMoves DEF Unstarted

\* The deletion of one file, whoever asks for it.
LEMMA TakenDown ==
  ASSUME TypeOK, NEW y \in Items, TakeDown(y)
  PROVE  /\ image'[y].row = "deleted" /\ y \notin store' /\ y \notin missed' /\ y \notin hollow'
         /\ image' \in [Items -> Row]
         /\ store' \subseteq Items /\ missed' \subseteq Items /\ hollow' \subseteq Items
         /\ \A x \in Items : x # y =>
              /\ image'[x] = image[x] /\ (x \in store' <=> x \in store)
              /\ (x \in missed' <=> x \in missed) /\ (x \in hollow' <=> x \in hollow)
BY Constants DEF TakeDown, TypeOK, Row

LEMMA UndoStep == ASSUME Inv, NEW r \in Requests, Undo(r) PROVE Inv'
<1> DEFINE j == [req[r] EXCEPT !.undone = req[r].undone + 1]
           y == <<r, req[r].undone + 1>>
<1>1. /\ TypeOK /\ req[r].pc = "undo" /\ req[r].undone + 1 < req[r].file
      /\ TakeDown(y) /\ UNCHANGED <<temp, account, late>>
  BY HandlerIs DEF Undo
<1>2. req' = [req EXCEPT ![r] = j]
  BY <1>1 DEF Undo, TypeOK
<1>3. j \in Job /\ j.pc = "undo" /\ j.file = req[r].file /\ j.undone = req[r].undone + 1
  BY <1>1, HandlerIs DEF Job
<1>4. y \in Items /\ y[1] = r /\ y[2] = req[r].undone + 1
  BY <1>1, HandlerIs, ItemsAre
<1> HIDE DEF y
<1>5. /\ image'[y].row = "deleted" /\ y \notin store' /\ y \notin missed' /\ y \notin hollow'
      /\ image' \in [Items -> Row]
      /\ store' \subseteq Items /\ missed' \subseteq Items /\ hollow' \subseteq Items
      /\ \A x \in Items : x # y =>
           /\ image'[x] = image[x] /\ (x \in store' <=> x \in store)
           /\ (x \in missed' <=> x \in missed) /\ (x \in hollow' <=> x \in hollow)
  BY <1>1, <1>4, TakenDown
<1>6. Typed'
  BY <1>1, <1>5 DEF TypeOK, Typed
<1>7. \A x \in Items : x # y => SameData(x)
  BY <1>1, <1>5 DEF SameData
<1> HIDE DEF j
<1>8. ASSUME NEW x \in Items, x[1] = r
      PROVE  ItemInv(x)' /\ (IsLive(x)' \/ x \in Todo' => IsLive(x) \/ x \in Todo)
  <2>1. /\ Ahead(x) <=> AheadAt(req[r], x[2])
        /\ TakenBack(x) <=> TakenBackAt(req[r], x[2])
        /\ BeingInserted(x) <=> InsertedAt(req[r], x[2])
        /\ Ahead(x)' <=> AheadAt(j, x[2])
        /\ TakenBack(x)' <=> TakenBackAt(j, x[2])
        /\ BeingInserted(x)' <=> InsertedAt(j, x[2])
    BY <1>1, <1>2, <1>3, <1>8, FlagsAre
  <2>2. x[2] \in Nat /\ x = <<r, x[2]>>
    BY <1>8, ItemsAre
  <2>3. /\ ~Ahead(x)' /\ ~BeingInserted(x)' /\ ~BeingInserted(x)
        /\ TakenBack(x)' => TakenBack(x) \/ x[2] = req[r].undone + 1
    BY <1>1, <1>3, <2>1, <2>2, HandlerIs
    DEF AheadAt, TakenBackAt, InsertedAt, Before, Unstarted
  <2>4. x = y <=> x[2] = req[r].undone + 1
    BY <1>4, <2>2 DEF y
  <2>5. ItemInv(x)
    BY DEF Inv
  <2>6. CASE x = y
    <3>1. ItemInv(x)' /\ ~IsLive(x)'
      BY <1>5, <2>3, <2>6 DEF ItemInv, IsLive
    <3>2. QED
      BY <2>3, <3>1 DEF Todo
  <2>7. CASE x # y
    BY <1>7, <2>3, <2>4, <2>5, <2>7, ItemKeeps DEF Todo
  <2>8. QED
    BY <2>6, <2>7
<1>9. \A x \in Items : x[1] # r => SameData(x)
  BY <1>4, <1>7
<1>10. j.file \in 1..Count[r] /\ j.undone < Count[r] /\ j.undone < j.file
  BY <1>1, <1>3, HandlerIs
<1>11. QED
  BY <1>1, <1>2, <1>3, <1>6, <1>8, <1>9, <1>10, RequestMoves DEF Unstarted

-------------------------------------------------------------------------------
(***************************************************************************)
(* Deletions.                                                              *)
(***************************************************************************)
\* Where the requests are does not change.
LEMMA FlagsRest ==
  ASSUME req' = req, NEW x \in Items
  PROVE  /\ Ahead(x)' <=> Ahead(x)
         /\ TakenBack(x)' <=> TakenBack(x)
         /\ BeingInserted(x)' <=> BeingInserted(x)
BY ItemRests

\* A file that has a row is behind the handler of its request.
LEMMA RowIs ==
  ASSUME Inv, NEW x \in Items, image[x].row # "none"
  PROVE  ItemInv(x) /\ ~Ahead(x) /\ ~BeingInserted(x)
<1>1. ItemInv(x) /\ TypeOK
  BY DEF Inv
<1>2. ~Ahead(x)
  BY <1>1 DEF ItemInv
<1>3. ASSUME BeingInserted(x) PROVE FALSE
  <2>1. x = <<x[1], req[x[1]].file>> /\ req[x[1]].pc = "insert" /\ x[1] \in Requests
    BY <1>3, ItemsAre DEF BeingInserted, Current
  <2>2. x[2] = req[x[1]].file /\ x[2] \in Nat
    BY <2>1, ItemsAre
  <2>3. Ahead(x)
    BY <2>1, <2>2 DEF Ahead, Before
  <2>4. QED
    BY <1>2, <2>3
<1>4. QED
  BY <1>1, <1>2, <1>3

LEMMA DeleteImageStep == ASSUME Inv, NEW y \in Items, DeleteImage(y) PROVE Inv'
<1>1. /\ TypeOK /\ y \in Live /\ TakeDown(y)
      /\ temp' = temp /\ req' = req /\ account' = account /\ late' = late
  BY DEF DeleteImage, Inv
<1>2. /\ image'[y].row = "deleted" /\ y \notin store' /\ y \notin missed' /\ y \notin hollow'
      /\ image' \in [Items -> Row]
      /\ store' \subseteq Items /\ missed' \subseteq Items /\ hollow' \subseteq Items
      /\ \A x \in Items : x # y =>
           /\ image'[x] = image[x] /\ (x \in store' <=> x \in store)
           /\ (x \in missed' <=> x \in missed) /\ (x \in hollow' <=> x \in hollow)
  BY <1>1, TakenDown
<1>3. Typed'
  BY <1>1, <1>2 DEF TypeOK, Typed
<1>4. ASSUME NEW x \in Items PROVE ItemInv(x)' /\ (IsLive(x)' => IsLive(x))
  <2>1. CASE x = y
    <3>1. ~Ahead(x) /\ ~BeingInserted(x)
      BY <1>1, <2>1, RowIs DEF Live
    <3>2. ItemInv(x)' /\ ~IsLive(x)'
      BY <1>1, <1>2, <2>1, <3>1, FlagsRest DEF ItemInv, IsLive
    <3>3. QED
      BY <3>2
  <2>2. CASE x # y
    <3>1. SameData(x) /\ ItemInv(x)
      BY <1>1, <1>2, <2>2 DEF SameData, Inv
    <3>2. QED
      BY <1>1, <3>1, FlagsRest, ItemKeeps
  <2>3. QED
    BY <2>1, <2>2
<1>5. QED
  BY <1>1, <1>3, <1>4, RowsMove

LEMMA PurgeStep == ASSUME Inv, NEW y \in Items, Purge(y) PROVE Inv'
<1>1. /\ TypeOK /\ y \in Live /\ image' = [image EXCEPT ![y].row = "expired"]
      /\ store' = store \ {y} /\ missed' = missed \ {y} /\ hollow' = hollow \ {y}
      /\ temp' = temp /\ req' = req /\ account' = account /\ late' = late
  BY DEF Purge, Inv
<1>2. /\ image'[y].row = "expired" /\ image'[y].bytes = image[y].bytes
      /\ \A x \in Items : x # y => image'[x] = image[x]
      /\ image' \in [Items -> Row]
  BY <1>1 DEF TypeOK, Row
<1>3. Typed'
  BY <1>1, <1>2 DEF TypeOK, Typed
<1>4. ASSUME NEW x \in Items PROVE ItemInv(x)' /\ (IsLive(x)' => IsLive(x))
  <2>1. CASE x = y
    <3>1. IsLive(x) /\ ItemInv(x) /\ ~Ahead(x) /\ ~BeingInserted(x)
      BY <1>1, <2>1, RowIs DEF Live, IsLive
    <3>2. ItemInv(x)'
      BY <1>1, <1>2, <2>1, <3>1, FlagsRest DEF ItemInv, IsLive
    <3>3. QED
      BY <3>1, <3>2
  <2>2. CASE x # y
    <3>1. SameData(x) /\ ItemInv(x)
      BY <1>1, <1>2, <2>2 DEF SameData, Inv
    <3>2. QED
      BY <1>1, <3>1, FlagsRest, ItemKeeps
  <2>3. QED
    BY <2>1, <2>2
<1>5. QED
  BY <1>1, <1>3, <1>4, RowsMove

LEMMA MarkPurgedStep == ASSUME Inv, NEW y \in Items, MarkPurged(y) PROVE Inv'
<1>1. /\ TypeOK /\ image[y].row = "expired" /\ image' = [image EXCEPT ![y] = Deleted]
      /\ UNCHANGED <<store, temp, req, account, late, missed, hollow>>
  BY DEF MarkPurged, Inv
<1>2. /\ image'[y].row = "deleted"
      /\ \A x \in Items : x # y => image'[x] = image[x]
      /\ image' \in [Items -> Row]
  BY <1>1, Constants DEF TypeOK, Row
<1>3. Typed'
  BY <1>1, <1>2 DEF TypeOK, Typed
<1>4. ASSUME NEW x \in Items PROVE ItemInv(x)' /\ (IsLive(x)' => IsLive(x))
  <2>1. CASE x = y
    <3>1. ItemInv(x) /\ ~Ahead(x) /\ ~BeingInserted(x)
      BY <1>1, <2>1, RowIs
    <3>2. ItemInv(x)' /\ ~IsLive(x)'
      BY <1>1, <1>2, <2>1, <3>1, FlagsRest DEF ItemInv, IsLive
    <3>3. QED
      BY <3>2
  <2>2. CASE x # y
    <3>1. SameData(x) /\ ItemInv(x)
      BY <1>1, <1>2, <2>2 DEF SameData, Inv
    <3>2. QED
      BY <1>1, <3>1, FlagsRest, ItemKeeps
  <2>3. QED
    BY <2>1, <2>2
<1>5. QED
  BY <1>1, <1>3, <1>4, RowsMove

LEMMA DeleteAccountStep == ASSUME Inv, DeleteAccount PROVE Inv'
<1>1. /\ TypeOK /\ account' = [account EXCEPT !.pc = "removing", !.list = Live]
      /\ missed' = missed \ Live
      /\ UNCHANGED <<image, store, temp, req, late, hollow>>
  BY DEF DeleteAccount, Inv
<1>2. account'.pc = "removing" /\ account'.list = Live /\ Live \subseteq Items
  BY <1>1 DEF TypeOK, Live
<1>3. Typed'
  BY <1>1, <1>2 DEF TypeOK, Typed, Row
<1>4. ASSUME NEW x \in Items PROVE ItemInv(x)' /\ (IsLive(x)' => IsLive(x))
  <2>1. ItemInv(x) /\ (IsLive(x)' <=> IsLive(x)) /\ (IsLive(x) <=> x \in Live)
    BY <1>1 DEF Inv, IsLive, Live
  <2>2. x \in account'.list => image[x].row # "none"
    BY <1>2, <2>1 DEF IsLive
  <2>3. ItemInv(x)'
    BY <1>1, <1>2, <2>1, <2>2, FlagsRest DEF ItemInv
  <2>4. QED
    BY <2>1, <2>3
<1>5. QED
  BY <1>1, <1>3, <1>4, RowsMove

LEMMA RemoveListedStep == ASSUME Inv, NEW y \in Items, RemoveListed(y) PROVE Inv'
<1>1. /\ TypeOK /\ account.pc = "removing" /\ y \in account.list
      /\ account' = [account EXCEPT !.list = account.list \ {y}]
      /\ store' = store \ {y} /\ hollow' = hollow \cup ({y} \cap Live)
      /\ UNCHANGED <<image, temp, req, late, missed>>
  BY DEF RemoveListed, Inv
<1>2. account'.pc = "removing" /\ account'.list = account.list \ {y}
  BY <1>1 DEF TypeOK
<1>3. Typed'
  BY <1>1 DEF TypeOK, Typed, Row
<1>4. ASSUME NEW x \in Items PROVE ItemInv(x)' /\ (IsLive(x)' => IsLive(x))
  <2>1. ItemInv(x) /\ (IsLive(x)' <=> IsLive(x)) /\ (IsLive(x) <=> x \in Live)
    BY <1>1 DEF Inv, IsLive, Live
  <2>2. CASE x = y
    <3>1. image[x].row # "none"
      BY <1>1, <2>1, <2>2 DEF ItemInv
    <3>2. ~Ahead(x) /\ ~BeingInserted(x)
      BY <3>1, RowIs
    <3>3. x \notin store' /\ (IsLive(x) => x \in hollow')
      BY <1>1, <2>1, <2>2
    <3>4. ItemInv(x)'
      BY <1>1, <2>1, <3>1, <3>2, <3>3, FlagsRest DEF ItemInv, IsLive
    <3>5. QED
      BY <2>1, <3>4
  <2>3. CASE x # y
    <3>1. SameData(x)
      BY <1>1, <1>2, <2>3 DEF SameData
    <3>2. QED
      BY <1>1, <2>1, <3>1, FlagsRest, ItemKeeps
  <2>4. QED
    BY <2>2, <2>3
<1>5. QED
  BY <1>1, <1>3, <1>4, RowsMove

LEMMA DeleteAccountFailsStep == ASSUME Inv, DeleteAccountFails PROVE Inv'
<1>1. /\ TypeOK /\ account' = [account EXCEPT !.pc = "idle", !.list = {}]
      /\ UNCHANGED <<image, store, temp, req, late, missed, hollow>>
  BY DEF DeleteAccountFails, Inv
<1>2. account'.pc = "idle" /\ account'.list = {}
  BY <1>1 DEF TypeOK
<1>3. Typed'
  BY <1>1 DEF TypeOK, Typed, Row
<1>4. ASSUME NEW x \in Items PROVE ItemInv(x)' /\ (IsLive(x)' => IsLive(x))
  <2>1. ItemInv(x) /\ (IsLive(x)' <=> IsLive(x))
    BY <1>1 DEF Inv, IsLive
  <2>2. ItemInv(x)'
    BY <1>1, <1>2, <2>1, FlagsRest DEF ItemInv
  <2>3. QED
    BY <2>1, <2>2
<1>5. QED
  BY <1>1, <1>3, <1>4, RowsMove

LEMMA CommitDeletionStep == ASSUME Inv, CommitDeletion PROVE Inv'
<1>1. /\ TypeOK /\ account.pc = "removing" /\ account.list = {}
      /\ image' = [x \in Items |-> IF x \in Live THEN Deleted ELSE image[x]]
      /\ account' = [user |-> FALSE, pc |-> "idle", list |-> {}]
      /\ hollow' = hollow \ Live
      /\ UNCHANGED <<store, temp, req, late, missed>>
  BY DEF CommitDeletion, CommitReady, Inv
<1>2. image' \in [Items -> Row]
  BY <1>1, Constants DEF TypeOK, Row
<1>3. Typed'
  BY <1>1, <1>2 DEF TypeOK, Typed
<1>4. ASSUME NEW x \in Items PROVE ItemInv(x)' /\ (IsLive(x)' => IsLive(x))
  <2>1. ItemInv(x) /\ (IsLive(x) <=> x \in Live)
    BY DEF Inv, IsLive, Live
  <2>2. CASE x \in Live
    <3>1. image'[x].row = "deleted" /\ image[x].row # "none"
      BY <1>1, <2>1, <2>2, Constants DEF IsLive
    <3>2. ~Ahead(x) /\ ~BeingInserted(x)
      BY <3>1, RowIs
    <3>3. x \in store => x \in missed
      BY <1>1, <2>1, <2>2 DEF ItemInv
    <3>4. ItemInv(x)' /\ ~IsLive(x)'
      BY <1>1, <3>1, <3>2, <3>3, FlagsRest DEF ItemInv, IsLive
    <3>5. QED
      BY <3>4
  <2>3. CASE x \notin Live
    <3>1. image'[x] = image[x] /\ ~IsLive(x) /\ ~IsLive(x)' /\ image'[x].row # "live"
      BY <1>1, <2>1, <2>3 DEF IsLive
    <3>2. ItemInv(x)'
      BY <1>1, <2>1, <3>1, FlagsRest DEF ItemInv
    <3>3. QED
      BY <3>1, <3>2
  <2>4. QED
    BY <2>2, <2>3
<1>5. QED
  BY <1>1, <1>3, <1>4, RowsMove

-------------------------------------------------------------------------------
(***************************************************************************)
(* The end of the process.                                                 *)
(***************************************************************************)
LEMMA DieStep ==
  ASSUME Inv, NEW cut \in SUBSET Live, Die(cut)
  PROVE  Inv'
<1>1. /\ TypeOK /\ BoundInv /\ \A x \in Items : ItemInv(x)
      /\ \A q \in Requests : RequestInv(q) /\ req[q] \in Job
  BY JobsAre DEF Inv
<1> DEFINE j == [Idle EXCEPT !.pc = "broken"]
<1>2. j \in Job /\ j.pc = "broken" /\ j.file = 1 /\ j.undone = 0
  BY EndIs DEF Ended
<1>3. /\ req' = [r \in Requests |-> IF req[r].pc \in {"idle"} \cup Ended THEN req[r] ELSE j]
      /\ image' = [x \in Items |-> IF x \in cut THEN Deleted ELSE image[x]]
      /\ missed' = missed \cup cut \cup {x \in Items : BeingInserted(x)}
      /\ account' = [account EXCEPT !.pc = "idle", !.list = {}]
      /\ hollow' = hollow \ cut
      /\ UNCHANGED <<store, temp, late>>
  BY DEF Die
<1> HIDE DEF j
<1>4. ASSUME NEW q \in Requests
      PROVE  \/ req'[q] = req[q] /\ req[q].pc \in {"idle"} \cup Ended
             \/ req'[q] = j /\ req[q].pc \notin {"idle"} \cup Ended
  BY <1>3
<1>5. cut \subseteq Items /\ Live \subseteq Items
  BY DEF Live
<1>6. TypeOK'
  <2>1. image' \in [Items -> Row]
    BY <1>1, <1>3, Constants DEF TypeOK, Row
  <2>2. req' \in [Requests -> Job]
    BY <1>1, <1>2, <1>3
  <2>3. \A q \in Requests : req'[q].file \in 1..Count[q] /\ req'[q].undone < Count[q]
    BY <1>1, <1>2, <1>4, ItemsAre DEF TypeOK
  <2>4. account' \in [user : BOOLEAN, pc : {"idle", "removing"}, list : SUBSET Items]
    BY <1>1, <1>3 DEF TypeOK
  <2>5. /\ store' \subseteq Items /\ missed' \subseteq Items /\ hollow' \subseteq Items
        /\ late' \subseteq Requests /\ temp' \in [Items -> SUBSET {"upload", "normal"}]
    BY <1>1, <1>3, <1>5 DEF TypeOK
  <2>6. QED
    BY <2>1, <2>2, <2>3, <2>4, <2>5 DEF TypeOK, Row, Job
<1>7. ASSUME NEW q \in Requests PROVE RequestInv(q)'
  <2>1. CASE req'[q] = req[q]
    BY <1>1, <2>1 DEF RequestInv
  <2>2. CASE req'[q] = j
    BY <1>2, <2>2 DEF RequestInv, Unstarted
  <2>3. QED
    BY <1>4, <2>1, <2>2
<1>8. ASSUME NEW x \in Items PROVE ItemInv(x)' /\ (IsLive(x)' => IsLive(x)) /\ x \notin Todo'
  <2>1. x[1] \in Requests /\ ItemInv(x)
    BY <1>1, ItemsAre
  <2>2. /\ ~BeingInserted(x)' /\ x \notin Todo'
        /\ Ahead(x)' => Ahead(x) /\ ~BeingInserted(x)
        /\ TakenBack(x)' => TakenBack(x)
    <3>1. CASE req'[x[1]] = req[x[1]] /\ req[x[1]].pc \in {"idle"} \cup Ended
      <4>1. ~BeingInserted(x) /\ x \notin Todo
        BY <3>1 DEF BeingInserted, Todo, Ahead, Ended, Unstarted, Before
      <4>2. QED
        BY <3>1, <4>1, ItemRests
    <3>2. CASE req'[x[1]].pc = "broken"
      BY <3>2 DEF BeingInserted, Todo, Ahead, TakenBack, Unstarted, Before
    <3>3. QED
      BY <1>2, <1>4, <2>1, <3>1, <3>2
  <2>3. account'.pc = "idle" /\ account'.list = {}
    BY <1>1, <1>3 DEF TypeOK
  <2>4. CASE x \in cut
    <3>1. image'[x].row = "deleted" /\ x \in missed' /\ image[x].row # "none" /\ IsLive(x)
      BY <1>3, <2>4, Constants DEF Live, IsLive
    <3>2. ~Ahead(x)'
      BY <2>1, <2>2, <3>1 DEF ItemInv
    <3>3. ItemInv(x)'
      BY <2>2, <2>3, <3>1, <3>2 DEF ItemInv, IsLive
    <3>4. QED
      BY <2>2, <3>1, <3>3
  <2>5. CASE x \notin cut
    <3>1. /\ image'[x] = image[x] /\ (x \in store' <=> x \in store)
          /\ x \in missed' <=> x \in missed \/ BeingInserted(x)
          /\ x \in hollow' <=> x \in hollow
      BY <1>3, <2>5
    <3>2. ItemInv(x)'
      BY <2>1, <2>2, <2>3, <3>1 DEF ItemInv, IsLive
    <3>3. IsLive(x)' => IsLive(x)
      BY <3>1 DEF IsLive
    <3>4. QED
      BY <2>2, <3>2, <3>3
  <2>6. QED
    BY <2>4, <2>5
<1>9. BoundInv'
  <2>1. ASSUME NEW q \in late PROVE req'[q].pc \notin Unstarted
    <3>1. q \in Requests /\ req[q].pc \notin Unstarted
      BY <1>1 DEF BoundInv, TypeOK
    <3>2. QED
      BY <1>2, <1>4, <3>1 DEF Unstarted
  <2>2. \A x \in Items : x \in Live' \/ x \in Todo' => x \in Live \/ x \in Todo
    BY <1>8 DEF Live, IsLive
  <2>3. QED
    BY <1>1, <1>3, <2>1, <2>2, BoundKeeps
<1>10. QED
  BY <1>6, <1>7, <1>8, <1>9 DEF Inv

-------------------------------------------------------------------------------
(***************************************************************************)
(* The quota.                                                              *)
(***************************************************************************)
\* A request brings as many files as it says.
LEMMA FilesCount ==
  ASSUME NEW r \in Requests
  PROVE  /\ IsFiniteSet(ItemsOf(r)) /\ Cardinality(ItemsOf(r)) <= Count[r]
         /\ Cardinality(ItemsOf(r)) \in Nat
<1> DEFINE f == [i \in 1..Count[r] |-> <<r, i>>]
<1>1. f \in Surjection(1..Count[r], ItemsOf(r))
  BY DEF Surjection, ItemsOf
<1>2. IsFiniteSet(1..Count[r]) /\ Cardinality(1..Count[r]) = Count[r]
  <2>1. 1 \in Int /\ Count[r] \in Int /\ Count[r] >= 1
    BY ItemsAre
  <2>2. Cardinality(1..Count[r]) = IF 1 > Count[r] THEN 0 ELSE Count[r] - 1 + 1
    BY <2>1, FS_Interval
  <2>3. QED
    BY <2>1, <2>2, FS_Interval
<1> HIDE DEF f
<1>3. IsFiniteSet(ItemsOf(r)) /\ Cardinality(ItemsOf(r)) <= Cardinality(1..Count[r])
  BY <1>1, <1>2, FS_Surjection
<1>4. QED
  BY <1>2, <1>3, FS_CardinalityType

\* Nothing is to come when no handler is at work.
LEMMA AtRest ==
  ASSUME TypeOK, ~\E q \in Requests : AtWork(q)
  PROVE  Todo = {}
<1>1. ASSUME NEW x \in Todo PROVE FALSE
  <2>1. x[1] \in Requests /\ Ahead(x) /\ req[x[1]].pc \notin Unstarted
    BY ItemsAre DEF Todo
  <2>2. req[x[1]].pc \in Before \cup {"readback"}
    BY <2>1 DEF Ahead
  <2>3. AtWork(x[1])
    BY <2>2 DEF AtWork, Working, Before
  <2>4. QED
    BY <2>1, <2>3
<1>2. QED
  BY <1>1

LEMMA AdmitStep == ASSUME Inv, NEW r \in Requests, Admit(r) PROVE Inv'
<1>1. /\ TypeOK /\ BoundInv /\ req[r].pc = "quota" /\ req[r].file = 1 /\ req[r].undone = 0
      /\ Used + Count[r] <= Limit
      /\ late' = IF \E q \in Requests : AtWork(q) THEN late \cup {r} ELSE late
      /\ UNCHANGED <<image, store, temp, account, missed, hollow>>
  BY HandlerIs DEF Inv, Admit, Fits, Unstarted
<1>2. PICK pc \in {"assemble", "probe"} : pc = FirstStep(r)
  BY DEF FirstStep
<1> DEFINE j == [req[r] EXCEPT !.pc = pc]
<1>3. req' = [req EXCEPT ![r] = j]
  BY <1>1, <1>2 DEF Admit, Goto, TypeOK
<1>4. j \in Job /\ j.pc \in {"assemble", "probe"} /\ j.file = 1 /\ j.undone = 0
  <2>1. req[r] \in Job /\ pc \in {"idle", "quota", "undo"} \cup Working \cup Ended
    BY HandlerIs DEF Working
  <2>2. QED
    BY <1>1, <2>1 DEF Job
<1> HIDE DEF j
<1>5. req'[r] = j /\ \A q \in Requests : q # r => req'[q] = req[q]
  BY <1>1, <1>3 DEF TypeOK
<1>6. TypeOK'
  <2>1. req' \in [Requests -> Job]
    BY <1>1, <1>3, <1>4 DEF TypeOK, Job
  <2>2. \A q \in Requests : req'[q].file \in 1..Count[q] /\ req'[q].undone < Count[q]
    BY <1>1, <1>4, <1>5, ItemsAre DEF TypeOK
  <2>3. late' \subseteq Requests
    BY <1>1 DEF TypeOK
  <2>4. QED
    BY <1>1, <2>1, <2>2, <2>3 DEF TypeOK, Job
<1>7. ASSUME NEW q \in Requests PROVE RequestInv(q)'
  <2>1. CASE q = r
    BY <1>4, <1>5, <2>1 DEF RequestInv, Unstarted
  <2>2. CASE q # r
    BY <1>5, <2>2 DEF RequestInv, Inv
  <2>3. QED
    BY <2>1, <2>2
<1>8. ASSUME NEW x \in Items
      PROVE  ItemInv(x)' /\ (IsLive(x)' <=> IsLive(x)) /\ (x \in Todo' => x \in Todo \/ x[1] = r)
  <2>1. ItemInv(x) /\ SameData(x)
    BY <1>1 DEF Inv, SameData
  <2>2. CASE x[1] = r
    <3>1. /\ Ahead(x)' => Ahead(x)
          /\ TakenBack(x)' => TakenBack(x)
          /\ BeingInserted(x)' <=> BeingInserted(x)
      <4>1. /\ Ahead(x) <=> AheadAt(req[r], x[2])
            /\ BeingInserted(x) <=> InsertedAt(req[r], x[2])
            /\ Ahead(x)' <=> AheadAt(j, x[2])
            /\ TakenBack(x)' <=> TakenBackAt(j, x[2])
            /\ BeingInserted(x)' <=> InsertedAt(j, x[2])
        BY <1>1, <1>3, <1>4, <2>2, FlagsAre
      <4>2. QED
        BY <1>1, <1>4, <4>1 DEF AheadAt, TakenBackAt, InsertedAt, Unstarted
    <3>2. QED
      BY <2>1, <2>2, <3>1, ItemKeeps
  <2>3. CASE x[1] # r
    <3>1. req'[x[1]] = req[x[1]]
      BY <1>5, <2>3, ItemsAre
    <3>2. QED
      BY <2>1, <3>1, ItemRests, ItemKeeps
  <2>4. QED
    BY <2>2, <2>3
<1>9. BoundInv'
  <2>1. ASSUME NEW q \in late' PROVE req'[q].pc \notin Unstarted
    <3>1. q = r \/ (q \in Requests /\ req[q].pc \notin Unstarted)
      BY <1>1 DEF BoundInv, TypeOK
    <3>2. QED
      BY <1>4, <1>5, <3>1 DEF Unstarted
  <2>2. /\ IsFiniteSet(late) /\ late \subseteq Requests /\ r \notin late
        /\ IsFiniteSet(Live \cup Todo)
        /\ Cardinality(Live \cup Todo) <= Limit + LateFiles
        /\ Limit \in Nat /\ Count[r] \in Nat
    BY <1>1, UploadsAssumption, ItemsAre DEF BoundInv, TypeOK, Unstarted
  <2>3. LateFiles \in Nat
    BY <2>2, LateCounts DEF LateFiles
  <2> DEFINE T == (Live \cup Todo) \cup ItemsOf(r)
             M == (Live \cup Todo)'
  <2>4. M \subseteq T
    <3>1. ASSUME NEW x \in M PROVE x \in T
      <4>1. x \in Items /\ (IsLive(x)' \/ x \in Todo')
        BY DEF Live, Todo, IsLive
      <4>2. IsLive(x) \/ x \in Todo \/ x[1] = r
        BY <1>8, <4>1
      <4>3. QED
        BY <4>1, <4>2, ItemsAre DEF Live, IsLive
    <3>2. QED
      BY <3>1
  <2>5. /\ IsFiniteSet(T) /\ Cardinality(T) <= Cardinality(Live \cup Todo) + Count[r]
        /\ Cardinality(T) \in Nat /\ Cardinality(Live \cup Todo) \in Nat
    <3> DEFINE A == Live \cup Todo
               B == ItemsOf(r)
    <3>1. IsFiniteSet(A) /\ IsFiniteSet(B) /\ Cardinality(B) <= Count[r] /\ Cardinality(B) \in Nat
      BY <2>2, FilesCount
    <3> HIDE DEF A, B
    <3>2. IsFiniteSet(A \cup B) /\ IsFiniteSet(A \cap B)
          /\ Cardinality(A \cup B) = Cardinality(A) + Cardinality(B) - Cardinality(A \cap B)
      BY <3>1, FS_Union, FS_Intersection
    <3>3. Cardinality(A) \in Nat /\ Cardinality(A \cap B) \in Nat /\ Cardinality(A \cup B) \in Nat
      BY <3>1, <3>2, FS_CardinalityType
    <3>4. Cardinality(A \cup B) <= Cardinality(A) + Count[r]
      BY <2>2, <3>1, <3>2, <3>3
    <3>5. QED
      BY <3>2, <3>3, <3>4 DEF A, B
  <2>6. IsFiniteSet(M) /\ Cardinality(M) <= Cardinality(T) /\ Cardinality(M) \in Nat
    <3> HIDE DEF M, T
    <3>1. QED
      BY <2>4, <2>5, FS_Subset, FS_CardinalityType
  <2>7. IsFiniteSet(late') /\ Cardinality(M) <= Limit + LateFiles'
    <3>1. CASE \E q \in Requests : AtWork(q)
      <4>1. late' = late \cup {r} /\ IsFiniteSet(late')
        BY <1>1, <2>2, <3>1, FS_AddElement
      <4>2. LateFiles' = Count[r] + LateFiles
        BY <2>2, <4>1, LateGrows DEF LateFiles
      <4> HIDE DEF M, T
      <4>3. Cardinality(M) <= Limit + LateFiles'
        BY <2>2, <2>3, <2>5, <2>6, <4>2
      <4>4. QED
        BY <4>1, <4>3
    <3>2. CASE ~\E q \in Requests : AtWork(q)
      <4>1. late' = late /\ LateFiles' = LateFiles
        BY <1>1, <3>2 DEF LateFiles
      <4>2. Live \cup Todo = Live
        BY <1>1, <3>2, AtRest
      <4>3. \A x \in Live : image[x].bytes # 0
        BY DEF Inv, ItemInv, Live, IsLive
      <4>4. Used = Grown + Cardinality(Live) /\ Grown \in Nat /\ Cardinality(Live) \in Nat
        BY <1>1, <2>2, <4>2, <4>3, UsedCounts
      <4>5. Cardinality(T) <= Cardinality(Live) + Count[r] /\ Cardinality(T) \in Nat
        BY <2>5, <4>2
      <4> HIDE DEF M, T
      <4>6. Cardinality(M) <= Limit + LateFiles
        BY <1>1, <2>2, <2>3, <2>6, <4>4, <4>5
      <4>7. QED
        BY <2>2, <4>1, <4>6
    <3>3. QED
      BY <3>1, <3>2
  <2>8. QED
    BY <2>1, <2>6, <2>7 DEF BoundInv
<1>10. QED
  BY <1>6, <1>7, <1>8, <1>9 DEF Inv

-------------------------------------------------------------------------------
(***************************************************************************)
(* The theorems.                                                           *)
(***************************************************************************)
LEMMA RestStep == ASSUME Inv, UNCHANGED vars PROVE Inv'
<1>1. /\ req' = req /\ late' = late /\ TypeOK
      /\ UNCHANGED <<image, store, temp, account, missed, hollow>>
  BY DEF vars, Inv
<1>2. Typed'
  BY <1>1 DEF TypeOK, Typed, Row
<1>3. ASSUME NEW x \in Items PROVE ItemInv(x)' /\ (IsLive(x)' => IsLive(x))
  <2>1. SameData(x) /\ ItemInv(x)
    BY <1>1 DEF SameData, Inv
  <2>2. QED
    BY <1>1, <2>1, FlagsRest, ItemKeeps
<1>4. QED
  BY <1>1, <1>2, <1>3, RowsMove

LEMMA NextInv == ASSUME Inv, [Next]_vars PROVE Inv'
<1>1. ASSUME NEW r \in Requests,
             \/ Receive(r) \/ Refuse(r) \/ Admit(r) \/ File(r) \/ Gallery(r)
             \/ Undo(r) \/ Answer(r) \/ Uncaught(r)
      PROVE  Inv'
  <2>1. CASE Receive(r) \/ Refuse(r) \/ Admit(r)
    BY <2>1, ReceiveStep, RefuseStep, AdmitStep
  <2>2. CASE File(r)
    BY <2>2, FileStep, PutStep, InsertStep, StoredFailsStep, ReadBackStep DEF File
  <2>3. CASE Gallery(r) \/ Undo(r) \/ Answer(r)
    BY <2>3, LeaveStep, UndoStep
  <2>4. CASE Uncaught(r)
    <3>1. CASE r \in Chunked
      BY <2>4, <3>1, LeaveStep
    <3>2. CASE r \notin Chunked
      <4>1. Die({}) /\ {} \in SUBSET Live
        BY <2>4, <3>2 DEF Uncaught
      <4>2. QED
        BY <4>1, DieStep
    <3>3. QED
      BY <3>1, <3>2
  <2>5. QED
    BY <1>1, <2>1, <2>2, <2>3, <2>4
<1>2. ASSUME NEW x \in Items, DeleteImage(x) \/ Purge(x) \/ MarkPurged(x) \/ RemoveListed(x)
      PROVE  Inv'
  BY <1>2, DeleteImageStep, PurgeStep, MarkPurgedStep, RemoveListedStep
<1>3. CASE DeleteAccount \/ DeleteAccountFails \/ CommitDeletion
  BY <1>3, DeleteAccountStep, DeleteAccountFailsStep, CommitDeletionStep
<1>4. CASE Crash
  <2>1. PICK cut \in {{}} \cup {{x} : x \in Live} : Die(cut)
    BY <1>4 DEF Crash
  <2>2. cut \in SUBSET Live
    OBVIOUS
  <2>3. QED
    BY <2>1, <2>2, DieStep
<1>5. CASE UNCHANGED vars
  BY <1>5, RestStep
<1>6. QED
  BY <1>1, <1>2, <1>3, <1>4, <1>5 DEF Next

LEMMA AlwaysInv == Spec => []Inv
<1>1. Init => Inv
  BY InitInv
<1>2. Inv /\ [Next]_vars => Inv'
  BY NextInv
<1>3. QED
  BY <1>1, <1>2, PTL DEF Spec

\* Rows and media tell the same story, in any order of uploads, deletions by
\* the user, purges, the deletion of the account, and crashes, with any number
\* of requests at once: what a viewer may open has its media, and the media of
\* what has ended is removed, but for the exceptions the properties name.
THEOREM RowsAgreeWithMedia == Spec => []RowsAndMediaAgree
<1>1. Inv => RowsAndMediaAgree
  BY InvShows
<1>2. QED
  BY <1>1, AlwaysInv, PTL

\* The quota is read long before the rows it allows are written, and nothing
\* locks it.  Still the bytes of a user exceed it at most by what the requests
\* brought that passed it while another was at work, and by what normalisation
\* added.
THEOREM OverrunIsBounded == Spec => []OverrunBounded
<1>1. Inv => OverrunBounded
  BY InvShows
<1>2. QED
  BY <1>1, AlwaysInv, PTL

\* A request that was answered with an error has left no image with its media
\* behind, whichever of its files failed, and whatever was deleted meanwhile.
THEOREM FailuresAreUndone == Spec => []FailedRequestUndone
<1>1. Inv => FailedRequestUndone
  BY InvShows
<1>2. QED
  BY <1>1, AlwaysInv, PTL
-------------------------------------------------------------------------------
(***************************************************************************)
(* ChunkedUpload.                                                          *)
(***************************************************************************)
\* There is at least one slice.
LEMMA TotalIs ==
  TotalChunks \in Nat /\ TotalChunks >= 1
<1>1. ASSUME NEW a \in Nat, NEW b \in Nat \ {0}, a >= b
      PROVE  a \div b \in Nat /\ a \div b >= 1
  <2>1. b * (a \div b) + (a % b) = a /\ a % b \in 0..(b - 1) /\ a \div b \in Int
    BY <1>1, SMT
  <2>2. QED
    BY <1>1, <2>1, SMT
<1>2. Declared + ChunkBytes - 1 \in Nat /\ ChunkBytes \in Nat \ {0} /\ Declared + ChunkBytes - 1 >= ChunkBytes
  BY UploadAssumption
<1>3. QED
  BY <1>1, <1>2 DEF TotalChunks

\* The slices of a file.
LEMMA SlicesAre ==
  /\ ChunkBytes \in Nat /\ ChunkBytes >= 1 /\ Declared \in Nat /\ Declared >= 1
  /\ 1 \in Indexes /\ Indexes = 1..TotalChunks /\ IsFiniteSet(Indexes)
  /\ Indexes \in SUBSET Indexes /\ TotalChunks \in Nat /\ TotalChunks >= 1
  /\ Lengths = 1..ChunkBytes
<1>1. ChunkBytes \in Nat /\ ChunkBytes >= 1 /\ Declared \in Nat /\ Declared >= 1
  BY UploadAssumption
<1>2. TotalChunks \in Nat /\ TotalChunks >= 1
  BY TotalIs
<1>3. Indexes = 1..TotalChunks /\ Lengths = 1..ChunkBytes
  BY DEF Indexes, Lengths
<1>4. 1 \in Int /\ TotalChunks \in Int
  BY <1>2
<1>5. IsFiniteSet(1..TotalChunks)
  BY <1>4, FS_Interval
<1>6. QED
  BY <1>1, <1>2, <1>3, <1>5

Session == [alive : BOOLEAN, received : [Indexes -> 0..ChunkBytes], bytes : Int]
Slice == [pc : {"idle", "accepted", "writing", "unlinked", "done"},
          index : Indexes, len : 0..ChunkBytes, previous : 0..ChunkBytes]
Completion == [pc : {"idle", "checked", "reading", "stored", "done"},
               next : 1..(TotalChunks + 1), length : Nat \cup {Unsure}, revived : BOOLEAN]
OnDisk == Lengths \cup {Torn, Absent}

\* The reservations of the session, and what its staged files come to.
Reserved == SumOf(session.received, Indexes)
Held == [i \in Indexes |-> IF disk[i] = Absent THEN 0 ELSE disk[i]]

\* The total is the sum of the reservations; a session that was discarded has none.
SessionInv ==
  /\ session.alive => session.bytes <= Declared /\ session.bytes = Reserved
  /\ ~session.alive => \A i \in Indexes : session.received[i] = 0

\* A file that nobody writes has what was reserved for it.
Busy(i) == \E w \in ChunkRequests : InFlight(w) /\ chunk[w].index = i
ChunkInv ==
  session.alive /\ ~mixed =>
    /\ \A w \in ChunkRequests : InFlight(w) => chunk[w].len = session.received[chunk[w].index]
    /\ \A i \in Indexes : Busy(i) \/ disk[i] \in {session.received[i], Absent}

\* What an assembly has read and what it has yet to read is all there is,
\* unless something is missing or was being written.
Quiet == \A w \in ChunkRequests : ~InFlight(w)
Remaining(c) == complete[c].next..TotalChunks
ReadInv(c) ==
  /\ complete[c].pc \in {"idle", "checked"} => complete[c].next = 1
  /\ complete[c].pc = "reading" /\ complete[c].length # Unsure =>
       /\ Quiet
       /\ (\A i \in Remaining(c) : disk[i] # Absent) =>
            \A g : IsSum(g, Held, Indexes) => complete[c].length + g[Remaining(c)] = Declared
  /\ complete[c].pc = "stored" => complete[c].length \in {Declared, Unsure}
  /\ ~complete[c].revived

StagingInv ==
  SessionTypeOK /\ SessionInv /\ ChunkInv /\ \A c \in Completions : ReadInv(c)

\* The types, in these words.
LEMMA StagingTypes ==
  SessionTypeOK <=> /\ session \in Session /\ chunk \in [ChunkRequests -> Slice]
               /\ complete \in [Completions -> Completion] /\ disk \in [Indexes -> OnDisk]
               /\ aged \subseteq {i \in Indexes : disk[i] # Absent} /\ unlinks \subseteq Indexes
               /\ expired \in BOOLEAN /\ mixed \in BOOLEAN /\ restarts \in 0..MaxRestarts
BY DEF SessionTypeOK, Session, Slice, Completion, OnDisk

LEMMA StagingTyped ==
  ASSUME session' \in Session, chunk' \in [ChunkRequests -> Slice],
         complete' \in [Completions -> Completion], disk' \in [Indexes -> OnDisk],
         aged' \subseteq {i \in Indexes : disk'[i] # Absent}, unlinks' \subseteq Indexes,
         expired' \in BOOLEAN, mixed' \in BOOLEAN, restarts' \in 0..MaxRestarts
  PROVE  SessionTypeOK'
BY DEF SessionTypeOK, Session, Slice, Completion, OnDisk

LEMMA DiskIs ==
  ASSUME NEW n \in OnDisk
  PROVE  /\ n # Absent => n \in Nat
         /\ Absent \notin Nat /\ Torn \in OnDisk /\ Torn # Absent /\ Absent \in OnDisk
         /\ \A m \in 0..ChunkBytes : m \in OnDisk /\ m # Absent
<1>1. Lengths = 1..ChunkBytes /\ ChunkBytes \in Nat
  BY SlicesAre
<1>2. QED
  BY <1>1 DEF OnDisk, Absent, Torn

LEMMA HeldIs ==
  ASSUME SessionTypeOK
  PROVE  /\ Held \in [Indexes -> Nat]
         /\ \A i \in Indexes : disk[i] # Absent => Held[i] = disk[i] /\ disk[i] \in Nat
<1>1. \A i \in Indexes : disk[i] \in OnDisk
  BY StagingTypes
<1>2. QED
  BY <1>1, DiskIs DEF Held

-------------------------------------------------------------------------------
LEMMA StagingConstants ==
  /\ NoChunk \in Slice /\ NoChunk.pc = "idle"
  /\ Over \in Slice /\ Over.pc = "done"
  /\ NoCompletion \in Completion /\ NoCompletion.pc = "idle"
  /\ NoCompletion.next = 1 /\ NoCompletion.revived = FALSE
  /\ GivenUp \in Completion /\ GivenUp.pc = "done" /\ GivenUp.revived = FALSE
  /\ Unsure \notin Nat
<1>1. /\ 1 \in Indexes /\ 0 \in 0..ChunkBytes /\ 1 \in 1..(TotalChunks + 1)
  BY SlicesAre
<1>2. NoChunk \in Slice /\ NoChunk.pc = "idle"
  BY <1>1 DEF NoChunk, Slice
<1>3. /\ NoCompletion \in Completion /\ NoCompletion.pc = "idle"
      /\ NoCompletion.next = 1 /\ NoCompletion.revived = FALSE
  BY <1>1 DEF NoCompletion, Completion
<1>4. Over \in Slice /\ Over.pc = "done"
  BY <1>2 DEF Over, Slice
<1>5. GivenUp \in Completion /\ GivenUp.pc = "done" /\ GivenUp.revived = FALSE
  BY <1>3 DEF GivenUp, Completion
<1>6. QED
  BY <1>2, <1>3, <1>4, <1>5 DEF Unsure

LEMMA StagingInit == ASSUME SessionInit PROVE StagingInv
<1>1. SessionTypeOK
  <2>1. session \in Session
    <3>1. 0 \in 0..ChunkBytes /\ 0 \in Int
      BY SlicesAre
    <3>2. QED
      BY <3>1 DEF SessionInit, Session
  <2>2. chunk \in [ChunkRequests -> Slice] /\ complete \in [Completions -> Completion]
    BY StagingConstants DEF SessionInit
  <2>3. disk \in [Indexes -> OnDisk]
    BY DEF SessionInit, OnDisk
  <2>4. restarts \in 0..MaxRestarts
    BY UploadAssumption DEF SessionInit
  <2>5. aged = {} /\ unlinks = {} /\ expired = FALSE /\ mixed = FALSE
    BY DEF SessionInit
  <2>6. QED
    BY <2>1, <2>2, <2>3, <2>4, <2>5, StagingTypes
<1>2. SessionInv
  <2>1. /\ session.alive /\ session.bytes = 0 /\ \A i \in Indexes : session.received[i] = 0
    BY DEF SessionInit
  <2>2. Reserved = 0
    <3> DEFINE f == session.received
    <3>1. f \in [Indexes -> 0..ChunkBytes] /\ \A i \in Indexes : f[i] = 0
      BY <1>1, <2>1, StagingTypes DEF Session
    <3>2. f \in [Indexes -> Nat] /\ IsFiniteSet(Indexes)
      BY <3>1, SlicesAre
    <3> HIDE DEF f
    <3>3. SumOf(f, Indexes) = 0
      BY <3>1, <3>2, SumOfZero
    <3>4. QED
      BY <3>3 DEF Reserved, f
  <2>3. Declared >= 0
    BY SlicesAre
  <2>4. QED
    BY <2>1, <2>2, <2>3 DEF SessionInv
<1>3. ChunkInv
  <2>1. \A w \in ChunkRequests : ~InFlight(w)
    BY StagingConstants DEF SessionInit, InFlight
  <2>2. \A i \in Indexes : disk[i] = Absent
    BY DEF SessionInit
  <2>3. QED
    BY <2>1, <2>2 DEF ChunkInv
<1>4. ASSUME NEW c \in Completions PROVE ReadInv(c)
  <2>1. complete[c] = NoCompletion
    BY DEF SessionInit
  <2>2. QED
    BY <2>1, StagingConstants DEF ReadInv
<1>5. QED
  BY <1>1, <1>2, <1>3, <1>4 DEF StagingInv

\* Whatever discards the session.
LEMMA Discards ==
  ASSUME SessionTypeOK, NEW s \in Session, Discard(s)
  PROVE  /\ session' \in Session /\ unlinks' \subseteq Indexes
         /\ session'.alive = FALSE /\ \A i \in Indexes : session'.received[i] = 0
         /\ SessionInv' /\ ChunkInv'
<1>1. 0 \in 0..ChunkBytes /\ unlinks \subseteq Indexes
  BY SlicesAre, StagingTypes
<1>2. /\ session' \in Session /\ unlinks' \subseteq Indexes
      /\ session'.alive = FALSE /\ \A i \in Indexes : session'.received[i] = 0
  BY <1>1 DEF Discard, Staged, Session
<1>3. QED
  BY <1>2 DEF SessionInv, ChunkInv

\* A completion that waits, while nothing new is written.
LEMMA ReadKeeps ==
  ASSUME SessionTypeOK, NEW c \in Completions, ReadInv(c),
         disk' \in [Indexes -> OnDisk],
         complete'[c] = complete[c], Quiet => Quiet',
         Quiet => \A i \in Indexes : disk'[i] \in {disk[i], Absent}
  PROVE  ReadInv(c)'
<1>1. ASSUME complete[c].pc = "reading", complete[c].length # Unsure,
             \A i \in Remaining(c) : disk'[i] # Absent,
             NEW h, IsSum(h, Held', Indexes)
      PROVE  complete[c].length + h[Remaining(c)] = Declared
  <2>1. Quiet
    BY <1>1 DEF ReadInv
  <2>2. IsFiniteSet(Indexes) /\ Remaining(c) \subseteq Indexes
    BY SlicesAre, StagingTypes DEF Remaining, Completion
  <2>3. \A i \in Remaining(c) : disk'[i] = disk[i]
    BY <1>1, <2>1, <2>2
  <2>4. \A i \in Remaining(c) : Held'[i] = Held[i]
    BY <2>2, <2>3 DEF Held
  <2>5. Held \in [Indexes -> Nat] /\ Held' \in [Indexes -> Nat]
    <3>1. \A i \in Indexes : disk'[i] \in OnDisk
      OBVIOUS
    <3>2. Held' \in [Indexes -> Nat]
      BY <3>1, DiskIs DEF Held
    <3>3. QED
      BY <3>2, HeldIs
  <2>6. PICK g : IsSum(g, Held, Indexes)
    BY <2>2, <2>5, SumExists
  <2> DEFINE R == Remaining(c)
             f == Held
             e == Held'
  <2>7. complete[c].length + g[R] = Declared
    BY <1>1, <2>3, <2>6 DEF ReadInv
  <2>8. R \in SUBSET Indexes /\ f \in [Indexes -> Nat] /\ e \in [Indexes -> Nat]
        /\ (\A i \in R : e[i] = f[i]) /\ IsSum(g, f, Indexes) /\ IsSum(h, e, Indexes)
    BY <1>1, <2>2, <2>4, <2>5, <2>6
  <2> HIDE DEF R, f, e
  <2>9. g[R] = h[R]
    BY <2>2, <2>8, SumsLocal
  <2>10. QED
    BY <2>7, <2>9 DEF R
<1>2. Remaining(c)' = Remaining(c)
  BY DEF Remaining
<1>3. complete'[c].pc = "reading" /\ complete'[c].length # Unsure => Quiet'
  BY DEF ReadInv
<1>4. QED
  BY <1>1, <1>2, <1>3 DEF ReadInv

\* Those that do, and those that have ended.
LEMMA ReadOver ==
  ASSUME NEW c \in Completions, complete'[c] = GivenUp
  PROVE  ReadInv(c)'
BY StagingConstants DEF ReadInv

LEMMA AcceptStep ==
  ASSUME StagingInv, NEW w \in ChunkRequests,
         NEW i \in Indexes, NEW n \in Lengths, Accept(w, i, n)
  PROVE  StagingInv'
<1> DEFINE slice == [pc |-> "accepted", index |-> i, len |-> n, previous |-> session.received[i]]
<1>1. /\ SessionTypeOK /\ SessionInv /\ ChunkInv /\ \A c \in Completions : ReadInv(c)
      /\ session \in Session /\ session.alive
      /\ session.received \in [Indexes -> 0..ChunkBytes] /\ session.bytes \in Int
      /\ n \in 0..ChunkBytes
  BY StagingTypes, SlicesAre DEF StagingInv, Accept, Found, Session
<1>2. /\ session.bytes - session.received[i] + n <= Declared
      /\ session' = [session EXCEPT !.bytes = session.bytes - session.received[i] + n,
                                    !.received[i] = n]
      /\ chunk' = [chunk EXCEPT ![w] = slice]
      /\ mixed' = (mixed \/ \E v \in ChunkRequests :
                              InFlight(v) /\ chunk[v].index = i /\ chunk[v].len # n)
      /\ complete' = [c \in Completions |->
           IF complete[c].pc = "reading" THEN [complete[c] EXCEPT !.length = Unsure]
                                         ELSE complete[c]]
      /\ UNCHANGED <<expired, disk, aged, unlinks, restarts>>
      /\ chunk[w].pc = "idle"
  BY DEF Accept, FitsDeclared, Total
<1>3. /\ session' \in Session /\ session'.alive
      /\ session'.bytes = session.bytes - session.received[i] + n
      /\ session'.received[i] = n
      /\ \A k \in Indexes : k # i => session'.received[k] = session.received[k]
      /\ session'.received \in [Indexes -> 0..ChunkBytes]
  <2> DEFINE bytes == session.bytes - session.received[i] + n
             received == [session.received EXCEPT ![i] = n]
  <2>1. bytes \in Int
    <3>1. session.received[i] \in Int /\ n \in Int
      BY <1>1
    <3>2. QED
      BY <1>1, <3>1
  <2>2. /\ received \in [Indexes -> 0..ChunkBytes] /\ received[i] = n
        /\ \A k \in Indexes : k # i => received[k] = session.received[k]
    BY <1>1
  <2>3. session' = [session EXCEPT !.bytes = bytes, !.received = received]
    BY <1>1, <1>2 DEF Session
  <2> HIDE DEF bytes, received
  <2>4. session' \in Session /\ session'.alive /\ session'.bytes = bytes /\ session'.received = received
    BY <1>1, <2>1, <2>2, <2>3 DEF Session
  <2>5. QED
    BY <2>2, <2>4 DEF bytes
<1>4. slice \in Slice
  BY <1>1 DEF Slice
<1> HIDE DEF slice
<1>5. SessionTypeOK'
  <2>1. chunk' \in [ChunkRequests -> Slice]
    BY <1>1, <1>2, <1>4, StagingTypes
  <2>2. complete' \in [Completions -> Completion]
    BY <1>1, <1>2, StagingTypes DEF Completion
  <2>3. mixed' \in BOOLEAN
    BY <1>1, <1>2, StagingTypes
  <2>4. QED
    BY <1>1, <1>2, <1>3, <2>1, <2>2, <2>3, StagingTypes, StagingTyped
<1>6. SessionInv'
  <2> DEFINE f == session.received
             e == session'.received
             S == Indexes
  <2>1. /\ f \in [S -> Nat] /\ e \in [S -> Nat] /\ IsFiniteSet(S) /\ i \in S
        /\ \A k \in S : k # i => e[k] = f[k]
    BY <1>1, <1>3, SlicesAre
  <2> HIDE DEF f, e, S
  <2>2. SumOf(e, S) = SumOf(f, S) - f[i] + e[i] /\ SumOf(f, S) \in Nat
    BY <2>1, SumOfReplace
  <2>3. Reserved' = Reserved - session.received[i] + n
    BY <1>3, <2>2 DEF Reserved, f, e, S
  <2>4. session.bytes = Reserved
    BY <1>1 DEF SessionInv
  <2>5. QED
    BY <1>2, <1>3, <2>3, <2>4 DEF SessionInv
<1>7. ASSUME NEW v \in ChunkRequests
      PROVE  /\ v = w => InFlight(v)' /\ chunk'[v].index = i /\ chunk'[v].len = n
             /\ v # w => (InFlight(v)' <=> InFlight(v)) /\ chunk'[v] = chunk[v]
             /\ ~InFlight(w)
  BY <1>1, <1>2, StagingTypes DEF InFlight, slice
<1>8. ChunkInv'
  <2>1. ASSUME ~mixed'
        PROVE  /\ ~mixed /\ \A v \in ChunkRequests : InFlight(v) /\ chunk[v].index = i => chunk[v].len = n
               /\ \A v \in ChunkRequests : InFlight(v) => chunk[v].len = session.received[chunk[v].index]
               /\ \A k \in Indexes : Busy(k) \/ disk[k] \in {session.received[k], Absent}
    <3>1. ~mixed /\ \A v \in ChunkRequests : InFlight(v) /\ chunk[v].index = i => chunk[v].len = n
      BY <1>2, <2>1
    <3>2. QED
      BY <1>1, <3>1 DEF ChunkInv
  <2>2. ASSUME ~mixed', NEW v \in ChunkRequests, InFlight(v)'
        PROVE  chunk'[v].len = session'.received[chunk'[v].index]
    <3>1. CASE v = w
      BY <1>3, <1>7, <3>1
    <3>2. CASE v # w
      <4>1. InFlight(v) /\ chunk'[v] = chunk[v] /\ chunk[v].index \in Indexes
        BY <1>1, <1>7, <2>2, <3>2, StagingTypes DEF Slice
      <4>2. QED
        BY <1>3, <2>1, <2>2, <4>1
    <3>3. QED
      BY <3>1, <3>2
  <2>3. ASSUME ~mixed', NEW k \in Indexes
        PROVE  Busy(k)' \/ disk'[k] \in {session'.received[k], Absent}
    <3>1. CASE k = i
      BY <1>7, <3>1 DEF Busy
    <3>2. CASE k # i
      <4>1. Busy(k) => Busy(k)'
        BY <1>7 DEF Busy
      <4>2. QED
        BY <1>2, <1>3, <2>1, <2>3, <3>2, <4>1
    <3>3. QED
      BY <3>1, <3>2
  <2>4. QED
    BY <2>2, <2>3 DEF ChunkInv
<1>9. ASSUME NEW c \in Completions PROVE ReadInv(c)'
  <2>1. ReadInv(c) /\ complete[c] \in Completion
    BY <1>1, StagingTypes
  <2>2. CASE complete[c].pc = "reading"
    <3>1. complete'[c].pc = "reading" /\ complete'[c].length = Unsure /\ ~complete'[c].revived
      BY <1>2, <2>1, <2>2 DEF Completion, ReadInv
    <3>2. QED
      BY <3>1 DEF ReadInv
  <2>3. CASE complete[c].pc # "reading"
    <3>1. complete'[c] = complete[c]
      BY <1>2, <2>3
    <3>2. QED
      BY <2>1, <2>3, <3>1 DEF ReadInv
  <2>4. QED
    BY <2>2, <2>3
<1>10. QED
  BY <1>5, <1>6, <1>8, <1>9 DEF StagingInv

\* What all steps that discard the session have in common.
LEMMA Voided ==
  ASSUME StagingInv, NEW s \in Session, Discard(s),
         chunk' \in [ChunkRequests -> Slice], complete' \in [Completions -> Completion],
         Quiet => Quiet', UNCHANGED <<expired, disk, aged, mixed, restarts>>,
         \A c \in Completions : complete'[c] = complete[c] \/ ReadInv(c)'
  PROVE  StagingInv'
<1>1. SessionTypeOK /\ \A c \in Completions : ReadInv(c)
  BY DEF StagingInv
<1>2. /\ session' \in Session /\ unlinks' \subseteq Indexes
      /\ SessionInv' /\ ChunkInv'
  BY <1>1, Discards
<1>3. SessionTypeOK'
  BY <1>1, <1>2, StagingTypes, StagingTyped
<1>4. disk' \in [Indexes -> OnDisk] /\ \A i \in Indexes : disk'[i] = disk[i]
  BY <1>1, StagingTypes
<1>5. ASSUME NEW c \in Completions PROVE ReadInv(c)'
  BY <1>1, <1>4, ReadKeeps
<1>6. QED
  BY <1>2, <1>3, <1>5 DEF StagingInv

LEMMA ChunkVoids ==
  ASSUME StagingInv, NEW w \in ChunkRequests,
         Reject(w) \/ WriteFails(w)
  PROVE  StagingInv'
<1>1. SessionTypeOK /\ session \in Session /\ chunk[w] \in Slice
  BY StagingTypes DEF StagingInv
<1>2. /\ chunk' = [chunk EXCEPT ![w] = Over]
      /\ UNCHANGED <<expired, complete, disk, aged, mixed, restarts>>
  BY DEF Reject, WriteFails
<1>3. \E s \in Session : Discard(s)
  <2>1. CASE Reject(w)
    BY <1>1, <2>1 DEF Reject
  <2>2. CASE WriteFails(w)
    <3> DEFINE r == chunk[w]
               bytes == session.bytes - (r.len - r.previous)
               received == [session.received EXCEPT ![r.index] = r.previous]
               s == [session EXCEPT !.bytes = bytes, !.received = received]
    <3>1. bytes \in Int
      <4>1. /\ session.bytes \in Int /\ r.len \in 0..ChunkBytes /\ r.previous \in 0..ChunkBytes
        BY <1>1 DEF Session, Slice
      <4> HIDE DEF r
      <4>2. QED
        BY <4>1
    <3>2. received \in [Indexes -> 0..ChunkBytes]
      BY <1>1 DEF Session, Slice
    <3>3. Discard(s)
      <4>1. s = [session EXCEPT !.bytes = @ - (r.len - r.previous), !.received[r.index] = r.previous]
        BY <1>1 DEF Session
      <4>2. QED
        BY <2>2, <4>1 DEF WriteFails
    <3> HIDE DEF bytes, received
    <3>4. s \in Session
      BY <1>1, <3>1, <3>2 DEF Session
    <3>5. QED
      BY <3>3, <3>4
  <2>3. QED
    BY <2>1, <2>2
<1>4. PICK s \in Session : Discard(s)
  BY <1>3
<1>5. chunk' \in [ChunkRequests -> Slice] /\ complete' \in [Completions -> Completion]
  BY <1>1, <1>2, StagingTypes, StagingConstants
<1>6. Quiet => Quiet'
  <2>1. ASSUME NEW v \in ChunkRequests, InFlight(v)' PROVE InFlight(v)
    BY <1>1, <1>2, <2>1, StagingTypes, StagingConstants DEF InFlight
  <2>2. QED
    BY <2>1 DEF Quiet
<1>7. QED
  BY <1>2, <1>4, <1>5, <1>6, Voided

LEMMA CompletionVoids ==
  ASSUME StagingInv, NEW c \in Completions,
         \/ Ends(c) /\ Discard(session)
         \/ AssembleEnds(c),
         UNCHANGED <<expired, chunk, disk, aged, mixed, restarts>>
  PROVE  StagingInv'
<1>1. /\ SessionTypeOK /\ session \in Session /\ complete[c] \in Completion /\ ReadInv(c)
      /\ chunk' \in [ChunkRequests -> Slice] /\ Discard(session)
  BY StagingTypes DEF StagingInv, AssembleEnds
<1>2. Quiet => Quiet'
  BY DEF Quiet, InFlight
<1>3. CASE Ends(c)
  <2>1. complete' = [complete EXCEPT ![c] = GivenUp]
    BY <1>3 DEF Ends
  <2>2. complete' \in [Completions -> Completion] /\ complete'[c] = GivenUp
        /\ \A d \in Completions : d # c => complete'[d] = complete[d]
    BY <1>1, <2>1, StagingTypes, StagingConstants
  <2>3. ReadInv(c)'
    BY <2>2, ReadOver
  <2>4. QED
    BY <1>1, <1>2, <2>2, <2>3, Voided
<1>4. CASE AssembleEnds(c)
  <2>1. /\ complete[c].pc = "reading" /\ complete[c].next > TotalChunks
        /\ complete' = [complete EXCEPT ![c].pc = "stored"]
    BY <1>4 DEF AssembleEnds
  <2>2. /\ complete' \in [Completions -> Completion]
        /\ complete'[c].pc = "stored" /\ complete'[c].length = complete[c].length
        /\ complete'[c].revived = complete[c].revived
        /\ \A d \in Completions : d # c => complete'[d] = complete[d]
    BY <1>1, <2>1, StagingTypes DEF Completion
  <2>3. ASSUME complete[c].length # Unsure PROVE complete[c].length = Declared
    <3>1. complete[c].next \in Nat /\ complete[c].length \in Nat /\ Declared \in Nat
          /\ TotalChunks \in Nat
      BY <1>1, <2>3, SlicesAre DEF Completion
    <3>2. Remaining(c) = {} /\ IsFiniteSet(Indexes) /\ {} \in SUBSET Indexes
      BY <2>1, <3>1, SlicesAre DEF Remaining
    <3>3. PICK g : IsSum(g, Held, Indexes)
      BY <1>1, <3>2, HeldIs, SumExists
    <3>4. g[{}] = 0
      BY <3>2, <3>3 DEF IsSum, Sums
    <3>5. complete[c].length + g[{}] = Declared
      BY <1>1, <2>1, <2>3, <3>2, <3>3 DEF ReadInv
    <3>6. QED
      BY <3>1, <3>4, <3>5
  <2>4. ReadInv(c)'
    BY <1>1, <2>2, <2>3 DEF ReadInv
  <2>5. QED
    BY <1>1, <1>2, <2>2, <2>4, Voided
<1>5. QED
  BY <1>3, <1>4

LEMMA DropExpiredStep ==
  ASSUME StagingInv, DropExpired
  PROVE  StagingInv'
<1>1. /\ session \in Session /\ chunk' \in [ChunkRequests -> Slice]
      /\ complete' \in [Completions -> Completion] /\ complete' = complete /\ Discard(session)
      /\ UNCHANGED <<expired, chunk, disk, aged, mixed, restarts>>
  BY StagingTypes DEF StagingInv, DropExpired
<1>2. Quiet => Quiet'
  BY <1>1 DEF Quiet, InFlight
<1>3. QED
  BY <1>1, <1>2, Voided

LEMMA OpenStep ==
  ASSUME StagingInv, NEW w \in ChunkRequests, Open(w)
  PROVE  StagingInv'
<1> DEFINE i == chunk[w].index
<1>1. /\ SessionTypeOK /\ SessionInv /\ ChunkInv /\ \A c \in Completions : ReadInv(c)
      /\ chunk[w] \in Slice /\ i \in Indexes /\ disk \in [Indexes -> OnDisk]
  BY StagingTypes DEF StagingInv, Slice
<1>2. /\ chunk[w].pc = "accepted" /\ chunk' = [chunk EXCEPT ![w].pc = "writing"]
      /\ disk' = [disk EXCEPT ![i] = Torn] /\ aged' = aged \ {i}
      /\ UNCHANGED <<session, expired, complete, unlinks, mixed, restarts>>
  BY DEF Open
<1>3. /\ chunk' \in [ChunkRequests -> Slice] /\ chunk'[w].pc = "writing"
      /\ \A v \in ChunkRequests : /\ v # w => chunk'[v] = chunk[v]
                                  /\ chunk'[v].index = chunk[v].index /\ chunk'[v].len = chunk[v].len
                                  /\ InFlight(v)' <=> InFlight(v)
      /\ InFlight(w)
  BY <1>1, <1>2, StagingTypes DEF Slice, InFlight
<1> HIDE DEF i
<1>4. disk' \in [Indexes -> OnDisk] /\ \A k \in Indexes : k # i => disk'[k] = disk[k]
  BY <1>1, <1>2 DEF OnDisk
<1>5. SessionTypeOK'
  <2>1. aged' \subseteq {k \in Indexes : disk'[k] # Absent}
    BY <1>1, <1>2, <1>4, StagingTypes
  <2>2. QED
    BY <1>1, <1>2, <1>3, <1>4, <2>1, StagingTypes, StagingTyped
<1>6. SessionInv'
  BY <1>1, <1>2 DEF SessionInv, Reserved
<1>7. ChunkInv'
  <2>1. \A k \in Indexes : Busy(k)' <=> Busy(k)
    BY <1>3 DEF Busy
  <2>2. Busy(i)
    BY <1>3 DEF Busy, i
  <2>3. ASSUME session.alive /\ ~mixed, NEW k \in Indexes
        PROVE  Busy(k) \/ disk'[k] \in {session.received[k], Absent}
    BY <1>1, <1>4, <2>2, <2>3 DEF ChunkInv
  <2>4. ASSUME session.alive /\ ~mixed, NEW v \in ChunkRequests, InFlight(v)'
        PROVE  chunk'[v].len = session.received[chunk'[v].index]
    BY <1>1, <1>3, <2>4 DEF ChunkInv
  <2>5. QED
    BY <1>2, <2>1, <2>3, <2>4 DEF ChunkInv
<1>8. ASSUME NEW c \in Completions PROVE ReadInv(c)'
  <2>1. ~Quiet
    BY <1>3 DEF Quiet
  <2>2. QED
    BY <1>1, <1>2, <1>4, <2>1, ReadKeeps
<1>9. QED
  BY <1>5, <1>6, <1>7, <1>8 DEF StagingInv

LEMMA WriteDoneStep ==
  ASSUME StagingInv, NEW w \in ChunkRequests, WriteDone(w)
  PROVE  StagingInv'
<1> DEFINE i == chunk[w].index
           others == {v \in ChunkRequests \ {w} : chunk[v].pc = "writing" /\ chunk[v].index = i}
<1>1. /\ SessionTypeOK /\ SessionInv /\ ChunkInv /\ \A c \in Completions : ReadInv(c)
      /\ chunk[w] \in Slice /\ i \in Indexes /\ disk \in [Indexes -> OnDisk]
  BY StagingTypes DEF StagingInv, Slice
<1>2. /\ chunk[w].pc \in {"writing", "unlinked"} /\ chunk' = [chunk EXCEPT ![w] = Over]
      /\ disk' = IF chunk[w].pc = "writing" /\ others = {}
                 THEN [disk EXCEPT ![i] = chunk[w].len] ELSE disk
      /\ UNCHANGED <<session, expired, complete, aged, unlinks, mixed, restarts>>
  BY DEF WriteDone
<1>3. /\ chunk' \in [ChunkRequests -> Slice] /\ ~InFlight(w)'
      /\ \A v \in ChunkRequests : v # w => chunk'[v] = chunk[v] /\ (InFlight(v)' <=> InFlight(v))
      /\ InFlight(w) <=> chunk[w].pc = "writing"
      /\ \A v \in others : v \in ChunkRequests /\ v # w /\ InFlight(v) /\ chunk[v].index = i
  BY <1>1, <1>2, StagingTypes, StagingConstants DEF InFlight
<1>4. /\ disk' \in [Indexes -> OnDisk] /\ \A k \in Indexes : k # i => disk'[k] = disk[k]
      /\ disk'[i] = disk[i] \/ (disk'[i] = chunk[w].len /\ disk'[i] # Absent)
  <2>1. chunk[w].len \in OnDisk /\ chunk[w].len # Absent
    <3>1. chunk[w].len \in 0..ChunkBytes /\ disk[i] \in OnDisk
      BY <1>1 DEF Slice
    <3>2. QED
      BY <3>1, DiskIs
  <2> HIDE DEF i, others
  <2>2. QED
    BY <1>1, <1>2, <2>1
<1> HIDE DEF i, others
<1>5. SessionTypeOK'
  <2>1. aged' \subseteq {k \in Indexes : disk'[k] # Absent}
    BY <1>1, <1>2, <1>4, StagingTypes
  <2>2. QED
    BY <1>1, <1>2, <1>3, <1>4, <2>1, StagingTypes, StagingTyped
<1>6. SessionInv'
  BY <1>1, <1>2 DEF SessionInv, Reserved
<1>7. ChunkInv'
  <2>1. ASSUME session.alive /\ ~mixed, NEW v \in ChunkRequests, InFlight(v)'
        PROVE  chunk'[v].len = session.received[chunk'[v].index]
    BY <1>1, <1>3, <2>1 DEF ChunkInv
  <2>2. ASSUME session.alive /\ ~mixed, NEW k \in Indexes
        PROVE  Busy(k)' \/ disk'[k] \in {session.received[k], Absent}
    <3>1. CASE k = i /\ chunk[w].pc = "writing" /\ others = {}
      <4>1. disk'[i] = chunk[w].len
        BY <1>1, <1>2, <3>1
      <4>2. chunk[w].len = session.received[i]
        BY <1>1, <1>3, <2>2, <3>1 DEF ChunkInv, i
      <4>3. QED
        BY <3>1, <4>1, <4>2
    <3>2. CASE k = i /\ chunk[w].pc = "writing" /\ others # {}
      <4>1. PICK v \in others : TRUE
        BY <3>2
      <4>2. v \in ChunkRequests /\ InFlight(v)' /\ chunk'[v].index = i
        BY <1>3, <4>1
      <4>3. QED
        BY <3>2, <4>2 DEF Busy
    <3>3. CASE k # i \/ chunk[w].pc # "writing"
      <4>1. disk'[k] = disk[k]
        BY <1>2, <1>4, <3>3
      <4>2. Busy(k) => Busy(k)'
        <5>1. ASSUME NEW v \in ChunkRequests, InFlight(v), chunk[v].index = k
              PROVE  InFlight(v)' /\ chunk'[v].index = k
          <6>1. v # w
            BY <1>3, <3>3, <5>1 DEF i
          <6>2. QED
            BY <1>3, <5>1, <6>1
        <5>2. QED
          BY <5>1 DEF Busy
      <4>3. QED
        BY <1>1, <2>2, <4>1, <4>2 DEF ChunkInv
    <3>4. QED
      BY <3>1, <3>2, <3>3
  <2>3. QED
    BY <1>2, <2>1, <2>2 DEF ChunkInv
<1>8. ASSUME NEW c \in Completions PROVE ReadInv(c)'
  <2>1. Quiet => Quiet' /\ disk' = disk
    BY <1>2, <1>3 DEF Quiet
  <2>2. Quiet => \A k \in Indexes : disk'[k] \in {disk[k], Absent}
    BY <2>1
  <2>3. QED
    BY <1>1, <1>2, <1>4, <2>1, <2>2, ReadKeeps
<1>9. QED
  BY <1>5, <1>6, <1>7, <1>8 DEF StagingInv

\* The steps on files: a path that is gone takes its writer with it.
LEMMA FilesGo ==
  ASSUME StagingInv,
         UNCHANGED <<session, complete, mixed, restarts>>,
         expired' \in BOOLEAN, unlinks' \subseteq Indexes,
         \/ \E i \in Indexes : Remove(i)
         \/ /\ UNCHANGED <<chunk, disk>>
            /\ aged' \subseteq {i \in Indexes : disk[i] # Absent}
  PROVE  StagingInv'
<1>1. /\ SessionTypeOK /\ SessionInv /\ ChunkInv /\ \A c \in Completions : ReadInv(c)
      /\ disk \in [Indexes -> OnDisk] /\ chunk \in [ChunkRequests -> Slice]
      /\ aged \subseteq {i \in Indexes : disk[i] # Absent}
  BY StagingTypes DEF StagingInv
<1> DEFINE Gone ==
      /\ disk' \in [Indexes -> OnDisk] /\ chunk' \in [ChunkRequests -> Slice]
      /\ aged' \subseteq {k \in Indexes : disk'[k] # Absent}
      /\ \A k \in Indexes : disk'[k] \in {disk[k], Absent}
      /\ \A v \in ChunkRequests :
           /\ chunk'[v].index = chunk[v].index /\ chunk'[v].len = chunk[v].len
           /\ InFlight(v)' => InFlight(v)
           /\ InFlight(v) => InFlight(v)' \/ disk'[chunk[v].index] = Absent
<1>2. Gone
  <2>1. CASE UNCHANGED <<chunk, disk>> /\ aged' \subseteq {i \in Indexes : disk[i] # Absent}
    BY <1>1, <2>1 DEF InFlight
  <2>2. ASSUME NEW i \in Indexes, Remove(i) PROVE Gone
    <3>1. /\ disk' = [disk EXCEPT ![i] = Absent] /\ aged' = aged \ {i}
          /\ chunk' = [v \in ChunkRequests |->
               IF chunk[v].pc = "writing" /\ chunk[v].index = i
               THEN [chunk[v] EXCEPT !.pc = "unlinked"] ELSE chunk[v]]
      BY <2>2 DEF Remove
    <3>2. /\ disk' \in [Indexes -> OnDisk] /\ disk'[i] = Absent
          /\ \A k \in Indexes : k # i => disk'[k] = disk[k]
      BY <1>1, <3>1 DEF OnDisk
    <3>3. aged' \subseteq {k \in Indexes : disk'[k] # Absent}
      BY <1>1, <3>1, <3>2
    <3>4. ASSUME NEW v \in ChunkRequests
          PROVE  /\ chunk'[v] \in Slice
                 /\ chunk'[v].index = chunk[v].index /\ chunk'[v].len = chunk[v].len
                 /\ InFlight(v)' => InFlight(v)
                 /\ InFlight(v) => InFlight(v)' \/ disk'[chunk[v].index] = Absent
      <4>1. CASE chunk[v].pc = "writing" /\ chunk[v].index = i
        <5>1. chunk[v] \in Slice /\ chunk'[v] = [chunk[v] EXCEPT !.pc = "unlinked"]
          BY <1>1, <3>1, <4>1
        <5>2. QED
          BY <3>2, <4>1, <5>1 DEF Slice, InFlight
      <4>2. CASE ~(chunk[v].pc = "writing" /\ chunk[v].index = i)
        <5>1. chunk[v] \in Slice /\ chunk'[v] = chunk[v]
          BY <1>1, <3>1, <4>2
        <5>2. QED
          BY <5>1 DEF InFlight
      <4>3. QED
        BY <4>1, <4>2
    <3>5. chunk' \in [ChunkRequests -> Slice]
      BY <3>1, <3>4
    <3>6. QED
      BY <3>2, <3>3, <3>4, <3>5
  <2>3. QED
    BY <2>1, <2>2
<1>3. SessionTypeOK'
  BY <1>1, <1>2, StagingTypes, StagingTyped
<1>4. SessionInv'
  BY <1>1 DEF SessionInv, Reserved
<1>5. ChunkInv'
  <2>1. ASSUME session.alive /\ ~mixed, NEW v \in ChunkRequests, InFlight(v)'
        PROVE  chunk'[v].len = session.received[chunk'[v].index]
    BY <1>1, <1>2, <2>1 DEF ChunkInv
  <2>2. ASSUME session.alive /\ ~mixed, NEW k \in Indexes
        PROVE  Busy(k)' \/ disk'[k] \in {session.received[k], Absent}
    <3>1. CASE Busy(k)
      <4>1. PICK v \in ChunkRequests : InFlight(v) /\ chunk[v].index = k
        BY <3>1 DEF Busy
      <4>2. (InFlight(v)' /\ chunk'[v].index = k) \/ disk'[k] = Absent
        BY <1>2, <4>1
      <4>3. QED
        BY <4>2 DEF Busy
    <3>2. CASE ~Busy(k)
      BY <1>1, <1>2, <2>2, <3>2 DEF ChunkInv
    <3>3. QED
      BY <3>1, <3>2
  <2>3. QED
    BY <2>1, <2>2 DEF ChunkInv
<1>6. ASSUME NEW c \in Completions PROVE ReadInv(c)'
  <2>1. Quiet => Quiet'
    BY <1>2 DEF Quiet
  <2>2. QED
    BY <1>1, <1>2, <2>1, ReadKeeps
<1>7. QED
  BY <1>3, <1>4, <1>5, <1>6 DEF StagingInv

LEMMA FilesStep ==
  ASSUME StagingInv,
         \/ \E i \in Indexes : UnlinkSlice(i) \/ AgeSlice(i) \/ SweepFile(i)
         \/ ExpireSession \/ UNCHANGED sessionVars
  PROVE  StagingInv'
<1>1. /\ aged \subseteq {i \in Indexes : disk[i] # Absent} /\ unlinks \subseteq Indexes
      /\ expired \in BOOLEAN
  BY StagingTypes DEF StagingInv
<1>2. ASSUME NEW i \in Indexes, UnlinkSlice(i) PROVE StagingInv'
  <2>1. /\ UNCHANGED <<session, expired, complete, mixed, restarts>> /\ Remove(i)
        /\ unlinks' \subseteq Indexes
    BY <1>1, <1>2 DEF UnlinkSlice
  <2>2. QED
    BY <1>1, <2>1, FilesGo
<1>3. ASSUME NEW i \in Indexes, SweepFile(i) PROVE StagingInv'
  <2>1. /\ UNCHANGED <<session, expired, complete, unlinks, mixed, restarts>> /\ Remove(i)
    BY <1>3 DEF SweepFile
  <2>2. QED
    BY <1>1, <2>1, FilesGo
<1>4. ASSUME NEW i \in Indexes, AgeSlice(i) PROVE StagingInv'
  <2>1. /\ UNCHANGED <<session, expired, chunk, complete, disk, unlinks, mixed, restarts>>
        /\ aged' \subseteq {k \in Indexes : disk[k] # Absent}
    BY <1>1, <1>4 DEF AgeSlice
  <2>2. QED
    BY <1>1, <2>1, FilesGo
<1>5. CASE ExpireSession \/ UNCHANGED sessionVars
  <2>1. /\ UNCHANGED <<session, chunk, complete, disk, aged, unlinks, mixed, restarts>>
        /\ expired' \in BOOLEAN
    BY <1>1, <1>5 DEF ExpireSession, sessionVars
  <2>2. QED
    BY <1>1, <2>1, FilesGo
<1>6. QED
  BY <1>2, <1>3, <1>4, <1>5

\* The steps of one completion that change nothing else.
LEMMA CompletionGoes ==
  ASSUME StagingInv, NEW c \in Completions, NEW d \in Completion,
         complete' = [complete EXCEPT ![c] = d], ReadInv(c)',
         UNCHANGED <<session, expired, chunk, disk, aged, unlinks, mixed, restarts>>
  PROVE  StagingInv'
<1>1. /\ SessionTypeOK /\ SessionInv /\ ChunkInv /\ \A e \in Completions : ReadInv(e)
  BY DEF StagingInv
<1>2. complete' \in [Completions -> Completion] /\ \A e \in Completions : e # c => complete'[e] = complete[e]
  BY <1>1, StagingTypes
<1>3. SessionTypeOK'
  BY <1>1, <1>2, StagingTypes, StagingTyped
<1>4. SessionInv' /\ ChunkInv'
  BY <1>1 DEF SessionInv, Reserved, ChunkInv, Busy, InFlight
<1>5. ASSUME NEW e \in Completions PROVE ReadInv(e)'
  <2>1. CASE e = c
    BY <2>1
  <2>2. CASE e # c
    <3>1. complete'[e] = complete[e] /\ disk' \in [Indexes -> OnDisk] /\ ReadInv(e)
          /\ \A k \in Indexes : disk'[k] = disk[k]
      BY <1>1, <1>2, <2>2, StagingTypes
    <3>2. Quiet => Quiet'
      BY DEF Quiet, InFlight
    <3>3. QED
      BY <1>1, <3>1, <3>2, ReadKeeps
  <2>3. QED
    BY <2>1, <2>2
<1>6. QED
  BY <1>3, <1>4, <1>5 DEF StagingInv

\* A session that is complete is alive, and holds as much as was declared.
LEMMA WholeIs ==
  ASSUME StagingInv, IsComplete(session)
  PROVE  /\ session.alive /\ \A i \in Indexes : session.received[i] # 0
         /\ SumOf(session.received, Indexes) = Declared
<1>1. Staged(session) = Indexes /\ session.bytes = Declared
  BY DEF IsComplete
<1>2. \A i \in Indexes : session.received[i] # 0
  BY <1>1 DEF Staged
<1>3. SessionInv /\ 1 \in Indexes
  BY SlicesAre DEF StagingInv
<1>4. session.alive
  BY <1>2, <1>3, StagingTypes DEF SessionInv, StagingInv, Session
<1>5. QED
  BY <1>1, <1>2, <1>3, <1>4 DEF SessionInv, Reserved

LEMMA CheckStep ==
  ASSUME StagingInv, NEW c \in Completions,
         CompleteChecks(c) \/ QuotaRefuses(c) \/ AssembleFails(c) \/ AssembleEnds(c)
  PROVE  StagingInv'
<1>1. UNCHANGED <<expired, chunk, disk, aged, mixed, restarts>>
  BY DEF CompleteChecks, QuotaRefuses, AssembleFails, AssembleEnds
<1>2. CASE (Ends(c) /\ Discard(session)) \/ AssembleEnds(c)
  BY <1>1, <1>2, CompletionVoids
<1>3. CASE /\ CompleteChecks(c) /\ complete' = [complete EXCEPT ![c].pc = "checked"]
           /\ UNCHANGED <<session, unlinks>>
  <2> DEFINE d == [complete[c] EXCEPT !.pc = "checked"]
  <2>1. /\ complete[c] \in Completion /\ ReadInv(c) /\ complete[c].pc = "idle"
        /\ complete \in [Completions -> Completion]
    BY <1>3, StagingTypes DEF StagingInv, CompleteChecks
  <2>2. /\ d \in Completion /\ d.pc = "checked" /\ d.next = complete[c].next
        /\ d.revived = complete[c].revived /\ complete' = [complete EXCEPT ![c] = d]
    BY <1>3, <2>1 DEF Completion
  <2> HIDE DEF d
  <2>3. complete'[c] = d
    BY <2>1, <2>2
  <2>4. ReadInv(c)'
    BY <2>1, <2>2, <2>3 DEF ReadInv
  <2>5. QED
    BY <1>1, <1>3, <2>2, <2>4, CompletionGoes
<1>4. QED
  BY <1>2, <1>3 DEF CompleteChecks, QuotaRefuses, AssembleFails, AssembleEnds

LEMMA BeginStep ==
  ASSUME StagingInv, NEW c \in Completions, AssembleBegin(c)
  PROVE  StagingInv'
<1>1. /\ SessionTypeOK /\ ChunkInv /\ ReadInv(c) /\ complete[c] \in Completion
      /\ complete \in [Completions -> Completion] /\ complete[c].pc = "checked"
      /\ complete[c].next = 1
  BY StagingTypes DEF StagingInv, AssembleBegin, ReadInv
<1>2. /\ session.alive /\ \A i \in Indexes : session.received[i] # 0
      /\ SumOf(session.received, Indexes) = Declared
  BY WholeIs DEF AssembleBegin
<1> DEFINE n == IF mixed \/ \E w \in ChunkRequests : InFlight(w) THEN Unsure ELSE 0
           d == [complete[c] EXCEPT !.pc = "reading", !.revived = FALSE, !.length = n]
<1>3. n \in Nat \cup {Unsure} /\ (n # Unsure => n = 0 /\ ~mixed /\ Quiet)
  BY DEF Quiet
<1>4. complete' = [complete EXCEPT ![c] = d]
  BY <1>1, <1>2 DEF AssembleBegin
<1> HIDE DEF n
<1>5. /\ d \in Completion /\ d.pc = "reading" /\ d.next = 1 /\ d.revived = FALSE /\ d.length = n
  BY <1>1, <1>3 DEF Completion
<1> HIDE DEF d
<1>6. complete'[c] = d
  BY <1>1, <1>4
<1>7. UNCHANGED <<session, expired, chunk, disk, aged, unlinks, mixed, restarts>>
  BY DEF AssembleBegin
<1>8. Remaining(c)' = Indexes
  BY <1>5, <1>6, SlicesAre DEF Remaining
<1>9. ASSUME n # Unsure, \A i \in Indexes : disk[i] # Absent,
             NEW g, IsSum(g, Held, Indexes)
      PROVE  0 + g[Indexes] = Declared
  <2> DEFINE f == session.received
             e == Held
             S == Indexes
  <2>1. \A i \in S : disk[i] = session.received[i]
    <3>1. \A i \in S : ~Busy(i)
      BY <1>3, <1>9 DEF Busy, Quiet
    <3>2. QED
      BY <1>1, <1>2, <1>3, <1>9, <3>1 DEF ChunkInv
  <2>2. /\ f \in [S -> 0..ChunkBytes] /\ e \in [S -> Nat] /\ IsFiniteSet(S) /\ S \in SUBSET S
        /\ IsSum(g, e, S) /\ \A i \in S : e[i] = disk[i]
    BY <1>1, <1>9, StagingTypes, SlicesAre, HeldIs DEF Session
  <2>3. f \in [S -> Nat] /\ \A i \in S : e[i] = f[i]
    BY <2>1, <2>2, SlicesAre
  <2> HIDE DEF f, e, S
  <2>4. PICK h : IsSum(h, f, S) /\ SumOf(f, S) = h[S]
    BY <2>2, <2>3, SumOfIs
  <2>5. h[S] = g[S]
    BY <2>2, <2>3, <2>4, SumsLocal
  <2>6. g[S] = Declared /\ Declared \in Nat
    BY <1>2, <2>4, <2>5, SlicesAre DEF f, S
  <2>7. QED
    BY <2>6 DEF S
<1>10. ReadInv(c)'
  <2>1. Held' = Held /\ (Quiet' <=> Quiet)
    BY <1>7 DEF Held, Quiet, InFlight
  <2>2. QED
    BY <1>3, <1>5, <1>6, <1>7, <1>8, <1>9, <2>1 DEF ReadInv
<1>11. QED
  BY <1>4, <1>5, <1>7, <1>10, CompletionGoes

LEMMA ReadStep ==
  ASSUME StagingInv, NEW c \in Completions, AssembleRead(c)
  PROVE  StagingInv'
<1> DEFINE k == complete[c].next
           n == IF complete[c].length = Unsure THEN Unsure ELSE complete[c].length + disk[k]
           d == [complete[c] EXCEPT !.next = k + 1, !.length = n]
<1>1. /\ SessionTypeOK /\ ReadInv(c) /\ complete[c] \in Completion
      /\ complete \in [Completions -> Completion] /\ complete[c].pc = "reading"
      /\ k <= TotalChunks /\ disk[k] # Absent
  BY StagingTypes DEF StagingInv, AssembleRead
<1>2. /\ k \in Indexes /\ k \in Nat /\ TotalChunks \in Nat /\ k + 1 \in 1..(TotalChunks + 1)
      /\ Indexes = 1..TotalChunks
  BY <1>1, SlicesAre DEF Completion
<1>3. complete' = [complete EXCEPT ![c] = d]
  BY <1>1 DEF AssembleRead
<1>4. disk[k] \in Nat /\ Held[k] = disk[k]
  BY <1>1, <1>2, HeldIs
<1>5. n \in Nat \cup {Unsure} /\ complete[c].length \in Nat \cup {Unsure}
      /\ (n # Unsure => complete[c].length # Unsure /\ n = complete[c].length + disk[k])
  <2>1. complete[c].length \in Nat \cup {Unsure}
    BY <1>1 DEF Completion
  <2> HIDE DEF k
  <2>2. QED
    BY <1>4, <2>1
<1> HIDE DEF n, k
<1>6. /\ d \in Completion /\ d.pc = "reading" /\ d.next = k + 1 /\ d.length = n
      /\ d.revived = complete[c].revived
  BY <1>1, <1>2, <1>5 DEF Completion
<1> HIDE DEF d
<1>7. complete'[c] = d
  BY <1>1, <1>3
<1>8. UNCHANGED <<session, expired, chunk, disk, aged, unlinks, mixed, restarts>>
  BY DEF AssembleRead
<1>9. /\ Remaining(c)' = Remaining(c) \ {k} /\ k \in Remaining(c)
      /\ Remaining(c) \in SUBSET Indexes
  BY <1>2, <1>6, <1>7 DEF Remaining, k
<1>10. ASSUME n # Unsure, \A i \in Remaining(c) \ {k} : disk[i] # Absent,
              NEW g, IsSum(g, Held, Indexes)
       PROVE  n + g[Remaining(c) \ {k}] = Declared
  <2> DEFINE R == Remaining(c)
             T == R \ {k}
             e == Held
             S == Indexes
  <2>1. /\ complete[c].length # Unsure /\ complete[c].length \in Nat
        /\ \A i \in R : disk[i] # Absent
    BY <1>1, <1>5, <1>10 DEF k
  <2>2. complete[c].length + g[R] = Declared
    BY <1>1, <1>10, <2>1 DEF ReadInv
  <2>3. /\ e \in [S -> Nat] /\ IsFiniteSet(S) /\ R \in SUBSET S /\ T \in SUBSET S /\ k \in R
        /\ IsSum(g, e, S) /\ T = R \ {k}
    BY <1>1, <1>9, <1>10, HeldIs, SlicesAre
  <2>4. e[k] = disk[k]
    BY <1>4
  <2> HIDE DEF R, T, e, S
  <2>5. g[R] = e[k] + g[T]
    BY <2>3, SumLess
  <2>6. g[T] \in Nat
    BY <2>3, SumIs
  <2>7. n + g[T] = Declared
    BY <1>4, <1>5, <1>10, <2>1, <2>2, <2>4, <2>5, <2>6
  <2>8. QED
    BY <2>7 DEF T, R
<1>11. ReadInv(c)'
  <2>1. Held' = Held /\ (Quiet' <=> Quiet)
    BY <1>8 DEF Held, Quiet, InFlight
  <2>2. n # Unsure => Quiet
    BY <1>1, <1>5 DEF ReadInv
  <2>3. ~complete'[c].revived
    BY <1>1, <1>6, <1>7 DEF ReadInv
  <2>4. QED
    BY <1>6, <1>7, <1>8, <1>9, <1>10, <2>1, <2>2, <2>3 DEF ReadInv
<1>12. QED
  BY <1>3, <1>6, <1>8, <1>11, CompletionGoes

LEMMA RestartStep ==
  ASSUME StagingInv, RestartUploads
  PROVE  StagingInv'
<1>1. /\ SessionTypeOK /\ \A c \in Completions : ReadInv(c)
      /\ disk \in [Indexes -> OnDisk] /\ complete \in [Completions -> Completion]
      /\ restarts \in 0..MaxRestarts /\ MaxRestarts \in Nat
  BY StagingTypes, UploadAssumption DEF StagingInv
<1>2. /\ restarts' \in 0..MaxRestarts
      /\ session' = [alive |-> FALSE, received |-> [i \in Indexes |-> 0], bytes |-> 0]
      /\ chunk' = [w \in ChunkRequests |-> Over]
      /\ complete' = [c \in Completions |->
           IF complete[c].pc = "stored" THEN complete[c] ELSE GivenUp]
      /\ unlinks' \subseteq Indexes /\ UNCHANGED <<expired, disk, aged, mixed>>
  BY <1>1 DEF RestartUploads
<1>3. session' \in Session /\ SessionInv' /\ ChunkInv'
  <2>1. 0 \in 0..ChunkBytes /\ 0 \in Int
    BY SlicesAre
  <2>2. session' \in Session
    BY <1>2, <2>1 DEF Session
  <2>3. ~session'.alive /\ \A i \in Indexes : session'.received[i] = 0
    BY <1>2
  <2>4. QED
    BY <2>2, <2>3 DEF SessionInv, ChunkInv
<1>4. /\ chunk' \in [ChunkRequests -> Slice] /\ complete' \in [Completions -> Completion]
      /\ \A w \in ChunkRequests : ~InFlight(w)'
  BY <1>1, <1>2, StagingConstants DEF InFlight
<1>5. SessionTypeOK'
  BY <1>1, <1>2, <1>3, <1>4, StagingTypes, StagingTyped
<1>6. ASSUME NEW c \in Completions PROVE ReadInv(c)'
  <2>1. CASE complete[c].pc = "stored"
    <3>1. complete'[c] = complete[c] /\ ReadInv(c) /\ disk' \in [Indexes -> OnDisk]
          /\ \A i \in Indexes : disk'[i] = disk[i]
      BY <1>1, <1>2, <2>1
    <3>2. Quiet'
      BY <1>4 DEF Quiet
    <3>3. QED
      BY <1>1, <3>1, <3>2, ReadKeeps
  <2>2. CASE complete[c].pc # "stored"
    <3>1. complete'[c] = GivenUp
      BY <1>2, <2>2
    <3>2. QED
      BY <3>1, ReadOver
  <2>3. QED
    BY <2>1, <2>2
<1>7. QED
  BY <1>3, <1>5, <1>6 DEF StagingInv

\* One step.
LEMMA StagingNext ==
  ASSUME StagingInv, [SessionNext]_(sessionVars)
  PROVE  StagingInv'
<1>1. ASSUME NEW w \in ChunkRequests, NEW i \in Indexes, NEW n \in Lengths, Accept(w, i, n)
      PROVE  StagingInv'
  BY <1>1, AcceptStep
<1>2. ASSUME NEW w \in ChunkRequests, Reject(w) \/ WriteFails(w) PROVE StagingInv'
  BY <1>2, ChunkVoids
<1>3. ASSUME NEW w \in ChunkRequests, Open(w) PROVE StagingInv'
  BY <1>3, OpenStep
<1>4. ASSUME NEW w \in ChunkRequests, WriteDone(w) PROVE StagingInv'
  BY <1>4, WriteDoneStep
<1>5. ASSUME NEW c \in Completions,
             CompleteChecks(c) \/ QuotaRefuses(c) \/ AssembleFails(c) \/ AssembleEnds(c)
      PROVE  StagingInv'
  BY <1>5, CheckStep
<1>6. ASSUME NEW c \in Completions, AssembleBegin(c) PROVE StagingInv'
  BY <1>6, BeginStep
<1>7. ASSUME NEW c \in Completions, AssembleRead(c) PROVE StagingInv'
  BY <1>7, ReadStep
<1>8. CASE \/ \E i \in Indexes : UnlinkSlice(i) \/ AgeSlice(i) \/ SweepFile(i)
           \/ ExpireSession \/ UNCHANGED sessionVars
  BY <1>8, FilesStep
<1>9. CASE DropExpired
  BY <1>9, DropExpiredStep
<1>10. CASE RestartUploads
  BY <1>10, RestartStep
<1>11. QED
  BY <1>1, <1>2, <1>3, <1>4, <1>5, <1>6, <1>7, <1>8, <1>9, <1>10 DEF SessionNext

LEMMA AlwaysStaging == SessionSpec => []StagingInv
<1>1. SessionInit => StagingInv
  BY StagingInit
<1>2. StagingInv /\ [SessionNext]_(sessionVars) => StagingInv'
  BY StagingNext
<1>3. QED
  BY <1>1, <1>2, PTL DEF SessionSpec

\* The session object changes between two awaits of many requests.  Still a live
\* session never holds more than was declared for it, and its total is the sum
\* of its reservations, however accepted, retried, failed and rejected chunks,
\* completions, the sweep and crashes interleave.
THEOREM BudgetIsHeld == SessionSpec => []BudgetHeld
<1>0. Reserved = MapThenSumSet(LAMBDA i : session.received[i], Indexes)
  BY DEF Reserved, SumOf, MapThenSumSet, MapThenFoldSet, MapThenSumSet, MapThenFoldSet
<1>1. StagingInv => BudgetHeld
  BY <1>0 DEF StagingInv, SessionInv, BudgetHeld
<1>2. QED
  BY <1>1, AlwaysStaging, PTL

\* What was assembled while no chunk was being written is as long as was
\* declared, though its files may be unlinked under the reader; and a completion
\* that passed its checks does not assemble a session discarded since.
THEOREM AssembledIsWhole == SessionSpec => []AssembledWhole
<1>1. StagingInv => AssembledWhole
  BY DEF StagingInv, ReadInv, AssembledWhole
<1>2. QED
  BY <1>1, AlwaysStaging, PTL
-------------------------------------------------------------------------------
(***************************************************************************)
(* RenderCache.                                                            *)
(***************************************************************************)
CacheMap == [older : SUBSET (Keys \X Keys), bytes : [Keys -> Nat], expired : SUBSET Keys,
             total : Nat]
Delivery == [pc : {"idle", "rendered", "rename"}, key : Keys, bytes : Nat]

\* The entries of a Map are covered by its total, and exactly so.
Entries(c) == SumOf(c.bytes, Keys)
Sound(c) ==
  /\ c \in CacheMap /\ Ordered(c) /\ c.expired \subseteq Cached(c)
  /\ Entries(c) <= c.total
Exact(c) == Entries(c) = c.total

\* Dropping entries.
Shrinks(c, d) ==
  /\ Sound(d) /\ (Exact(c) => Exact(d))
  /\ d.total <= c.total /\ Cached(d) \subseteq Cached(c)

\* The bytes of the renames that are under way.
MovedBytes(H) == SumOf([h \in Handlers |-> H[h].bytes], Handlers)
Within == MaxTotal + (Cardinality(Handlers) - 1) * MaxEntry

\* A render whose rename is under way is not over the limit of one entry, and
\* with the entries all of them are within the bound that is claimed; unless
\* two puts of one key have overlapped, each is of a key that has no entry.
Renames(h) == handler[h].pc = "rename"
RenamesInv ==
  /\ \A h \in Handlers : handler[h].bytes <= MaxEntry /\ (Renames(h) <=> handler[h].bytes # 0)
  /\ cache.total + MovedBytes(handler) <= Within
ExactInv ==
  ~raced => /\ Exact(cache)
            /\ \A h \in Handlers : Renames(h) =>
                 /\ handler[h].key \notin Cached(cache)
                 /\ \A g \in Handlers : Renames(g) /\ handler[g].key = handler[h].key => g = h

UnlinksInv ==
  pending \in [Keys -> 0..MaxUnlinks] /\ \A k \in Cached(cache) : pending[k] < MaxUnlinks

RestTyped ==
  /\ oldFiles \subseteq files /\ files \subseteq Keys
  /\ sweep \in [pc : {"idle", "readdir", "stat", "unlink"}, names : SUBSET Keys]
  /\ raced \in BOOLEAN /\ deaths \in 0..MaxDeaths

CacheInv ==
  /\ Sound(cache) /\ handler \in [Handlers -> Delivery] /\ RestTyped
  /\ UnlinksInv /\ RenamesInv /\ ExactInv

LEMMA CacheConstants ==
  /\ IsFiniteSet(Handlers) /\ Cardinality(Handlers) \in Nat /\ Cardinality(Handlers) >= 1
  /\ IsFiniteSet(Keys) /\ Keys # {} /\ (CHOOSE k \in Keys : TRUE) \in Keys
  /\ \A n \in Sizes : n \in Nat /\ n # 0
  /\ MaxEntry \in Nat /\ MaxTotal \in Nat /\ MaxUnlinks \in Nat /\ MaxDeaths \in Nat
  /\ Within \in Nat /\ Within >= MaxTotal
<1>1. /\ IsFiniteSet(Handlers) /\ Handlers # {} /\ IsFiniteSet(Keys) /\ Keys # {}
      /\ \A n \in Sizes : n \in Nat /\ n # 0
      /\ MaxEntry \in Nat /\ MaxTotal \in Nat /\ MaxUnlinks \in Nat /\ MaxDeaths \in Nat
  BY CacheAssumption
<1>2. Cardinality(Handlers) \in Nat /\ Cardinality(Handlers) # 0
  BY <1>1, FS_CardinalityType, FS_EmptySet
<1>3. (CHOOSE k \in Keys : TRUE) \in Keys
  BY <1>1
<1>4. Within \in Nat /\ Within >= MaxTotal
  <2> DEFINE n == Cardinality(Handlers) - 1
  <2>1. n \in Nat
    BY <1>2
  <2> HIDE DEF n
  <2>2. n * MaxEntry \in Nat
    BY <1>1, <2>1
  <2>3. Within = MaxTotal + n * MaxEntry
    BY DEF Within, n
  <2>4. QED
    BY <1>1, <2>2, <2>3
<1>5. QED
  BY <1>1, <1>2, <1>3, <1>4

LEMMA EntriesAre == ASSUME NEW b, NEW K PROVE Sum(b, K) = SumOf(b, K)
BY DEF Sum, SumOf, MapThenSumSet, MapThenFoldSet, MapThenSumSet, MapThenFoldSet

LEMMA DropShrinks ==
  ASSUME NEW c, Sound(c), NEW K \in SUBSET Keys
  PROVE  /\ Shrinks(c, Drop(c, K))
         /\ Cached(Drop(c, K)) = Cached(c) \ K
<1> DEFINE d == Drop(c, K)
           b == c.bytes
           e == [k \in Keys |-> IF k \in K THEN 0 ELSE b[k]]
<1>1. /\ c \in CacheMap /\ Ordered(c) /\ c.expired \subseteq Cached(c)
      /\ c.bytes \in [Keys -> Nat] /\ c.total \in Nat /\ c.older \subseteq Keys \X Keys
      /\ Entries(c) <= c.total
  BY DEF Sound, CacheMap
<1>2. /\ d.older = {p \in c.older : p[1] \notin K /\ p[2] \notin K}
      /\ d.bytes = e /\ d.expired = c.expired \ K /\ d.total = c.total - SumOf(b, K)
      /\ d = [older |-> d.older, bytes |-> d.bytes, expired |-> d.expired, total |-> d.total]
  BY EntriesAre DEF Drop
<1>3. /\ e \in [Keys -> Nat] /\ \A k \in Keys : e[k] = IF k \in K THEN 0 ELSE b[k]
  BY <1>1
<1> HIDE DEF d
<1>4. Cached(d) = Cached(c) \ K
  BY <1>2, <1>3 DEF Cached
<1>5. /\ SumOf(e, Keys) = SumOf(b, Keys) - SumOf(b, K)
      /\ SumOf(e, Keys) \in Nat /\ SumOf(b, Keys) \in Nat /\ SumOf(b, K) \in Nat
  <2> HIDE DEF b, e
  <2>1. b \in [Keys -> Nat] /\ e \in [Keys -> Nat]
    BY <1>1, <1>3 DEF b
  <2>2. QED
    BY <1>3, <2>1, CacheConstants, SumOfDrop
<1> HIDE DEF e
<1>6. /\ d.total \in Nat /\ d.total <= c.total /\ Entries(d) <= d.total
      /\ Exact(c) => Exact(d)
  BY <1>1, <1>2, <1>5 DEF Entries, Exact
<1>7. Ordered(d)
  <2>1. \A p \in d.older : p \in c.older /\ p[1] \notin K /\ p[2] \notin K
    BY <1>2
  <2>2. ASSUME NEW j \in Cached(d), NEW k \in Cached(d)
        PROVE  j = k \/ <<j, k>> \in d.older \/ <<k, j>> \in d.older
    <3>1. j \in Cached(c) /\ k \in Cached(c) /\ j \notin K /\ k \notin K
      BY <1>4, <2>2
    <3>2. j = k \/ <<j, k>> \in c.older \/ <<k, j>> \in c.older
      BY <1>1, <3>1 DEF Ordered
    <3>3. QED
      BY <1>2, <3>1, <3>2
  <2>3. ASSUME NEW p \in d.older
        PROVE  p \in Cached(d) \X Cached(d) /\ <<p[2], p[1]>> \notin d.older
    <3>1. p \in Cached(c) \X Cached(c) /\ <<p[2], p[1]>> \notin c.older
      BY <1>1, <2>1 DEF Ordered
    <3>2. QED
      BY <1>4, <2>1, <3>1
  <2>4. ASSUME NEW p \in d.older, NEW q \in d.older, p[2] = q[1]
        PROVE  <<p[1], q[2]>> \in d.older
    <3>1. <<p[1], q[2]>> \in c.older
      BY <1>1, <2>1, <2>4 DEF Ordered
    <3>2. QED
      BY <1>2, <2>1, <3>1
  <2>5. QED
    BY <2>2, <2>3, <2>4 DEF Ordered
<1>8. d \in CacheMap
  BY <1>1, <1>2, <1>3, <1>6 DEF CacheMap
<1>9. d.expired \subseteq Cached(d)
  BY <1>1, <1>2, <1>4
<1>10. QED
  BY <1>4, <1>6, <1>7, <1>8, <1>9 DEF Shrinks, Sound, d

LEMMA ShrinksOn ==
  ASSUME NEW c, NEW d, NEW e, Sound(c), Shrinks(c, d), Shrinks(d, e)
  PROVE  Shrinks(c, e)
<1>1. c.total \in Nat /\ d.total \in Nat /\ e.total \in Nat
  BY DEF Shrinks, Sound, CacheMap
<1>2. QED
  BY <1>1 DEF Shrinks

\* What the steps of the cache drop.
LEMMA EvictShrinks ==
  ASSUME NEW c, Sound(c)
  PROVE  Shrinks(c, EvictExpired(c))
<1>1. c.expired \in SUBSET Keys
  BY DEF Sound, CacheMap
<1>2. QED
  BY <1>1, DropShrinks DEF EvictExpired

LEMMA GetShrinks ==
  ASSUME NEW c, Sound(c), NEW k \in Keys
  PROVE  Shrinks(c, Get(c, k))
<1>1. Shrinks(c, c)
  BY DEF Shrinks, Sound, CacheMap
<1>2. {k} \cap Cached(c) \in SUBSET Keys
  OBVIOUS
<1>3. QED
  BY <1>1, <1>2, DropShrinks DEF Get

LEMMA RoomShrinks ==
  ASSUME NEW c, Sound(c), NEW k \in Keys, NEW bytes \in Nat
  PROVE  Shrinks(c, Room(c, k, bytes)) /\ k \notin Cached(Room(c, k, bytes))
<1> DEFINE fresh == EvictExpired(c)
           without == Drop(fresh, {k} \cap Cached(fresh))
           before(x) == {j \in Keys : <<j, x>> \in without.older}
           fitsWithout(K) == without.total - Sum(without.bytes, K) + bytes <= MaxTotal
           gone == {x \in Cached(without) : ~fitsWithout(before(x))}
           room == Drop(without, gone)
<1>1. Shrinks(c, fresh)
  BY EvictShrinks
<1>2. {k} \cap Cached(fresh) \in SUBSET Keys /\ gone \in SUBSET Keys
  BY DEF Cached
<1>3. room = Room(c, k, bytes)
  BY DEF Room, MakeRoom
<1> HIDE DEF fresh, gone
<1>4. Sound(fresh)
  BY <1>1 DEF Shrinks
<1>5. Shrinks(fresh, without) /\ Cached(without) = Cached(fresh) \ ({k} \cap Cached(fresh))
  BY <1>2, <1>4, DropShrinks
<1> HIDE DEF without
<1>6. Sound(without) /\ k \notin Cached(without)
  BY <1>5 DEF Shrinks
<1>7. Shrinks(without, room) /\ k \notin Cached(room)
  BY <1>2, <1>6, DropShrinks
<1> HIDE DEF room
<1>8. Shrinks(c, without)
  BY <1>1, <1>5, ShrinksOn
<1>9. QED
  BY <1>3, <1>7, <1>8, ShrinksOn

LEMMA InsertIs ==
  ASSUME NEW c, Sound(c), NEW k \in Keys, NEW n \in Nat, n # 0
  PROVE  LET d == SetEntry(c, k, n) IN
         /\ Sound(d) /\ (k \notin Cached(c) /\ Exact(c) => Exact(d))
         /\ d.total = c.total + n /\ Cached(d) = Cached(c) \cup {k}
<1> DEFINE d == SetEntry(c, k, n)
           b == c.bytes
           e == [c.bytes EXCEPT ![k] = n]
<1>1. /\ c \in CacheMap /\ Ordered(c) /\ c.expired \subseteq Cached(c)
      /\ b \in [Keys -> Nat] /\ c.total \in Nat /\ c.older \subseteq Keys \X Keys
      /\ Entries(c) <= c.total
  BY DEF Sound, CacheMap
<1>2. /\ d.older = IF k \in Cached(c) THEN c.older ELSE c.older \cup (Cached(c) \X {k})
      /\ d.bytes = e /\ d.expired = c.expired \ {k} /\ d.total = c.total + n
      /\ d = [older |-> d.older, bytes |-> d.bytes, expired |-> d.expired, total |-> d.total]
  BY DEF SetEntry
<1>3. /\ e \in [Keys -> Nat] /\ e[k] = n /\ \A j \in Keys : j # k => e[j] = b[j]
      /\ b[k] \in Nat /\ (k \notin Cached(c) => b[k] = 0)
  BY <1>1 DEF Cached
<1> HIDE DEF d, e
<1>4. Cached(d) = Cached(c) \cup {k}
  BY <1>2, <1>3 DEF Cached
<1>5. /\ SumOf(e, Keys) = SumOf(b, Keys) - b[k] + n
      /\ SumOf(e, Keys) \in Nat /\ SumOf(b, Keys) \in Nat
  <2> HIDE DEF b
  <2>1. b \in [Keys -> Nat]
    BY <1>1
  <2>2. QED
    BY <1>3, <2>1, CacheConstants, SumOfReplace
<1>6. /\ Entries(d) <= d.total /\ d.total \in Nat
      /\ k \notin Cached(c) /\ Exact(c) => Exact(d)
  <2>1. Entries(d) = SumOf(e, Keys) /\ Entries(c) = SumOf(b, Keys)
    BY <1>2 DEF Entries
  <2> HIDE DEF b
  <2>2. QED
    BY <1>1, <1>2, <1>3, <1>5, <2>1 DEF Exact
<1>7. Ordered(d)
  <2>1. CASE k \in Cached(c)
    BY <1>1, <1>2, <1>4, <2>1 DEF Ordered
  <2>2. CASE k \notin Cached(c)
    <3>1. /\ d.older = c.older \cup (Cached(c) \X {k})
          /\ \A p \in c.older : p \in Cached(c) \X Cached(c) /\ p[1] # k /\ p[2] # k
      BY <1>1, <1>2, <2>2 DEF Ordered
    <3>2. ASSUME NEW i \in Cached(d), NEW j \in Cached(d)
          PROVE  i = j \/ <<i, j>> \in d.older \/ <<j, i>> \in d.older
      <4>1. CASE i \in Cached(c) /\ j \in Cached(c)
        BY <1>1, <3>1, <4>1 DEF Ordered
      <4>2. CASE i = k \/ j = k
        BY <1>4, <3>1, <4>2
      <4>3. QED
        BY <1>4, <4>1, <4>2
    <3>3. ASSUME NEW p \in d.older
          PROVE  p \in Cached(d) \X Cached(d) /\ <<p[2], p[1]>> \notin d.older
      <4>1. CASE p \in c.older
        <5>1. <<p[2], p[1]>> \notin c.older
          BY <1>1, <4>1 DEF Ordered
        <5>2. <<p[2], p[1]>> \notin Cached(c) \X {k}
          BY <3>1, <4>1
        <5>3. QED
          BY <1>4, <3>1, <4>1, <5>1, <5>2
      <4>2. CASE p \in Cached(c) \X {k}
        <5>1. p[1] \in Cached(c) /\ p[2] = k /\ p[1] # k
          BY <2>2, <4>2
        <5>2. <<p[2], p[1]>> \notin c.older
          BY <3>1, <5>1
        <5>3. QED
          BY <1>4, <3>1, <4>2, <5>1, <5>2
      <4>3. QED
        BY <3>1, <4>1, <4>2
    <3>4. ASSUME NEW p \in d.older, NEW q \in d.older, p[2] = q[1]
          PROVE  <<p[1], q[2]>> \in d.older
      <4>1. q[1] # k
        BY <2>2, <3>1, <3>4
      <4>2. p \in c.older
        BY <3>1, <3>4, <4>1
      <4>3. CASE q \in c.older
        BY <1>1, <3>1, <3>4, <4>2, <4>3 DEF Ordered
      <4>4. CASE q \in Cached(c) \X {k}
        <5>1. q[2] = k /\ p[1] \in Cached(c)
          BY <3>1, <4>2, <4>4
        <5>2. QED
          BY <3>1, <5>1
      <4>5. QED
        BY <3>1, <4>3, <4>4
    <3>5. QED
      BY <3>2, <3>3, <3>4 DEF Ordered
  <2>3. QED
    BY <2>1, <2>2
<1>8. d \in CacheMap
  <2>1. d.older \subseteq Keys \X Keys
    BY <1>1, <1>2 DEF Cached
  <2>2. d.expired \subseteq Keys
    BY <1>1, <1>2 DEF CacheMap
  <2>3. QED
    BY <1>2, <1>3, <1>6, <2>1, <2>2 DEF CacheMap
<1>9. d.expired \subseteq Cached(d)
  BY <1>1, <1>2, <1>4
<1>10. Sound(d)
  BY <1>6, <1>7, <1>8, <1>9 DEF Sound
<1>11. QED
  BY <1>2, <1>4, <1>6, <1>10 DEF d

\* Entries that go are unlinked, once each.
LEMMA BecomesIs ==
  ASSUME UnlinksInv, NEW c, Becomes(c),
         \A k \in Cached(c) \ Cached(cache) : k \in Keys /\ pending[k] < MaxUnlinks
  PROVE  cache' = c /\ UnlinksInv'
<1>1. /\ cache' = c
      /\ pending' = [k \in Keys |-> pending[k] + IF k \in Cached(cache) \ Cached(c) THEN 1 ELSE 0]
  BY DEF Becomes, Unlinked
<1>2. /\ MaxUnlinks \in Nat /\ pending \in [Keys -> 0..MaxUnlinks]
      /\ \A k \in Cached(cache) : k \in Keys /\ pending[k] < MaxUnlinks
  BY CacheConstants DEF UnlinksInv, Cached
<1>3. pending' \in [Keys -> 0..MaxUnlinks]
  <2>1. ASSUME NEW k \in Keys
        PROVE  pending[k] + (IF k \in Cached(cache) \ Cached(c) THEN 1 ELSE 0) \in 0..MaxUnlinks
    <3>1. pending[k] \in 0..MaxUnlinks
      BY <1>2
    <3>2. QED
      BY <1>2, <3>1
  <2>2. QED
    BY <1>1, <2>1
<1>4. ASSUME NEW k \in Cached(c) PROVE pending'[k] < MaxUnlinks
  <2>1. k \in Keys /\ pending[k] < MaxUnlinks /\ pending[k] \in Nat
    BY <1>2
  <2>2. pending'[k] = pending[k]
    BY <1>1, <2>1
  <2>3. QED
    BY <2>1, <2>2
<1>5. QED
  BY <1>1, <1>3, <1>4 DEF UnlinksInv

\* One delivery goes on.
LEMMA InFlightIs ==
  ASSUME NEW H \in [Handlers -> Delivery], NEW h \in Handlers, NEW d \in Delivery
  PROVE  /\ [H EXCEPT ![h] = d] \in [Handlers -> Delivery]
         /\ MovedBytes([H EXCEPT ![h] = d]) = MovedBytes(H) - H[h].bytes + d.bytes
         /\ MovedBytes(H) \in Nat
<1> DEFINE f == [x \in Handlers |-> H[x].bytes]
           G == [H EXCEPT ![h] = d]
           e == [x \in Handlers |-> G[x].bytes]
<1>1. G \in [Handlers -> Delivery] /\ G[h] = d /\ \A x \in Handlers : x # h => G[x] = H[x]
  OBVIOUS
<1> HIDE DEF G
<1>2. /\ f \in [Handlers -> Nat] /\ e \in [Handlers -> Nat]
      /\ \A x \in Handlers : x # h => e[x] = f[x]
      /\ f[h] = H[h].bytes /\ e[h] = d.bytes
  BY <1>1 DEF Delivery
<1> HIDE DEF f, e
<1>3. /\ SumOf(e, Handlers) = SumOf(f, Handlers) - f[h] + e[h] /\ SumOf(f, Handlers) \in Nat
  BY <1>2, CacheConstants, SumOfReplace
<1>4. MovedBytes(H) = SumOf(f, Handlers) /\ MovedBytes(G) = SumOf(e, Handlers)
  BY DEF MovedBytes, f, e
<1>5. QED
  BY <1>1, <1>2, <1>3, <1>4 DEF G

LEMMA OthersBounded ==
  ASSUME NEW H \in [Handlers -> Delivery], NEW h \in Handlers,
         \A x \in Handlers : H[x].bytes <= MaxEntry
  PROVE  /\ MovedBytes(H) - H[h].bytes <= (Cardinality(Handlers) - 1) * MaxEntry
         /\ MovedBytes(H) \in Nat /\ (Cardinality(Handlers) - 1) * MaxEntry \in Nat
<1> DEFINE f == [x \in Handlers |-> H[x].bytes]
           rest == Handlers \ {h}
           m == Cardinality(rest)
<1>1. f \in [Handlers -> Nat] /\ (\A x \in Handlers : f[x] <= MaxEntry) /\ f[h] = H[h].bytes
  BY DEF Delivery
<1>2. /\ IsFiniteSet(Handlers) /\ Handlers \in SUBSET Handlers /\ MaxEntry \in Nat
      /\ MovedBytes(H) = SumOf(f, Handlers) /\ rest \in SUBSET Handlers
      /\ Cardinality(rest) = Cardinality(Handlers) - 1 /\ m \in Nat
  BY CacheConstants, OneLess DEF MovedBytes
<1> HIDE DEF f
<1>3. PICK g : IsSum(g, f, Handlers)
  BY <1>1, <1>2, SumExists
<1>4. SumOf(f, Handlers) = g[Handlers]
  <2>1. f \in [Handlers -> Nat] /\ IsFiniteSet(Handlers) /\ Handlers \in SUBSET Handlers
    BY <1>1, <1>2
  <2>2. QED
    BY <1>3, <2>1, SumOfPart
<1>5. g[Handlers] = f[h] + g[rest]
  BY <1>1, <1>2, <1>3, SumLess
<1> HIDE DEF rest
<1>6. g[rest] <= Cardinality(rest) * MaxEntry
  BY <1>1, <1>2, <1>3, SumsBounded
<1>7. g[rest] \in Nat /\ g[Handlers] \in Nat /\ f[h] \in Nat
  BY <1>1, <1>2, <1>3, SumIs
<1>8. m * MaxEntry \in Nat
  <2> HIDE DEF m
  <2>1. QED
    BY <1>2
<1>9. MovedBytes(H) - H[h].bytes = g[rest]
  BY <1>1, <1>2, <1>4, <1>5, <1>7
<1>10. QED
  BY <1>2, <1>4, <1>6, <1>7, <1>8, <1>9

LEMMA InitCache == ASSUME CacheInit PROVE CacheInv
<1> DEFINE f == [h \in Handlers |-> handler[h].bytes]
           zero == [k \in Keys |-> 0]
<1>1. /\ cache.older = {} /\ cache.bytes = zero /\ cache.expired = {} /\ cache.total = 0
      /\ cache = [older |-> cache.older, bytes |-> cache.bytes, expired |-> cache.expired,
                  total |-> cache.total]
      /\ Cached(cache) = {}
  BY DEF CacheInit, Empty, Cached
<1>2. handler \in [Handlers -> Delivery] /\ \A h \in Handlers : handler[h].bytes = 0 /\ ~Renames(h)
  BY CacheConstants DEF CacheInit, Rest, Delivery, Renames
<1>3. Entries(cache) = 0
  <2>1. zero \in [Keys -> Nat] /\ \A k \in Keys : zero[k] = 0
    OBVIOUS
  <2> HIDE DEF zero
  <2>2. SumOf(zero, Keys) = 0
    BY <2>1, CacheConstants, SumOfZero
  <2>3. QED
    BY <1>1, <2>2 DEF Entries
<1>4. Sound(cache) /\ Exact(cache)
  BY <1>1, <1>3 DEF Sound, Exact, Ordered, CacheMap
<1>5. MovedBytes(handler) = 0
  <2>1. f \in [Handlers -> Nat] /\ \A h \in Handlers : f[h] = 0
    BY <1>2
  <2> HIDE DEF f
  <2>2. SumOf(f, Handlers) = 0
    BY <2>1, CacheConstants, SumOfZero
  <2>3. QED
    BY <2>2 DEF MovedBytes, f
<1>6. RenamesInv /\ ExactInv
  BY <1>1, <1>2, <1>4, <1>5, CacheConstants DEF RenamesInv, ExactInv
<1>7. UnlinksInv
  BY <1>1, CacheConstants DEF UnlinksInv, CacheInit
<1>8. RestTyped
  <2>1. 0 \in 0..MaxDeaths
    BY CacheConstants
  <2>2. QED
    BY <2>1 DEF RestTyped, CacheInit
<1>9. QED
  BY <1>2, <1>4, <1>6, <1>7, <1>8 DEF CacheInv

\* Steps that drop entries, and start no rename.
LEMMA ShrinkStep ==
  ASSUME CacheInv, NEW c, Shrinks(cache, c), Becomes(c),
         RestTyped', raced' = raced, handler' \in [Handlers -> Delivery],
         \A h \in Handlers : handler'[h] = handler[h]
                             \/ (handler'[h].bytes = 0 /\ handler'[h].pc # "rename"),
         MovedBytes(handler') <= MovedBytes(handler), MovedBytes(handler') \in Nat
  PROVE  CacheInv'
<1>1. /\ Sound(cache) /\ handler \in [Handlers -> Delivery]
      /\ UnlinksInv /\ RenamesInv /\ ExactInv
  BY DEF CacheInv
<1>2. Sound(c) /\ (Exact(cache) => Exact(c)) /\ c.total <= cache.total
      /\ Cached(c) \subseteq Cached(cache)
  BY DEF Shrinks
<1>3. cache' = c /\ UnlinksInv'
  BY <1>1, <1>2, BecomesIs
<1>4. Sound(cache)'
  BY <1>2, <1>3 DEF Sound, Entries, CacheMap, Ordered, Cached
<1>5. ASSUME NEW h \in Handlers
      PROVE  /\ handler'[h].bytes <= MaxEntry /\ (Renames(h)' <=> handler'[h].bytes # 0)
             /\ Renames(h)' => Renames(h) /\ handler'[h] = handler[h]
  BY <1>1, CacheConstants DEF RenamesInv, Renames
<1>6. RenamesInv'
  <2>1. MovedBytes(handler)' = MovedBytes(handler')
    BY DEF MovedBytes
  <2>2. cache'.total + MovedBytes(handler') <= Within
    <3>1. c.total \in Nat /\ cache.total \in Nat /\ MovedBytes(handler) \in Nat
      <4>1. c.total \in Nat /\ cache.total \in Nat
        BY <1>1, <1>2 DEF Sound, CacheMap
      <4>2. MovedBytes(handler) \in Nat
        <5>1. PICK h \in Handlers : TRUE
          BY CacheAssumption
        <5>2. QED
          BY <1>1, <5>1, InFlightIs
      <4>3. QED
        BY <4>1, <4>2
    <3>2. cache.total + MovedBytes(handler) <= Within /\ Within \in Nat
      BY <1>1, CacheConstants DEF RenamesInv
    <3>3. QED
      BY <1>2, <1>3, <3>1, <3>2
  <2>3. Within' = Within
    BY DEF Within
  <2>4. QED
    BY <1>5, <2>1, <2>2, <2>3 DEF RenamesInv
<1>7. ExactInv'
  <2>1. ASSUME ~raced'
        PROVE  /\ Exact(cache)
               /\ \A h \in Handlers : Renames(h) =>
                    /\ handler[h].key \notin Cached(cache)
                    /\ \A g \in Handlers : Renames(g) /\ handler[g].key = handler[h].key => g = h
    BY <1>1, <2>1 DEF ExactInv
  <2>2. ASSUME ~raced' PROVE Exact(cache)'
    <3>1. Exact(c)
      BY <1>2, <2>1, <2>2
    <3>2. QED
      BY <1>3, <3>1 DEF Exact, Entries
  <2>3. Cached(cache)' = Cached(c)
    BY <1>3 DEF Cached
  <2>4. ASSUME ~raced', NEW h \in Handlers, Renames(h)'
        PROVE  /\ handler'[h].key \notin Cached(c)
               /\ \A g \in Handlers : Renames(g)' /\ handler'[g].key = handler'[h].key => g = h
    BY <1>2, <1>5, <2>1, <2>4
  <2>5. QED
    BY <2>2, <2>3, <2>4 DEF ExactInv
<1>8. QED
  BY <1>3, <1>4, <1>6, <1>7 DEF CacheInv

\* Steps that neither the entries nor the deliveries notice.
LEMMA CacheFiles ==
  ASSUME CacheInv, handler' = handler, raced' = raced, RestTyped',
         \/ cache' = cache
         \/ \E k \in Cached(cache) : cache' = [cache EXCEPT !.expired = @ \cup {k}],
         pending' \in [Keys -> 0..MaxUnlinks], \A k \in Keys : pending'[k] <= pending[k]
  PROVE  CacheInv'
<1>1. /\ Sound(cache) /\ handler \in [Handlers -> Delivery] /\ cache \in CacheMap
      /\ UnlinksInv /\ RenamesInv /\ ExactInv
  BY DEF CacheInv, Sound
<1>2. /\ cache' \in CacheMap /\ cache'.bytes = cache.bytes /\ cache'.total = cache.total
      /\ cache'.older = cache.older /\ cache'.expired \subseteq cache.expired \cup Cached(cache)
  <2>1. CASE cache' = cache
    BY <1>1, <2>1
  <2>2. ASSUME NEW k \in Cached(cache), cache' = [cache EXCEPT !.expired = @ \cup {k}]
        PROVE  /\ cache' \in CacheMap /\ cache'.bytes = cache.bytes /\ cache'.total = cache.total
               /\ cache'.older = cache.older /\ cache'.expired \subseteq cache.expired \cup Cached(cache)
    BY <1>1, <2>2 DEF CacheMap, Cached
  <2>3. QED
    BY <2>1, <2>2
<1>3. Cached(cache)' = Cached(cache)
  BY <1>2 DEF Cached
<1>4. Entries(cache)' = Entries(cache)
  BY <1>2 DEF Entries
<1>5. Ordered(cache)'
  BY <1>1, <1>2, <1>3 DEF Sound, Ordered
<1>6. Sound(cache)'
  BY <1>1, <1>2, <1>3, <1>4, <1>5 DEF Sound
<1>7. UnlinksInv'
  <2>1. ASSUME NEW k \in Cached(cache) PROVE pending'[k] < MaxUnlinks
    <3>1. k \in Keys /\ pending[k] < MaxUnlinks /\ pending'[k] <= pending[k]
          /\ pending[k] \in Nat /\ pending'[k] \in Nat /\ MaxUnlinks \in Nat
      BY <1>1, CacheConstants DEF UnlinksInv, Cached
    <3>2. QED
      BY <3>1
  <2>2. QED
    BY <1>3, <2>1 DEF UnlinksInv
<1>8. RenamesInv'
  BY <1>1, <1>2 DEF RenamesInv, Renames, MovedBytes, Within
<1>9. ExactInv'
  BY <1>1, <1>2, <1>3, <1>4 DEF ExactInv, Exact, Renames
<1>10. QED
  BY <1>1, <1>6, <1>7, <1>8, <1>9 DEF CacheInv

\* A delivery that goes back to rest, or begins to render.
LEMMA LeavesIs ==
  ASSUME CacheInv, NEW h \in Handlers, NEW d \in Delivery,
         d.bytes = 0, d.pc # "rename", handler' = [handler EXCEPT ![h] = d]
  PROVE  /\ handler' \in [Handlers -> Delivery]
         /\ \A g \in Handlers : handler'[g] = handler[g]
                                \/ (handler'[g].bytes = 0 /\ handler'[g].pc # "rename")
         /\ MovedBytes(handler') <= MovedBytes(handler) /\ MovedBytes(handler') \in Nat
<1>1. handler \in [Handlers -> Delivery] /\ handler[h].bytes \in Nat
  BY DEF CacheInv, Delivery
<1>2. /\ handler' \in [Handlers -> Delivery]
      /\ MovedBytes(handler') = MovedBytes(handler) - handler[h].bytes + d.bytes
      /\ MovedBytes(handler) \in Nat
  BY <1>1, InFlightIs
<1>3. MovedBytes(handler') \in Nat
  BY <1>2, InFlightIs
<1>4. \A g \in Handlers : handler'[g] = handler[g]
                          \/ (handler'[g].bytes = 0 /\ handler'[g].pc # "rename")
  BY <1>1
<1>5. QED
  BY <1>1, <1>2, <1>3, <1>4

LEMMA StaysIs ==
  ASSUME CacheInv, UNCHANGED <<cache, pending>>
  PROVE  Becomes(cache) /\ Shrinks(cache, cache)
<1>1. pending \in [Keys -> 0..MaxUnlinks]
  BY DEF CacheInv, UnlinksInv
<1>2. pending = [k \in Keys |-> pending[k] + 0]
  <2>1. \A k \in Keys : pending[k] \in Nat
    BY <1>1
  <2>2. QED
    BY <1>1, <2>1
<1>3. Unlinked(cache, cache) = [k \in Keys |-> pending[k] + 0]
  BY DEF Unlinked
<1>4. Sound(cache) /\ cache.total \in Nat
  BY DEF CacheInv, Sound, CacheMap
<1>5. Shrinks(cache, cache)
  BY <1>4 DEF Shrinks
<1>6. QED
  BY <1>2, <1>3, <1>5 DEF Becomes

\* No more than before.
LEMMA SameFlight ==
  ASSUME CacheInv, handler' = handler
  PROVE  /\ handler' \in [Handlers -> Delivery] /\ \A h \in Handlers : handler'[h] = handler[h]
         /\ MovedBytes(handler') <= MovedBytes(handler) /\ MovedBytes(handler') \in Nat
<1>1. handler \in [Handlers -> Delivery]
  BY DEF CacheInv
<1>2. PICK h \in Handlers : TRUE
  BY CacheAssumption
<1>3. MovedBytes(handler) \in Nat
  BY <1>1, <1>2, InFlightIs
<1>4. QED
  BY <1>1, <1>3

LEMMA LookupStep ==
  ASSUME CacheInv, NEW h \in Handlers, NEW k \in Keys, Lookup(h, k)
  PROVE  CacheInv'
<1> DEFINE fresh == EvictExpired(cache)
           c == Get(fresh, k)
           d == [pc |-> "rendered", key |-> k, bytes |-> 0]
<1>1. Sound(cache) /\ Shrinks(cache, fresh) /\ Sound(fresh)
  BY EvictShrinks DEF CacheInv, Shrinks
<1>2. Becomes(c) /\ RestTyped' /\ raced' = raced
  BY DEF Lookup, CacheInv, RestTyped
<1>3. handler' = handler \/ handler' = [handler EXCEPT ![h] = d]
  BY DEF Lookup
<1> HIDE DEF fresh
<1>4. Shrinks(cache, c)
  BY <1>1, GetShrinks, ShrinksOn
<1> HIDE DEF c
<1>5. CASE handler' = handler
  BY <1>2, <1>4, <1>5, SameFlight, ShrinkStep
<1>6. CASE handler' = [handler EXCEPT ![h] = d]
  <2>1. d \in Delivery /\ d.bytes = 0 /\ d.pc # "rename"
    BY DEF Delivery
  <2> HIDE DEF d
  <2>2. /\ handler' \in [Handlers -> Delivery]
        /\ \A g \in Handlers : handler'[g] = handler[g]
                               \/ (handler'[g].bytes = 0 /\ handler'[g].pc # "rename")
        /\ MovedBytes(handler') <= MovedBytes(handler) /\ MovedBytes(handler') \in Nat
    BY <1>6, <2>1, LeavesIs
  <2>3. QED
    BY <1>2, <1>4, <2>2, ShrinkStep
<1>7. QED
  BY <1>3, <1>5, <1>6

LEMMA RestIs ==
  ASSUME NEW h \in Handlers
  PROVE  Rest[h] \in Delivery /\ Rest[h].bytes = 0 /\ Rest[h].pc # "rename"
BY CacheConstants DEF Rest, Delivery

\* A delivery goes back to rest while the entries become c.
LEMMA GivesUp ==
  ASSUME CacheInv, NEW h \in Handlers, NEW c, Shrinks(cache, c), Becomes(c),
         handler' = [handler EXCEPT ![h] = Rest[h]],
         UNCHANGED <<files, oldFiles, sweep, raced, deaths>>
  PROVE  CacheInv'
<1>1. Rest[h] \in Delivery /\ Rest[h].bytes = 0 /\ Rest[h].pc # "rename"
  BY RestIs
<1>2. /\ handler' \in [Handlers -> Delivery]
      /\ \A g \in Handlers : handler'[g] = handler[g]
                             \/ (handler'[g].bytes = 0 /\ handler'[g].pc # "rename")
      /\ MovedBytes(handler') <= MovedBytes(handler) /\ MovedBytes(handler') \in Nat
  BY <1>1, LeavesIs
<1>3. RestTyped' /\ raced' = raced
  BY DEF CacheInv, RestTyped
<1>4. QED
  BY <1>2, <1>3, ShrinkStep

LEMMA DeclineStep ==
  ASSUME CacheInv, NEW h \in Handlers, Decline(h) \/ RenameFails(h)
  PROVE  CacheInv'
<1>1. /\ handler' = [handler EXCEPT ![h] = Rest[h]]
      /\ UNCHANGED <<cache, pending, files, oldFiles, sweep, raced, deaths>>
  BY DEF Decline, RenameFails
<1>2. Becomes(cache) /\ Shrinks(cache, cache)
  BY <1>1, StaysIs
<1>3. QED
  BY <1>1, <1>2, GivesUp

LEMMA CacheFilesStep ==
  ASSUME CacheInv,
         \/ \E k \in Keys : \/ UnlinkFile(k) \/ ExpireEntry(k) \/ AgeFile(k)
                            \/ SweepStat(k) \/ SweepUnlink(k)
         \/ SweepRead \/ UNCHANGED cacheVars
  PROVE  CacheInv'
<1>1. /\ RestTyped /\ pending \in [Keys -> 0..MaxUnlinks]
      /\ \A k \in Keys : pending[k] <= pending[k]
  BY DEF CacheInv, UnlinksInv
<1>2. CASE SweepRead \/ UNCHANGED cacheVars
  <2>1. UNCHANGED <<cache, pending, handler, raced>>
    BY <1>2 DEF SweepRead, cacheVars
  <2>2. RestTyped'
    BY <1>1, <1>2 DEF SweepRead, cacheVars, Sweepable, RestTyped
  <2>3. QED
    BY <1>1, <2>1, <2>2, CacheFiles
<1>3. ASSUME NEW k \in Keys, AgeFile(k) \/ SweepStat(k) \/ SweepUnlink(k) PROVE CacheInv'
  <2>1. UNCHANGED <<cache, pending, handler, raced, deaths>>
    BY <1>3 DEF AgeFile, SweepStat, SweepUnlink
  <2>2. oldFiles' \subseteq files' /\ files' \subseteq Keys
    BY <1>1, <1>3 DEF AgeFile, SweepStat, SweepUnlink, RestTyped
  <2>3. sweep' \in [pc : {"idle", "readdir", "stat", "unlink"}, names : SUBSET Keys]
    BY <1>1, <1>3 DEF AgeFile, SweepStat, SweepUnlink, RestTyped
  <2>4. RestTyped'
    BY <1>1, <2>1, <2>2, <2>3 DEF RestTyped
  <2>5. QED
    BY <1>1, <2>1, <2>4, CacheFiles
<1>4. ASSUME NEW k \in Keys, UnlinkFile(k) PROVE CacheInv'
  <2>1. UNCHANGED <<cache, handler, raced>> /\ RestTyped'
    BY <1>1, <1>4 DEF UnlinkFile, RestTyped
  <2>2. pending[k] > 0 /\ pending' = [pending EXCEPT ![k] = pending[k] - 1]
        /\ pending[k] \in 0..MaxUnlinks /\ MaxUnlinks \in Nat
    BY <1>1, <1>4, CacheConstants DEF UnlinkFile
  <2>3. pending[k] - 1 \in 0..MaxUnlinks /\ pending[k] - 1 <= pending[k]
    BY <2>2
  <2>4. pending' \in [Keys -> 0..MaxUnlinks] /\ \A j \in Keys : pending'[j] <= pending[j]
    BY <1>1, <2>2, <2>3
  <2>5. QED
    BY <2>1, <2>4, CacheFiles
<1>5. ASSUME NEW k \in Keys, ExpireEntry(k) PROVE CacheInv'
  <2>1. UNCHANGED <<pending, handler, raced>> /\ RestTyped'
    BY <1>1, <1>5 DEF ExpireEntry, RestTyped
  <2>2. \E j \in Cached(cache) : cache' = [cache EXCEPT !.expired = @ \cup {j}]
    BY <1>5 DEF ExpireEntry
  <2>3. QED
    BY <1>1, <2>1, <2>2, CacheFiles
<1>6. QED
  BY <1>2, <1>3, <1>4, <1>5

LEMMA SweepBeginStep == ASSUME CacheInv, SweepBegin PROVE CacheInv'
<1>1. Sound(cache) /\ RestTyped
  BY DEF CacheInv
<1>2. Becomes(EvictExpired(cache)) /\ UNCHANGED <<handler, raced>> /\ RestTyped'
  BY <1>1 DEF SweepBegin, RestTyped
<1>3. Shrinks(cache, EvictExpired(cache))
  BY <1>1, EvictShrinks
<1>4. QED
  BY <1>2, <1>3, SameFlight, ShrinkStep

LEMMA AdmitRenderStep ==
  ASSUME CacheInv, NEW h \in Handlers, NEW n \in Sizes, AdmitRender(h, n)
  PROVE  CacheInv'
<1> DEFINE k == handler[h].key
           c == Room(cache, k, n)
           d == [pc |-> "rename", key |-> k, bytes |-> n]
           racing == \E g \in Handlers \ {h} : Renames(g) /\ handler[g].key = k
<1>1. /\ Sound(cache) /\ handler \in [Handlers -> Delivery] /\ RestTyped
      /\ UnlinksInv /\ RenamesInv /\ ExactInv
  BY DEF CacheInv
<1>2. handler[h].pc = "rendered" /\ n <= MaxEntry /\ Becomes(c)
      /\ UNCHANGED <<files, oldFiles, sweep, deaths>>
  BY DEF AdmitRender
<1>3. k \in Keys /\ n \in Nat /\ n # 0
  BY <1>1, CacheConstants DEF Delivery
<1>4. Shrinks(cache, c) /\ k \notin Cached(c)
  BY <1>1, <1>3, RoomShrinks
<1>5. CASE ~FitsTotal(c, n)
  <2>1. handler' = [handler EXCEPT ![h] = Rest[h]] /\ raced' = raced
    BY <1>5 DEF AdmitRender
  <2>2. QED
    BY <1>2, <1>4, <2>1, GivesUp
<1>6. CASE FitsTotal(c, n)
  <2>1. handler' = [handler EXCEPT ![h] = d] /\ raced' = (raced \/ racing)
    BY <1>6 DEF AdmitRender, Renames
  <2> HIDE DEF c, k
  <2>2. Sound(c) /\ (Exact(cache) => Exact(c)) /\ Cached(c) \subseteq Cached(cache)
    BY <1>4 DEF Shrinks
  <2>3. cache' = c /\ UnlinksInv'
    BY <1>1, <1>2, <2>2, BecomesIs
  <2>4. d \in Delivery /\ d.bytes = n /\ d.pc = "rename" /\ d.key = k
    BY <1>3 DEF Delivery
  <2> HIDE DEF d
  <2>5. /\ handler' \in [Handlers -> Delivery] /\ handler'[h] = d
        /\ \A g \in Handlers : g # h => handler'[g] = handler[g]
        /\ MovedBytes(handler') = MovedBytes(handler) - handler[h].bytes + n
        /\ MovedBytes(handler) \in Nat /\ MovedBytes(handler') \in Nat
    <3>1. /\ handler' \in [Handlers -> Delivery]
          /\ MovedBytes(handler') = MovedBytes(handler) - handler[h].bytes + d.bytes
          /\ MovedBytes(handler) \in Nat
      <4>1. handler \in [Handlers -> Delivery]
        BY <1>1
      <4>2. QED
        BY <2>1, <2>4, <4>1, InFlightIs
    <3>2. MovedBytes(handler') \in Nat
      BY <3>1, InFlightIs
    <3>3. handler'[h] = d /\ \A g \in Handlers : g # h => handler'[g] = handler[g]
      BY <1>1, <2>1
    <3>4. QED
      BY <2>4, <3>1, <3>2, <3>3
  <2>6. \A g \in Handlers : g # h => (Renames(g)' <=> Renames(g))
    BY <2>5 DEF Renames
  <2>7. Renames(h)' /\ ~Renames(h)
    BY <1>2, <2>4, <2>5 DEF Renames
  <2>8. RenamesInv'
    <3>1. \A g \in Handlers : handler'[g].bytes <= MaxEntry /\ (Renames(g)' <=> handler'[g].bytes # 0)
      BY <1>1, <1>2, <1>3, <2>4, <2>5, <2>6, <2>7 DEF RenamesInv
    <3>2. cache'.total + MovedBytes(handler') <= Within
      <4> DEFINE rest == (Cardinality(Handlers) - 1) * MaxEntry
      <4>1. MovedBytes(handler) - handler[h].bytes <= rest /\ rest \in Nat
        BY <1>1, OthersBounded DEF RenamesInv
      <4>2. c.total + n <= MaxTotal /\ c.total \in Nat /\ MaxTotal \in Nat
        BY <1>6, <2>2, CacheConstants DEF FitsTotal, Sound, CacheMap
      <4>3. Within = MaxTotal + rest
        BY DEF Within
      <4>4. handler[h].bytes \in Nat
        BY <1>1 DEF Delivery
      <4> HIDE DEF rest
      <4>5. QED
        BY <1>3, <2>3, <2>5, <4>1, <4>2, <4>3, <4>4
    <3>3. QED
      BY <3>1, <3>2 DEF RenamesInv, MovedBytes, Within
  <2>9. ExactInv'
    <3>1. ASSUME ~raced'
          PROVE  /\ ~racing /\ Exact(c)
                 /\ \A g \in Handlers : Renames(g) =>
                      /\ handler[g].key \notin Cached(c)
                      /\ \A f \in Handlers : Renames(f) /\ handler[f].key = handler[g].key => f = g
      BY <1>1, <2>1, <2>2, <3>1 DEF ExactInv
    <3>2. ASSUME ~raced', NEW g \in Handlers, Renames(g)'
          PROVE  /\ handler'[g].key \notin Cached(c)
                 /\ \A f \in Handlers : Renames(f)' /\ handler'[f].key = handler'[g].key => f = g
      <4>1. CASE g = h
        <5>1. handler'[g].key = k
          BY <2>4, <2>5, <4>1
        <5>2. ASSUME NEW f \in Handlers, Renames(f)', handler'[f].key = k PROVE f = h
          BY <2>5, <2>6, <3>1, <3>2, <5>2
        <5>3. QED
          BY <1>4, <4>1, <5>1, <5>2 DEF c, k
      <4>2. CASE g # h
        <5>1. Renames(g) /\ handler'[g] = handler[g] /\ handler[g].key # k
          BY <2>5, <2>6, <3>1, <3>2, <4>2
        <5>2. handler'[h].key = k
          BY <2>4, <2>5
        <5>3. QED
          BY <2>5, <2>6, <3>1, <3>2, <5>1, <5>2
      <4>3. QED
        BY <4>1, <4>2
    <3>3. Cached(cache)' = Cached(c) /\ Entries(cache)' = Entries(c)
      BY <2>3 DEF Cached, Entries
    <3>4. ~raced' => Exact(cache)'
      BY <2>3, <3>1 DEF Exact, Entries
    <3>5. QED
      BY <3>2, <3>3, <3>4 DEF ExactInv
  <2>10. Sound(cache)'
    BY <2>2, <2>3 DEF Sound, Entries, CacheMap, Ordered, Cached
  <2>11. RestTyped'
    BY <1>1, <1>2, <2>1 DEF RestTyped
  <2>12. QED
    BY <2>3, <2>5, <2>8, <2>9, <2>10, <2>11 DEF CacheInv
<1>7. QED
  BY <1>5, <1>6

LEMMA AdoptStep ==
  ASSUME CacheInv, NEW h \in Handlers, Adopt(h)
  PROVE  CacheInv'
<1> DEFINE k == handler[h].key
           n == handler[h].bytes
           c == SetEntry(cache, k, n)
           d == Rest[h]
<1>1. /\ Sound(cache) /\ handler \in [Handlers -> Delivery] /\ RestTyped
      /\ UnlinksInv /\ RenamesInv /\ ExactInv
  BY DEF CacheInv
<1>2. /\ Renames(h) /\ pending[k] < MaxUnlinks /\ Becomes(c)
      /\ files' = files \cup {k} /\ oldFiles' = oldFiles \ {k}
      /\ handler' = [handler EXCEPT ![h] = d]
      /\ UNCHANGED <<sweep, raced, deaths>>
  BY DEF Adopt, Renames
<1>3. k \in Keys /\ n \in Nat /\ n # 0
  BY <1>1, <1>2 DEF Delivery, RenamesInv
<1>4. /\ Sound(c) /\ (k \notin Cached(cache) /\ Exact(cache) => Exact(c))
      /\ c.total = cache.total + n /\ Cached(c) = Cached(cache) \cup {k}
  BY <1>1, <1>3, InsertIs
<1> HIDE DEF c
<1>5. cache' = c /\ UnlinksInv'
  BY <1>1, <1>2, <1>3, <1>4, BecomesIs
<1>6. d \in Delivery /\ d.bytes = 0 /\ d.pc # "rename"
  BY RestIs
<1> HIDE DEF d
<1>7. /\ handler' \in [Handlers -> Delivery] /\ handler'[h] = d
      /\ \A g \in Handlers : g # h => handler'[g] = handler[g]
  BY <1>1, <1>2, <1>6
<1>8. MovedBytes(handler') = MovedBytes(handler) - n /\ MovedBytes(handler) \in Nat
  <2>1. handler \in [Handlers -> Delivery]
    BY <1>1
  <2>2. /\ MovedBytes(handler') = MovedBytes(handler) - handler[h].bytes + d.bytes
        /\ MovedBytes(handler) \in Nat
    BY <1>2, <1>6, <2>1, InFlightIs
  <2>3. QED
    BY <1>3, <1>6, <2>2
<1>9. /\ ~Renames(h)' /\ \A g \in Handlers : Renames(g)' => g # h /\ Renames(g)
      /\ \A g \in Handlers : g # h => (Renames(g)' <=> Renames(g))
  BY <1>6, <1>7 DEF Renames
<1> HIDE DEF k, n
<1>10. RenamesInv'
  <2>1. \A g \in Handlers : handler'[g].bytes <= MaxEntry /\ (Renames(g)' <=> handler'[g].bytes # 0)
    BY <1>1, <1>6, <1>7, <1>9, CacheConstants DEF RenamesInv
  <2>2. cache'.total + MovedBytes(handler') <= Within
    <3>1. cache.total + MovedBytes(handler) <= Within /\ cache.total \in Nat /\ Within \in Nat
      BY <1>1, CacheConstants DEF RenamesInv, Sound, CacheMap
    <3>2. QED
      BY <1>3, <1>4, <1>5, <1>8, <3>1
  <2>3. QED
    BY <2>1, <2>2 DEF RenamesInv, MovedBytes, Within
<1>11. ExactInv'
  <2>1. ASSUME ~raced'
        PROVE  /\ Exact(cache)
               /\ \A g \in Handlers : Renames(g) =>
                    /\ handler[g].key \notin Cached(cache)
                    /\ \A f \in Handlers : Renames(f) /\ handler[f].key = handler[g].key => f = g
    BY <1>1, <1>2, <2>1 DEF ExactInv
  <2>2. ~raced' => Exact(c)
    BY <1>2, <1>4, <2>1 DEF k
  <2>3. ASSUME ~raced', NEW g \in Handlers, Renames(g)'
        PROVE  /\ handler'[g].key \notin Cached(c)
               /\ \A f \in Handlers : Renames(f)' /\ handler'[f].key = handler'[g].key => f = g
    <3>1. g # h /\ Renames(g) /\ handler'[g] = handler[g]
      BY <1>7, <1>9, <2>3
    <3>2. handler[g].key # k /\ handler[g].key \notin Cached(cache)
      BY <1>2, <2>1, <2>3, <3>1 DEF k
    <3>3. ASSUME NEW f \in Handlers, Renames(f)', handler'[f].key = handler'[g].key PROVE f = g
      <4>1. Renames(f) /\ handler'[f] = handler[f]
        BY <1>7, <1>9, <3>3
      <4>2. QED
        BY <2>1, <2>3, <3>1, <3>3, <4>1
    <3>4. QED
      BY <1>4, <3>1, <3>2, <3>3
  <2>4. Cached(cache)' = Cached(c) /\ Entries(cache)' = Entries(c)
    BY <1>5 DEF Cached, Entries
  <2>5. ~raced' => Exact(cache)'
    BY <1>5, <2>2 DEF Exact, Entries
  <2>6. QED
    BY <2>3, <2>4, <2>5 DEF ExactInv
<1>12. Sound(cache)'
  BY <1>4, <1>5 DEF Sound, Entries, CacheMap, Ordered, Cached
<1>13. RestTyped'
  BY <1>1, <1>2, <1>3 DEF RestTyped
<1>14. QED
  BY <1>5, <1>7, <1>10, <1>11, <1>12, <1>13 DEF CacheInv

\* A process that has just started is as Init has it, but for the files.
LEMMA CacheRestartStep == ASSUME CacheInv, RestartCache PROVE CacheInv'
<1> DEFINE f == [h \in Handlers |-> Rest[h].bytes]
           zero == [k \in Keys |-> 0]
           c == Empty
<1>1. /\ cache' = c /\ pending' = zero /\ handler' = Rest /\ raced' = FALSE
      /\ oldFiles' = oldFiles /\ sweep' = [pc |-> "idle", names |-> {}]
      /\ deaths < MaxDeaths /\ deaths' = deaths + 1
      /\ \E K \in SUBSET {handler[h].key : h \in {g \in Handlers : handler[g].pc = "rename"}} :
           files' = files \cup K
  BY DEF RestartCache
<1>2. /\ c.older = {} /\ c.bytes = zero /\ c.expired = {} /\ c.total = 0
      /\ c = [older |-> c.older, bytes |-> c.bytes, expired |-> c.expired, total |-> c.total]
      /\ Cached(c) = {}
  BY DEF Empty, Cached
<1> HIDE DEF c
<1>3. /\ handler' \in [Handlers -> Delivery]
      /\ \A h \in Handlers : handler'[h].bytes = 0 /\ ~Renames(h)' /\ Rest[h].bytes = 0
  BY <1>1, CacheConstants DEF Rest, Delivery, Renames
<1>4. Entries(c) = 0
  <2>1. zero \in [Keys -> Nat] /\ \A k \in Keys : zero[k] = 0
    OBVIOUS
  <2> HIDE DEF zero
  <2>2. SumOf(zero, Keys) = 0
    BY <2>1, CacheConstants, SumOfZero
  <2>3. QED
    BY <1>2, <2>2 DEF Entries
<1>5. Sound(c) /\ Exact(c)
  BY <1>2, <1>4 DEF Sound, Exact, Ordered, CacheMap
<1>6. MovedBytes(handler') = 0
  <2>1. f \in [Handlers -> Nat] /\ \A h \in Handlers : f[h] = 0
    BY <1>3
  <2>2. MovedBytes(handler') = SumOf(f, Handlers)
    BY <1>1 DEF MovedBytes
  <2> HIDE DEF f
  <2>3. SumOf(f, Handlers) = 0
    BY <2>1, CacheConstants, SumOfZero
  <2>4. QED
    BY <2>2, <2>3
<1>7. RenamesInv'
  BY <1>1, <1>2, <1>3, <1>6, CacheConstants DEF RenamesInv, MovedBytes, Within
<1>8. ExactInv'
  BY <1>1, <1>3, <1>5 DEF ExactInv, Exact, Entries
<1>9. Sound(cache)'
  BY <1>1, <1>5 DEF Sound, Entries, CacheMap, Ordered, Cached
<1>10. UnlinksInv'
  <2>1. Cached(cache)' = {}
    BY <1>1, <1>2 DEF Cached
  <2>2. QED
    BY <1>1, <2>1, CacheConstants DEF UnlinksInv
<1>11. RestTyped'
  <2>1. RestTyped /\ handler \in [Handlers -> Delivery]
    BY DEF CacheInv
  <2>2. oldFiles' \subseteq files' /\ files' \subseteq Keys
    BY <1>1, <2>1 DEF RestTyped, Delivery
  <2>3. deaths' \in 0..MaxDeaths
    BY <1>1, <2>1, CacheConstants DEF RestTyped
  <2>4. QED
    BY <1>1, <2>2, <2>3 DEF RestTyped
<1>12. QED
  BY <1>3, <1>7, <1>8, <1>9, <1>10, <1>11 DEF CacheInv

LEMMA CacheStep ==
  ASSUME CacheInv, [CacheNext]_(cacheVars)
  PROVE  CacheInv'
<1>1. ASSUME NEW h \in Handlers, NEW k \in Keys, Lookup(h, k) PROVE CacheInv'
  BY <1>1, LookupStep
<1>2. ASSUME NEW h \in Handlers, NEW n \in Sizes, AdmitRender(h, n) PROVE CacheInv'
  BY <1>2, AdmitRenderStep
<1>3. ASSUME NEW h \in Handlers, Decline(h) \/ RenameFails(h) PROVE CacheInv'
  BY <1>3, DeclineStep
<1>4. ASSUME NEW h \in Handlers, Adopt(h) PROVE CacheInv'
  BY <1>4, AdoptStep
<1>5. CASE \/ \E k \in Keys : \/ UnlinkFile(k) \/ ExpireEntry(k) \/ AgeFile(k)
                              \/ SweepStat(k) \/ SweepUnlink(k)
           \/ SweepRead \/ UNCHANGED cacheVars
  BY <1>5, CacheFilesStep
<1>6. CASE SweepBegin
  BY <1>6, SweepBeginStep
<1>7. CASE RestartCache
  BY <1>7, CacheRestartStep
<1>8. QED
  BY <1>1, <1>2, <1>3, <1>4, <1>5, <1>6, <1>7 DEF CacheNext, Sweeping

LEMMA AlwaysCache == CacheSpec => []CacheInv
<1>1. CacheInit => CacheInv
  BY InitCache
<1>2. CacheInv /\ [CacheNext]_(cacheVars) => CacheInv'
  BY CacheStep
<1>3. QED
  BY <1>1, <1>2, PTL DEF CacheSpec

\* The Map of entries and its running total change between the two awaits of
\* put().  Still the total covers the entries, and is their sum unless two puts
\* of one key overlapped; and it exceeds the budget at most by one entry for
\* each other delivery.
THEOREM BytesAreBounded == CacheSpec => []BytesBounded
<1>1. ASSUME CacheInv PROVE BytesBounded
  <2>1. /\ Sound(cache) /\ handler \in [Handlers -> Delivery] /\ RestTyped
        /\ UnlinksInv /\ RenamesInv /\ ExactInv
    BY <1>1 DEF CacheInv
  <2>2. CacheTypeOK
    BY <2>1 DEF CacheTypeOK, Sound, CacheMap, RestTyped, Delivery, UnlinksInv
  <2>3. Sum(cache.bytes, Keys) = Entries(cache)
    BY EntriesAre DEF Entries
  <2>4. BytesCovered
    BY <2>1, <2>3 DEF BytesCovered, Sound, ExactInv, Exact
  <2>5. TotalBounded
    <3>1. MovedBytes(handler) \in Nat
      <4>1. PICK h \in Handlers : TRUE
        BY CacheAssumption
      <4>2. QED
        BY <2>1, <4>1, InFlightIs
    <3>2. cache.total + MovedBytes(handler) <= Within /\ cache.total \in Nat /\ Within \in Nat
      BY <2>1, CacheConstants DEF RenamesInv, Sound, CacheMap
    <3>3. cache.total <= Within
      BY <3>1, <3>2
    <3>4. QED
      BY <3>3 DEF TotalBounded, Within
  <2>6. QED
    BY <2>2, <2>4, <2>5 DEF BytesBounded
<1>2. CacheInv => BytesBounded
  BY <1>1
<1>3. QED
  BY <1>2, AlwaysCache, PTL
===============================================================================
